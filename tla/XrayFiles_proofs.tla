-------------------------- MODULE XrayFiles_proofs --------------------------
(***************************************************************************)
(* Test files and Xray tests: no test is created twice, the results admit  *)
(* every write, what is reported as updated says what its scenario said,   *)
(* and a key keeps one owner; for every number of keys, files, scenarios,  *)
(* calls, faults and edits, on Server and on Cloud.                        *)
(***************************************************************************)
EXTENDS XrayFiles, FiniteSetTheorems, SequenceTheorems, WellFoundedInduction, TLAPS

-----------------------------------------------------------------------------
(* Sequences.                                                               *)

(* A set of numbers that is not empty has a least one.                     *)
LEMMA Smallest ==
    ASSUME NEW S \in SUBSET Nat, S # {}
    PROVE  \E m \in S : \A k \in S : m <= k
<1>1. \A x, y \in Nat : <<x, y>> \in OpToRel(<, Nat) <=> x < y
  BY Zenon DEF OpToRel
<1>2. PICK R : IsWellFoundedOn(R, Nat) /\ \A x, y \in Nat : <<x, y>> \in R <=> x < y
  BY <1>1, NatLessThanWellFounded, Zenon
<1>3. PICK m \in S : \A k \in S : ~ (<<k, m>> \in R)
  <2>1. IsWellFoundedOn(R, Nat)
    BY <1>2
  <2>. QED  BY <2>1, WFMin, Zenon
<1>4. \A k \in S : ~ (k < m)
  BY <1>2, <1>3
<1>. QED  BY <1>4

(* The sequences put after each other have the elements of all of them.    *)
LEMMA FlattenIs ==
    ASSUME NEW S, NEW seqs \in Seq(Seq(S))
    PROVE  /\ FlattenSeq(seqs) \in Seq(S)
           /\ ToSet(FlattenSeq(seqs)) = UNION {ToSet(seqs[p]) : p \in DOMAIN seqs}
<1> DEFINE Upto(f, n) == f = [i \in 1..n |-> IF i = 1 THEN seqs[i] ELSE f[i-1] \o seqs[i]]
<1>0. Len(seqs) \in Nat /\ DOMAIN seqs = 1..Len(seqs) /\ \A p \in 1..Len(seqs) : seqs[p] \in Seq(S)
  OBVIOUS
<1>1. CASE Len(seqs) = 0
  <2>1. FlattenSeq(seqs) = seqs /\ seqs = <<>>
    BY <1>1 DEF FlattenSeq
  <2>2. DOMAIN seqs = {}
    BY <1>0, <1>1
  <2>. QED  BY <2>1, <2>2 DEF ToSet
<1>2. CASE Len(seqs) # 0
  <2>1. \A n \in Nat : \E f : Upto(f, n)
    <3> DEFINE Bad == {n \in Nat : ~ \E f : Upto(f, n)}
    <3>1. SUFFICES ASSUME Bad # {}
                   PROVE  FALSE
      OBVIOUS
    <3>2. PICK n \in Bad : \A k \in Bad : n <= k
      BY <3>1, Smallest
    <3>3. n # 0
      <4>1. Upto([i \in 1..0 |-> 0], 0)
        OBVIOUS
      <4>. QED  BY <4>1
    <3>4. n - 1 \in Nat /\ n - 1 \notin Bad
      <4>1. n \in Nat /\ \A k \in Bad : n <= k
        BY <3>2
      <4>. HIDE DEF Bad
      <4>. QED  BY <3>3, <4>1
    <3>5. PICK f : Upto(f, n - 1)
      BY <3>4
    <3> DEFINE g == [i \in 1..n |-> IF i = 1 THEN seqs[1]
                                    ELSE IF i = n THEN f[n-1] \o seqs[n] ELSE f[i]]
    <3>6. ASSUME NEW i \in 1..n
          PROVE  g[i] = IF i = 1 THEN seqs[i] ELSE g[i-1] \o seqs[i]
      <4>1. CASE i = 1
        BY <4>1
      <4>2. CASE i # 1
        <5>1. i - 1 \in 1..(n-1)
          BY <4>2
        <5>2. g[i-1] = f[i-1]
          BY <5>1, <3>5
        <5>3. i # n => f[i] = f[i-1] \o seqs[i]
          <6>1. i # n => i \in 1..(n-1)
            BY <3>4
          <6>. QED  BY <4>2, <3>5, <6>1
        <5>. QED  BY <4>2, <5>1, <5>2, <5>3
      <4>. QED  BY <4>1, <4>2
    <3>7. Upto(g, n)
      <4> HIDE DEF g
      <4>1. g = [i \in 1..n |-> g[i]]
        BY DEF g
      <4>. QED  BY <3>6, <4>1
    <3>. QED  BY <3>2, <3>7
  <2> DEFINE f == CHOOSE f : Upto(f, Len(seqs))
  <2>2. Upto(f, Len(seqs))
    BY <1>0, <2>1
  <2>3. FlattenSeq(seqs) = f[Len(seqs)]
    BY <1>2, Zenon DEF FlattenSeq
  <2> HIDE DEF f
  <2> DEFINE OK(i) == /\ f[i] \in Seq(S)
                      /\ ToSet(f[i]) = UNION {ToSet(seqs[p]) : p \in 1..i}
             Wrong == {i \in 1..Len(seqs) : ~ OK(i)}
  <2>4. Wrong = {}
    <3>1. SUFFICES ASSUME Wrong # {}
                   PROVE  FALSE
      OBVIOUS
    <3>2. PICK i \in Wrong : \A k \in Wrong : i <= k
      <4>1. Wrong \in SUBSET Nat
        OBVIOUS
      <4>. HIDE DEF Wrong
      <4>. QED  BY <4>1, <3>1, Smallest
    <3>3. CASE i = 1
      <4>1. f[1] = seqs[1] /\ 1..1 = {1}
        BY <2>2, <3>2, <3>3
      <4>. QED  BY <1>0, <3>2, <3>3, <4>1
    <3>4. CASE i # 1
      <4>1. i - 1 \in 1..Len(seqs) /\ i - 1 \notin Wrong
        <5>1. i \in 1..Len(seqs) /\ \A k \in Wrong : i <= k
          BY <3>2
        <5>. HIDE DEF Wrong
        <5>. QED  BY <1>0, <3>4, <5>1
      <4>2. f[i-1] \in Seq(S) /\ ToSet(f[i-1]) = UNION {ToSet(seqs[p]) : p \in 1..(i-1)}
        BY <4>1
      <4>3. f[i] = f[i-1] \o seqs[i] /\ seqs[i] \in Seq(S)
        BY <1>0, <2>2, <3>2, <3>4
      <4>4. f[i] \in Seq(S)
        BY <4>2, <4>3
      <4>5. ToSet(f[i]) = ToSet(f[i-1]) \cup ToSet(seqs[i])
        <5> DEFINE a == f[i-1]
                   b == seqs[i]
        <5>1. a \in Seq(S) /\ b \in Seq(S)
          BY <4>2, <4>3
        <5> HIDE DEF a, b
        <5>2. ToSet(a \o b) = ToSet(a) \cup ToSet(b)
          <6>1. \A j \in DOMAIN (a \o b) : (a \o b)[j] \in ToSet(a) \cup ToSet(b)
            BY <5>1 DEF ToSet
          <6>2. \A j \in DOMAIN a : j \in DOMAIN (a \o b) /\ (a \o b)[j] = a[j]
            BY <5>1
          <6>3. \A j \in 1..Len(b) : j + Len(a) \in DOMAIN (a \o b) /\ (a \o b)[j + Len(a)] = b[j]
            BY <5>1
          <6>4. \A j \in DOMAIN b : b[j] \in ToSet(a \o b)
            <7>1. DOMAIN b = 1..Len(b)
              BY <5>1
            <7>. QED  BY <6>3, <7>1, Zenon DEF ToSet
          <6>5. \A j \in DOMAIN a : a[j] \in ToSet(a \o b)
            BY <6>2, Zenon DEF ToSet
          <6>6. ToSet(a \o b) \subseteq ToSet(a) \cup ToSet(b)
            BY <6>1, Zenon DEF ToSet
          <6>7. ToSet(a) \subseteq ToSet(a \o b) /\ ToSet(b) \subseteq ToSet(a \o b)
            BY <6>4, <6>5, Zenon DEF ToSet
          <6>. QED  BY <6>6, <6>7
        <5>. QED  BY <4>3, <5>2 DEF a, b
      <4>6. 1..i = (1..(i-1)) \cup {i}
        BY <3>2
      <4>7. UNION {ToSet(seqs[p]) : p \in 1..i} = ToSet(f[i-1]) \cup ToSet(seqs[i])
        BY <4>2, <4>6
      <4>. QED  BY <3>2, <4>4, <4>5, <4>7
    <3>. QED  BY <3>3, <3>4
  <2>5. Len(seqs) \in 1..Len(seqs)
    BY <1>0, <1>2
  <2>. QED  BY <1>0, <2>3, <2>4, <2>5
<1>. QED  BY <1>1, <1>2

-----------------------------------------------------------------------------
(* The scenarios of the files.                                              *)

(* The paths of a call, in its order.                                      *)
LEMMA PathsAre ==
    /\ Paths \in Seq(ToSet(Paths)) /\ Len(Paths) \in Nat /\ DOMAIN Paths = 1..Len(Paths)
    /\ ToSet(Paths) = {Paths[i] : i \in 1..Len(Paths)}
<1>1. Paths \in Seq(ToSet(Paths))
  BY RulesAssumption
<1>. HIDE DEF ToSet
<1>2. Len(Paths) \in Nat /\ DOMAIN Paths = 1..Len(Paths)
  BY <1>1
<1>. QED  BY <1>1, <1>2 DEF ToSet

(* A call's scenarios are those of its files, each once.                   *)
LEMMA AllIs ==
    ASSUME NEW fs, AreFiles(fs)
    PROVE  /\ All(fs) \in Seq(ToSet(All(fs)))
           /\ ToSet(All(fs)) =
                UNION {{At(fs, p, n) : n \in DOMAIN fs[p].sc} : p \in DOMAIN fs}
<1> DEFINE S == UNION {{At(fs, p, n) : n \in DOMAIN fs[p].sc} : p \in DOMAIN fs}
           seqs == [i \in 1..Len(Paths) |-> InFile(fs, Paths[i])]
<1>1. ASSUME NEW p \in DOMAIN fs
      PROVE  /\ Len(fs[p].sc) \in Nat /\ DOMAIN fs[p].sc = 1..Len(fs[p].sc)
             /\ InFile(fs, p) \in Seq(S)
             /\ ToSet(InFile(fs, p)) = {At(fs, p, n) : n \in DOMAIN fs[p].sc}
  <2>1. fs[p].sc \in Seq(ToSet(fs[p].sc))
    BY <1>1 DEF AreFiles, IsFile
  <2>2. Len(fs[p].sc) \in Nat /\ DOMAIN fs[p].sc = 1..Len(fs[p].sc)
    BY <2>1
  <2>3. \A n \in DOMAIN fs[p].sc : At(fs, p, n) \in S
    OBVIOUS
  <2>4. InFile(fs, p) = [n \in 1..Len(fs[p].sc) |-> At(fs, p, n)]
    BY DEF InFile
  <2>5. InFile(fs, p) \in Seq(S)
    <3>. HIDE DEF S
    <3>. QED  BY <2>2, <2>3, <2>4
  <2>6. ToSet(InFile(fs, p)) = {At(fs, p, n) : n \in DOMAIN fs[p].sc}
    BY <2>2, <2>4, Zenon DEF ToSet
  <2>. QED  BY <2>2, <2>5, <2>6
<1>2. \A i \in 1..Len(Paths) : Paths[i] \in DOMAIN fs
  BY PathsAre, Zenon DEF AreFiles
<1>3. seqs \in Seq(Seq(S)) /\ DOMAIN seqs = 1..Len(Paths)
  <2>1. \A i \in 1..Len(Paths) : InFile(fs, Paths[i]) \in Seq(S)
    BY <1>1, <1>2, Zenon
  <2>. HIDE DEF S
  <2>. QED  BY <2>1, PathsAre
<1>4. All(fs) = FlattenSeq(seqs)
  BY Zenon DEF All
<1>5. All(fs) \in Seq(S) /\ ToSet(All(fs)) = UNION {ToSet(seqs[p]) : p \in DOMAIN seqs}
  <2>. HIDE DEF S, seqs
  <2>. QED  BY <1>3, <1>4, FlattenIs
<1>6. UNION {ToSet(seqs[p]) : p \in DOMAIN seqs} = S
  <2>1. \A i \in 1..Len(Paths) :
          ToSet(seqs[i]) = {At(fs, Paths[i], n) : n \in DOMAIN fs[Paths[i]].sc}
    BY <1>1, <1>2
  <2>2. \A p \in DOMAIN fs : \E i \in 1..Len(Paths) : p = Paths[i]
    BY PathsAre DEF AreFiles
  <2>. HIDE DEF seqs
  <2>3. UNION {ToSet(seqs[p]) : p \in DOMAIN seqs} \subseteq S
    <3>1. ASSUME NEW i \in DOMAIN seqs, NEW x \in ToSet(seqs[i])
          PROVE  x \in S
      <4>1. i \in 1..Len(Paths)
        BY <1>3
      <4>2. x \in {At(fs, Paths[i], n) : n \in DOMAIN fs[Paths[i]].sc}
        BY <2>1, <4>1
      <4>3. Paths[i] \in DOMAIN fs
        BY <1>2, <4>1
      <4>. QED  BY <4>2, <4>3
    <3>. HIDE DEF S
    <3>. QED  BY <3>1
  <2>4. S \subseteq UNION {ToSet(seqs[p]) : p \in DOMAIN seqs}
    <3>1. ASSUME NEW p \in DOMAIN fs, NEW n \in DOMAIN fs[p].sc
          PROVE  \E i \in DOMAIN seqs : At(fs, p, n) \in ToSet(seqs[i])
      <4>1. PICK i \in 1..Len(Paths) : p = Paths[i]
        BY <2>2
      <4>. QED  BY <1>3, <2>1, <4>1
    <3>. QED  BY <3>1
  <2>. QED  BY <2>3, <2>4, Zenon
<1>7. ToSet(All(fs)) = S
  BY <1>5, <1>6, Zenon
<1>. QED  BY <1>5, <1>7, Zenon

(* Every scenario of a file is one of all of them.                         *)
LEMMA AtAll ==
    ASSUME NEW fs, AreFiles(fs), NEW p \in DOMAIN fs, NEW n \in DOMAIN fs[p].sc
    PROVE  /\ At(fs, p, n) \in ToSet(All(fs))
           /\ \E i \in 1..Len(All(fs)) : All(fs)[i] = At(fs, p, n)
<1>1. At(fs, p, n) \in ToSet(All(fs))
  <2>1. At(fs, p, n) \in UNION {{At(fs, q, m) : m \in DOMAIN fs[q].sc} : q \in DOMAIN fs}
    OBVIOUS
  <2>. QED  BY <2>1, AllIs, Zenon
<1>2. DOMAIN All(fs) = 1..Len(All(fs))
  <2>1. All(fs) \in Seq(ToSet(All(fs)))
    BY AllIs
  <2>. QED  BY <2>1
<1>. QED  BY <1>1, <1>2, Zenon DEF ToSet

(* What a scenario of a call is.                                           *)
LEMMA ScenarioIs ==
    ASSUME NEW fs, AreFiles(fs), NEW i \in 1..Len(All(fs))
    PROVE  /\ IsBody(All(fs)[i].def)
           /\ \E p \in DOMAIN fs : \E n \in DOMAIN fs[p].sc : All(fs)[i] = At(fs, p, n)
<1>1. DOMAIN All(fs) = 1..Len(All(fs))
  <2>1. All(fs) \in Seq(ToSet(All(fs)))
    BY AllIs
  <2>. QED  BY <2>1
<1>2. All(fs)[i] \in UNION {{At(fs, p, n) : n \in DOMAIN fs[p].sc} : p \in DOMAIN fs}
  <2>1. All(fs)[i] \in ToSet(All(fs))
    BY <1>1, Zenon DEF ToSet
  <2>. QED  BY <2>1, AllIs, Zenon
<1>3. PICK p \in DOMAIN fs : \E n \in DOMAIN fs[p].sc : All(fs)[i] = At(fs, p, n)
  BY <1>2, Zenon
<1>4. PICK n \in DOMAIN fs[p].sc : All(fs)[i] = At(fs, p, n)
  BY <1>3
<1>5. IsBody(fs[p].sc[n].def)
  BY Zenon DEF AreFiles, IsFile, IsScenario
<1>6. At(fs, p, n).def = fs[p].sc[n].def
  BY DEF At
<1>. QED  BY <1>4, <1>5, <1>6

(* The scenarios without a tag are scenarios.                              *)
LEMMA UntaggedIs ==
    ASSUME NEW fs, AreFiles(fs)
    PROVE  /\ Untagged(fs) \in Seq(ToSet(All(fs)))
           /\ Len(Untagged(fs)) \in Nat
           /\ \A i \in 1..Len(Untagged(fs)) : IsBody(Untagged(fs)[i].def)
<1> DEFINE all == All(fs)
           S == ToSet(All(fs))
           one == [i \in 1..Len(all) |-> IF all[i].tag = None THEN <<all[i]>> ELSE <<>>]
<1>1. all \in Seq(S) /\ Len(all) \in Nat
  BY AllIs
<1>2. \A i \in 1..Len(all) : all[i] \in S
  <2>. HIDE DEF S, all
  <2>. QED  BY <1>1
<1>3. one \in Seq(Seq(S))
  <2>. HIDE DEF S, all
  <2>1. \A i \in 1..Len(all) :
          (IF all[i].tag = None THEN <<all[i]>> ELSE <<>>) \in Seq(S)
    BY <1>2
  <2>. QED  BY <1>1, <2>1
<1>4. Untagged(fs) \in Seq(S)
  <2>1. Untagged(fs) = FlattenSeq(one)
    BY Zenon DEF Untagged
  <2>. HIDE DEF one, S
  <2>. QED  BY <1>3, <2>1, FlattenIs
<1>5. ASSUME NEW x \in S
      PROVE  IsBody(x.def)
  <2>1. DOMAIN All(fs) = 1..Len(All(fs))
    BY <1>1
  <2>. QED  BY <2>1, ScenarioIs, Zenon DEF ToSet
<1>6. \A i \in 1..Len(Untagged(fs)) : Untagged(fs)[i] \in S
  <2>. HIDE DEF S
  <2>. QED  BY <1>4
<1>. HIDE DEF S
<1>7. Len(Untagged(fs)) \in Nat
  BY <1>4
<1>. QED  BY <1>4, <1>5, <1>6, <1>7 DEF S

-----------------------------------------------------------------------------
(* The plans, one entry after the other.                                    *)

(* A plan is made in order: what a scenario gets depends on what the ones  *)
(* before it got.                                                          *)
LEMMA MatchScenariosIs ==
    ASSUME NEW j, NEW fs, Len(Untagged(fs)) \in Nat
    PROVE  LET m == MatchScenarios(j, fs) IN
           /\ m = [i \in 1..Len(Untagged(fs)) |-> m[i]]
           /\ \A i \in 1..Len(Untagged(fs)) :
                m[i] = CreateMatch(j, Untagged(fs)[i], Claims(fs, {m[h] : h \in 1..(i - 1)}))
<1> DEFINE N == Len(Untagged(fs))
           E(f, i) == CreateMatch(j, Untagged(fs)[i], Claims(fs, {f[h] : h \in 1..(i - 1)}))
           Upto(f, n) == f = [i \in 1..n |-> E(f, i)]
<1>1. \A n \in Nat : \E f : Upto(f, n)
  <2> DEFINE Bad == {n \in Nat : ~ \E f : Upto(f, n)}
  <2>1. SUFFICES ASSUME Bad # {}
                 PROVE  FALSE
    OBVIOUS
  <2>2. PICK n \in Bad : \A k \in Bad : n <= k
    <3>1. Bad \in SUBSET Nat
      OBVIOUS
    <3>. HIDE DEF Bad
    <3>. QED  BY <2>1, <3>1, Smallest
  <2>3. n \in Nat /\ ~ \E f : Upto(f, n)
    OBVIOUS
  <2>4. n # 0
    <3>1. Upto([i \in 1..0 |-> 0], 0)
      OBVIOUS
    <3>. HIDE DEF Upto
    <3>. QED  BY <2>3, <3>1
  <2>5. n - 1 \in Nat /\ n - 1 \notin Bad
    <3>. HIDE DEF Bad
    <3>. QED  BY <2>2, <2>3, <2>4
  <2>6. PICK f : Upto(f, n - 1)
    BY <2>5
  <2> DEFINE g == [i \in 1..n |-> IF i = n THEN E(f, n) ELSE f[i]]
  <2>7. ASSUME NEW i \in 1..n
        PROVE  g[i] = E(g, i)
    <3>1. \A h \in 1..(i-1) : g[h] = f[h]
      BY <2>3
    <3>2. {g[h] : h \in 1..(i-1)} = {f[h] : h \in 1..(i-1)}
      <4>. HIDE DEF g
      <4>. QED  BY <3>1
    <3>3. E(g, i) = E(f, i)
      <4>. HIDE DEF g
      <4>. QED  BY <3>2
    <3>4. i # n => i \in 1..(n-1)
      BY <2>3
    <3>5. i # n => f[i] = E(f, i)
      <4>. HIDE DEF E
      <4>. QED  BY <2>6, <3>4
    <3>6. g[i] = IF i = n THEN E(f, n) ELSE f[i]
      <4>. HIDE DEF E
      <4>. QED  OBVIOUS
    <3>. HIDE DEF E, g
    <3>. QED  BY <3>3, <3>5, <3>6
  <2>8. Upto(g, n)
    <3>1. g = [i \in 1..n |-> g[i]]
      OBVIOUS
    <3>. HIDE DEF g, E
    <3>. QED  BY <2>7, <3>1
  <2>. HIDE DEF g, Upto
  <2>. QED  BY <2>3, <2>8
<1> DEFINE m == MatchScenarios(j, fs)
<1>2. m = CHOOSE f : Upto(f, N)
  BY Zenon DEF MatchScenarios
<1>3. Upto(m, N)
  <2>1. \E f : Upto(f, N)
    BY <1>1
  <2>. HIDE DEF m, Upto, N
  <2>. QED  BY <1>2, <2>1, Zenon
<1>. HIDE DEF m
<1>4. \A i \in 1..N : m[i] = E(m, i)
  <2>. HIDE DEF E
  <2>. QED  BY <1>3
<1>5. m = [i \in 1..N |-> m[i]]
  <2>. HIDE DEF E
  <2>. QED  BY <1>3
<1>. QED  BY <1>4, <1>5 DEF m

(* match_for_update: entry i is matched after the entries before it.       *)
LEMMA UpdateMatchesIs ==
    ASSUME NEW j, NEW fs, Len(All(fs)) \in Nat
    PROVE  LET m == UpdateMatches(j, fs) IN
           /\ m = [i \in 1..Len(All(fs)) |-> m[i]]
           /\ \A i \in 1..Len(All(fs)) :
                m[i] = UpdateMatch(j, fs, All(fs)[i], Taken(j, {m[h] : h \in 1..(i - 1)}))
<1> DEFINE N == Len(All(fs))
           E(f, i) == UpdateMatch(j, fs, All(fs)[i], Taken(j, {f[h] : h \in 1..(i - 1)}))
           Upto(f, n) == f = [i \in 1..n |-> E(f, i)]
<1>1. \A n \in Nat : \E f : Upto(f, n)
  <2> DEFINE Bad == {n \in Nat : ~ \E f : Upto(f, n)}
  <2>1. SUFFICES ASSUME Bad # {}
                 PROVE  FALSE
    OBVIOUS
  <2>2. PICK n \in Bad : \A k \in Bad : n <= k
    <3>1. Bad \in SUBSET Nat
      OBVIOUS
    <3>. HIDE DEF Bad
    <3>. QED  BY <2>1, <3>1, Smallest
  <2>3. n \in Nat /\ ~ \E f : Upto(f, n)
    OBVIOUS
  <2>4. n # 0
    <3>1. Upto([i \in 1..0 |-> 0], 0)
      OBVIOUS
    <3>. HIDE DEF Upto
    <3>. QED  BY <2>3, <3>1
  <2>5. n - 1 \in Nat /\ n - 1 \notin Bad
    <3>. HIDE DEF Bad
    <3>. QED  BY <2>2, <2>3, <2>4
  <2>6. PICK f : Upto(f, n - 1)
    BY <2>5
  <2> DEFINE g == [i \in 1..n |-> IF i = n THEN E(f, n) ELSE f[i]]
  <2>7. ASSUME NEW i \in 1..n
        PROVE  g[i] = E(g, i)
    <3>1. \A h \in 1..(i-1) : g[h] = f[h]
      BY <2>3
    <3>2. {g[h] : h \in 1..(i-1)} = {f[h] : h \in 1..(i-1)}
      <4>. HIDE DEF g
      <4>. QED  BY <3>1
    <3>3. E(g, i) = E(f, i)
      <4>. HIDE DEF g
      <4>. QED  BY <3>2
    <3>4. i # n => i \in 1..(n-1)
      BY <2>3
    <3>5. i # n => f[i] = E(f, i)
      <4>. HIDE DEF E
      <4>. QED  BY <2>6, <3>4
    <3>6. g[i] = IF i = n THEN E(f, n) ELSE f[i]
      <4>. HIDE DEF E
      <4>. QED  OBVIOUS
    <3>. HIDE DEF E, g
    <3>. QED  BY <3>3, <3>5, <3>6
  <2>8. Upto(g, n)
    <3>1. g = [i \in 1..n |-> g[i]]
      OBVIOUS
    <3>. HIDE DEF g, E
    <3>. QED  BY <2>7, <3>1
  <2>. HIDE DEF g, Upto
  <2>. QED  BY <2>3, <2>8
<1> DEFINE m == UpdateMatches(j, fs)
<1>2. m = CHOOSE f : Upto(f, N)
  BY Zenon DEF UpdateMatches
<1>3. Upto(m, N)
  <2>1. \E f : Upto(f, N)
    BY <1>1
  <2>. HIDE DEF m, Upto, N
  <2>. QED  BY <1>2, <2>1, Zenon
<1>. HIDE DEF m
<1>4. \A i \in 1..N : m[i] = E(m, i)
  <2>. HIDE DEF E
  <2>. QED  BY <1>3
<1>5. m = [i \in 1..N |-> m[i]]
  <2>. HIDE DEF E
  <2>. QED  BY <1>3
<1>. QED  BY <1>4, <1>5 DEF m

-----------------------------------------------------------------------------
(* What one scenario is matched with.                                       *)

(* Jira answers that a key is a test for tests only.                       *)
LEMMA KindIs ==
    ASSUME NEW j, NEW k
    PROVE  /\ Kind(j, k) = "test" => k \in DOMAIN j
           /\ Kind(j, k) \in {"test", "story", "other", "missing", "unresolved"}
BY RulesAssumption DEF Kind

(* The tests among the bare keys of a scenario.                            *)
LEMMA BareTestsAre ==
    ASSUME NEW j, AreTests(j), NEW x
    PROVE  /\ IsFiniteSet(BareTests(j, x)) /\ Cardinality(BareTests(j, x)) \in Nat
           /\ \A k \in BareTests(j, x) : k \in DOMAIN j
<1>1. \A k \in BareTests(j, x) : k \in DOMAIN j
  BY KindIs DEF BareTests
<1>2. IsFiniteSet(BareTests(j, x))
  BY <1>1, RulesAssumption, FS_Subset DEF AreTests
<1>. QED  BY <1>1, <1>2, FS_CardinalityType

(* A set of one element is chosen from, one of none is empty.              *)
LEMMA OneOf ==
    ASSUME NEW S, IsFiniteSet(S)
    PROVE  /\ Cardinality(S) \in Nat
           /\ Cardinality(S) = 1 => (CHOOSE k \in S : TRUE) \in S
           /\ Cardinality(S) = 0 => S = {}
           /\ \A a, b \in S : Cardinality(S) <= 1 => a = b
<1>1. Cardinality(S) \in Nat /\ (Cardinality(S) = 0 <=> S = {})
  BY FS_CardinalityType, FS_EmptySet
<1>2. Cardinality(S) = 1 <=> \E x : S = {x}
  BY FS_Singleton
<1>. QED  BY <1>1, <1>2

(* update_xray_tests_from_files: the test one scenario is matched with.    *)
MatchOK(j, fs, x, taken, e) ==
    /\ e = Entry(x, e.status, e.key, e.story, e.reason)
    /\ e.status \in {"ERROR", "MATCHED"}
    /\ e.status = "MATCHED" =>
         /\ e.key \in DOMAIN j
         /\ \/ e.key \in ExplicitKeys(j, x) /\ Cardinality(Claimants(j, fs, e.key)) <= 1
            \/ ExplicitKeys(j, x) = {} /\ Claimants(j, fs, e.key) = {} /\ e.key \notin taken

(* The scenarios that name a key are finitely many.                        *)
LEMMA ClaimantsAre ==
    ASSUME NEW j, NEW fs, Len(All(fs)) \in Nat, NEW k
    PROVE  IsFiniteSet(Claimants(j, fs, k)) /\ Cardinality(Claimants(j, fs, k)) \in Nat
<1>1. IsFiniteSet(1..Len(All(fs)))
  BY FS_Interval
<1>2. IsFiniteSet(Claimants(j, fs, k))
  BY <1>1, FS_Subset DEF Claimants
<1>. QED  BY <1>2, FS_CardinalityType

(* A scenario that names its test.                                         *)
LEMMA NamedIs ==
    ASSUME NEW j, NEW fs, Len(All(fs)) \in Nat, NEW x, NEW taken,
           NEW k \in ExplicitKeys(j, x), k \in DOMAIN j
    PROVE  MatchOK(j, fs, x, taken, Named(j, fs, x, k))
<1> DEFINE s == StoryOf(j, x, BareTests(j, x))
<1>1. Named(j, fs, x, k) =
        IF Cardinality(Claimants(j, fs, k)) > 1
          THEN Entry(x, "ERROR", k, None, "test_key_claimed")
          ELSE Entry(x, "MATCHED", k, IF s.problem = None THEN s.key ELSE None, None)
  BY DEF Named
<1>. HIDE DEF s
<1>2. Cardinality(Claimants(j, fs, k)) \in Nat
  BY ClaimantsAre
<1>3. CASE Cardinality(Claimants(j, fs, k)) > 1
  BY <1>1, <1>3 DEF MatchOK, Entry
<1>4. CASE Cardinality(Claimants(j, fs, k)) <= 1
  <2> DEFINE e == Named(j, fs, x, k)
             story == IF s.problem = None THEN s.key ELSE None
  <2>1. e = Entry(x, "MATCHED", k, story, None)
    <3>1. ~ (Cardinality(Claimants(j, fs, k)) > 1)
      BY <1>2, <1>4
    <3>. HIDE DEF e
    <3>. QED  BY <1>1, <3>1 DEF e
  <2>. HIDE DEF e, story
  <2>. QED  BY <1>4, <2>1 DEF MatchOK, Entry, e
<1>. QED  BY <1>2, <1>3, <1>4

(* The tests of a story with this summary are finitely many.               *)
LEMMA SameSummaryIs ==
    ASSUME NEW j, AreTests(j), NEW s, NEW m
    PROVE  /\ SameSummary(j, s, m) =
                {k \in DOMAIN j : s \in j[k].links /\ j[k].summary = m}
           /\ IsFiniteSet(SameSummary(j, s, m))
<1>1. SameSummary(j, s, m) =
        {k \in DOMAIN j : s \in j[k].links /\ j[k].summary = m}
  BY DEF SameSummary, LinkedTests
<1>. QED  BY <1>1, RulesAssumption, FS_Subset DEF AreTests

(* A scenario that names none.                                             *)
LEMMA BySummaryIs ==
    ASSUME NEW j, AreTests(j), NEW fs, NEW x, NEW taken, ExplicitKeys(j, x) = {}
    PROVE  MatchOK(j, fs, x, taken, BySummary(j, fs, x, taken))
<1> DEFINE story == StoryOf(j, x, {})
           same  == SameSummary(j, story.key, x.summary)
           free  == {k \in same \ taken : Claimants(j, fs, k) = {}}
           e == BySummary(j, fs, x, taken)
<1>1. IsFiniteSet(free)
  <2>1. IsFiniteSet(same)
    BY SameSummaryIs
  <2>. QED  BY <2>1, FS_Subset
<1>2. e = CASE story.problem # None -> Entry(x, "ERROR", None, story.key, story.problem)
            [] story.problem = None /\ Cardinality(free) > 1 ->
                 Entry(x, "ERROR", None, story.key, "ambiguous")
            [] story.problem = None /\ Cardinality(free) = 1 ->
                 Entry(x, "MATCHED", CHOOSE k \in free : TRUE, story.key, None)
            [] OTHER -> Entry(x, "ERROR", None, story.key,
                              IF same = {} THEN "not_found" ELSE "test_key_claimed")
  BY DEF BySummary
<1>3. \A k \in free : /\ k \in DOMAIN j /\ k \notin taken
                      /\ Claimants(j, fs, k) = {}
  BY SameSummaryIs
<1>. HIDE DEF free, same, story, e
<1>4. \/ \E key, s, r : e = Entry(x, "ERROR", key, s, r)
      \/ \E k \in free : \E s : e = Entry(x, "MATCHED", k, s, None)
  <2>1. Cardinality(free) = 1 => (CHOOSE k \in free : TRUE) \in free
    BY <1>1, OneOf
  <2>2. CASE story.problem # None
    BY <1>2, <2>2
  <2>3. CASE story.problem = None /\ Cardinality(free) > 1
    BY <1>2, <2>3
  <2>4. CASE story.problem = None /\ Cardinality(free) = 1
    <3>1. e = Entry(x, "MATCHED", CHOOSE k \in free : TRUE, story.key, None)
      BY <1>2, <2>4
    <3>. QED  BY <2>1, <2>4, <3>1
  <2>5. CASE ~ (story.problem # None \/ Cardinality(free) > 1 \/ Cardinality(free) = 1)
    BY <1>2, <2>5
  <2>. QED  BY <2>2, <2>3, <2>4, <2>5
<1>5. CASE \E key, s, r : e = Entry(x, "ERROR", key, s, r)
  BY <1>5 DEF MatchOK, Entry, e
<1>6. CASE \E k \in free : \E s : e = Entry(x, "MATCHED", k, s, None)
  BY <1>3, <1>6 DEF MatchOK, Entry, e
<1>. QED  BY <1>4, <1>5, <1>6

(* Either way, what it is matched with is its own.                         *)
LEMMA UpdateMatchIs ==
    ASSUME NEW j, AreTests(j), NEW fs, Len(All(fs)) \in Nat, NEW x, NEW taken
    PROVE  MatchOK(j, fs, x, taken, UpdateMatch(j, fs, x, taken))
<1> DEFINE unknown == BareUnknown(j, x)
           tests == BareTests(j, x)
           e == UpdateMatch(j, fs, x, taken)
<1>1. e = CASE x.tag # None /\ Kind(j, x.tag) = "test" -> Named(j, fs, x, x.tag)
            [] x.tag # None /\ Unknown(j, x.tag) ->
                 Entry(x, "ERROR", x.tag, None, UnknownReason(j, x.tag))
            [] x.tag # None /\ Kind(j, x.tag) \in {"story", "other"} ->
                 Entry(x, "ERROR", x.tag, None, "not_a_test")
            [] x.tag = None /\ unknown # <<>> ->
                 Entry(x, "ERROR", unknown[1], None, UnknownReason(j, unknown[1]))
            [] x.tag = None /\ unknown = <<>> /\ Cardinality(tests) > 1 ->
                 Entry(x, "ERROR", None, None, "ambiguous")
            [] x.tag = None /\ unknown = <<>> /\ Cardinality(tests) = 1 ->
                 Named(j, fs, x, CHOOSE k \in tests : TRUE)
            [] OTHER -> BySummary(j, fs, x, taken)
  BY Zenon DEF UpdateMatch
<1>2. ASSUME NEW key, NEW s, NEW r
      PROVE  MatchOK(j, fs, x, taken, Entry(x, "ERROR", key, s, r))
  BY DEF MatchOK, Entry
<1>3. CASE x.tag # None
  <2>1. CASE Kind(j, x.tag) = "test"
    <3>1. x.tag \in ExplicitKeys(j, x) /\ x.tag \in DOMAIN j
      BY <1>3, <2>1, KindIs DEF ExplicitKeys
    <3>2. MatchOK(j, fs, x, taken, Named(j, fs, x, x.tag))
      BY <3>1, NamedIs
    <3>3. e = Named(j, fs, x, x.tag)
      <4>. HIDE DEF unknown, tests, e
      <4>. QED  BY <1>1, <1>3, <2>1 DEF Unknown
    <3>. QED  BY <3>2, <3>3
  <2>2. CASE Unknown(j, x.tag)
    <3>1. e = Entry(x, "ERROR", x.tag, None, UnknownReason(j, x.tag))
      <4>. HIDE DEF unknown, tests, e
      <4>. QED  BY <1>1, <1>3, <2>2 DEF Unknown
    <3>. QED  BY <1>2, <3>1
  <2>3. CASE Kind(j, x.tag) \in {"story", "other"}
    <3>1. e = Entry(x, "ERROR", x.tag, None, "not_a_test")
      <4>. HIDE DEF unknown, tests, e
      <4>. QED  BY <1>1, <1>3, <2>3 DEF Unknown
    <3>. QED  BY <1>2, <3>1
  <2>. QED  BY <2>1, <2>2, <2>3, KindIs DEF Unknown
<1>4. CASE x.tag = None
  <2>1. CASE unknown # <<>>
    <3>1. e = Entry(x, "ERROR", unknown[1], None, UnknownReason(j, unknown[1]))
      <4>. HIDE DEF unknown, tests, e
      <4>. QED  BY <1>1, <1>4, <2>1
    <3>. QED  BY <1>2, <3>1
  <2>2. CASE unknown = <<>> /\ Cardinality(tests) > 1
    <3>1. e = Entry(x, "ERROR", None, None, "ambiguous")
      <4>. HIDE DEF unknown, tests, e
      <4>. QED  BY <1>1, <1>4, <2>2
    <3>. QED  BY <1>2, <3>1
  <2>3. CASE unknown = <<>> /\ Cardinality(tests) = 1
    <3> DEFINE k == CHOOSE k \in tests : TRUE
    <3>1. k \in tests
      BY <2>3, BareTestsAre, OneOf
    <3>2. k \in ExplicitKeys(j, x) /\ k \in DOMAIN j
      BY <1>4, <3>1, BareTestsAre DEF ExplicitKeys
    <3>3. e = Named(j, fs, x, k)
      <4>. HIDE DEF unknown, tests, e
      <4>. QED  BY <1>1, <1>4, <2>3
    <3>4. MatchOK(j, fs, x, taken, Named(j, fs, x, k))
      <4>. HIDE DEF k
      <4>. QED  BY <3>2, NamedIs
    <3>. QED  BY <3>3, <3>4
  <2>4. CASE unknown = <<>> /\ ~ (Cardinality(tests) > 1) /\ Cardinality(tests) # 1
    <3>1. ExplicitKeys(j, x) = {}
      <4>1. IsFiniteSet(tests) /\ Cardinality(tests) \in Nat
        BY BareTestsAre
      <4>2. Cardinality(tests) = 0
        <5>. HIDE DEF tests
        <5>. QED  BY <2>4, <4>1
      <4>. QED  BY <1>4, <4>1, <4>2, OneOf DEF ExplicitKeys
    <3>2. e = BySummary(j, fs, x, taken)
      <4>. HIDE DEF unknown, tests, e
      <4>. QED  BY <1>1, <1>4, <2>4
    <3>. QED  BY <3>1, <3>2, BySummaryIs
  <2>. QED  BY <2>1, <2>2, <2>3, <2>4
<1>. QED  BY <1>3, <1>4

-----------------------------------------------------------------------------
(* The plan of an update.                                                   *)

About == {"WOULD_UPDATE", "UPDATED", "SKIPPED"}
IsEntry(e) ==
    /\ e = [x |-> e.x, status |-> e.status, key |-> e.key, story |-> e.story,
            reason |-> e.reason, changes |-> e.changes]
    /\ IsBody(e.x.def)

(* No test is matched for two scenarios.                                   *)
LEMMA MatchedOnce ==
    ASSUME NEW j, AreTests(j), NEW fs, AreFiles(fs)
    PROVE  LET m == UpdateMatches(j, fs)  all == All(fs) IN
           /\ Len(all) \in Nat
           /\ m = [i \in 1..Len(all) |-> m[i]]
           /\ \A i \in 1..Len(all) :
                /\ m[i] = Entry(all[i], m[i].status, m[i].key, m[i].story, m[i].reason)
                /\ m[i].status \in {"ERROR", "MATCHED"}
                /\ m[i].status = "MATCHED" =>
                     /\ m[i].key \in DOMAIN j
                     /\ \A h \in 1..Len(all) :
                          h # i /\ m[h].status = "MATCHED" => m[h].key # m[i].key
<1> DEFINE m == UpdateMatches(j, fs)
           all == All(fs)
           N == Len(all)
           before(i) == Taken(j, {m[h] : h \in 1..(i - 1)})
<1>1. N \in Nat
  <2>1. all \in Seq(ToSet(all))
    BY AllIs
  <2>. HIDE DEF all
  <2>. QED  BY <2>1
<1>2. /\ m = [i \in 1..N |-> m[i]]
      /\ \A i \in 1..N : m[i] = UpdateMatch(j, fs, all[i], before(i))
  BY <1>1, UpdateMatchesIs
<1>3. \A i \in 1..N : MatchOK(j, fs, all[i], before(i), m[i])
  BY <1>1, <1>2, UpdateMatchIs
<1>. HIDE DEF m, all
<1>4. ASSUME NEW i \in 1..N
      PROVE  /\ m[i] = Entry(all[i], m[i].status, m[i].key, m[i].story, m[i].reason)
             /\ m[i].x = all[i]
             /\ m[i].status \in {"ERROR", "MATCHED"}
             /\ m[i].status = "MATCHED" => m[i].key \in DOMAIN j
  <2>1. MatchOK(j, fs, all[i], before(i), m[i])
    BY <1>3
  <2>. HIDE DEF before
  <2>. QED  BY <2>1 DEF MatchOK, Entry
<1>5. ASSUME NEW h \in 1..N, NEW i \in 1..N, h < i,
             m[h].status = "MATCHED", m[i].status = "MATCHED", m[h].key = m[i].key
      PROVE  FALSE
  <2> DEFINE k == m[i].key
  <2>1. MatchOK(j, fs, all[i], before(i), m[i]) /\ MatchOK(j, fs, all[h], before(h), m[h])
    BY <1>3
  <2>2. /\ \/ k \in ExplicitKeys(j, all[i]) /\ Cardinality(Claimants(j, fs, k)) <= 1
           \/ ExplicitKeys(j, all[i]) = {} /\ Claimants(j, fs, k) = {} /\ k \notin before(i)
        /\ \/ k \in ExplicitKeys(j, all[h]) /\ Cardinality(Claimants(j, fs, k)) <= 1
           \/ ExplicitKeys(j, all[h]) = {} /\ Claimants(j, fs, k) = {}
    <3>. HIDE DEF before
    <3>. QED  BY <1>5, <2>1, Zenon DEF MatchOK
  <2>3. \A n \in 1..N : k \in ExplicitKeys(j, all[n]) => n \in Claimants(j, fs, k)
    BY DEF Claimants, all
  <2>4. CASE ExplicitKeys(j, all[h]) = {} /\ ExplicitKeys(j, all[i]) = {}
    <3>1. m[h] \in {m[n] : n \in 1..(i - 1)}
      BY <1>5
    <3>2. m[h].key \in Taken(j, {m[n] : n \in 1..(i - 1)})
      BY <1>4, <1>5, <2>4, <3>1 DEF Taken
    <3>3. k \in before(i)
      BY <1>5, <3>2
    <3>. HIDE DEF before
    <3>. QED  BY <2>2, <2>4, <3>3
  <2>5. CASE ~ (ExplicitKeys(j, all[h]) = {} /\ ExplicitKeys(j, all[i]) = {})
    <3>1. h \in Claimants(j, fs, k) /\ i \in Claimants(j, fs, k)
             /\ Cardinality(Claimants(j, fs, k)) <= 1
      <4>. HIDE DEF before, k
      <4>. QED  BY <2>2, <2>3, <2>5
    <3>2. IsFiniteSet(Claimants(j, fs, k))
      BY <1>1, ClaimantsAre DEF all
    <3>3. h = i
      BY <3>1, <3>2, OneOf
    <3>. QED  BY <1>5, <3>3
  <2>. QED  BY <2>4, <2>5
<1>6. ASSUME NEW i \in 1..N, NEW h \in 1..N, h # i,
             m[i].status = "MATCHED", m[h].status = "MATCHED"
      PROVE  m[h].key # m[i].key
  <2>1. h < i \/ i < h
    BY <1>6
  <2>. QED  BY <1>5, <1>6, <2>1
<1>. QED  BY <1>1, <1>2, <1>4, <1>6 DEF m, all

(* diff_test and _blocked, on a test that was matched.                     *)
LEMMA UpdatePlanIs ==
    ASSUME NEW j, AreTests(j), NEW fs, AreFiles(fs)
    PROVE  LET p == UpdatePlan(j, fs) IN
           /\ p \in Seq(ToSet(p))
           /\ \A i \in DOMAIN p :
                /\ IsEntry(p[i])
                /\ p[i].status \in {"ERROR", "SKIPPED", "WOULD_UPDATE"}
                /\ p[i].status # "ERROR" =>
                     /\ p[i].key \in DOMAIN j
                     /\ \A h \in DOMAIN p : h # i /\ p[h].status # "ERROR" =>
                                              p[h].key # p[i].key
                /\ p[i].status = "SKIPPED" => Changes(j[p[i].key], p[i].x, p[i].story) = {}
                /\ p[i].status = "WOULD_UPDATE" =>
                     /\ p[i].x.def.kind \in {"manual", "cucumber"}
                     /\ Blocked(p[i].changes) = None
                     /\ p[i].changes = Changes(j[p[i].key], p[i].x, p[i].story)
<1> DEFINE m == UpdateMatches(j, fs)
           all == All(fs)
           N == Len(all)
           p == UpdatePlan(j, fs)
<1>1. /\ N \in Nat
      /\ m = [i \in 1..N |-> m[i]]
      /\ \A i \in 1..N :
           /\ m[i] = Entry(all[i], m[i].status, m[i].key, m[i].story, m[i].reason)
           /\ m[i].status \in {"ERROR", "MATCHED"}
           /\ m[i].status = "MATCHED" =>
                /\ m[i].key \in DOMAIN j
                /\ \A h \in 1..N : h # i /\ m[h].status = "MATCHED" => m[h].key # m[i].key
  BY MatchedOnce
<1>2. \A i \in 1..N : IsBody(all[i].def)
  BY ScenarioIs
<1>3. p = [i \in 1..N |-> UpdateEntry(j, m[i])]
  <2>1. p = [i \in 1..Len(m) |-> UpdateEntry(j, m[i])]
    BY DEF UpdatePlan
  <2>2. Len(m) = N
    <3>. HIDE DEF m, N
    <3>. QED  BY <1>1
  <2>. HIDE DEF m, p, N
  <2>. QED  BY <2>1, <2>2
<1>. HIDE DEF m, all, p
<1>4. ASSUME NEW i \in 1..N
      PROVE  /\ IsEntry(p[i])
             /\ p[i].key = m[i].key
             /\ p[i].status \in {"ERROR", "SKIPPED", "WOULD_UPDATE"}
             /\ p[i].status # "ERROR" => m[i].status = "MATCHED"
             /\ p[i].status = "SKIPPED" => Changes(j[p[i].key], p[i].x, p[i].story) = {}
             /\ p[i].status = "WOULD_UPDATE" =>
                  /\ p[i].x.def.kind \in {"manual", "cucumber"}
                  /\ Blocked(p[i].changes) = None
                  /\ p[i].changes = Changes(j[p[i].key], p[i].x, p[i].story)
  <2> DEFINE e == m[i]
             c == Changes(j[e.key], e.x, e.story)
  <2>1. e = Entry(all[i], e.status, e.key, e.story, e.reason) /\ e.x = all[i] /\ IsBody(e.x.def)
    BY <1>1, <1>2 DEF Entry
  <2>2. p[i] = UpdateEntry(j, e)
    BY <1>3
  <2>. HIDE DEF e
  <2>3. CASE e.status # "MATCHED"
    <3>1. p[i] = e
      BY <2>2, <2>3 DEF UpdateEntry
    <3>2. e.status = "ERROR"
      BY <1>1, <2>3 DEF e
    <3>. QED  BY <2>1, <3>1, <3>2 DEF IsEntry, Entry, e
  <2>4. CASE e.status = "MATCHED" /\ e.x.def.kind = "broken"
    <3>1. p[i] = [e EXCEPT !.status = "ERROR", !.reason = "assertion_without_action"]
      BY <2>2, <2>4 DEF UpdateEntry
    <3>. QED  BY <2>1, <2>4, <3>1 DEF IsEntry, Entry, e
  <2>5. CASE e.status = "MATCHED" /\ e.x.def.kind # "broken" /\ c = {}
    <3>1. p[i] = [e EXCEPT !.status = "SKIPPED"]
      <4>. HIDE DEF c
      <4>. QED  BY <2>2, <2>5 DEF UpdateEntry, c
    <3>. HIDE DEF c
    <3>2. /\ p[i].x = e.x /\ p[i].key = e.key /\ p[i].story = e.story
          /\ p[i].status = "SKIPPED" /\ IsEntry(p[i])
      BY <2>1, <3>1 DEF IsEntry, Entry
    <3>. QED  BY <2>5, <3>2 DEF e, c
  <2>6. CASE e.status = "MATCHED" /\ e.x.def.kind # "broken" /\ c # {}
    <3>1. p[i] = [e EXCEPT !.status = IF Blocked(c) = None THEN "WOULD_UPDATE" ELSE "ERROR",
                           !.reason = Blocked(c), !.changes = c]
      <4>. HIDE DEF c
      <4>. QED  BY <2>2, <2>6 DEF UpdateEntry, c
    <3>. HIDE DEF c
    <3>2. /\ p[i].x = e.x /\ p[i].key = e.key /\ p[i].story = e.story
          /\ p[i].status = (IF Blocked(c) = None THEN "WOULD_UPDATE" ELSE "ERROR")
          /\ p[i].changes = c /\ IsEntry(p[i])
      BY <2>1, <3>1 DEF IsEntry, Entry
    <3>3. e.x.def.kind \in {"manual", "cucumber"}
      BY <2>1, <2>6 DEF IsBody
    <3>. QED  BY <2>6, <3>2, <3>3 DEF e, c
  <2>. QED  BY <2>3, <2>4, <2>5, <2>6
<1>5. p \in Seq(ToSet(p)) /\ DOMAIN p = 1..N
  <2>1. DOMAIN p = 1..N
    BY <1>3
  <2>2. p = [i \in 1..N |-> p[i]]
    BY <1>3
  <2>3. \A i \in 1..N : p[i] \in ToSet(p)
    BY <2>1 DEF ToSet
  <2>. HIDE DEF N
  <2>. QED  BY <1>1, <2>1, <2>2, <2>3
<1>6. ASSUME NEW i \in 1..N, p[i].status # "ERROR"
      PROVE  /\ p[i].key \in DOMAIN j
             /\ \A h \in 1..N : h # i /\ p[h].status # "ERROR" => p[h].key # p[i].key
  BY <1>1, <1>4, <1>6
<1>. QED  BY <1>4, <1>5, <1>6 DEF p

-----------------------------------------------------------------------------
(* The plan of a creation.                                                  *)

(* create_xray_tests_from_files: one scenario, and the claims before it.   *)
LEMMA CreateMatchIs ==
    ASSUME NEW j, AreTests(j), NEW fs, NEW x, NEW earlier
    PROVE  LET e == CreateMatch(j, x, Claims(fs, earlier)) IN
           /\ e = Entry(x, e.status, e.key, e.story, e.reason)
           /\ e.status \in {"ERROR", "AMBIGUOUS", "EXISTS_UNTAGGED", "NO_STORY", "CREATE"}
           /\ e.status = "CREATE" =>
                /\ SameSummary(j, e.story, x.summary) \subseteq Tagged(fs)
                /\ \A f \in earlier : f.status = "CREATE" =>
                     <<f.story, f.x.summary>> # <<e.story, x.summary>>
<1> DEFINE claims  == Claims(fs, earlier)
           unknown == BareUnknown(j, x)
           tests   == BareTests(j, x)
           story   == StoryOf(j, x, {})
           same    == SameSummary(j, story.key, x.summary) \ claims.tagged
           free    == same \ claims.matched
           e       == CreateMatch(j, x, claims)
           k1      == CHOOSE k \in tests : TRUE
           named   == IF k1 \in claims.tagged \union claims.matched
                        THEN Entry(x, "ERROR", k1, None, "test_key_claimed")
                        ELSE Entry(x, "EXISTS_UNTAGGED", k1, None, None)
           found   == CASE Cardinality(free) > 1 ->
                             Entry(x, "AMBIGUOUS", None, story.key, "multiple_tests")
                        [] Cardinality(free) = 1 ->
                             Entry(x, "EXISTS_UNTAGGED", CHOOSE k \in free : TRUE,
                                   story.key, None)
                        [] free = {} /\ (same # {} \/ <<story.key, x.summary>> \in claims.planned) ->
                             Entry(x, "AMBIGUOUS", None, story.key, "repeated_in_run")
                        [] OTHER -> Entry(x, "CREATE", None, story.key, None)
           Fine(f) == /\ f = Entry(x, f.status, f.key, f.story, f.reason)
                      /\ f.status \in {"ERROR", "AMBIGUOUS", "EXISTS_UNTAGGED", "NO_STORY"}
<1>1. e = CASE unknown # <<>> ->
                 Entry(x, "ERROR", unknown[1], None, UnknownReason(j, unknown[1]))
            [] unknown = <<>> /\ Cardinality(tests) > 1 ->
                 Entry(x, "AMBIGUOUS", None, None, "multiple_tests")
            [] unknown = <<>> /\ Cardinality(tests) = 1 -> named
            [] unknown = <<>> /\ tests = {} /\ story.problem # None ->
                 Entry(x, StoryStatus(story.problem), None, story.key, story.problem)
            [] OTHER -> found
  BY Zenon DEF CreateMatch
<1>2. ASSUME NEW s \in {"ERROR", "AMBIGUOUS", "EXISTS_UNTAGGED", "NO_STORY"},
             NEW key, NEW st, NEW r
      PROVE  Fine(Entry(x, s, key, st, r))
  BY DEF Entry
<1>3. Fine(named)
  <2>1. CASE k1 \in claims.tagged \union claims.matched
    <3>1. named = Entry(x, "ERROR", k1, None, "test_key_claimed")
      BY <2>1
    <3>. HIDE DEF named, Fine, k1
    <3>. QED  BY <1>2, <3>1
  <2>2. CASE k1 \notin claims.tagged \union claims.matched
    <3>1. named = Entry(x, "EXISTS_UNTAGGED", k1, None, None)
      BY <2>2
    <3>. HIDE DEF named, Fine, k1
    <3>. QED  BY <1>2, <3>1
  <2>. QED  BY <2>1, <2>2
<1>4. IsFiniteSet(free) /\ Cardinality(free) \in Nat /\ (Cardinality(free) = 0 <=> free = {})
  <2>1. IsFiniteSet(SameSummary(j, story.key, x.summary))
    BY SameSummaryIs
  <2>2. free \in SUBSET SameSummary(j, story.key, x.summary)
    OBVIOUS
  <2>3. IsFiniteSet(free)
    <3>. HIDE DEF free
    <3>. QED  BY <2>1, <2>2, FS_Subset
  <2>. HIDE DEF free
  <2>. QED  BY <2>3, OneOf, FS_EmptySet
<1> HIDE DEF Fine
<1>5. \/ Fine(found)
      \/ /\ found = Entry(x, "CREATE", None, story.key, None)
         /\ free = {} /\ same = {} /\ <<story.key, x.summary>> \notin claims.planned
  <2>. HIDE DEF free, same, story, claims
  <2>1. CASE Cardinality(free) > 1
    <3>1. found = Entry(x, "AMBIGUOUS", None, story.key, "multiple_tests")
      BY <1>4, <2>1
    <3>. HIDE DEF found
    <3>. QED  BY <1>2, <3>1
  <2>2. CASE Cardinality(free) = 1
    <3> DEFINE k2 == CHOOSE k \in free : TRUE
    <3>1. found = Entry(x, "EXISTS_UNTAGGED", k2, story.key, None)
      BY <1>4, <2>2
    <3>. HIDE DEF found, k2
    <3>. QED  BY <1>2, <3>1
  <2>3. CASE Cardinality(free) = 0 /\ (same # {} \/ <<story.key, x.summary>> \in claims.planned)
    <3>1. found = Entry(x, "AMBIGUOUS", None, story.key, "repeated_in_run")
      BY <1>4, <2>3
    <3>. HIDE DEF found
    <3>. QED  BY <1>2, <3>1
  <2>4. CASE Cardinality(free) = 0 /\ ~ (same # {} \/ <<story.key, x.summary>> \in claims.planned)
    <3>1. found = Entry(x, "CREATE", None, story.key, None)
      BY <1>4, <2>4
    <3>. HIDE DEF found
    <3>. QED  BY <1>4, <2>4, <3>1
  <2>. QED  BY <1>4, <2>1, <2>2, <2>3, <2>4
<1>6. Fine(e) \/ e = found
  <2>0. Cardinality(tests) = 0 <=> tests = {}
    BY BareTestsAre, FS_EmptySet
  <2>. HIDE DEF e, found, named, story
  <2>1. CASE unknown # <<>>
    <3>1. e = Entry(x, "ERROR", unknown[1], None, UnknownReason(j, unknown[1]))
      <4>. HIDE DEF unknown, tests
      <4>. QED  BY <1>1, <2>1
    <3>. QED  BY <1>2, <3>1
  <2>2. CASE unknown = <<>> /\ Cardinality(tests) > 1
    <3>1. e = Entry(x, "AMBIGUOUS", None, None, "multiple_tests")
      <4>. HIDE DEF unknown, tests
      <4>. QED  BY <1>1, <2>0, <2>2
    <3>. QED  BY <1>2, <3>1
  <2>3. CASE unknown = <<>> /\ Cardinality(tests) = 1
    <3>1. e = named
      <4>. HIDE DEF unknown, tests
      <4>. QED  BY <1>1, <2>0, <2>3
    <3>. QED  BY <1>3, <3>1
  <2>4. CASE unknown = <<>> /\ ~ (Cardinality(tests) > 1) /\ Cardinality(tests) # 1
             /\ tests = {} /\ story.problem # None
    <3>1. e = Entry(x, StoryStatus(story.problem), None, story.key, story.problem)
      <4>. HIDE DEF unknown, tests
      <4>. QED  BY <1>1, <2>4
    <3>2. StoryStatus(story.problem) \in {"ERROR", "AMBIGUOUS", "EXISTS_UNTAGGED", "NO_STORY"}
      BY DEF StoryStatus
    <3>. QED  BY <1>2, <3>1, <3>2
  <2>5. CASE unknown = <<>> /\ ~ (Cardinality(tests) > 1) /\ Cardinality(tests) # 1
             /\ ~ (tests = {} /\ story.problem # None)
    <3>1. e = found
      <4>. HIDE DEF unknown, tests
      <4>. QED  BY <1>1, <2>5
    <3>. QED  BY <3>1
  <2>. HIDE DEF unknown, tests
  <2>. QED  BY <2>1, <2>2, <2>3, <2>4, <2>5
<1>7. CASE Fine(e)
  BY <1>7 DEF Fine
<1>8. CASE e = Entry(x, "CREATE", None, story.key, None)
           /\ same = {} /\ <<story.key, x.summary>> \notin claims.planned
  <2>1. e.story = story.key /\ e.status = "CREATE"
         /\ e = Entry(x, e.status, e.key, e.story, e.reason)
    <3>. HIDE DEF e, story, same, claims
    <3>. QED  BY <1>8 DEF Entry
  <2>2. claims.tagged = Tagged(fs)
    BY DEF Claims
  <2>3. SameSummary(j, e.story, x.summary) \subseteq Tagged(fs)
    <3>1. SameSummary(j, story.key, x.summary) \ Tagged(fs) = {}
      BY <1>8, <2>2
    <3>. HIDE DEF e, story, same, claims
    <3>. QED  BY <2>1, <3>1
  <2>4. ASSUME NEW f \in earlier, f.status = "CREATE"
        PROVE  <<f.story, f.x.summary>> # <<e.story, x.summary>>
    <3>1. <<f.story, f.x.summary>> \in claims.planned
      BY <2>4 DEF Claims
    <3>. HIDE DEF e, story, same, claims
    <3>. QED  BY <1>8, <2>1, <3>1
  <2>. HIDE DEF e
  <2>. QED  BY <2>1, <2>3, <2>4 DEF e
<1>. HIDE DEF e, found, story, same, claims
<1>9. Fine(e) \/ (e = Entry(x, "CREATE", None, story.key, None)
                  /\ same = {} /\ <<story.key, x.summary>> \notin claims.planned)
  BY <1>5, <1>6
<1>. QED  BY <1>7, <1>8, <1>9 DEF e, claims

(* The plan of a call that creates.                                        *)
LEMMA CreatePlanIs ==
    ASSUME NEW j, AreTests(j), NEW fs, AreFiles(fs)
    PROVE  LET p == CreatePlan(j, fs) IN
           /\ p \in Seq(ToSet(p))
           /\ \A i \in DOMAIN p :
                /\ IsEntry(p[i])
                /\ p[i].status # "WOULD_UPDATE"
                /\ p[i].status = "WOULD_CREATE" =>
                     /\ p[i].x.def.kind \in Creatable
                     /\ SameSummary(j, p[i].story, p[i].x.summary) \subseteq Tagged(fs)
                     /\ \A h \in DOMAIN p : h # i /\ p[h].status = "WOULD_CREATE" =>
                          \/ p[h].story # p[i].story
                          \/ p[h].x.summary # p[i].x.summary
<1> DEFINE m == MatchScenarios(j, fs)
           list == Untagged(fs)
           N == Len(list)
           p == CreatePlan(j, fs)
           built(e) ==
             IF e.status # "CREATE" THEN e
             ELSE IF BodyProblem(e.x.def) = None THEN [e EXCEPT !.status = "WOULD_CREATE"]
             ELSE [e EXCEPT !.status = "ERROR", !.reason = BodyProblem(e.x.def)]
<1>1. N \in Nat /\ \A i \in 1..N : IsBody(list[i].def)
  BY UntaggedIs
<1>2. /\ m = [i \in 1..N |-> m[i]]
      /\ \A i \in 1..N :
           m[i] = CreateMatch(j, list[i], Claims(fs, {m[h] : h \in 1..(i - 1)}))
  BY <1>1, MatchScenariosIs
<1>3. p = [i \in 1..N |-> built(m[i])]
  <2>1. p = [i \in 1..Len(m) |-> built(m[i])]
    BY Zenon DEF CreatePlan
  <2>2. Len(m) = N
    <3>. HIDE DEF m, N
    <3>. QED  BY <1>1, <1>2
  <2>. HIDE DEF m, p, N, built
  <2>. QED  BY <2>1, <2>2
<1>. HIDE DEF m, list, p
<1>4. ASSUME NEW i \in 1..N
      PROVE  /\ m[i] = Entry(list[i], m[i].status, m[i].key, m[i].story, m[i].reason)
             /\ m[i].x = list[i]
             /\ m[i].status \in {"ERROR", "AMBIGUOUS", "EXISTS_UNTAGGED", "NO_STORY", "CREATE"}
             /\ m[i].status = "CREATE" =>
                  /\ SameSummary(j, m[i].story, m[i].x.summary) \subseteq Tagged(fs)
                  /\ \A h \in 1..(i-1) : m[h].status = "CREATE" =>
                       <<m[h].story, m[h].x.summary>> # <<m[i].story, m[i].x.summary>>
  <2> DEFINE e == m[i]
             x == list[i]
             earlier == {m[h] : h \in 1..(i - 1)}
  <2>1. e = CreateMatch(j, x, Claims(fs, earlier))
    BY <1>2
  <2>2. /\ e = Entry(x, e.status, e.key, e.story, e.reason)
        /\ e.status \in {"ERROR", "AMBIGUOUS", "EXISTS_UNTAGGED", "NO_STORY", "CREATE"}
        /\ e.status = "CREATE" =>
             /\ SameSummary(j, e.story, x.summary) \subseteq Tagged(fs)
             /\ \A f \in earlier : f.status = "CREATE" =>
                  <<f.story, f.x.summary>> # <<e.story, x.summary>>
    <3>. HIDE DEF e, x, earlier
    <3>. QED  BY <2>1, CreateMatchIs
  <2>3. e.x = x
    <3>. HIDE DEF e, x
    <3>. QED  BY <2>2 DEF Entry
  <2>4. \A h \in 1..(i-1) : m[h] \in earlier
    OBVIOUS
  <2>. HIDE DEF earlier
  <2>. QED  BY <2>2, <2>3, <2>4
<1>5. ASSUME NEW i \in 1..N
      PROVE  /\ IsEntry(p[i])
             /\ p[i].x = m[i].x /\ p[i].story = m[i].story
             /\ p[i].status # "WOULD_UPDATE"
             /\ p[i].status = "WOULD_CREATE" =>
                  m[i].status = "CREATE" /\ p[i].x.def.kind \in Creatable
  <2> DEFINE e == m[i]
             b == BodyProblem(e.x.def)
  <2>1. e = Entry(list[i], e.status, e.key, e.story, e.reason) /\ e.x = list[i]
        /\ e.status \in {"ERROR", "AMBIGUOUS", "EXISTS_UNTAGGED", "NO_STORY", "CREATE"}
    BY <1>4
  <2>2. IsBody(e.x.def)
    BY <1>1, <2>1
  <2>3. p[i] = IF e.status # "CREATE" THEN e
               ELSE IF b = None THEN [e EXCEPT !.status = "WOULD_CREATE"]
               ELSE [e EXCEPT !.status = "ERROR", !.reason = b]
    BY <1>3
  <2>4. b = None => e.x.def.kind \in Creatable
    <3>1. None # "assertion_without_action" /\ None # "unsupported"
      BY RulesAssumption
    <3>. HIDE DEF e
    <3>. QED  BY <3>1 DEF BodyProblem
  <2>. HIDE DEF e, b
  <2>5. IsEntry(p[i]) /\ p[i].x = e.x /\ p[i].story = e.story
    BY <2>1, <2>2, <2>3 DEF IsEntry, Entry
  <2>6. /\ p[i].status # "WOULD_UPDATE"
        /\ p[i].status = "WOULD_CREATE" => e.status = "CREATE" /\ b = None
    BY <2>1, <2>3 DEF Entry
  <2>. QED  BY <2>4, <2>5, <2>6 DEF e
<1>. HIDE DEF built
<1>6. p \in Seq(ToSet(p)) /\ DOMAIN p = 1..N
  <2>1. DOMAIN p = 1..N
    BY <1>3
  <2>2. p = [i \in 1..N |-> p[i]]
    BY <1>3
  <2>3. \A i \in 1..N : p[i] \in ToSet(p)
    BY <2>1 DEF ToSet
  <2>. HIDE DEF N
  <2>. QED  BY <1>1, <2>1, <2>2, <2>3
<1>7. ASSUME NEW i \in 1..N, p[i].status = "WOULD_CREATE",
             NEW h \in 1..N, h # i, p[h].status = "WOULD_CREATE"
      PROVE  <<p[h].story, p[h].x.summary>> # <<p[i].story, p[i].x.summary>>
  <2>1. CASE h \in 1..(i-1)
    BY <1>4, <1>5, <1>7, <2>1
  <2>2. CASE i \in 1..(h-1)
    BY <1>4, <1>5, <1>7, <2>2
  <2>. QED  BY <1>7, <2>1, <2>2
<1>8. ASSUME NEW i \in 1..N, p[i].status = "WOULD_CREATE"
      PROVE  SameSummary(j, p[i].story, p[i].x.summary) \subseteq Tagged(fs)
  BY <1>4, <1>5, <1>8
<1>. QED  BY <1>5, <1>6, <1>7, <1>8 DEF p

-----------------------------------------------------------------------------
(* Keys written to the files.                                               *)

(* What is tagged in the files.                                            *)
LEMMA TaggedIs ==
    ASSUME NEW fs, AreFiles(fs), NEW p \in DOMAIN fs, NEW n \in DOMAIN fs[p].sc
    PROVE  fs[p].sc[n].tag # None => fs[p].sc[n].tag \in Tagged(fs)
<1>1. At(fs, p, n) \in ToSet(All(fs))
  BY AtAll
<1>2. At(fs, p, n).tag = fs[p].sc[n].tag
  BY DEF At
<1>. QED  BY <1>1, <1>2 DEF Tagged

(* Rewriting gives a scenario its final key and changes nothing else that  *)
(* tells scenarios apart.                                                  *)
LEMMA RewrittenIs ==
    ASSUME NEW fs, AreFiles(fs), NEW keys
    PROVE  LET w == Rewritten(fs, keys) IN
           /\ AreFiles(w)
           /\ DOMAIN w = DOMAIN fs
           /\ \A p \in DOMAIN fs :
                /\ w[p].format = fs[p].format /\ w[p].story = fs[p].story
                /\ DOMAIN w[p].sc = DOMAIN fs[p].sc
                /\ \A n \in DOMAIN fs[p].sc :
                     /\ w[p].sc[n].summary = fs[p].sc[n].summary
                     /\ w[p].sc[n].tag = FinalKey(At(fs, p, n), keys)
<1> DEFINE w == Rewritten(fs, keys)
<1> DEFINE Sc(p) == [n \in 1..Len(fs[p].sc) |-> Retag(p, fs[p].sc[n], keys)]
<1>1. ASSUME NEW p \in DOMAIN fs
      PROVE  /\ w[p].format = fs[p].format /\ w[p].story = fs[p].story /\ w[p].sc = Sc(p)
             /\ w[p] = [format |-> w[p].format, story |-> w[p].story, sc |-> w[p].sc]
             /\ fs[p].sc \in Seq(ToSet(fs[p].sc))
             /\ \A n \in DOMAIN fs[p].sc : IsScenario(fs[p].sc[n])
             /\ DOMAIN fs[p].sc = 1..Len(fs[p].sc) /\ Len(fs[p].sc) \in Nat
             /\ DOMAIN Sc(p) = DOMAIN fs[p].sc
             /\ \A n \in DOMAIN fs[p].sc : w[p].sc[n] = Retag(p, fs[p].sc[n], keys)
  <2>1. /\ fs[p] = [format |-> fs[p].format, story |-> fs[p].story, sc |-> fs[p].sc]
        /\ fs[p].sc \in Seq(ToSet(fs[p].sc))
        /\ \A n \in DOMAIN fs[p].sc : IsScenario(fs[p].sc[n])
    BY DEF AreFiles, IsFile
  <2>2. w[p] = [fs[p] EXCEPT !.sc = Sc(p)]
    BY DEF Rewritten
  <2>3. DOMAIN fs[p].sc = 1..Len(fs[p].sc) /\ Len(fs[p].sc) \in Nat
    BY <2>1
  <2>4. DOMAIN Sc(p) = DOMAIN fs[p].sc
    BY <2>3
  <2>5. \A n \in DOMAIN fs[p].sc : Sc(p)[n] = Retag(p, fs[p].sc[n], keys)
    BY <2>3
  <2>. HIDE DEF w, Sc
  <2>6. w[p].format = fs[p].format /\ w[p].story = fs[p].story /\ w[p].sc = Sc(p)
        /\ w[p] = [format |-> w[p].format, story |-> w[p].story, sc |-> w[p].sc]
    BY <2>1, <2>2
  <2>. QED  BY <2>1, <2>3, <2>4, <2>5, <2>6
<1>2. DOMAIN w = DOMAIN fs
  BY DEF Rewritten
<1>. HIDE DEF w, Sc
<1>3. ASSUME NEW p \in DOMAIN fs, NEW n \in DOMAIN fs[p].sc
      PROVE  /\ IsScenario(w[p].sc[n])
             /\ w[p].sc[n].summary = fs[p].sc[n].summary
             /\ w[p].sc[n].tag = FinalKey(At(fs, p, n), keys)
  <2> DEFINE s == fs[p].sc[n]
             r == Retag(p, s, keys)
             id == <<p, s.summary>>
             k == IF id \in DOMAIN keys THEN keys[id] ELSE s.tag
             final == FinalKey([path |-> p, summary |-> s.summary, tag |-> s.tag], keys)
             bare == SelectSeq(s.bare, LAMBDA b : b # final)
  <2>1. w[p].sc[n] = r
    BY <1>1
  <2>2. IsScenario(s)
    BY <1>1
  <2>3. FinalKey(At(fs, p, n), keys) = k
    BY DEF FinalKey, At
  <2>4. final = k
    BY DEF FinalKey
  <2>5. r = IF id \in DOMAIN keys THEN [s EXCEPT !.tag = final, !.bare = bare] ELSE s
    BY Zenon DEF Retag
  <2>6. id \notin DOMAIN keys => k = s.tag
    OBVIOUS
  <2>. HIDE DEF s, r, k, bare, id, final
  <2>7. IsScenario(r) /\ r.summary = s.summary /\ r.tag = k
    BY <2>2, <2>4, <2>5, <2>6 DEF IsScenario, Scenario
  <2>. QED  BY <2>1, <2>3, <2>7 DEF s
<1>4. ASSUME NEW p \in DOMAIN fs
      PROVE  /\ IsFile(w[p])
             /\ w[p].format = fs[p].format /\ w[p].story = fs[p].story
             /\ DOMAIN w[p].sc = DOMAIN fs[p].sc
  <2> DEFINE sc == w[p].sc
  <2>1. sc = Sc(p)
    BY <1>1
  <2>2. DOMAIN sc = 1..Len(fs[p].sc)
    BY <1>1, <2>1
  <2>3. \A n \in 1..Len(fs[p].sc) : sc[n] \in ToSet(sc)
    BY <2>2 DEF ToSet
  <2>4. sc = [n \in 1..Len(fs[p].sc) |-> sc[n]]
    BY <2>1 DEF Sc
  <2>5. sc \in Seq(ToSet(sc))
    <3>. HIDE DEF sc
    <3>. QED  BY <1>1, <2>3, <2>4
  <2>6. \A n \in DOMAIN sc : IsScenario(sc[n])
    BY <1>1, <1>3, <2>2
  <2>7. w[p] = [format |-> w[p].format, story |-> w[p].story, sc |-> w[p].sc]
        /\ w[p].format = fs[p].format /\ w[p].story = fs[p].story
    BY <1>1
  <2>. QED  BY <1>1, <2>2, <2>5, <2>6, <2>7 DEF IsFile
<1>5. AreFiles(w)
  BY <1>2, <1>4 DEF AreFiles
<1>. QED  BY <1>2, <1>3, <1>4, <1>5 DEF w

(* write_xray_keys_to_files: keys that can be assigned keep one owner.     *)
LEMMA AssignedOnce ==
    ASSUME NEW fs, AreFiles(fs), NEW keys, CanAssign(fs, keys)
    PROVE  OneOwner(Rewritten(fs, keys))
<1> DEFINE w == Rewritten(fs, keys)
           all == All(fs)
<1>1. /\ DOMAIN w = DOMAIN fs
      /\ \A p \in DOMAIN fs :
           /\ DOMAIN w[p].sc = DOMAIN fs[p].sc
           /\ \A n \in DOMAIN fs[p].sc : w[p].sc[n].tag = FinalKey(At(fs, p, n), keys)
  BY RewrittenIs
<1>2. \A i, j \in 1..Len(all) :
        FinalKey(all[i], keys) = FinalKey(all[j], keys) /\ FinalKey(all[i], keys) # None => i = j
  BY DEF CanAssign
<1>. HIDE DEF w
<1>3. ASSUME NEW p \in DOMAIN w, NEW q \in DOMAIN w,
             NEW n \in DOMAIN w[p].sc, NEW m \in DOMAIN w[q].sc,
             w[p].sc[n].tag = w[q].sc[m].tag, w[p].sc[n].tag # None
      PROVE  p = q /\ n = m
  <2>1. p \in DOMAIN fs /\ q \in DOMAIN fs /\ n \in DOMAIN fs[p].sc /\ m \in DOMAIN fs[q].sc
    BY <1>1
  <2>2. PICK i \in 1..Len(all) : all[i] = At(fs, p, n)
    BY <2>1, AtAll
  <2>3. PICK j \in 1..Len(all) : all[j] = At(fs, q, m)
    BY <2>1, AtAll
  <2>4. i = j
    <3>1. FinalKey(all[i], keys) = w[p].sc[n].tag /\ FinalKey(all[j], keys) = w[q].sc[m].tag
      BY <1>1, <2>1, <2>2, <2>3
    <3>. QED  BY <1>2, <1>3, <3>1
  <2>5. At(fs, p, n) = At(fs, q, m)
    BY <2>2, <2>3, <2>4
  <2>6. At(fs, p, n).path = p /\ At(fs, p, n).n = n /\ At(fs, q, m).path = q /\ At(fs, q, m).n = m
    BY DEF At
  <2>. QED  BY <2>5, <2>6
<1>4. OneOwner(w)
  BY <1>3 DEF OneOwner
<1>. QED  BY <1>4 DEF w

-----------------------------------------------------------------------------
(* The plan of a pull.                                                      *)

(* pull_xray_tests_to_files: what is proposed for one test.                *)
LEMMA PlanPullIs ==
    ASSUME NEW j, NEW fs, NEW fmt, NEW np, NEW k
    PROVE  LET r == PlanPull(j, fs, fmt, np, k) IN
           /\ r = Pulled(k, r.status, r.path, r.story, r.summary)
           /\ r.key = k
           /\ r.status \in Actionable => k \notin Tagged(fs)
<1> DEFINE t       == j[k]
           parent  == ParentStory(t.links)
           local   == LocalMatches(fs, fmt, parent.key, t.summary)
           x       == CHOOSE y \in local : TRUE
           targets == {p \in FormatFiles(fs, fmt) : FileStory(fs, p) = parent.key}
           result(status, path) == Pulled(k, status, path, parent.key, t.summary)
           r == PlanPull(j, fs, fmt, np, k)
           free == CASE Cardinality(local) > 1 -> result("LOCAL_AMBIGUOUS", None)
                     [] Cardinality(local) = 1 /\ x.tag # None -> result("KEY_CONFLICT", x.path)
                     [] Cardinality(local) = 1 /\ x.tag = None -> result("BACKFILL_TAG", x.path)
                     [] local = {} /\ Cardinality(targets) > 1 -> result("TARGET_AMBIGUOUS", None)
                     [] local = {} /\ Cardinality(targets) = 1 ->
                          result("ADD", CHOOSE p \in targets : TRUE)
                     [] OTHER -> IF np \in DOMAIN fs /\ fs[np].sc # <<>>
                                   THEN result("PATH_COLLISION", np)
                                   ELSE result("NEW_FILE", np)
<1>1. r = CASE k \in Tagged(fs)        -> result("SKIP_KNOWN", None)
            [] k \notin Tagged(fs) /\ parent.status # "ok" -> result(parent.status, None)
            [] OTHER -> free
  BY Zenon DEF PlanPull
<1>2. parent.status \in {"SKIP_NO_STORY", "STORY_AMBIGUOUS", "ok", "STORY_NOT_QUALIFYING"}
  BY DEF ParentStory
<1>3. \E s, p : free = result(s, p)
  <2> DEFINE a == Cardinality(local) > 1
             b == Cardinality(local) = 1 /\ x.tag # None
             c == Cardinality(local) = 1 /\ x.tag = None
             d == local = {} /\ Cardinality(targets) > 1
             e == local = {} /\ Cardinality(targets) = 1
             f == np \in DOMAIN fs /\ fs[np].sc # <<>>
             ra == result("LOCAL_AMBIGUOUS", None)
             rb == result("KEY_CONFLICT", x.path)
             rc == result("BACKFILL_TAG", x.path)
             rd == result("TARGET_AMBIGUOUS", None)
             re == result("ADD", CHOOSE p \in targets : TRUE)
             rf == result("PATH_COLLISION", np)
             rg == result("NEW_FILE", np)
  <2>1. free = CASE a -> ra [] b -> rb [] c -> rc [] d -> rd [] e -> re
                 [] OTHER -> IF f THEN rf ELSE rg
    OBVIOUS
  <2>. HIDE DEF a, b, c, d, e, f, free, result
  <2>2. free \in {ra, rb, rc, rd, re, rf, rg}
    <3>. HIDE DEF ra, rb, rc, rd, re, rf, rg
    <3>1. CASE a \/ b \/ c \/ d \/ e
      BY <2>1, <3>1
    <3>2. CASE ~ (a \/ b \/ c \/ d \/ e)
      BY <2>1, <3>2
    <3>. QED  BY <3>1, <3>2
  <2>. QED  BY <2>2
<1>. HIDE DEF free, parent
<1>4. CASE k \in Tagged(fs)
  <2>1. r = result("SKIP_KNOWN", None)
    <3>. HIDE DEF result
    <3>. QED  BY <1>1, <1>4
  <2>. HIDE DEF r
  <2>. QED  BY <2>1 DEF Pulled, Actionable, r
<1>5. CASE k \notin Tagged(fs) /\ parent.status # "ok"
  <2>1. r = result(parent.status, None)
    <3>. HIDE DEF result
    <3>. QED  BY <1>1, <1>5
  <2>. HIDE DEF r
  <2>. QED  BY <1>2, <1>5, <2>1 DEF Pulled, Actionable, r
<1>6. CASE k \notin Tagged(fs) /\ parent.status = "ok"
  <2>1. r = free
    <3>. HIDE DEF result
    <3>. QED  BY <1>1, <1>6
  <2>2. PICK s, p : r = result(s, p)
    BY <1>3, <2>1
  <2>. HIDE DEF r
  <2>. QED  BY <1>6, <2>2 DEF Pulled, r
<1>. QED  BY <1>4, <1>5, <1>6

(* One proposal for each test, and none that gives away a key that the     *)
(* files have.                                                             *)
LEMMA PullPlanIs ==
    ASSUME NEW j, NEW fs, NEW fmt, NEW np, NEW remote, IsFiniteSet(remote)
    PROVE  LET plan == PullPlan(j, fs, fmt, np, remote) IN
           /\ IsFiniteSet(plan)
           /\ \A r \in plan : r.key \in remote
           /\ \A r, q \in plan : r.key = q.key => r = q
           /\ \A r \in plan : r.status \in Actionable => r.key \notin Tagged(fs)
<1> DEFINE One(k) == PlanPull(j, fs, fmt, np, k)
           first == {One(k) : k \in remote}
           twins(r) == {q \in first : /\ q.status \in Actionable
                                      /\ q.story = r.story /\ q.summary = r.summary}
           marked(r) == IF r.status \in Actionable /\ Cardinality(twins(r)) > 1
                          THEN [r EXCEPT !.status = "REMOTE_AMBIGUOUS"] ELSE r
           plan == PullPlan(j, fs, fmt, np, remote)
<1>1. plan = {marked(r) : r \in first}
  BY Zenon DEF PullPlan
<1>2. ASSUME NEW k \in remote
      PROVE  /\ marked(One(k)).key = k
             /\ marked(One(k)).status \in Actionable => k \notin Tagged(fs)
  <2> DEFINE r == One(k)
             two == Cardinality(twins(r)) > 1
  <2>1. /\ r = Pulled(k, r.status, r.path, r.story, r.summary)
        /\ r.key = k
        /\ r.status \in Actionable => k \notin Tagged(fs)
    BY PlanPullIs
  <2>2. marked(r) = IF r.status \in Actionable /\ two
                      THEN [r EXCEPT !.status = "REMOTE_AMBIGUOUS"] ELSE r
    OBVIOUS
  <2>. HIDE DEF r, two, marked
  <2>3. marked(r).key = k /\ (marked(r).status \in Actionable => k \notin Tagged(fs))
    BY <2>1, <2>2 DEF Pulled, Actionable
  <2>. QED  BY <2>3 DEF r
<1>3. \A r \in plan : \E k \in remote : r = marked(One(k))
  <2>. HIDE DEF marked, One
  <2>. QED  BY <1>1
<1>4. \A k \in remote : marked(One(k)) \in plan
  <2>. HIDE DEF marked, One
  <2>. QED  BY <1>1
<1>. HIDE DEF marked, One, plan, first
<1>5. IsFiniteSet(plan)
  <2> DEFINE f == [k \in remote |-> marked(One(k))]
  <2>1. f \in Surjection(remote, plan)
    BY <1>3, <1>4 DEF Surjection
  <2>. HIDE DEF f
  <2>. QED  BY <2>1, FS_Surjection
<1>6. \A r \in plan : r.key \in remote /\ r = marked(One(r.key))
                      /\ (r.status \in Actionable => r.key \notin Tagged(fs))
  BY <1>2, <1>3
<1>7. \A r, q \in plan : r.key = q.key => r = q
  BY <1>6
<1>. QED  BY <1>5, <1>6, <1>7 DEF plan

(* A finite set as a sequence: each element once.                          *)
LEMMA SetToSeqIs ==
    ASSUME NEW S, IsFiniteSet(S)
    PROVE  LET s == SetToSeq(S) IN
           /\ Len(s) \in Nat /\ DOMAIN s = 1..Len(s) /\ s \in Seq(S)
           /\ \A i \in 1..Len(s) : s[i] \in S
           /\ \A i, k \in 1..Len(s) : s[i] = s[k] => i = k
<1> DEFINE N == Cardinality(S)
           s == SetToSeq(S)
<1>1. N \in Nat /\ ExistsBijection(1..N, S)
  BY FS_CardinalityType
<1>2. \E f \in [1..N -> S] : IsInjective(f)
  <2>1. PICK f : f \in Bijection(1..N, S)
    BY <1>1 DEF ExistsBijection
  <2>2. f \in [1..N -> S] /\ IsInjective(f)
    BY <2>1 DEF Bijection, Injection
  <2>. QED  BY <2>2
<1>3. s \in [1..N -> S] /\ IsInjective(s)
  <2>1. s = CHOOSE f \in [1..N -> S] : IsInjective(f)
    BY DEF SetToSeq
  <2>. HIDE DEF s, N
  <2>. QED  BY <1>2, <2>1
<1>. HIDE DEF s, N
<1>4. s \in Seq(S) /\ Len(s) = N /\ DOMAIN s = 1..N
  BY <1>1, <1>3
<1>5. \A i \in 1..N : s[i] \in S
  BY <1>3
<1>6. \A i, k \in 1..N : s[i] = s[k] => i = k
  BY <1>3, <1>4 DEF IsInjective
<1>. QED  BY <1>1, <1>4, <1>5, <1>6 DEF s

-----------------------------------------------------------------------------
(* A pull applied.                                                          *)

(* A sequence of the elements of another two.                              *)
LEMMA ConcatIs ==
    ASSUME NEW S, NEW a \in Seq(S), NEW b \in Seq(S)
    PROVE  LET c == a \o b IN
           /\ c \in Seq(ToSet(c))
           /\ DOMAIN c = 1..(Len(a) + Len(b)) /\ Len(a) \in Nat /\ Len(b) \in Nat
           /\ DOMAIN a = 1..Len(a)
           /\ \A n \in 1..Len(a) : c[n] = a[n]
           /\ \A n \in DOMAIN c : n \notin 1..Len(a) => n - Len(a) \in 1..Len(b)
                                                        /\ c[n] = b[n - Len(a)]
<1> DEFINE c == a \o b
<1>1. c \in Seq(S) /\ Len(c) = Len(a) + Len(b) /\ Len(a) \in Nat /\ Len(b) \in Nat
  OBVIOUS
<1>2. DOMAIN c = 1..(Len(a) + Len(b)) /\ DOMAIN a = 1..Len(a)
  BY <1>1
<1>3. c \in Seq(ToSet(c))
  <2>. HIDE DEF c
  <2>1. \A n \in 1..Len(c) : c[n] \in ToSet(c)
    BY <1>1, <1>2 DEF ToSet
  <2>2. c = [n \in 1..Len(c) |-> c[n]] /\ Len(c) \in Nat
    BY <1>1
  <2>. QED  BY <2>1, <2>2
<1>4. \A n \in 1..Len(a) : c[n] = a[n]
  OBVIOUS
<1>5. ASSUME NEW n \in 1..(Len(a) + Len(b)), n \notin 1..Len(a)
      PROVE  n - Len(a) \in 1..Len(b) /\ c[n] = b[n - Len(a)]
  BY <1>1, <1>5
<1>. HIDE DEF c
<1>. QED  BY <1>1, <1>2, <1>3, <1>4, <1>5 DEF c

(* The keys a pull writes into scenarios that are there, and the tests it  *)
(* adds to a file.                                                         *)
Backfilled(plan) ==
    [id \in {<<r.path, r.summary>> : r \in Backfills(plan)} |->
       (CHOOSE r \in Backfills(plan) : <<r.path, r.summary>> = id).key]
NewOf(plan, p) == SetToSeq(NewIn(plan, p))

(* What a pull makes of a file: its scenarios with their final keys, then  *)
(* one scenario for each new test.                                         *)
LEMMA AppliedIs ==
    ASSUME NEW j, AreTests(j), NEW fs, AreFiles(fs), NEW fmt, NEW plan,
           IsFiniteSet(plan), \A r \in plan : r.key \in DOMAIN j
    PROVE  LET w == Applied(j, fs, fmt, plan) IN
           /\ AreFiles(w)
           /\ DOMAIN w = DOMAIN fs
           /\ \A p \in DOMAIN w : \A n \in DOMAIN w[p].sc :
                \/ /\ n \in DOMAIN fs[p].sc
                   /\ w[p].sc[n].tag = FinalKey(At(fs, p, n), Backfilled(plan))
                \/ \E i \in 1..Len(NewOf(plan, p)) : /\ n = i + Len(fs[p].sc) /\ n \notin DOMAIN fs[p].sc
                                             /\ w[p].sc[n].tag = NewOf(plan, p)[i].key
<1> DEFINE tags == Backfilled(plan)
           local(p, r) == IF r.status = "ADD" /\ fmt = "robot" /\ fs[p].story = None
                            THEN r.story ELSE None
           new(p) == NewOf(plan, p)
           added(p) == [i \in 1..Len(new(p)) |-> Rendered(j, new(p)[i], local(p, new(p)[i]))]
           fresh(p) == \E r \in NewIn(plan, p) : r.status = "NEW_FILE"
           base == Rewritten(fs, tags)
           fm(p) == IF fresh(p) THEN fmt ELSE fs[p].format
           st(p) == IF fresh(p) THEN (CHOOSE r \in NewIn(plan, p) : TRUE).story ELSE fs[p].story
           w == Applied(j, fs, fmt, plan)
<1>1. w = [p \in DOMAIN fs |-> [format |-> fm(p), story |-> st(p), sc |-> base[p].sc \o added(p)]]
  BY Zenon DEF Applied, Backfilled, NewOf
<1>2. /\ AreFiles(base)
      /\ DOMAIN base = DOMAIN fs
      /\ \A p \in DOMAIN fs :
           /\ DOMAIN base[p].sc = DOMAIN fs[p].sc
           /\ \A n \in DOMAIN fs[p].sc : base[p].sc[n].tag = FinalKey(At(fs, p, n), tags)
  <2>. HIDE DEF tags
  <2>. QED  BY RewrittenIs
<1>. HIDE DEF base, tags, fm, st, w
<1>3. ASSUME NEW p, NEW r \in plan
      PROVE  /\ IsScenario(Rendered(j, r, local(p, r)))
             /\ Rendered(j, r, local(p, r)).tag = r.key
  <2> DEFINE l == local(p, r)
  <2>1. IsTest(j[r.key])
    BY DEF AreTests
  <2>2. IsBody(PulledDef(j[r.key]))
    BY <2>1 DEF PulledDef, IsBody, Body, IsTest
  <2>. HIDE DEF l
  <2>. QED  BY <2>2 DEF Rendered, IsScenario, Scenario
<1>4. ASSUME NEW p \in DOMAIN fs
      PROVE  /\ Len(new(p)) \in Nat
             /\ \A i \in 1..Len(new(p)) : new(p)[i] \in plan
             /\ added(p) \in Seq(ToSet(added(p)))
             /\ Len(added(p)) = Len(new(p))
             /\ \A i \in 1..Len(new(p)) : /\ IsScenario(added(p)[i])
                                          /\ added(p)[i].tag = new(p)[i].key
  <2>1. IsFiniteSet(NewIn(plan, p)) /\ NewIn(plan, p) \subseteq plan
    BY FS_Subset DEF NewIn
  <2>2. Len(new(p)) \in Nat /\ \A i \in 1..Len(new(p)) : new(p)[i] \in plan
    BY <2>1, SetToSeqIs DEF NewOf
  <2> DEFINE s == new(p)
             a == added(p)
  <2>3. \A i \in 1..Len(s) : /\ a[i] = Rendered(j, s[i], local(p, s[i]))
                             /\ IsScenario(a[i]) /\ a[i].tag = s[i].key
    <3>. HIDE DEF s, local
    <3>. QED  BY <1>3, <2>2 DEF s
  <2>4. DOMAIN a = 1..Len(s) /\ a = [i \in 1..Len(s) |-> a[i]]
    <3> DEFINE R(i) == Rendered(j, new(p)[i], local(p, new(p)[i]))
    <3>1. a = [i \in 1..Len(s) |-> R(i)]
      OBVIOUS
    <3>. HIDE DEF s, a, R
    <3>2. DOMAIN a = 1..Len(s)
      BY <3>1
    <3>3. a = [i \in 1..Len(s) |-> a[i]]
      BY <3>1
    <3>. QED  BY <3>2, <3>3
  <2>. HIDE DEF a, s
  <2>5. \A i \in 1..Len(s) : a[i] \in ToSet(a)
    BY <2>4 DEF ToSet
  <2>6. Len(s) \in Nat
    BY <2>2 DEF s
  <2>7. a \in Seq(ToSet(a)) /\ Len(a) = Len(s)
    BY <2>4, <2>5, <2>6
  <2>. QED  BY <2>2, <2>3, <2>7 DEF a, s
<1>. HIDE DEF added, new
<1>5. ASSUME NEW p \in DOMAIN fs
      PROVE  /\ IsFile(w[p])
             /\ \A n \in DOMAIN w[p].sc :
                  \/ n \in DOMAIN fs[p].sc /\ w[p].sc[n].tag = FinalKey(At(fs, p, n), tags)
                  \/ \E i \in 1..Len(new(p)) : /\ n = i + Len(fs[p].sc) /\ n \notin DOMAIN fs[p].sc
                                               /\ w[p].sc[n].tag = new(p)[i].key
  <2> DEFINE b == base[p].sc
             a == added(p)
             c == b \o a
             S == ToSet(b) \cup ToSet(a)
  <2>1. b \in Seq(ToSet(b)) /\ \A n \in DOMAIN b : IsScenario(b[n])
    BY <1>2 DEF AreFiles, IsFile
  <2>2. fs[p].sc \in Seq(ToSet(fs[p].sc)) /\ DOMAIN b = DOMAIN fs[p].sc
    BY <1>2 DEF AreFiles, IsFile
  <2>3. a \in Seq(ToSet(a)) /\ Len(a) = Len(new(p))
        /\ \A i \in 1..Len(new(p)) : IsScenario(a[i]) /\ a[i].tag = new(p)[i].key
    BY <1>4
  <2>4. w[p].format = fm(p) /\ w[p].story = st(p) /\ w[p].sc = c
        /\ w[p] = [format |-> w[p].format, story |-> w[p].story, sc |-> w[p].sc]
    <3>. HIDE DEF c
    <3>. QED  BY <1>1 DEF c
  <2>. HIDE DEF a, b
  <2>5. b \in Seq(S) /\ a \in Seq(S)
    <3>1. \A T, U : Seq(T) \subseteq Seq(T \cup U) /\ Seq(U) \subseteq Seq(T \cup U)
      OBVIOUS
    <3>. QED  BY <2>1, <2>3, <3>1
  <2>6. /\ c \in Seq(ToSet(c))
        /\ DOMAIN c = 1..(Len(b) + Len(a)) /\ Len(b) \in Nat /\ Len(a) \in Nat
        /\ DOMAIN b = 1..Len(b)
        /\ \A n \in 1..Len(b) : c[n] = b[n]
        /\ \A n \in DOMAIN c : n \notin 1..Len(b) => n - Len(b) \in 1..Len(a)
                                                     /\ c[n] = a[n - Len(b)]
    <3>. HIDE DEF S
    <3>. QED  BY <2>5, ConcatIs
  <2>. HIDE DEF c
  <2>7. Len(fs[p].sc) = Len(b)
    <3>1. Len(fs[p].sc) \in Nat /\ DOMAIN fs[p].sc = 1..Len(fs[p].sc)
      BY <2>2
    <3>2. 1..Len(fs[p].sc) = 1..Len(b)
      BY <2>2, <2>6, <3>1
    <3>. QED  BY <2>6, <3>1, <3>2
  <2>8. \A n \in DOMAIN c : IsScenario(c[n])
    <3>1. \A n \in 1..Len(b) : IsScenario(c[n])
      BY <2>1, <2>6
    <3>2. \A n \in DOMAIN c : n \notin 1..Len(b) => IsScenario(c[n])
      BY <2>3, <2>6
    <3>. QED  BY <3>1, <3>2
  <2>9. ASSUME NEW n \in DOMAIN c
        PROVE  \/ n \in DOMAIN fs[p].sc /\ c[n].tag = FinalKey(At(fs, p, n), tags)
               \/ \E i \in 1..Len(new(p)) : /\ n = i + Len(fs[p].sc) /\ n \notin DOMAIN fs[p].sc
                                            /\ c[n].tag = new(p)[i].key
    <3>1. CASE n \in 1..Len(b)
      <4>1. n \in DOMAIN fs[p].sc /\ c[n] = b[n]
        BY <2>2, <2>6, <3>1
      <4>. QED  BY <1>2, <4>1 DEF b
    <3>2. CASE n \notin 1..Len(b)
      <4>1. n - Len(b) \in 1..Len(new(p)) /\ c[n] = a[n - Len(b)]
        BY <2>3, <2>6, <3>2
      <4>2. n = (n - Len(b)) + Len(fs[p].sc) /\ n \notin DOMAIN fs[p].sc
        BY <2>2, <2>6, <2>7, <3>2
      <4>3. c[n].tag = new(p)[n - Len(b)].key
        BY <2>3, <4>1
      <4>. QED  BY <4>1, <4>2, <4>3
    <3>. QED  BY <3>1, <3>2
  <2>10. IsFile(w[p])
    BY <2>4, <2>6, <2>8 DEF IsFile
  <2>. QED  BY <2>4, <2>9, <2>10
<1>6. DOMAIN w = DOMAIN fs
  BY <1>1
<1>7. AreFiles(w)
  BY <1>5, <1>6 DEF AreFiles
<1>8. \A p \in DOMAIN w : \A n \in DOMAIN w[p].sc :
        \/ n \in DOMAIN fs[p].sc /\ w[p].sc[n].tag = FinalKey(At(fs, p, n), tags)
        \/ \E i \in 1..Len(new(p)) : /\ n = i + Len(fs[p].sc) /\ n \notin DOMAIN fs[p].sc
                                     /\ w[p].sc[n].tag = new(p)[i].key
  BY <1>5, <1>6
<1>. QED  BY <1>6, <1>7, <1>8, Zenon DEF w, tags, new

(* A pull gives a key that no scenario has to one scenario.                *)
LEMMA PulledOnce ==
    ASSUME NEW j, AreTests(j), NEW fs, AreFiles(fs), NEW fmt, NEW plan,
           IsFiniteSet(plan), \A r \in plan : r.key \in DOMAIN j,
           \A r, q \in plan : r.key = q.key => r = q,
           \A r \in plan : r.status \in Actionable => r.key \notin Tagged(fs),
           PullApplies(fs, plan), OneOwner(fs)
    PROVE  OneOwner(Applied(j, fs, fmt, plan))
<1> DEFINE keyOf(id) == (CHOOSE r \in Backfills(plan) : <<r.path, r.summary>> = id).key
           ids == {<<r.path, r.summary>> : r \in Backfills(plan)}
           tags == Backfilled(plan)
           new(p) == NewOf(plan, p)
           w == Applied(j, fs, fmt, plan)
           Old(p, n) == n \in DOMAIN fs[p].sc /\ w[p].sc[n].tag = fs[p].sc[n].tag
           Filled(p, n, r) == /\ r \in Backfills(plan) /\ r.path = p /\ n \in DOMAIN fs[p].sc
                              /\ r.summary = fs[p].sc[n].summary /\ w[p].sc[n].tag = r.key
           Added(p, n, i) == /\ i \in 1..Len(new(p)) /\ n = i + Len(fs[p].sc)
                             /\ w[p].sc[n].tag = new(p)[i].key
<1>1. /\ DOMAIN w = DOMAIN fs
      /\ \A p \in DOMAIN w : \A n \in DOMAIN w[p].sc :
           \/ n \in DOMAIN fs[p].sc /\ w[p].sc[n].tag = FinalKey(At(fs, p, n), tags)
           \/ \E i \in 1..Len(new(p)) : /\ n = i + Len(fs[p].sc) /\ n \notin DOMAIN fs[p].sc
                                        /\ w[p].sc[n].tag = new(p)[i].key
  BY AppliedIs
<1>. HIDE DEF w
<1>2. ASSUME NEW p \in DOMAIN w, NEW n \in DOMAIN w[p].sc
      PROVE  Old(p, n) \/ (\E r : Filled(p, n, r)) \/ (\E i : Added(p, n, i))
  <2>1. CASE n \in DOMAIN fs[p].sc /\ w[p].sc[n].tag = FinalKey(At(fs, p, n), tags)
    <3> DEFINE id == <<p, fs[p].sc[n].summary>>
    <3>1. FinalKey(At(fs, p, n), tags) = IF id \in DOMAIN tags THEN tags[id] ELSE fs[p].sc[n].tag
      <4>. HIDE DEF tags
      <4>. QED  BY DEF FinalKey, At
    <3>2. CASE id \notin ids
      <4>1. DOMAIN tags = ids
        BY DEF Backfilled
      <4>. HIDE DEF tags, ids
      <4>. QED  BY <2>1, <3>1, <3>2, <4>1
    <3>3. CASE id \in ids
      <4> DEFINE r == CHOOSE r \in Backfills(plan) : <<r.path, r.summary>> = id
      <4>1. r \in Backfills(plan) /\ <<r.path, r.summary>> = id
        <5>1. \E q \in Backfills(plan) : <<q.path, q.summary>> = id
          BY <3>3
        <5>. HIDE DEF id
        <5>. QED  BY <5>1, Zenon
      <4>2. id \in DOMAIN tags /\ tags[id] = r.key
        BY <3>3 DEF Backfilled
      <4>. HIDE DEF r, tags, ids
      <4>3. Filled(p, n, r)
        BY <2>1, <3>1, <4>1, <4>2
      <4>. QED  BY <4>3
    <3>. QED  BY <3>2, <3>3
  <2>2. CASE \E i \in 1..Len(new(p)) : /\ n = i + Len(fs[p].sc) /\ n \notin DOMAIN fs[p].sc
                                       /\ w[p].sc[n].tag = new(p)[i].key
    <3>. HIDE DEF new
    <3>. QED  BY <2>2
  <2>. HIDE DEF new, tags, Old, Filled, Added
  <2>. QED  BY <1>1, <2>1, <2>2
<1>3. ASSUME NEW p \in DOMAIN fs
      PROVE  /\ Len(new(p)) \in Nat /\ Len(fs[p].sc) \in Nat
             /\ \A i \in 1..Len(new(p)) : new(p)[i] \in NewIn(plan, p)
             /\ \A i, k \in 1..Len(new(p)) : new(p)[i] = new(p)[k] => i = k
  <2>1. IsFiniteSet(NewIn(plan, p))
    BY FS_Subset DEF NewIn
  <2>2. fs[p].sc \in Seq(ToSet(fs[p].sc))
    BY DEF AreFiles, IsFile
  <2>. QED  BY <2>1, <2>2, SetToSeqIs DEF NewOf
<1>4. /\ \A r \in Backfills(plan) : r \in plan /\ r.status = "BACKFILL_TAG" /\ r.key \notin Tagged(fs)
      /\ \A p : \A r \in NewIn(plan, p) : /\ r \in plan /\ r.status \in {"ADD", "NEW_FILE"}
                                          /\ r.path = p /\ r.key \notin Tagged(fs)
  BY DEF Backfills, NewIn, Actionable
<1>5. \A p \in DOMAIN w : \A n : Old(p, n) /\ fs[p].sc[n].tag # None => w[p].sc[n].tag \in Tagged(fs)
  BY <1>1, TaggedIs
<1>. HIDE DEF new, keyOf, ids
(* Which proposal gave a scenario its key follows from the key.            *)
<1>6. ASSUME NEW p \in DOMAIN w, NEW q \in DOMAIN w, NEW n \in DOMAIN w[p].sc,
             NEW m \in DOMAIN w[q].sc, w[p].sc[n].tag = w[q].sc[m].tag, w[p].sc[n].tag # None
      PROVE  p = q /\ n = m
  <2>1. p \in DOMAIN fs /\ q \in DOMAIN fs
    BY <1>1
  <2>2. CASE Old(p, n) /\ Old(q, m)
    <3>1. fs[p].sc[n].tag = fs[q].sc[m].tag /\ fs[p].sc[n].tag # None
          /\ n \in DOMAIN fs[p].sc /\ m \in DOMAIN fs[q].sc
      BY <1>6, <2>2
    <3>. HIDE DEF Old, Filled, Added
    <3>. QED  BY <2>1, <3>1 DEF OneOwner
  <2>3. ASSUME NEW a \in DOMAIN w, NEW b \in DOMAIN w, NEW x, NEW y, NEW r, NEW i,
               Old(a, x), Filled(b, y, r) \/ Added(b, y, i),
               w[a].sc[x].tag = w[b].sc[y].tag, w[a].sc[x].tag # None
        PROVE  FALSE
    <3>1. w[a].sc[x].tag \in Tagged(fs)
      BY <1>5, <2>3
    <3>2. b \in DOMAIN fs
      BY <1>1
    <3>3. w[b].sc[y].tag \notin Tagged(fs)
      BY <1>3, <1>4, <2>3, <3>2
    <3>. QED  BY <2>3, <3>1, <3>3
  <2>4. ASSUME NEW r, NEW s, Filled(p, n, r), Filled(q, m, s)
        PROVE  p = q /\ n = m
    <3>1. r = s
      <4>1. r.key = s.key /\ r \in Backfills(plan) /\ s \in Backfills(plan)
        BY <1>6, <2>4
      <4>2. r \in plan /\ s \in plan
        BY <1>4, <4>1
      <4>. HIDE DEF Old, Filled, Added
      <4>. QED  BY <4>1, <4>2
    <3> DEFINE S == {x \in DOMAIN fs[p].sc : fs[p].sc[x].summary = r.summary}
    <3>2. p = q /\ n \in S /\ m \in S
      BY <2>4, <3>1
    <3>3. Cardinality(S) = 1
      BY <2>4, Zenon DEF PullApplies
    <3>4. IsFiniteSet(S)
      <4>1. DOMAIN fs[p].sc = 1..Len(fs[p].sc)
        <5>1. fs[p].sc \in Seq(ToSet(fs[p].sc))
          BY <2>1 DEF AreFiles, IsFile
        <5>. QED  BY <5>1
      <4>2. IsFiniteSet(1..Len(fs[p].sc))
        <5>1. Len(fs[p].sc) \in Int /\ 1 \in Int
          BY <1>3, <2>1
        <5>. QED  BY <5>1, FS_Interval, Zenon
      <4>. QED  BY <4>1, <4>2, FS_Subset
    <3>. HIDE DEF S
    <3>. QED  BY <3>2, <3>3, <3>4, OneOf
  <2>5. ASSUME NEW a \in DOMAIN w, NEW b \in DOMAIN w, NEW x, NEW y, NEW r, NEW i,
               Filled(a, x, r), Added(b, y, i), w[a].sc[x].tag = w[b].sc[y].tag
        PROVE  FALSE
    <3>1. b \in DOMAIN fs /\ new(b)[i] \in NewIn(plan, b)
      BY <1>1, <1>3, <2>5
    <3>2. r = new(b)[i]
      <4>1. r.key = new(b)[i].key /\ r \in Backfills(plan)
        BY <2>5
      <4>2. r \in plan /\ new(b)[i] \in plan
        BY <1>4, <3>1, <4>1
      <4>. HIDE DEF Old, Filled, Added
      <4>. QED  BY <4>1, <4>2
    <3>. QED  BY <1>4, <2>5, <3>1, <3>2
  <2>6. ASSUME NEW i, NEW k, Added(p, n, i), Added(q, m, k)
        PROVE  p = q /\ n = m
    <3>1. new(p)[i] \in NewIn(plan, p) /\ new(q)[k] \in NewIn(plan, q)
      BY <1>3, <2>1, <2>6
    <3>2. new(p)[i] = new(q)[k]
      BY <1>4, <1>6, <2>6, <3>1
    <3>3. p = q
      BY <1>4, <3>1, <3>2
    <3>4. i = k
      BY <1>3, <2>1, <2>6, <3>2, <3>3
    <3>. QED  BY <2>6, <3>3, <3>4
  <2>. HIDE DEF Old, Filled, Added
  <2>7. Old(p, n) \/ (\E r : Filled(p, n, r)) \/ (\E i : Added(p, n, i))
    BY <1>2
  <2>8. Old(q, m) \/ (\E r : Filled(q, m, r)) \/ (\E i : Added(q, m, i))
    BY <1>2
  <2>9. CASE Old(p, n)
    BY <1>6, <2>2, <2>3, <2>8, <2>9
  <2>10. CASE \E r : Filled(p, n, r)
    BY <1>6, <2>3, <2>4, <2>5, <2>8, <2>10
  <2>11. CASE \E i : Added(p, n, i)
    BY <1>6, <2>3, <2>5, <2>6, <2>8, <2>11
  <2>. QED  BY <2>7, <2>9, <2>10, <2>11
<1>7. OneOwner(w)
  BY <1>6 DEF OneOwner
<1>. QED  BY <1>7 DEF w

-----------------------------------------------------------------------------
(* One update.                                                              *)

(* How far an update has come.  d is a test, or the body of a scenario.    *)
IsManual(d) == d.kind = "manual"
IsCucumber(d) == d.kind = "cucumber"
NoSteps(t) == t.steps = ""
HalfSteps(t) == t.steps = "half"
NoGherkin(t) == t.gherkin = ""
Drops(e) == "kind" \in e.changes
Reached(t, e, step) ==
    \/ Drops(e) /\ IsCucumber(e.x.def) /\ step = 2 /\ IsManual(t) /\ NoSteps(t)
    \/ Drops(e) /\ IsCucumber(e.x.def) /\ step = 3 /\ IsCucumber(t) /\ NoSteps(t)
    \/ Drops(e) /\ IsManual(e.x.def) /\ step = 2 /\ IsCucumber(t) /\ NoSteps(t) /\ NoGherkin(t)
    \/ Drops(e) /\ IsManual(e.x.def) /\ step = 3 /\ IsManual(t) /\ NoSteps(t) /\ NoGherkin(t)
    \/ Drops(e) /\ IsManual(e.x.def) /\ step = 4 /\ IsManual(t) /\ HalfSteps(t) /\ NoGherkin(t)
    \/ ~Drops(e) /\ IsManual(e.x.def) /\ step = 2 /\ IsManual(t) /\ NoSteps(t)
    \/ ~Drops(e) /\ IsManual(e.x.def) /\ step = 3 /\ IsManual(t) /\ HalfSteps(t)

(* diff_test, change by change.                                            *)
LEMMA ChangesAre ==
    ASSUME NEW t, IsTest(t), NEW x, NEW story
    PROVE  LET c == Changes(t, x, story) IN
           /\ "summary" \in c <=> t.summary # x.summary
           /\ "kind" \in c <=> t.kind # x.def.kind
           /\ "definition" \in c <=> t.kind = x.def.kind /\ Current(t) # x.def.text
           /\ "story_link" \in c <=> story # None /\ story \notin t.links
           /\ c \subseteq {"summary", "kind", "definition", "story_link"}
<1> DEFINE c == Changes(t, x, story)
           a == IF t.summary # x.summary THEN {"summary"} ELSE {}
           b == IF t.kind # x.def.kind THEN {"kind"}
                ELSE IF Current(t) # x.def.text THEN {"definition"} ELSE {}
           d == IF story # None /\ story \notin t.links THEN {"story_link"} ELSE {}
<1>1. c = a \union b \union d
  BY DEF Changes
<1>2. /\ \A v : v \in a <=> v = "summary" /\ t.summary # x.summary
      /\ \A v : v \in d <=> v = "story_link" /\ story # None /\ story \notin t.links
  OBVIOUS
<1>3. \A v : v \in b <=> \/ v = "kind" /\ t.kind # x.def.kind
                         \/ v = "definition" /\ t.kind = x.def.kind /\ Current(t) # x.def.text
  OBVIOUS
<1>. HIDE DEF a, b, c, d
<1>. QED  BY <1>1, <1>2, <1>3 DEF c

(* A test that says what the scenario says has none.                       *)
LEMMA NoChanges ==
    ASSUME NEW t, IsTest(t), NEW x, NEW story, t.summary = x.summary, t.kind = x.def.kind,
           Current(t) = x.def.text, story # None => story \in t.links
    PROVE  Changes(t, x, story) = {}
<1> DEFINE c == Changes(t, x, story)
<1>1. /\ "summary" \notin c /\ "kind" \notin c /\ "definition" \notin c /\ "story_link" \notin c
      /\ c \subseteq {"summary", "kind", "definition", "story_link"}
  BY ChangesAre
<1>. HIDE DEF c
<1>2. c = {}
  BY <1>1
<1>. QED  BY <1>2 DEF c

(* Nothing is left to change.                                              *)
UpToDate(t, e) == Changes(t, e.x, e.story) = {}

(* update_body: one PUT says everything the scenario says.                 *)
LEMMA PutIs ==
    ASSUME NEW t, IsTest(t), Clean(t), NEW e, e.x.def.kind \in {"manual", "cucumber"},
           e.changes = Changes(t, e.x, e.story)
    PROVE  /\ IsTest(Put(t, e)) /\ Clean(Put(t, e))
           /\ UpToDate(Put(t, e), e)
<1> DEFINE u == Put(t, e)
           redefined == e.changes \intersect {"kind", "definition"} # {}
           to == e.x.def.kind
           drop == "kind" \in e.changes
           links == IF "story_link" \in e.changes THEN t.links \union {e.story} ELSE t.links
           steps == CASE to = "manual" /\ redefined -> e.x.def.text
                      [] to # "manual" /\ drop      -> ""
                      [] OTHER                      -> t.steps
           gherkin == CASE to = "cucumber" /\ redefined -> e.x.def.text
                        [] to # "cucumber" /\ drop      -> ""
                        [] OTHER                        -> t.gherkin
<1>1. u = Test(e.x.summary, links, to, steps, gherkin)
  BY Zenon DEF Put
<1>2. /\ u.summary = e.x.summary /\ u.links = links /\ u.kind = to
      /\ u.steps = steps /\ u.gherkin = gherkin
      /\ u = Test(u.summary, u.links, u.kind, u.steps, u.gherkin)
  <2>. HIDE DEF u, links, to, steps, gherkin
  <2>. QED  BY <1>1 DEF Test
<1>3. /\ "kind" \in e.changes <=> t.kind # to
      /\ "definition" \in e.changes <=> t.kind = to /\ Current(t) # e.x.def.text
      /\ "story_link" \in e.changes <=> e.story # None /\ e.story \notin t.links
  BY ChangesAre
<1>4. redefined <=> "kind" \in e.changes \/ "definition" \in e.changes
  OBVIOUS
<1>5. t.kind \in {"manual", "cucumber"}
  BY DEF IsTest
<1>6. to = "manual" => steps = e.x.def.text /\ gherkin = ""
  <2>. HIDE DEF u, links
  <2>. QED  BY <1>3, <1>4, <1>5 DEF Clean, Current
<1>7. to = "cucumber" => gherkin = e.x.def.text /\ steps = ""
  <2>. HIDE DEF u, links
  <2>. QED  BY <1>3, <1>4, <1>5 DEF Clean, Current
<1>8. e.story # None => e.story \in links
  BY <1>3
<1>9. IsTest(u) /\ Clean(u)
  <2>. HIDE DEF u, links, steps, gherkin
  <2>. QED  BY <1>2, <1>6, <1>7 DEF IsTest, Clean
<1>10. Changes(u, e.x, e.story) = {}
  <2>1. u.kind = e.x.def.kind /\ Current(u) = e.x.def.text
    <3>. HIDE DEF u, links, steps, gherkin
    <3>. QED  BY <1>2, <1>6, <1>7 DEF Current
  <2>. HIDE DEF u, links
  <2>. QED  BY <1>2, <1>8, <1>9, <2>1, NoChanges
<1>. QED  BY <1>9, <1>10 DEF UpToDate

(* One mutation changes one field.                                         *)
LEMMA MutatedField ==
    ASSUME NEW t, IsTest(t), NEW m, NEW e
    PROVE  LET u == Mutated(t, m, e) IN
           /\ u = Test(u.summary, u.links, u.kind, u.steps, u.gherkin)
           /\ u.summary = t.summary /\ u.links = t.links
           /\ m # "updateTestType" => /\ IsManual(u) <=> IsManual(t)
                                      /\ IsCucumber(u) <=> IsCucumber(t)
           /\ m = "updateTestType" => /\ IsManual(u) <=> IsManual(e.x.def)
                                      /\ IsCucumber(u) <=> IsCucumber(e.x.def)
           /\ m \in {"clearGherkin", "updateTestType", "gherkin"} =>
                (NoSteps(u) <=> NoSteps(t)) /\ (HalfSteps(u) <=> HalfSteps(t))
           /\ m = "removeAllSteps" => NoSteps(u)
           /\ m \in {"removeAllSteps", "updateTestType", "addStep"} =>
                (NoGherkin(u) <=> NoGherkin(t))
           /\ m = "clearGherkin" => NoGherkin(u)
           /\ m = "gherkin" => u.gherkin = e.x.def.text
           /\ m = "addStep" /\ NoSteps(t) => HalfSteps(u)
           /\ m = "addStep" /\ ~NoSteps(t) => u.steps = e.x.def.text
<1> DEFINE u == Mutated(t, m, e)
<1>1. t = Test(t.summary, t.links, t.kind, t.steps, t.gherkin)
  BY DEF IsTest
<1>. USE DEF IsManual, IsCucumber, NoSteps, HalfSteps, NoGherkin
<1>2. CASE m = "removeAllSteps"
  <2>1. u = [t EXCEPT !.steps = ""]
    BY <1>2 DEF Mutated
  <2>. HIDE DEF u
  <2>. QED  BY <1>1, <1>2, <2>1 DEF Test, u
<1>3. CASE m = "clearGherkin"
  <2>1. u = [t EXCEPT !.gherkin = ""]
    BY <1>3 DEF Mutated
  <2>. HIDE DEF u
  <2>. QED  BY <1>1, <1>3, <2>1 DEF Test, u
<1>4. CASE m = "updateTestType"
  <2>1. u = [t EXCEPT !.kind = e.x.def.kind]
    BY <1>4 DEF Mutated
  <2>. HIDE DEF u
  <2>. QED  BY <1>1, <1>4, <2>1 DEF Test, u
<1>5. CASE m = "gherkin"
  <2>1. u = [t EXCEPT !.gherkin = e.x.def.text]
    BY <1>5 DEF Mutated
  <2>. HIDE DEF u
  <2>. QED  BY <1>1, <1>5, <2>1 DEF Test, u
<1>6. CASE m \notin {"removeAllSteps", "clearGherkin", "updateTestType", "gherkin"}
  <2> DEFINE s == IF t.steps = "" THEN "half" ELSE e.x.def.text
  <2>1. u = [t EXCEPT !.steps = s]
    BY <1>6 DEF Mutated
  <2>. HIDE DEF u, s
  <2>. QED  BY <1>1, <1>6, <2>1 DEF Test, u, s
<1>. QED  BY <1>2, <1>3, <1>4, <1>5, <1>6

(* mutations: one of them, of an update that Cloud allows.                 *)
LEMMA MutatedIs ==
    ASSUME NEW t, IsTest(t), Clean(t), NEW e, NEW step \in Nat \ {0},
           deployment = "cloud", e.x.def.kind \in {"manual", "cucumber"},
           Blocked(e.changes) = None,
           step = 1 => e.changes = Changes(t, e.x, e.story),
           step > 1 => /\ t.summary = e.x.summary
                       /\ e.story # None => e.story \in t.links
                       /\ Reached(t, e, step)
    PROVE  LET u == Mutated(t, Mutations(e)[step], e) IN
           /\ IsTest(u) /\ Clean(u)
           /\ u.summary = e.x.summary
           /\ e.story # None => e.story \in u.links
           /\ step = Len(Mutations(e)) => Changes(u, e.x, e.story) = {}
           /\ step # Len(Mutations(e)) => Reached(u, e, step + 1)
<1> DEFINE m == Mutations(e)
           op == m[step]
           u == Mutated(t, op, e)
           d == e.x.def
<1>1. e.changes \intersect {"summary", "story_link"} = {}
  BY RulesAssumption DEF Blocked
<1>2. /\ t.summary = e.x.summary
      /\ e.story # None => e.story \in t.links
      /\ step = 1 => (Drops(e) <=> t.kind # e.x.def.kind)
  <2>1. CASE step = 1
    <3>1. e.changes = Changes(t, e.x, e.story)
      BY <2>1
    <3>. QED  BY <1>1, <3>1, ChangesAre DEF Drops
  <2>2. CASE step # 1
    BY <2>2
  <2>. QED  BY <2>1, <2>2
<1>3. \/ /\ Drops(e) /\ IsCucumber(d) /\ ~IsManual(d)
         /\ m = <<"removeAllSteps", "updateTestType", "gherkin">>
      \/ /\ Drops(e) /\ IsManual(d) /\ ~IsCucumber(d)
         /\ m = <<"clearGherkin", "updateTestType", "addStep", "addStep">>
      \/ ~Drops(e) /\ IsCucumber(d) /\ ~IsManual(d) /\ m = <<"gherkin">>
      \/ ~Drops(e) /\ IsManual(d) /\ ~IsCucumber(d) /\ m = <<"removeAllSteps", "addStep", "addStep">>
  BY DEF Mutations, IsManual, IsCucumber, Drops
<1>4. /\ IsManual(t) \/ IsCucumber(t)
      /\ ~(IsManual(t) /\ IsCucumber(t))
      /\ ~(NoSteps(t) /\ HalfSteps(t))
      /\ IsManual(t) => NoGherkin(t)
      /\ IsCucumber(t) => NoSteps(t)
  BY DEF IsTest, IsManual, IsCucumber, NoSteps, HalfSteps, NoGherkin, Clean
<1>5. step = 1 => (Drops(e) <=> (IsManual(t) /\ IsCucumber(d)) \/ (IsCucumber(t) /\ IsManual(d)))
  <2>1. t.kind \in {"manual", "cucumber"}
    BY DEF IsTest
  <2>. QED  BY <1>2, <2>1 DEF IsManual, IsCucumber
<1>6. step > 1 => Reached(t, e, step)
  OBVIOUS
<1>. HIDE DEF m, op
<1>7. /\ u = Test(u.summary, u.links, u.kind, u.steps, u.gherkin)
      /\ u.summary = t.summary /\ u.links = t.links
      /\ op # "updateTestType" => /\ IsManual(u) <=> IsManual(t)
                                  /\ IsCucumber(u) <=> IsCucumber(t)
      /\ op = "updateTestType" => /\ IsManual(u) <=> IsManual(d)
                                  /\ IsCucumber(u) <=> IsCucumber(d)
      /\ op \in {"clearGherkin", "updateTestType", "gherkin"} =>
                (NoSteps(u) <=> NoSteps(t)) /\ (HalfSteps(u) <=> HalfSteps(t))
      /\ op = "removeAllSteps" => NoSteps(u)
      /\ op \in {"removeAllSteps", "updateTestType", "addStep"} =>
                (NoGherkin(u) <=> NoGherkin(t))
      /\ op = "clearGherkin" => NoGherkin(u)
      /\ op = "gherkin" => u.gherkin = d.text
      /\ op = "addStep" /\ NoSteps(t) => HalfSteps(u)
      /\ op = "addStep" /\ ~NoSteps(t) => u.steps = d.text
  BY MutatedField
<1>. HIDE DEF u, d
<1> DEFINE There == /\ \/ IsManual(u) /\ NoGherkin(u) /\ ~IsCucumber(u)
                       \/ IsCucumber(u) /\ NoSteps(u) /\ ~IsManual(u)
                    /\ step = Len(m) => /\ IsManual(u) <=> IsManual(d)
                                        /\ IsManual(u) => u.steps = d.text
                                        /\ IsCucumber(u) => u.gherkin = d.text
                    /\ step # Len(m) => Reached(u, e, step + 1)
<1>8. ASSUME /\ Drops(e) /\ IsCucumber(d) /\ ~IsManual(d)
           /\ m = <<"removeAllSteps", "updateTestType", "gherkin">>
      PROVE  There
  <2>1. \/ step = 1 /\ IsManual(t) /\ NoGherkin(t) /\ op = "removeAllSteps"
        \/ step = 2 /\ IsManual(t) /\ NoSteps(t) /\ op = "updateTestType"
        \/ step = 3 /\ IsCucumber(t) /\ NoSteps(t) /\ op = "gherkin"
    BY <1>4, <1>5, <1>6, <1>8 DEF Reached, op, d
  <2>2. Len(m) = 3
    BY <1>8
  <2>3. There
    BY <1>4, <1>7, <1>8, <2>1, <2>2 DEF Reached, d
  <2>. QED  BY <2>3
<1>9. ASSUME /\ Drops(e) /\ IsManual(d) /\ ~IsCucumber(d)
           /\ m = <<"clearGherkin", "updateTestType", "addStep", "addStep">>
      PROVE  There
  <2>1. \/ step = 1 /\ IsCucumber(t) /\ NoSteps(t) /\ op = "clearGherkin"
        \/ step = 2 /\ IsCucumber(t) /\ NoSteps(t) /\ NoGherkin(t) /\ op = "updateTestType"
        \/ step = 3 /\ IsManual(t) /\ NoSteps(t) /\ NoGherkin(t) /\ op = "addStep"
        \/ step = 4 /\ IsManual(t) /\ HalfSteps(t) /\ NoGherkin(t) /\ op = "addStep"
    BY <1>4, <1>5, <1>6, <1>9 DEF Reached, op, d
  <2>2. Len(m) = 4
    BY <1>9
  <2>3. There
    BY <1>4, <1>7, <1>9, <2>1, <2>2 DEF Reached, d
  <2>. QED  BY <2>3
<1>10. ASSUME ~Drops(e) /\ IsCucumber(d) /\ ~IsManual(d) /\ m = <<"gherkin">>
       PROVE  There
  <2>1. step = 1 /\ IsCucumber(t) /\ NoSteps(t) /\ op = "gherkin"
    BY <1>4, <1>5, <1>6, <1>10 DEF Reached, op, d
  <2>2. Len(m) = 1
    BY <1>10
  <2>3. There
    BY <1>4, <1>7, <1>10, <2>1, <2>2 DEF Reached, d
  <2>. QED  BY <2>3
<1>11. ASSUME /\ ~Drops(e) /\ IsManual(d) /\ ~IsCucumber(d)
            /\ m = <<"removeAllSteps", "addStep", "addStep">>
      PROVE  There
  <2>1. \/ step = 1 /\ IsManual(t) /\ NoGherkin(t) /\ op = "removeAllSteps"
        \/ step = 2 /\ IsManual(t) /\ NoSteps(t) /\ NoGherkin(t) /\ op = "addStep"
        \/ step = 3 /\ IsManual(t) /\ HalfSteps(t) /\ NoGherkin(t) /\ op = "addStep"
    BY <1>4, <1>5, <1>6, <1>11 DEF Reached, op, d
  <2>2. Len(m) = 3
    BY <1>11
  <2>3. There
    BY <1>4, <1>7, <1>11, <2>1, <2>2 DEF Reached, d
  <2>. QED  BY <2>3
<1>12. There
  <2>. HIDE DEF There
  <2>. QED  BY <1>3, <1>8, <1>9, <1>10, <1>11
<1>13. IsTest(u) /\ Clean(u)
  BY <1>7, <1>12 DEF IsTest, Clean, IsManual, IsCucumber, NoSteps, NoGherkin
<1>14. u.summary = e.x.summary /\ (e.story # None => e.story \in u.links)
  BY <1>2, <1>7
<1>15. step = Len(m) => Changes(u, e.x, e.story) = {}
  <2>1. step = Len(m) => u.kind = e.x.def.kind /\ Current(u) = e.x.def.text
    BY <1>12 DEF Current, IsManual, IsCucumber, d
  <2>. QED  BY <1>13, <1>14, <2>1, NoChanges
<1>. QED  BY <1>12, <1>13, <1>14, <1>15 DEF m, u, op

-----------------------------------------------------------------------------
(* The invariant: the shape of the state, and how an entry is settled.      *)

(* The run in progress, and the whole state.                               *)
RunOK ==
    /\ run = [kind |-> run.kind, phase |-> run.phase, entries |-> run.entries,
              owned |-> run.owned, step |-> run.step]
    /\ run.step \in Nat \ {0}
    /\ run.entries \in Seq(ToSet(run.entries))
    /\ \A i \in DOMAIN run.entries : IsEntry(run.entries[i])

ShapeInv ==
    /\ deployment \in {"server", "cloud"}
    /\ AreFiles(files)
    /\ AreTests(jira)
    /\ RunOK

(* The entry under way is one that waits.                                  *)
LEMMA CurrentIs ==
    ASSUME RunOK, Waiting # {}
    PROVE  /\ Current1 \in DOMAIN run.entries
           /\ run.entries[Current1].status \in Planned
           /\ Waiting \subseteq Nat
<1>1. run.entries \in Seq(ToSet(run.entries))
  BY DEF RunOK
<1>2. DOMAIN run.entries \subseteq Nat
  BY <1>1
<1>3. Waiting \in SUBSET Nat
  BY <1>2 DEF Waiting
<1>4. \E i \in Waiting : \A j \in Waiting : i <= j
  BY <1>3, Smallest
<1>5. Current1 \in Waiting
  BY <1>4 DEF Current1
<1>. QED  BY <1>3, <1>5 DEF Waiting

(* The entry under way gets this result; another stays, or is given up.    *)
Results(status, key, reason) ==
    /\ RunOK'
    /\ run'.kind = run.kind /\ run'.phase = run.phase /\ run'.owned = run.owned
    /\ run'.step = 1
    /\ DOMAIN run'.entries = DOMAIN run.entries
    /\ \A i \in DOMAIN run.entries :
         /\ i # Current1 =>
              \/ run'.entries[i] = run.entries[i]
              \/ run.entries[i].status \in Planned /\ run'.entries[i].status = "ERROR"
         /\ i = Current1 =>
              /\ run'.entries[i].status = status /\ run'.entries[i].key = key
              /\ run'.entries[i].reason = reason
              /\ run'.entries[i].x = run.entries[i].x
              /\ run'.entries[i].story = run.entries[i].story

(* A function on the indices of a sequence is a sequence.                  *)
LEMMA EntriesAre ==
    ASSUME NEW es, NEW q, es \in Seq(ToSet(es)), DOMAIN q = DOMAIN es,
           q = [i \in DOMAIN q |-> q[i]]
    PROVE  q \in Seq(ToSet(q))
<1>1. Len(es) \in Nat /\ DOMAIN es = 1..Len(es)
  BY DEF ToSet
<1> DEFINE n == Len(es)
<1>2. q = [i \in 1..n |-> q[i]]
  BY <1>1
<1>3. \A i \in 1..n : q[i] \in ToSet(q)
  BY <1>1 DEF ToSet
<1>. HIDE DEF n
<1>4. n \in Nat
  BY <1>1 DEF n
<1>. QED  BY <1>2, <1>3, <1>4

(* The entry under way is settled; every other is as it was.               *)
LEMMA SettledIs ==
    ASSUME RunOK, Waiting # {}, NEW status, NEW key, NEW reason
    PROVE  LET q == Settled(status, key, reason) IN
           /\ DOMAIN q = DOMAIN run.entries /\ q = [i \in DOMAIN q |-> q[i]]
           /\ \A i \in DOMAIN run.entries :
                /\ IsEntry(q[i])
                /\ i # Current1 => q[i] = run.entries[i]
                /\ i = Current1 =>
                     /\ q[i].status = status /\ q[i].key = key /\ q[i].reason = reason
                     /\ q[i].x = run.entries[i].x /\ q[i].story = run.entries[i].story
<1> DEFINE c == Current1
           e == run.entries[c]
           q == Settled(status, key, reason)
           d == [x |-> e.x, status |-> status, key |-> key, story |-> e.story,
                 reason |-> reason, changes |-> e.changes]
<1>1. c \in DOMAIN run.entries /\ IsEntry(e)
  BY CurrentIs DEF RunOK
<1>2. e = [x |-> e.x, status |-> e.status, key |-> e.key, story |-> e.story,
           reason |-> e.reason, changes |-> e.changes] /\ IsBody(e.x.def)
  BY <1>1 DEF IsEntry
<1>3. q = [run.entries EXCEPT ![c].status = status, ![c].key = key, ![c].reason = reason]
  BY DEF Settled
<1>4. q = [i \in DOMAIN run.entries |-> IF i = c THEN d ELSE run.entries[i]]
  <2>. HIDE DEF q, c
  <2>. QED  BY <1>1, <1>2, <1>3
<1>5. IsEntry(d) /\ d.status = status /\ d.key = key /\ d.reason = reason
       /\ d.x = e.x /\ d.story = e.story
  <2>. HIDE DEF e
  <2>. QED  BY <1>2 DEF IsEntry
<1>6. \A i \in DOMAIN run.entries : i # c => IsEntry(run.entries[i])
  BY DEF RunOK
<1>. HIDE DEF q, d, c, e
<1>7. DOMAIN q = DOMAIN run.entries /\ q = [i \in DOMAIN q |-> q[i]]
  BY <1>4
<1>8. \A i \in DOMAIN run.entries : (i = c => q[i] = d) /\ (i # c => q[i] = run.entries[i])
  BY <1>4
<1>9. ASSUME NEW i \in DOMAIN run.entries
      PROVE  /\ IsEntry(q[i])
             /\ i # c => q[i] = run.entries[i]
             /\ i = c => /\ q[i].status = status /\ q[i].key = key /\ q[i].reason = reason
                         /\ q[i].x = run.entries[i].x /\ q[i].story = run.entries[i].story
  <2>1. CASE i = c
    BY <1>5, <1>8, <2>1 DEF e
  <2>2. CASE i # c
    BY <1>6, <1>8, <2>2
  <2>. QED  BY <2>1, <2>2
<1>. QED  BY <1>7, <1>9 DEF q, c

(* The run goes on: only the entry under way has changed.                  *)
LEMMA GoOnIs ==
    ASSUME RunOK, Waiting # {}, NEW status, NEW key, NEW reason,
           status \notin Planned, GoOn(status, key, reason)
    PROVE  /\ Results(status, key, reason)
           /\ \A i \in DOMAIN run.entries : i # Current1 => run'.entries[i] = run.entries[i]
<1> DEFINE q == Settled(status, key, reason)
<1>1. /\ DOMAIN q = DOMAIN run.entries /\ q = [i \in DOMAIN q |-> q[i]]
      /\ \A i \in DOMAIN run.entries :
           /\ IsEntry(q[i])
           /\ i # Current1 => q[i] = run.entries[i]
           /\ i = Current1 =>
                /\ q[i].status = status /\ q[i].key = key /\ q[i].reason = reason
                /\ q[i].x = run.entries[i].x /\ q[i].story = run.entries[i].story
  BY SettledIs
<1>2. run' = [run EXCEPT !.entries = q, !.step = 1]
  BY DEF GoOn
<1>. HIDE DEF q
<1>3. run' = [kind |-> run.kind, phase |-> run.phase, entries |-> q, owned |-> run.owned,
              step |-> 1]
  BY <1>2 DEF RunOK
<1>4. q \in Seq(ToSet(q))
  BY <1>1, EntriesAre DEF RunOK
<1>5. RunOK'
  BY <1>1, <1>3, <1>4 DEF RunOK
<1>. QED  BY <1>1, <1>3, <1>5 DEF Results

(* The run stops: nothing waits any more.                                  *)
LEMMA StopIs ==
    ASSUME RunOK, Waiting # {}, NEW key, NEW reason, Stop(key, reason)
    PROVE  Results("ERROR", key, reason) /\ Waiting' = {}
<1> DEFINE s == Settled("ERROR", key, reason)
           q == NotAttempted(s)
<1>1. /\ DOMAIN s = DOMAIN run.entries /\ s = [i \in DOMAIN s |-> s[i]]
      /\ \A i \in DOMAIN run.entries :
           /\ IsEntry(s[i])
           /\ i # Current1 => s[i] = run.entries[i]
           /\ i = Current1 =>
                /\ s[i].status = "ERROR" /\ s[i].key = key /\ s[i].reason = reason
                /\ s[i].x = run.entries[i].x /\ s[i].story = run.entries[i].story
  BY SettledIs
<1>2. run' = [run EXCEPT !.entries = q, !.step = 1]
  BY DEF Stop
<1>. HIDE DEF s
<1>3. q = [i \in DOMAIN run.entries |->
             IF s[i].status \in Planned
               THEN [s[i] EXCEPT !.status = "ERROR", !.reason = "not_attempted"]
               ELSE s[i]]
  BY <1>1 DEF NotAttempted
<1>. HIDE DEF q
<1>4. ASSUME NEW i \in DOMAIN run.entries
      PROVE  /\ s[i].status \notin Planned => q[i] = s[i]
             /\ s[i].status \in Planned => IsEntry(q[i]) /\ q[i].status = "ERROR"
  <2>1. s[i].status \notin Planned => q[i] = s[i]
    BY <1>3
  <2>2. s[i].status \in Planned =>
          q[i] = [s[i] EXCEPT !.status = "ERROR", !.reason = "not_attempted"]
    BY <1>3
  <2>3. IsEntry(s[i])
    BY <1>1
  <2>. QED  BY <2>1, <2>2, <2>3 DEF IsEntry
<1>5. ASSUME NEW i \in DOMAIN run.entries
      PROVE  /\ IsEntry(q[i])
             /\ q[i].status \notin Planned
             /\ i # Current1 => \/ q[i] = run.entries[i]
                                \/ run.entries[i].status \in Planned /\ q[i].status = "ERROR"
             /\ i = Current1 => /\ q[i].status = "ERROR" /\ q[i].key = key
                                /\ q[i].reason = reason
                                /\ q[i].x = run.entries[i].x /\ q[i].story = run.entries[i].story
  <2>1. "ERROR" \notin Planned
    BY DEF Planned
  <2>2. CASE s[i].status \in Planned
    BY <1>1, <1>4, <2>1, <2>2
  <2>3. CASE s[i].status \notin Planned
    BY <1>1, <1>4, <2>1, <2>3
  <2>. QED  BY <2>2, <2>3
<1>6. run' = [kind |-> run.kind, phase |-> run.phase, entries |-> q, owned |-> run.owned,
              step |-> 1]
  BY <1>2 DEF RunOK
<1>7. DOMAIN q = DOMAIN run.entries /\ q = [i \in DOMAIN q |-> q[i]]
  BY <1>3
<1>8. q \in Seq(ToSet(q))
  BY <1>7, EntriesAre DEF RunOK
<1>9. RunOK'
  BY <1>5, <1>6, <1>7, <1>8 DEF RunOK
<1>10. Waiting' = {}
  BY <1>5, <1>6, <1>7 DEF Waiting
<1>. QED  BY <1>5, <1>6, <1>7, <1>9, <1>10 DEF Results

-----------------------------------------------------------------------------
(* Every write is in the results; what is planned is created once.          *)

(* What was written, this call.  While a request waits, it is an entry     *)
(* that says so, or the entry whose mutations are under way.               *)
Says(i, k) ==
    /\ run.entries[i].key = k
    /\ \/ run.kind = "create" /\ run.entries[i].status = "CREATED"
       \/ run.kind = "update" /\ run.entries[i].status = "UPDATED"
AccountInv ==
    /\ run.phase = "raised" => touched = {}
    /\ run.phase = "running" /\ Waiting # {} =>
         \A k \in touched : \/ \E i \in DOMAIN run.entries : Says(i, k)
                            \/ run.kind = "update" /\ run.step > 1 /\ k = Key1
    /\ Returning => \A k \in touched : \E i \in DOMAIN run.entries : Admits(run.entries[i], k)

(* A planned creation: nobody but the call's own scenarios has its story   *)
(* and summary, and what its refused first try made; no other planned      *)
(* creation has them.                                                      *)
Ahead(i) == i \in DOMAIN run.entries /\ run.entries[i].status = "WOULD_CREATE"
Before(i) == run.owned \union (IF i = Current1 THEN Refused ELSE {})
CreateInv ==
    run.phase = "running" /\ run.kind = "create" =>
      /\ \A i \in DOMAIN run.entries : run.entries[i].status # "WOULD_UPDATE"
      /\ \A i \in DOMAIN run.entries : Ahead(i) =>
           /\ run.entries[i].x.def.kind \in Creatable
           /\ SameSummary(jira, run.entries[i].story, run.entries[i].x.summary)
                \subseteq Before(i)
           /\ \A j \in DOMAIN run.entries : Ahead(j) /\ j # i =>
                \/ run.entries[i].story # run.entries[j].story
                \/ run.entries[i].x.summary # run.entries[j].x.summary

(* What is said to be written is admitted.                                 *)
LEMMA SaysAdmits ==
    ASSUME NEW i, NEW k, Says(i, k)
    PROVE  Admits(run.entries[i], k)
  BY DEF Says, Admits

(* A write is said by an entry that is settled, now or before.             *)
NowSaid(status, key, reason, k) ==
    \/ run.kind = "create" /\ status = "CREATED" /\ key = k
    \/ run.kind = "update" /\ status = "UPDATED" /\ key = k
    \/ /\ Waiting' = {} /\ reason \in Open
       /\ key = k \/ (key = None /\ jira'[k].summary = Entry1.x.summary)
(* Every write so far is in the results or is the one under way.           *)
LEMMA AccountKept ==
    ASSUME RunOK, AccountInv, run.phase = "running", Waiting # {},
           NEW status, NEW key, NEW reason, Results(status, key, reason),
           \A k \in touched' : \/ k \in touched /\ ~(run.kind = "update" /\ run.step > 1 /\ k = Key1)
                               \/ NowSaid(status, key, reason, k)
    PROVE  AccountInv'
<1>0. Current1 \in DOMAIN run.entries
  BY CurrentIs
<1>. PICK c \in DOMAIN run.entries : c = Current1
  BY <1>0
<1>1. c \in DOMAIN run.entries /\ run.entries[c].status \in Planned
  BY CurrentIs
<1>2. /\ run'.kind = run.kind /\ run'.phase = "running"
      /\ DOMAIN run'.entries = DOMAIN run.entries
  BY DEF Results
<1>3. /\ run'.entries[c].status = status /\ run'.entries[c].key = key
      /\ run'.entries[c].reason = reason /\ run'.entries[c].x = run.entries[c].x
  BY <1>1 DEF Results
<1>4. ASSUME NEW k \in touched'
      PROVE  \/ \E i \in DOMAIN run'.entries : Says(i, k)'
             \/ Waiting' = {} /\ \E i \in DOMAIN run'.entries : Admits(run.entries[i], k)'
  <2>1. CASE k \in touched /\ ~(run.kind = "update" /\ run.step > 1 /\ k = Key1)
    <3>1. PICK i \in DOMAIN run.entries : Says(i, k)
      BY <2>1 DEF AccountInv
    <3>2. run.entries[i].status \notin Planned
      BY <3>1 DEF Says, Planned
    <3>3. run'.entries[i] = run.entries[i]
      BY <1>1, <3>2 DEF Results
    <3>4. Says(i, k)'
      BY <1>2, <3>1, <3>3 DEF Says
    <3>. QED  BY <1>2, <3>4
  <2>2. CASE NowSaid(status, key, reason, k)
    <3>1. CASE \/ run.kind = "create" /\ status = "CREATED" /\ key = k
               \/ run.kind = "update" /\ status = "UPDATED" /\ key = k
      <4>1. Says(c, k)'
        BY <1>2, <1>3, <3>1 DEF Says
      <4>. QED  BY <1>1, <1>2, <4>1
    <3>2. CASE /\ Waiting' = {} /\ reason \in Open
               /\ key = k \/ (key = None /\ jira'[k].summary = Entry1.x.summary)
      <4>1. Admits(run.entries[c], k)'
        BY <1>3, <3>2 DEF Admits, Entry1
      <4>. QED  BY <1>1, <1>2, <3>2, <4>1
    <3>. QED  BY <2>2, <3>1, <3>2 DEF NowSaid
  <2>. QED  BY <2>1, <2>2
<1>5. \A k \in touched' : \E i \in DOMAIN run'.entries : Admits(run.entries[i], k)'
  <2>1. \A i, k : Says(i, k)' => Admits(run.entries[i], k)'
    BY DEF Says, Admits
  <2>. QED  BY <1>4, <2>1
<1>6. Waiting' # {} => \A k \in touched' : \E i \in DOMAIN run'.entries : Says(i, k)'
  BY <1>4
<1>. QED  BY <1>2, <1>5, <1>6 DEF AccountInv

(* What is still to be created is not in Jira, and is planned once.        *)
LEMMA CreateKept ==
    ASSUME RunOK, CreateInv, run.phase = "running", run.kind = "create", Waiting # {},
           NEW status, NEW key, NEW reason, Results(status, key, reason),
           status \notin Planned, AreTests(jira), AreTests(jira)',
           \/ jira' = jira \/ Waiting' = {}
           \/ /\ \A k \in DOMAIN jira' \ DOMAIN jira :
                   jira'[k].links \subseteq {Entry1.story} /\ jira'[k].summary = Entry1.x.summary
              /\ \A k \in DOMAIN jira : jira'[k] = jira[k]
    PROVE  CreateInv'
<1> DEFINE c == Current1
<1>1. c \in DOMAIN run.entries /\ run.entries[c].status \in Planned
  BY CurrentIs
<1>2. /\ run'.kind = "create" /\ run'.phase = "running" /\ run'.owned = run.owned
      /\ DOMAIN run'.entries = DOMAIN run.entries
      /\ run'.entries[c].status = status
  BY <1>1 DEF Results
<1>3. \A i \in DOMAIN run.entries : run.entries[i].status # "WOULD_UPDATE"
  BY DEF CreateInv
<1>4. Ahead(c)
  BY <1>1, <1>3 DEF Ahead, Planned
<1>5. ASSUME NEW i \in DOMAIN run.entries, run'.entries[i].status \in Planned
      PROVE  i # c /\ run'.entries[i] = run.entries[i]
  BY <1>2, <1>5 DEF Results, Planned
<1>6. \A i \in DOMAIN run'.entries : run'.entries[i].status # "WOULD_UPDATE"
  BY <1>2, <1>3, <1>5 DEF Planned
<1>7. \A i : Ahead(i)' => Ahead(i) /\ i # c /\ run'.entries[i] = run.entries[i]
  BY <1>2, <1>5 DEF Ahead, Planned
<1>8. ASSUME NEW i \in DOMAIN run'.entries, Ahead(i)'
      PROVE  /\ run'.entries[i].x.def.kind \in Creatable
             /\ SameSummary(jira', run'.entries[i].story, run'.entries[i].x.summary)
                  \subseteq Before(i)'
             /\ \A j \in DOMAIN run'.entries : Ahead(j)' /\ j # i =>
                  \/ run'.entries[i].story # run'.entries[j].story
                  \/ run'.entries[i].x.summary # run'.entries[j].x.summary
  <2> DEFINE e == run.entries[i]
  <2>1. Ahead(i) /\ i # c /\ run'.entries[i] = e /\ i \in DOMAIN run.entries
    BY <1>2, <1>7, <1>8
  <2>2. /\ e.x.def.kind \in Creatable
        /\ SameSummary(jira, e.story, e.x.summary) \subseteq run.owned
        /\ \A j \in DOMAIN run.entries : Ahead(j) /\ j # i =>
             \/ e.story # run.entries[j].story
             \/ e.x.summary # run.entries[j].x.summary
    BY <2>1 DEF CreateInv, Before
  <2>3. SameSummary(jira', e.story, e.x.summary) \subseteq run.owned
    <3>1. CASE jira' = jira
      BY <2>2, <3>1
    <3>2. CASE Waiting' = {}
      BY <1>8, <3>2 DEF Waiting, Ahead, Planned
    <3>3. CASE /\ \A k \in DOMAIN jira' \ DOMAIN jira :
                    jira'[k].links \subseteq {Entry1.story} /\ jira'[k].summary = Entry1.x.summary
               /\ \A k \in DOMAIN jira : jira'[k] = jira[k]
      <4>1. e.story # Entry1.story \/ e.x.summary # Entry1.x.summary
        BY <1>1, <1>4, <2>1, <2>2 DEF Entry1
      <4>2. /\ SameSummary(jira, e.story, e.x.summary) =
                 {k \in DOMAIN jira : e.story \in jira[k].links /\ jira[k].summary = e.x.summary}
            /\ SameSummary(jira', e.story, e.x.summary) =
                 {k \in DOMAIN jira' : e.story \in jira'[k].links /\ jira'[k].summary = e.x.summary}
        BY DEF SameSummary, LinkedTests
      <4>. HIDE DEF e
      <4>3. SameSummary(jira', e.story, e.x.summary) \subseteq SameSummary(jira, e.story, e.x.summary)
        BY <3>3, <4>1, <4>2
      <4>. QED  BY <2>2, <4>3
    <3>. QED  BY <3>1, <3>2, <3>3
  <2>4. ASSUME NEW j \in DOMAIN run'.entries, Ahead(j)', j # i
        PROVE  e.story # run'.entries[j].story \/ e.x.summary # run'.entries[j].x.summary
    BY <1>2, <1>7, <2>2, <2>4
  <2>5. run'.owned \subseteq Before(i)'
    BY DEF Before
  <2>. QED  BY <1>2, <2>1, <2>2, <2>3, <2>4, <2>5
<1>. QED  BY <1>6, <1>8 DEF CreateInv

(* The test a create request makes, and that there was none like it, but   *)
(* for the one its refused first try made.                                 *)
LEMMA MakesIs ==
    ASSUME RunOK, AreTests(jira), NoResidue, CreateInv, Running("create"),
           NEW links, Makes(links)
    PROVE  /\ AreTests(jira)' /\ NoResidue'
           /\ DOMAIN jira' = DOMAIN jira \union {FreshKey}
           /\ FreshKey \notin DOMAIN jira
           /\ \A k \in DOMAIN jira : jira'[k] = jira[k]
           /\ jira'[FreshKey].links = links /\ jira'[FreshKey].summary = Entry1.x.summary
           /\ SameSummary(jira, Entry1.story, Entry1.x.summary) \subseteq run.owned \union Refused
<1> DEFINE x == Entry1.x
           t == NewTest(x, links)
           f == FreshKey
<1>1. f \in Keys /\ f \notin DOMAIN jira
  BY DEF Makes, Unused, FreshKey
<1>2. Ahead(Current1)
  BY CurrentIs DEF Running, CreateInv, Ahead, Planned
<1>3. /\ x.def.kind \in Creatable
      /\ SameSummary(jira, Entry1.story, Entry1.x.summary) \subseteq run.owned \union Refused
  BY <1>2 DEF Running, CreateInv, Ahead, Entry1, Before
<1>4. x.def.kind \in {"manual", "cucumber"}
  BY <1>3, RulesAssumption
<1>5. /\ t.summary = x.summary /\ t.links = links /\ IsTest(t) /\ Clean(t)
  BY <1>4 DEF NewTest, Test, IsTest, Clean
<1>. HIDE DEF t, f, x
<1>6. jira' = [k \in DOMAIN jira \union {f} |-> IF k = f THEN t ELSE jira[k]]
  BY DEF Makes, t, f, x
<1>7. /\ DOMAIN jira' = DOMAIN jira \union {f}
      /\ jira'[f] = t
      /\ \A k \in DOMAIN jira : jira'[k] = jira[k]
  BY <1>1, <1>6
<1>8. AreTests(jira)'
  BY <1>1, <1>5, <1>7 DEF AreTests
<1>9. NoResidue'
  BY <1>5, <1>7 DEF NoResidue, Remote
<1>. QED  BY <1>1, <1>3, <1>5, <1>7, <1>8, <1>9 DEF f, x

-----------------------------------------------------------------------------
(* An update says in the end what the scenario says.                        *)

(* An update: which tests it is about, what is still to change, and how    *)
(* far the mutations of the entry under way have come.                     *)
UnderWay ==
    run.step > 1 =>
      /\ deployment = "cloud" /\ Waiting # {}
      /\ jira[Key1].summary = Entry1.x.summary
      /\ Entry1.story # None => Entry1.story \in jira[Key1].links
      /\ Reached(jira[Key1], Entry1, run.step)
EntryOK(i) ==
    LET e == run.entries[i] IN
    /\ e.status # "WOULD_CREATE"
    /\ e.status \in About =>
         /\ e.key \in DOMAIN jira
         /\ \A j \in DOMAIN run.entries :
              j # i /\ run.entries[j].status \in About => run.entries[j].key # e.key
    /\ e.status \in {"UPDATED", "SKIPPED"} => Changes(jira[e.key], e.x, e.story) = {}
    /\ e.status = "WOULD_UPDATE" =>
         /\ e.x.def.kind \in {"manual", "cucumber"}
         /\ Blocked(e.changes) = None
         /\ i # Current1 \/ run.step = 1 => e.changes = Changes(jira[e.key], e.x, e.story)
UpdateInv ==
    run.phase = "running" /\ run.kind = "update" =>
      /\ \A i \in DOMAIN run.entries : EntryOK(i)
      /\ UnderWay

(* The update under way: its test, and that nobody else is about it.       *)
LEMMA Entry1Is ==
    ASSUME RunOK, UpdateInv, Running("update")
    PROVE  /\ Entry1 = run.entries[Current1] /\ Current1 \in DOMAIN run.entries
           /\ Entry1.status = "WOULD_UPDATE"
           /\ Key1 = Entry1.key /\ Key1 \in DOMAIN jira
           /\ \A j \in DOMAIN run.entries :
                j # Current1 /\ run.entries[j].status \in About => run.entries[j].key # Key1
           /\ Entry1.x.def.kind \in {"manual", "cucumber"}
           /\ Blocked(Entry1.changes) = None
           /\ run.step = 1 => Entry1.changes = Changes(jira[Key1], Entry1.x, Entry1.story)
           /\ UnderWay
<1>1. Current1 \in DOMAIN run.entries /\ run.entries[Current1].status \in Planned
  BY CurrentIs DEF Running
<1>2. EntryOK(Current1) /\ UnderWay
  BY <1>1 DEF UpdateInv, Running
<1>3. Entry1 = run.entries[Current1] /\ Key1 = Entry1.key
  BY DEF Entry1, Key1
<1>4. Entry1.status = "WOULD_UPDATE"
  BY <1>1, <1>2, <1>3 DEF EntryOK, Planned
<1>. QED  BY <1>1, <1>2, <1>3, <1>4 DEF EntryOK, About

(* One test is written; the others are as they were.                       *)
LEMMA WritesIs ==
    ASSUME AreTests(jira), NoResidue, Key1 \in DOMAIN jira, NEW u, IsTest(u), Clean(u), Writes(u)
    PROVE  /\ AreTests(jira)' /\ NoResidue'
           /\ DOMAIN jira' = DOMAIN jira
           /\ jira'[Key1] = u
           /\ \A k \in DOMAIN jira : k # Key1 => jira'[k] = jira[k]
           /\ touched' = touched \union {Key1}
<1> DEFINE k1 == Key1
<1>1. jira' = [jira EXCEPT ![k1] = u] /\ touched' = touched \union {k1} /\ k1 \in DOMAIN jira
  BY DEF Writes
<1>. HIDE DEF k1
<1>2. /\ DOMAIN jira' = DOMAIN jira /\ jira'[k1] = u
      /\ \A k \in DOMAIN jira : k # k1 => jira'[k] = jira[k]
  BY <1>1
<1>3. AreTests(jira)'
  BY <1>2 DEF AreTests
<1>4. NoResidue'
  BY <1>2 DEF NoResidue, Remote
<1>. QED  BY <1>1, <1>2, <1>3, <1>4 DEF k1

(* After the last request the test is up to date, before it half way.      *)
LEMMA SendIs ==
    ASSUME RunOK, AreTests(jira), NoResidue, UpdateInv, Running("update"), Send,
           deployment \in {"server", "cloud"}
    PROVE  /\ AreTests(jira)' /\ NoResidue'
           /\ DOMAIN jira' = DOMAIN jira
           /\ \A k \in DOMAIN jira : k # Key1 => jira'[k] = jira[k]
           /\ touched' = touched \union {Key1}
           /\ Last1 => Changes(jira'[Key1], Entry1.x, Entry1.story) = {}
           /\ ~Last1 => /\ deployment = "cloud"
                        /\ jira'[Key1].summary = Entry1.x.summary
                        /\ Entry1.story # None => Entry1.story \in jira'[Key1].links
                        /\ Reached(jira'[Key1], Entry1, run.step + 1)
<1> DEFINE t == jira[Key1]
<1>1. /\ Key1 \in DOMAIN jira
      /\ Entry1.x.def.kind \in {"manual", "cucumber"}
      /\ Blocked(Entry1.changes) = None
      /\ run.step = 1 => Entry1.changes = Changes(t, Entry1.x, Entry1.story)
      /\ UnderWay
  BY Entry1Is
<1>2. IsTest(t) /\ Clean(t)
  BY <1>1 DEF AreTests, NoResidue, Remote
<1>3. run.step \in Nat \ {0}
  BY DEF RunOK
<1>4. CASE deployment = "server"
  <2> DEFINE u == Put(t, Entry1)
  <2>1. run.step = 1
    <3>1. ~(run.step > 1)
      BY <1>1, <1>4 DEF UnderWay
    <3>. QED  BY <1>3, <3>1
  <2>2. IsTest(u) /\ Clean(u) /\ Changes(u, Entry1.x, Entry1.story) = {}
    <3>. PICK e : e = Entry1
      OBVIOUS
    <3>. PICK t1 : t1 = jira[Key1]
      OBVIOUS
    <3>1. e.changes = Changes(t1, e.x, e.story)
      BY <1>1, <2>1
    <3>2. IsTest(t1) /\ Clean(t1) /\ e.x.def.kind \in {"manual", "cucumber"}
      BY <1>1, <1>2
    <3>3. IsTest(Put(t1, e)) /\ Clean(Put(t1, e)) /\ UpToDate(Put(t1, e), e)
      BY ONLY <3>1, <3>2, PutIs
    <3>. QED  BY <3>3 DEF UpToDate
  <2>3. Writes(u)
    BY <1>4 DEF Send, PutTest
  <2>4. Last1
    BY <1>4, <2>1 DEF Last1, Plan1
  <2>. HIDE DEF u
  <2>. QED  BY <1>1, <2>2, <2>3, <2>4, WritesIs
<1>5. CASE deployment = "cloud"
  <2> DEFINE u == Mutated(t, Mutations(Entry1)[run.step], Entry1)
  <2>1. run.step > 1 => /\ t.summary = Entry1.x.summary
                        /\ Entry1.story # None => Entry1.story \in t.links
                        /\ Reached(t, Entry1, run.step)
    BY <1>1 DEF UnderWay
  <2>2. /\ IsTest(u) /\ Clean(u)
        /\ u.summary = Entry1.x.summary
        /\ Entry1.story # None => Entry1.story \in u.links
        /\ run.step = Len(Mutations(Entry1)) => Changes(u, Entry1.x, Entry1.story) = {}
        /\ run.step # Len(Mutations(Entry1)) => Reached(u, Entry1, run.step + 1)
    <3>. HIDE DEF t
    <3>. QED  BY <1>1, <1>2, <1>3, <1>5, <2>1, MutatedIs
  <2>3. Writes(u)
    BY <1>5 DEF Send, Request1, Plan1
  <2>4. Last1 <=> run.step = Len(Mutations(Entry1))
    BY <1>5 DEF Last1, Plan1
  <2>. HIDE DEF u
  <2>5. /\ AreTests(jira)' /\ NoResidue'
        /\ DOMAIN jira' = DOMAIN jira
        /\ jira'[Key1] = u
        /\ \A k \in DOMAIN jira : k # Key1 => jira'[k] = jira[k]
        /\ touched' = touched \union {Key1}
    BY <1>1, <2>2, <2>3, WritesIs
  <2>. QED  BY <1>5, <2>2, <2>4, <2>5
<1>. QED  BY <1>4, <1>5

(* An update is settled; the other entries are about other tests.          *)
LEMMA UpdateSettled ==
    ASSUME RunOK, UpdateInv, Running("update"), NEW status, NEW reason,
           Results(status, Key1, reason), status \in {"ERROR", "UPDATED"},
           deployment' = deployment, DOMAIN jira' = DOMAIN jira,
           \A k \in DOMAIN jira : k # Key1 => jira'[k] = jira[k],
           status = "UPDATED" => Changes(jira'[Key1], Entry1.x, Entry1.story) = {}
    PROVE  UpdateInv'
<1>0. Current1 \in DOMAIN run.entries
  BY Entry1Is
<1>. PICK c \in DOMAIN run.entries : c = Current1
  BY <1>0
<1>. PICK k1 : k1 = Key1
  OBVIOUS
<1>1. /\ Entry1 = run.entries[c] /\ run.entries[c].status = "WOULD_UPDATE"
      /\ k1 = run.entries[c].key /\ k1 \in DOMAIN jira
      /\ \A j \in DOMAIN run.entries :
           j # c /\ run.entries[j].status \in About => run.entries[j].key # k1
  BY Entry1Is
<1>2. /\ run'.kind = "update" /\ run'.phase = "running" /\ run'.step = 1
      /\ DOMAIN run'.entries = DOMAIN run.entries
      /\ run'.entries[c].status = status /\ run'.entries[c].key = k1
      /\ run'.entries[c].x = run.entries[c].x /\ run'.entries[c].story = run.entries[c].story
  BY DEF Results, Running
<1>3. \A i \in DOMAIN run.entries : EntryOK(i)
  BY DEF UpdateInv, Running
<1>4. ASSUME NEW i \in DOMAIN run.entries, run'.entries[i].status \in About
      PROVE  /\ run.entries[i].status \in About
             /\ run'.entries[i].key = run.entries[i].key
             /\ i # c => run'.entries[i] = run.entries[i]
  <2>1. "ERROR" \notin About
    BY DEF About
  <2>2. CASE i = c
    BY <1>1, <1>2, <2>2 DEF About
  <2>3. CASE i # c
    BY <1>4, <2>1, <2>3 DEF Results
  <2>. QED  BY <2>2, <2>3
<1>5. ASSUME NEW i \in DOMAIN run.entries
      PROVE  run'.entries[i].status # "WOULD_CREATE"
  <2>1. CASE i = c
    BY <1>2, <2>1
  <2>2. CASE i # c
    BY <1>3, <2>2 DEF Results, EntryOK
  <2>. QED  BY <2>1, <2>2
<1>6. ASSUME NEW i \in DOMAIN run.entries, run'.entries[i].status \in About
      PROVE  /\ run'.entries[i].key \in DOMAIN jira'
             /\ \A j \in DOMAIN run.entries :
                  j # i /\ run'.entries[j].status \in About => run'.entries[j].key # run'.entries[i].key
  BY <1>3, <1>4, <1>6 DEF EntryOK
<1>7. ASSUME NEW i \in DOMAIN run.entries, run'.entries[i].status \in {"UPDATED", "SKIPPED"}
      PROVE  Changes(jira'[run'.entries[i].key], run'.entries[i].x, run'.entries[i].story) = {}
  <2>1. CASE i = c
    BY <1>1, <1>2, <1>7, <2>1
  <2>2. CASE i # c
    <3>1. run'.entries[i] = run.entries[i] /\ run.entries[i].status \in About
      BY <1>4, <1>7, <2>2 DEF About
    <3>2. run.entries[i].key # k1 /\ run.entries[i].key \in DOMAIN jira
      BY <1>1, <1>3, <2>2, <3>1 DEF EntryOK
    <3>3. jira'[run.entries[i].key] = jira[run.entries[i].key]
      BY <3>2
    <3>. QED  BY <1>3, <1>7, <3>1, <3>3 DEF EntryOK
  <2>. QED  BY <2>1, <2>2
<1>8. ASSUME NEW i \in DOMAIN run.entries, run'.entries[i].status = "WOULD_UPDATE"
      PROVE  /\ run'.entries[i].x.def.kind \in {"manual", "cucumber"}
             /\ Blocked(run.entries[i].changes)' = None
             /\ run'.entries[i].changes =
                  Changes(jira'[run'.entries[i].key], run'.entries[i].x, run'.entries[i].story)
  <2>1. i # c
    BY <1>2, <1>8
  <2>2. run'.entries[i] = run.entries[i] /\ run.entries[i].status \in About
    BY <1>4, <1>8, <2>1 DEF About
  <2>3. run.entries[i].key # k1 /\ run.entries[i].key \in DOMAIN jira
    BY <1>1, <1>3, <2>1, <2>2 DEF EntryOK
  <2>4. jira'[run.entries[i].key] = jira[run.entries[i].key]
    BY <2>3
  <2>5. /\ run.entries[i].x.def.kind \in {"manual", "cucumber"}
        /\ Blocked(run.entries[i].changes) = None
        /\ run.entries[i].changes =
             Changes(jira[run.entries[i].key], run.entries[i].x, run.entries[i].story)
    BY <1>3, <1>8, <2>1, <2>2 DEF EntryOK
  <2>6. Blocked(run.entries[i].changes)' = None
    BY <2>2, <2>5 DEF Blocked
  <2>7. /\ run'.entries[i].x.def.kind \in {"manual", "cucumber"}
        /\ run'.entries[i].changes =
             Changes(jira'[run'.entries[i].key], run'.entries[i].x, run'.entries[i].story)
    BY <2>2, <2>4, <2>5
  <2>. QED  BY <2>6, <2>7
<1>9. \A i \in DOMAIN run'.entries : EntryOK(i)'
  BY <1>2, <1>5, <1>6, <1>7, <1>8 DEF EntryOK
<1>10. UnderWay'
  BY <1>2 DEF UnderWay
<1>. QED  BY <1>9, <1>10 DEF UpdateInv

-----------------------------------------------------------------------------
(* The invariant, kept by the calls.                                        *)

Inv == ShapeInv /\ AccountInv /\ CreateInv /\ UpdateInv /\ NoResidue /\ OwnersDistinct

(* Steps of the people and tools that change files only.                   *)
LEMMA FilesChange ==
    ASSUME Inv, UNCHANGED <<deployment, jira, run, touched, denied>>,
           AreFiles(files)', OneOwner(files)'
    PROVE  Inv'
<1>1. ShapeInv'
  BY DEF Inv, ShapeInv, RunOK, AreTests
<1>2. AccountInv'
  BY DEF Inv, AccountInv, Waiting, Returning, Says, Admits, Key1, Entry1, Current1
<1>3. CreateInv'
  <2>1. Waiting' = Waiting
    BY DEF Waiting
  <2>2. Current1' = Current1
    BY <2>1 DEF Current1
  <2>3. Refused' = Refused
    BY DEF Refused
  <2>4. \A i : Before(i)' = Before(i)
    BY <2>2, <2>3 DEF Before
  <2>. QED  BY <2>4 DEF Inv, CreateInv, Ahead
<1>4. UpdateInv'
  <2>1. Waiting' = Waiting
    BY DEF Waiting
  <2>2. Current1' = Current1
    BY <2>1 DEF Current1
  <2>3. Entry1' = Entry1 /\ Key1' = Key1
    BY <2>2 DEF Entry1, Key1
  <2>4. \A i : EntryOK(i)' <=> EntryOK(i)
    BY <2>2 DEF EntryOK, Blocked
  <2>5. UnderWay' <=> UnderWay
    BY <2>1, <2>3 DEF UnderWay
  <2>. QED  BY <2>4, <2>5 DEF Inv, UpdateInv
<1>5. NoResidue' /\ OwnersDistinct'
  BY DEF Inv, NoResidue, Remote, OwnersDistinct
<1>. QED  BY <1>1, <1>2, <1>3, <1>4, <1>5 DEF Inv

(* Steps that change nothing the invariant speaks of.                      *)
LEMMA Untouched ==
    ASSUME Inv, UNCHANGED <<deployment, files, jira, run, touched, denied>>
    PROVE  Inv'
<1>1. AreFiles(files)' /\ OneOwner(files)'
  BY DEF Inv, ShapeInv, OwnersDistinct, AreFiles, OneOwner
<1>. QED  BY <1>1, FilesChange

(* The plan of a creation establishes its part of the invariant.           *)
LEMMA CreateCallStep ==
    ASSUME Inv, CreateCall
    PROVE  Inv'
<1> DEFINE p == CreatePlan(jira, files)
<1>1. /\ p \in Seq(ToSet(p))
      /\ \A i \in DOMAIN p :
           /\ IsEntry(p[i])
           /\ p[i].status # "WOULD_UPDATE"
           /\ p[i].status = "WOULD_CREATE" =>
                /\ p[i].x.def.kind \in Creatable
                /\ SameSummary(jira, p[i].story, p[i].x.summary) \subseteq Tagged(files)
                /\ \A h \in DOMAIN p : h # i /\ p[h].status = "WOULD_CREATE" =>
                     \/ p[h].story # p[i].story
                     \/ p[h].x.summary # p[i].x.summary
  BY CreatePlanIs DEF Inv, ShapeInv
<1>2. /\ run' = [kind |-> "create", phase |-> "running", entries |-> p,
                 owned |-> Tagged(files), step |-> 1]
      /\ touched' = {} /\ UNCHANGED <<deployment, files, jira>>
  BY DEF CreateCall, Begin, Run
<1>. HIDE DEF p
<1>3. ShapeInv'
  BY <1>1, <1>2 DEF Inv, ShapeInv, RunOK, AreTests
<1>4. AccountInv'
  BY <1>2 DEF AccountInv
<1>5. CreateInv'
  BY <1>1, <1>2 DEF CreateInv, Ahead, Before
<1>6. UpdateInv'
  BY <1>2 DEF UpdateInv
<1>7. NoResidue' /\ OwnersDistinct'
  BY <1>2 DEF Inv, NoResidue, Remote, OwnersDistinct
<1>. QED  BY <1>3, <1>4, <1>5, <1>6, <1>7 DEF Inv

(* The plan of an update establishes its part of the invariant.            *)
LEMMA UpdateCallStep ==
    ASSUME Inv, UpdateCall
    PROVE  Inv'
<1> DEFINE p == UpdatePlan(jira, files)
<1>1. /\ p \in Seq(ToSet(p))
      /\ \A i \in DOMAIN p :
           /\ IsEntry(p[i])
           /\ p[i].status \in {"ERROR", "SKIPPED", "WOULD_UPDATE"}
           /\ p[i].status # "ERROR" =>
                /\ p[i].key \in DOMAIN jira
                /\ \A h \in DOMAIN p : h # i /\ p[h].status # "ERROR" =>
                                         p[h].key # p[i].key
           /\ p[i].status = "SKIPPED" => Changes(jira[p[i].key], p[i].x, p[i].story) = {}
           /\ p[i].status = "WOULD_UPDATE" =>
                /\ p[i].x.def.kind \in {"manual", "cucumber"}
                /\ Blocked(p[i].changes) = None
                /\ p[i].changes = Changes(jira[p[i].key], p[i].x, p[i].story)
  BY UpdatePlanIs DEF Inv, ShapeInv
<1>2. /\ run' = [kind |-> "update", phase |-> "running", entries |-> p,
                 owned |-> Tagged(files), step |-> 1]
      /\ touched' = {} /\ UNCHANGED <<deployment, files, jira>>
  BY DEF UpdateCall, Begin, Run
<1>. HIDE DEF p
<1>3. ShapeInv'
  BY <1>1, <1>2 DEF Inv, ShapeInv, RunOK, AreTests
<1>4. AccountInv'
  BY <1>2 DEF AccountInv
<1>5. CreateInv'
  BY <1>2 DEF CreateInv
<1>6. UpdateInv'
  <2>1. ASSUME NEW i \in DOMAIN p PROVE EntryOK(i)'
    <3>1. run'.entries[i] = p[i] /\ run'.entries = p
      BY <1>2
    <3>2. p[i].status = "WOULD_UPDATE" => Blocked(run.entries[i].changes)' = None
      BY <1>1, <1>2, <3>1 DEF Blocked
    <3>3. \A h \in DOMAIN p : p[h].status \in About => p[h].status # "ERROR"
      BY DEF About
    <3>. QED  BY <1>1, <1>2, <3>1, <3>2, <3>3 DEF EntryOK, Blocked
  <2>2. UnderWay'
    BY <1>2 DEF UnderWay
  <2>. QED  BY <1>2, <2>1, <2>2 DEF UpdateInv
<1>7. NoResidue' /\ OwnersDistinct'
  BY <1>2 DEF Inv, NoResidue, Remote, OwnersDistinct
<1>. QED  BY <1>3, <1>4, <1>5, <1>6, <1>7 DEF Inv

(* A create request whose entry is settled.                                *)
LEMMA CreateStep ==
    ASSUME Inv, Running("create"), Kept, NEW status, NEW key, NEW reason,
           Results(status, key, reason), status \notin Planned,
           AreTests(jira)', NoResidue',
           \/ jira' = jira \/ Waiting' = {}
           \/ /\ \A k \in DOMAIN jira' \ DOMAIN jira :
                   jira'[k].links \subseteq {Entry1.story} /\ jira'[k].summary = Entry1.x.summary
              /\ \A k \in DOMAIN jira : jira'[k] = jira[k],
           \A k \in touched' : k \in touched \/ NowSaid(status, key, reason, k)
    PROVE  Inv'
<1>1. /\ run'.kind = "create" /\ run'.step = 1 /\ RunOK'
      /\ UNCHANGED <<deployment, files>>
  BY DEF Results, Running, Kept
<1>2. ShapeInv'
  BY <1>1 DEF Inv, ShapeInv
<1>3. AccountInv'
  BY AccountKept DEF Inv, ShapeInv, Running
<1>4. CreateInv'
  BY CreateKept DEF Inv, ShapeInv, Running
<1>5. UpdateInv' /\ OwnersDistinct'
  BY <1>1 DEF Inv, UpdateInv, OwnersDistinct
<1>. QED  BY <1>2, <1>3, <1>4, <1>5 DEF Inv

(* An update whose entry is settled.                                       *)
LEMMA UpdateStep ==
    ASSUME Inv, Running("update"), Kept, NEW status, NEW reason,
           Results(status, Key1, reason), status \in {"ERROR", "UPDATED"},
           AreTests(jira)', NoResidue', DOMAIN jira' = DOMAIN jira,
           \A k \in DOMAIN jira : k # Key1 => jira'[k] = jira[k],
           status = "UPDATED" => Changes(jira'[Key1], Entry1.x, Entry1.story) = {},
           \A k \in touched' : \/ k \in touched /\ ~(run.step > 1 /\ k = Key1)
                               \/ NowSaid(status, Key1, reason, k)
    PROVE  Inv'
<1>1. /\ run'.kind = "update" /\ run'.step = 1 /\ RunOK'
      /\ UNCHANGED <<deployment, files>>
  BY DEF Results, Running, Kept
<1>2. ShapeInv'
  BY <1>1 DEF Inv, ShapeInv
<1>3. AccountInv'
  BY AccountKept DEF Inv, ShapeInv, Running
<1>4. UpdateInv'
  BY <1>1, UpdateSettled DEF Inv, ShapeInv
<1>5. CreateInv' /\ OwnersDistinct'
  BY <1>1 DEF Inv, CreateInv, OwnersDistinct
<1>. QED  BY <1>2, <1>3, <1>4, <1>5 DEF Inv

-----------------------------------------------------------------------------
(* The invariant, kept by each request.                                     *)

(* A call raises before it has written.                                    *)
LEMMA RaiseStep ==
    ASSUME Inv, Raise, touched = {}, UNCHANGED <<deployment, files, jira, touched>>
    PROVE  Inv'
<1>1. /\ run' = [kind |-> run.kind, phase |-> "raised", entries |-> run.entries,
                 owned |-> run.owned, step |-> run.step]
      /\ RunOK'
  BY DEF Raise, Inv, ShapeInv, RunOK
<1>2. ShapeInv'
  BY <1>1 DEF Inv, ShapeInv, AreTests
<1>3. AccountInv'
  BY <1>1 DEF AccountInv, Returning
<1>4. CreateInv' /\ UpdateInv' /\ NoResidue' /\ OwnersDistinct'
  BY <1>1 DEF Inv, CreateInv, UpdateInv, NoResidue, Remote, OwnersDistinct
<1>. QED  BY <1>2, <1>3, <1>4 DEF Inv

(* Nothing was written as long as no entry says so.                        *)
LEMMA NothingYet ==
    ASSUME Inv, run.phase = "running", Waiting # {},
           run.kind # "update" \/ run.step = 1, ~Wrote
    PROVE  touched = {}
<1>1. \A i \in DOMAIN run.entries : \A k : ~Says(i, k)
  BY DEF Says, Wrote
<1>. QED  BY <1>1 DEF Inv, AccountInv

(* One lemma per request of the creation.                                  *)
LEMMA CreateOkStep ==
    ASSUME Inv, CreateOk
    PROVE  Inv'
<1>. PICK f : f = FreshKey
  OBVIOUS
<1>1. Running("create") /\ Adds({Entry1.story}) /\ GoOn("CREATED", f, None) /\ Kept
  BY DEF CreateOk
<1>2. Results("CREATED", f, None)
  BY <1>1, GoOnIs DEF Inv, ShapeInv, Running, Planned
<1>3. /\ AreTests(jira)' /\ NoResidue'
      /\ DOMAIN jira' = DOMAIN jira \union {f}
      /\ \A k \in DOMAIN jira : jira'[k] = jira[k]
      /\ jira'[f].links = {Entry1.story} /\ jira'[f].summary = Entry1.x.summary
      /\ touched' = touched \union {f}
  BY <1>1, MakesIs DEF Inv, ShapeInv, Adds
<1>4. \A k \in touched' : k \in touched \/ NowSaid("CREATED", f, None, k)
  BY <1>1, <1>3 DEF NowSaid, Running
<1>5. \A k \in DOMAIN jira' \ DOMAIN jira :
         jira'[k].links \subseteq {Entry1.story} /\ jira'[k].summary = Entry1.x.summary
  BY <1>3
<1>6. "CREATED" \notin Planned
  BY DEF Planned
<1>. QED  BY <1>1, <1>2, <1>3, <1>4, <1>5, <1>6, CreateStep

LEMMA CreateUnlinkedStep ==
    ASSUME Inv, CreateUnlinked
    PROVE  Inv'
<1>. PICK f : f = FreshKey
  OBVIOUS
<1>. PICK links : Adds(links)
  BY DEF CreateUnlinked
<1>1. Running("create") /\ Stop(f, "link_not_confirmed") /\ Kept
  BY DEF CreateUnlinked
<1>2. Results("ERROR", f, "link_not_confirmed") /\ Waiting' = {}
  BY <1>1, StopIs DEF Inv, ShapeInv, Running
<1>3. AreTests(jira)' /\ NoResidue' /\ touched' = touched \union {f}
  BY <1>1, MakesIs DEF Inv, ShapeInv, Adds
<1>4. \A k \in touched' : k \in touched \/ NowSaid("ERROR", f, "link_not_confirmed", k)
  BY <1>2, <1>3 DEF NowSaid, Open
<1>5. "ERROR" \notin Planned
  BY DEF Planned
<1>. QED  BY <1>1, <1>2, <1>3, <1>4, <1>5, CreateStep

(* A request without effect.                                               *)
LEMMA JiraKept ==
    ASSUME Inv, SameJira
    PROVE  AreTests(jira)' /\ NoResidue' /\ jira' = jira /\ touched' = touched
  BY DEF Inv, ShapeInv, SameJira, AreTests, NoResidue, Remote

(* A refused create: it made nothing, or a test that its answer denies.    *)
LEMMA RefusedIs ==
    ASSUME Inv, Running("create"), SameJira \/ MakesAnyway
    PROVE  /\ AreTests(jira)' /\ NoResidue' /\ touched' = touched
           /\ \A k \in DOMAIN jira' \ DOMAIN jira :
                /\ jira'[k].links \subseteq {Entry1.story}
                /\ jira'[k].summary = Entry1.x.summary
                /\ k \in denied'
           /\ DOMAIN jira \subseteq DOMAIN jira'
           /\ \A k \in DOMAIN jira : jira'[k] = jira[k]
           /\ denied \subseteq denied'
<1>1. CASE SameJira
  BY <1>1, JiraKept DEF SameJira
<1>2. CASE MakesAnyway
  <2>1. PICK links \in {{}, {Entry1.story}} : Makes(links)
    BY <1>2 DEF MakesAnyway
  <2>2. links \subseteq {Entry1.story}
    OBVIOUS
  <2>. PICK f : f = FreshKey
    OBVIOUS
  <2>3. /\ AreTests(jira)' /\ NoResidue'
        /\ DOMAIN jira' = DOMAIN jira \union {f}
        /\ \A k \in DOMAIN jira : jira'[k] = jira[k]
        /\ jira'[f].links = links /\ jira'[f].summary = Entry1.x.summary
    BY <2>1, MakesIs DEF Inv, ShapeInv
  <2>4. touched' = touched /\ denied' = denied \union {f}
    BY <1>2 DEF MakesAnyway
  <2>. QED  BY <2>2, <2>3, <2>4
<1>. QED  BY <1>1, <1>2

(* What a try that is refused made is what its retry finds besides.        *)
LEMMA TryAgainStep ==
    ASSUME Inv, Running("create"), SameJira \/ MakesAnyway, TryAgain, Kept
    PROVE  Inv'
<1>0. Current1 \in DOMAIN run.entries /\ run.entries[Current1].status \in Planned
  BY CurrentIs DEF Inv, ShapeInv, Running
<1>. PICK c \in DOMAIN run.entries : c = Current1
  BY <1>0
<1>1. /\ run'.kind = "create" /\ run'.phase = "running" /\ run'.step = 2 /\ run.step = 1
      /\ run'.entries = run.entries /\ run'.owned = run.owned
      /\ RunOK' /\ UNCHANGED <<deployment, files>>
  BY DEF Inv, ShapeInv, RunOK, Running, Kept, TryAgain
<1>2. /\ AreTests(jira)' /\ NoResidue' /\ touched' = touched
      /\ \A k \in DOMAIN jira' \ DOMAIN jira :
           /\ jira'[k].links \subseteq {Entry1.story}
           /\ jira'[k].summary = Entry1.x.summary
           /\ k \in denied'
      /\ DOMAIN jira \subseteq DOMAIN jira'
      /\ \A k \in DOMAIN jira : jira'[k] = jira[k]
  BY RefusedIs
<1>3. Waiting' = Waiting /\ Waiting # {}
  BY <1>1 DEF Waiting, Running
<1>4. Current1' = c
  BY <1>3 DEF Current1
<1>5. ShapeInv'
  BY <1>1, <1>2 DEF Inv, ShapeInv
<1>6. AccountInv'
  <2>1. \A k \in touched : \E i \in DOMAIN run.entries : Says(i, k)
    BY <1>3 DEF Inv, AccountInv, Running
  <2>2. \A i, k : Says(i, k) => Says(i, k)'
    BY <1>1 DEF Says, Running
  <2>. QED  BY <1>1, <1>2, <1>3, <2>1, <2>2 DEF AccountInv, Returning
<1>7. Refused = {} /\ Refused' = denied'
  BY <1>1 DEF Refused
<1>8. ASSUME NEW i \in DOMAIN run.entries, Ahead(i)
      PROVE  SameSummary(jira', run.entries[i].story, run.entries[i].x.summary) \subseteq Before(i)'
  <2>. PICK e : e = run.entries[i]
    OBVIOUS
  <2>1. /\ SameSummary(jira, e.story, e.x.summary) =
               {k \in DOMAIN jira : e.story \in jira[k].links /\ jira[k].summary = e.x.summary}
        /\ SameSummary(jira', e.story, e.x.summary) =
               {k \in DOMAIN jira' : e.story \in jira'[k].links /\ jira'[k].summary = e.x.summary}
    BY DEF SameSummary, LinkedTests
  <2>2. SameSummary(jira, e.story, e.x.summary) \subseteq run.owned
    BY <1>7, <1>8 DEF Inv, CreateInv, Before, Running
  <2>3. CASE i = c
    <3>1. SameSummary(jira', e.story, e.x.summary) \subseteq run.owned \union denied'
      BY <1>2, <2>1, <2>2
    <3>. QED  BY <1>1, <1>4, <1>7, <2>3, <3>1 DEF Before
  <2>4. CASE i # c
    <3>1. Ahead(c)
      BY <1>0 DEF Inv, CreateInv, Ahead, Planned, Running
    <3>2. e.story # Entry1.story \/ e.x.summary # Entry1.x.summary
      BY <1>8, <2>4, <3>1 DEF Inv, CreateInv, Running, Entry1
    <3>3. SameSummary(jira', e.story, e.x.summary) \subseteq run.owned
      BY <1>2, <2>1, <2>2, <3>2
    <3>. QED  BY <1>1, <3>3 DEF Before
  <2>. QED  BY <2>3, <2>4
<1>9. CreateInv'
  <2>1. \A i : Ahead(i)' <=> Ahead(i)
    BY <1>1 DEF Ahead
  <2>. QED  BY <1>1, <1>8, <2>1 DEF Inv, CreateInv, Ahead, Running
<1>10. UpdateInv' /\ OwnersDistinct'
  BY <1>1 DEF Inv, UpdateInv, OwnersDistinct
<1>. QED  BY <1>2, <1>5, <1>6, <1>9, <1>10 DEF Inv

LEMMA CreateRejectedStep ==
    ASSUME Inv, CreateRejected
    PROVE  Inv'
<1>1. Running("create") /\ Kept /\ (SameJira \/ MakesAnyway)
  BY DEF CreateRejected
<1>2. CASE TryAgain
  BY <1>1, <1>2, TryAgainStep
<1>3. CASE GoOn("ERROR", None, "rejected")
  <2>1. "ERROR" \notin Planned
    BY DEF Planned
  <2>2. Results("ERROR", None, "rejected")
    BY <1>1, <1>3, <2>1, GoOnIs DEF Inv, ShapeInv, Running
  <2>. QED  BY <1>1, <2>1, <2>2, RefusedIs, CreateStep
<1>. QED  BY <1>2, <1>3 DEF CreateRejected

LEMMA CreateNeedsFieldsStep ==
    ASSUME Inv, CreateNeedsFields
    PROVE  Inv'
<1>1. GoOn("ERROR", None, "required_fields") /\ Running("create") /\ Kept /\ SameJira
  BY DEF CreateNeedsFields
<1>2. "ERROR" \notin Planned
  BY DEF Planned
<1>3. Results("ERROR", None, "required_fields")
  BY <1>1, <1>2, GoOnIs DEF Inv, ShapeInv, Running
<1>. QED  BY <1>1, <1>2, <1>3, CreateStep, JiraKept

LEMMA CreateAuthStep ==
    ASSUME Inv, CreateAuth
    PROVE  Inv'
<1>1. Running("create") /\ AuthFailed /\ Kept /\ SameJira
  BY DEF CreateAuth
<1>. PICK k : k = Entry1.key
  OBVIOUS
<1>2. CASE Wrote
  <2>1. Stop(k, "auth_failed")
    BY <1>1, <1>2 DEF AuthFailed
  <2>2. Results("ERROR", k, "auth_failed")
    BY <1>1, <2>1, StopIs DEF Inv, ShapeInv, Running
  <2>3. "ERROR" \notin Planned
    BY DEF Planned
  <2>. QED  BY <1>1, <2>2, <2>3, CreateStep, JiraKept
<1>3. CASE ~Wrote
  <2>1. Raise
    BY <1>1, <1>3 DEF AuthFailed
  <2>2. touched = {}
    BY <1>1, <1>3, NothingYet DEF Inv, ShapeInv, Running
  <2>. QED  BY <1>1, <2>1, <2>2, RaiseStep DEF Kept, SameJira
<1>. QED  BY <1>2, <1>3

LEMMA CreateLostStep ==
    ASSUME Inv, CreateLost
    PROVE  Inv'
<1>1. Running("create") /\ Stop(None, "outcome_unknown") /\ Kept
  BY DEF CreateLost, LostCreate
<1>2. Results("ERROR", None, "outcome_unknown") /\ Waiting' = {}
  BY <1>1, StopIs DEF Inv, ShapeInv, Running
<1>3. "ERROR" \notin Planned
  BY DEF Planned
<1>4. CASE Adds({Entry1.story})
  <2>. PICK f : f = FreshKey
    OBVIOUS
  <2>1. /\ AreTests(jira)' /\ NoResidue' /\ touched' = touched \union {f}
        /\ jira'[f].summary = Entry1.x.summary
    BY <1>1, <1>4, MakesIs DEF Inv, ShapeInv, Adds
  <2>2. \A k \in touched' : k \in touched \/ NowSaid("ERROR", None, "outcome_unknown", k)
    BY <1>2, <2>1 DEF NowSaid, Open
  <2>. QED  BY <1>1, <1>2, <1>3, <2>1, <2>2, CreateStep
<1>5. CASE SameJira
  BY <1>1, <1>2, <1>3, <1>5, CreateStep, JiraKept
<1>. QED  BY <1>4, <1>5 DEF CreateLost

(* The last request of an update.                                          *)
LEMMA SentLast ==
    ASSUME Inv, Running("update"), Send, Last1, GoOn("UPDATED", Key1, None), Kept
    PROVE  Inv'
<1>1. "UPDATED" \notin Planned
  BY DEF Planned
<1>2. Results("UPDATED", Key1, None)
  BY <1>1, GoOnIs DEF Inv, ShapeInv, Running
<1>3. /\ AreTests(jira)' /\ NoResidue'
      /\ DOMAIN jira' = DOMAIN jira
      /\ \A k \in DOMAIN jira : k # Key1 => jira'[k] = jira[k]
      /\ touched' = touched \union {Key1}
      /\ Changes(jira'[Key1], Entry1.x, Entry1.story) = {}
  BY SendIs DEF Inv, ShapeInv
<1>4. \A k \in touched' : \/ k \in touched /\ ~(run.step > 1 /\ k = Key1)
                          \/ NowSaid("UPDATED", Key1, None, k)
  BY <1>3 DEF NowSaid, Running
<1>. QED  BY <1>2, <1>3, <1>4, UpdateStep

(* A mutation that is not the last one of its entry.                       *)
LEMMA SentNotLast ==
    ASSUME Inv, Running("update"), Send, ~Last1, Kept, run' = [run EXCEPT !.step = @ + 1]
    PROVE  Inv'
<1>0. Current1 \in DOMAIN run.entries
  BY Entry1Is DEF Inv, ShapeInv
<1>. PICK c \in DOMAIN run.entries : c = Current1
  BY <1>0
<1>. PICK k1 : k1 = Key1
  OBVIOUS
<1>. PICK e1 : e1 = Entry1
  OBVIOUS
<1>1. /\ run'.kind = "update" /\ run'.phase = "running" /\ run'.step = run.step + 1
      /\ run'.entries = run.entries /\ run'.owned = run.owned
      /\ run.step \in Nat \ {0}
      /\ RunOK' /\ UNCHANGED <<deployment, files>>
  BY DEF Inv, ShapeInv, RunOK, Running, Kept
<1>2. /\ AreTests(jira)' /\ NoResidue'
      /\ DOMAIN jira' = DOMAIN jira
      /\ \A k \in DOMAIN jira : k # k1 => jira'[k] = jira[k]
      /\ touched' = touched \union {k1}
      /\ deployment = "cloud"
      /\ jira'[k1].summary = e1.x.summary
      /\ e1.story # None => e1.story \in jira'[k1].links
      /\ Reached(jira'[k1], e1, run.step + 1)
  BY SendIs DEF Inv, ShapeInv
<1>3. /\ e1 = run.entries[c] /\ e1.status = "WOULD_UPDATE" /\ k1 = e1.key
      /\ \A j \in DOMAIN run.entries :
           j # c /\ run.entries[j].status \in About => run.entries[j].key # k1
  BY Entry1Is DEF Inv, ShapeInv
<1>4. Waiting' = Waiting /\ Waiting # {}
  BY <1>1 DEF Waiting, Running
<1>5. Current1' = c
  BY <1>4 DEF Current1
<1>6. Entry1' = e1 /\ Key1' = k1
  BY <1>1, <1>3, <1>5 DEF Entry1, Key1
<1>7. ShapeInv'
  BY <1>1, <1>2 DEF Inv, ShapeInv
<1>8. AccountInv'
  <2>1. ASSUME NEW k \in touched'
        PROVE  (\E i \in DOMAIN run'.entries : Says(i, k)') \/ (run'.step > 1 /\ k = k1)
    <3>1. CASE k = k1
      BY <1>1, <3>1
    <3>2. CASE k \in touched /\ k # k1
      <4>1. PICK i \in DOMAIN run.entries : Says(i, k)
        BY <1>4, <3>2 DEF Inv, AccountInv, Running
      <4>2. Says(i, k)'
        BY <1>1, <4>1 DEF Says, Running
      <4>. QED  BY <1>1, <4>2
    <3>. QED  BY <1>2, <3>1, <3>2
  <2>. QED  BY <1>1, <1>4, <1>6, <2>1 DEF AccountInv, Returning
<1>9. ASSUME NEW i \in DOMAIN run.entries
      PROVE  EntryOK(i)'
  <2>1. EntryOK(i)
    BY DEF Inv, UpdateInv, Running
  <2>2. CASE i = c
    BY <1>1, <1>2, <1>3, <1>5, <2>1, <2>2 DEF EntryOK, Blocked
  <2>3. CASE i # c /\ run.entries[i].status \in About
    <3>1. run.entries[i].key \in DOMAIN jira /\ run.entries[i].key # k1
      BY <1>3, <2>1, <2>3 DEF EntryOK
    <3>2. jira'[run.entries[i].key] = jira[run.entries[i].key]
      BY <1>2, <3>1
    <3>. QED  BY <1>1, <1>2, <1>5, <2>1, <2>3, <3>2 DEF EntryOK, Blocked
  <2>4. CASE i # c /\ run.entries[i].status \notin About
    BY <1>1, <2>1, <2>4 DEF EntryOK, About
  <2>. QED  BY <2>2, <2>3, <2>4
<1>10. UnderWay'
  BY <1>1, <1>2, <1>4, <1>6 DEF UnderWay
<1>11. UpdateInv'
  BY <1>1, <1>9, <1>10 DEF UpdateInv
<1>12. CreateInv' /\ OwnersDistinct'
  BY <1>1 DEF Inv, CreateInv, OwnersDistinct
<1>. QED  BY <1>2, <1>7, <1>8, <1>11, <1>12 DEF Inv

(* One lemma per request of an update.                                     *)
LEMMA UpdateSentStep ==
    ASSUME Inv, UpdateSent
    PROVE  Inv'
<1>1. CASE Last1
  BY <1>1, SentLast DEF UpdateSent
<1>2. CASE ~Last1
  BY <1>2, SentNotLast DEF UpdateSent
<1>. QED  BY <1>1, <1>2

LEMMA UpdateNotConfirmedStep ==
    ASSUME Inv, UpdateNotConfirmed
    PROVE  Inv'
<1>1. Running("update") /\ Send /\ Stop(Key1, "not_confirmed") /\ Kept
  BY DEF UpdateNotConfirmed
<1>2. Results("ERROR", Key1, "not_confirmed") /\ Waiting' = {}
  BY <1>1, StopIs DEF Inv, ShapeInv, Running
<1>3. /\ AreTests(jira)' /\ NoResidue'
      /\ DOMAIN jira' = DOMAIN jira
      /\ \A k \in DOMAIN jira : k # Key1 => jira'[k] = jira[k]
      /\ touched' = touched \union {Key1}
  BY <1>1, SendIs DEF Inv, ShapeInv
<1>4. \A k \in touched' : \/ k \in touched /\ ~(run.step > 1 /\ k = Key1)
                          \/ NowSaid("ERROR", Key1, "not_confirmed", k)
  BY <1>2, <1>3 DEF NowSaid, Open
<1>. QED  BY <1>1, <1>2, <1>3, <1>4, UpdateStep

LEMMA UpdateRejectedStep ==
    ASSUME Inv, UpdateRejected
    PROVE  Inv'
<1>1. Running("update") /\ run.step = 1 /\ GoOn("ERROR", Key1, "rejected") /\ Kept /\ SameJira
  BY DEF UpdateRejected, First1
<1>2. "ERROR" \notin Planned
  BY DEF Planned
<1>3. Results("ERROR", Key1, "rejected")
  BY <1>1, <1>2, GoOnIs DEF Inv, ShapeInv, Running
<1>4. /\ AreTests(jira)' /\ NoResidue' /\ DOMAIN jira' = DOMAIN jira
      /\ \A k \in DOMAIN jira : jira'[k] = jira[k]
      /\ \A k \in touched' : k \in touched /\ ~(run.step > 1)
  BY <1>1, JiraKept
<1>. QED  BY <1>1, <1>3, <1>4, UpdateStep

LEMMA UpdateAuthStep ==
    ASSUME Inv, UpdateAuth
    PROVE  Inv'
<1>1. Running("update") /\ run.step = 1 /\ AuthFailed /\ Kept /\ SameJira
  BY DEF UpdateAuth, First1
<1>2. CASE Wrote
  <2>1. Stop(Key1, "auth_failed")
    BY <1>1, <1>2 DEF AuthFailed, Key1
  <2>2. Results("ERROR", Key1, "auth_failed")
    BY <1>1, <2>1, StopIs DEF Inv, ShapeInv, Running
  <2>3. /\ AreTests(jira)' /\ NoResidue' /\ DOMAIN jira' = DOMAIN jira
        /\ \A k \in DOMAIN jira : jira'[k] = jira[k]
        /\ \A k \in touched' : k \in touched /\ ~(run.step > 1)
    BY <1>1, JiraKept
  <2>. QED  BY <1>1, <2>2, <2>3, UpdateStep
<1>3. CASE ~Wrote
  <2>1. Raise
    BY <1>1, <1>3 DEF AuthFailed
  <2>2. touched = {}
    BY <1>1, <1>3, NothingYet DEF Running
  <2>. QED  BY <1>1, <2>1, <2>2, RaiseStep DEF Kept, SameJira
<1>. QED  BY <1>2, <1>3

LEMMA UpdateUncertainStep ==
    ASSUME Inv, UpdateUncertain
    PROVE  Inv'
<1>. PICK why \in {"outcome_unknown", "partially_applied"} : Stop(Key1, why)
  BY DEF UpdateUncertain, Uncertain
<1>1. Running("update") /\ Kept
  BY DEF UpdateUncertain
<1>2. Results("ERROR", Key1, why) /\ Waiting' = {}
  BY <1>1, StopIs DEF Inv, ShapeInv, Running
<1>3. NowSaid("ERROR", Key1, why, Key1)
  BY <1>2 DEF NowSaid, Open
<1>4. CASE Send
  <2>1. /\ AreTests(jira)' /\ NoResidue'
        /\ DOMAIN jira' = DOMAIN jira
        /\ \A k \in DOMAIN jira : k # Key1 => jira'[k] = jira[k]
        /\ touched' = touched \union {Key1}
    BY <1>1, <1>4, SendIs DEF Inv, ShapeInv
  <2>2. \A k \in touched' : \/ k \in touched /\ ~(run.step > 1 /\ k = Key1)
                            \/ NowSaid("ERROR", Key1, why, k)
    BY <1>3, <2>1
  <2>. QED  BY <1>1, <1>2, <2>1, <2>2, UpdateStep
<1>5. CASE SameJira
  <2>1. /\ AreTests(jira)' /\ NoResidue' /\ DOMAIN jira' = DOMAIN jira
        /\ \A k \in DOMAIN jira : jira'[k] = jira[k]
        /\ touched' = touched
    BY <1>5, JiraKept
  <2>2. \A k \in touched' : \/ k \in touched /\ ~(run.step > 1 /\ k = Key1)
                            \/ NowSaid("ERROR", Key1, why, k)
    BY <1>3, <2>1
  <2>. QED  BY <1>1, <1>2, <2>1, <2>2, UpdateStep
<1>. QED  BY <1>4, <1>5 DEF UpdateUncertain

(* The caller has its results.                                             *)
LEMMA ReturnStep ==
    ASSUME Inv, Return
    PROVE  Inv'
<1>1. /\ run' = [kind |-> run.kind, phase |-> "done", entries |-> run.entries,
                 owned |-> run.owned, step |-> run.step]
      /\ RunOK' /\ UNCHANGED <<deployment, files, jira, touched>>
  BY DEF Return, Inv, ShapeInv, RunOK
<1>2. ShapeInv'
  BY <1>1 DEF Inv, ShapeInv, AreTests
<1>3. AccountInv'
  BY <1>1 DEF AccountInv, Returning
<1>4. CreateInv' /\ UpdateInv' /\ NoResidue' /\ OwnersDistinct'
  BY <1>1 DEF Inv, CreateInv, UpdateInv, NoResidue, Remote, OwnersDistinct
<1>. QED  BY <1>2, <1>3, <1>4 DEF Inv

(* write_xray_keys_to_files: assign_keys keeps the owners distinct.        *)
LEMMA WriteKeysStep ==
    ASSUME Inv, WriteKeys
    PROVE  Inv'
<1>1. PICK keys : CanAssign(files, keys) /\ files' = Rewritten(files, keys)
  BY DEF WriteKeys
<1>2. UNCHANGED <<deployment, jira, run, touched, denied>>
  BY DEF WriteKeys
<1>3. AreFiles(Rewritten(files, keys)) /\ OneOwner(Rewritten(files, keys))
  BY <1>1, RewrittenIs, AssignedOnce DEF Inv, ShapeInv
<1>4. AreFiles(files)' /\ OneOwner(files)'
  BY <1>1, <1>3 DEF AreFiles, OneOwner
<1>. QED  BY <1>2, <1>4, FilesChange

(* pull_xray_tests_to_files: a key is pulled once, and only when unknown.  *)
LEMMA PullStep ==
    ASSUME Inv, PullCall
    PROVE  Inv'
<1>1. PICK fmt : Pull(fmt)
  BY DEF PullCall
<1> DEFINE plan == PullPlan(jira, files, fmt, NewPath, Remote)
<1>2. /\ PullApplies(files, plan) /\ files' = Applied(jira, files, fmt, plan)
      /\ UNCHANGED <<deployment, jira, run, touched, denied>>
  BY <1>1 DEF Pull
<1>3. IsFiniteSet(Remote)
  <2>1. IsFiniteSet(Keys)
    BY RulesAssumption
  <2>2. Remote \in SUBSET Keys
    BY DEF Inv, ShapeInv, AreTests, Remote
  <2>. QED  BY <2>1, <2>2, FS_Subset
<1>4. /\ IsFiniteSet(plan)
      /\ \A r \in plan : r.key \in DOMAIN jira
      /\ \A r, q \in plan : r.key = q.key => r = q
      /\ \A r \in plan : r.status \in Actionable => r.key \notin Tagged(files)
  BY <1>3, PullPlanIs DEF Remote
<1>. HIDE DEF plan
<1>5. AreFiles(files) /\ AreTests(jira) /\ OneOwner(files)
  BY DEF Inv, ShapeInv, OwnersDistinct
<1>6. AreFiles(Applied(jira, files, fmt, plan))
  BY <1>4, <1>5, AppliedIs
<1>7. OneOwner(Applied(jira, files, fmt, plan))
  BY <1>2, <1>4, <1>5, PulledOnce
<1>8. AreFiles(files)' /\ OneOwner(files)'
  BY <1>2, <1>6, <1>7 DEF AreFiles, OneOwner
<1>. QED  BY <1>2, <1>8, FilesChange

(* An author changes a body; the tags stay.                                *)
LEMMA EditFileStep ==
    ASSUME Inv, EditFile
    PROVE  Inv'
<1>. PICK p \in ToSet(Paths) : \E n \in DOMAIN files[p].sc : \E def \in Edits :
         files' = [files EXCEPT ![p].sc[n].def = def]
  BY DEF EditFile
<1>. PICK n \in DOMAIN files[p].sc : \E def \in Edits :
         files' = [files EXCEPT ![p].sc[n].def = def]
  OBVIOUS
<1>1. PICK def \in Edits : files' = [files EXCEPT ![p].sc[n].def = def]
  OBVIOUS
<1>2. UNCHANGED <<deployment, jira, run, touched, denied>>
  BY DEF EditFile
<1> DEFINE f == files[p]
           s == f.sc[n]
           s1 == [s EXCEPT !.def = def]
           sc1 == [f.sc EXCEPT ![n] = s1]
           f1 == [f EXCEPT !.sc = sc1]
<1>3. files' = [files EXCEPT ![p] = f1]
  BY <1>1
<1>4. /\ AreFiles(files) /\ OneOwner(files) /\ DOMAIN files = ToSet(Paths) /\ p \in DOMAIN files
      /\ IsFile(f)
  BY DEF Inv, ShapeInv, OwnersDistinct, AreFiles
<1>5. /\ f = [format |-> f.format, story |-> f.story, sc |-> f.sc]
      /\ f.sc \in Seq(ToSet(f.sc)) /\ IsScenario(s)
  BY <1>4 DEF IsFile
<1>6. IsBody(def)
  BY StartsAssumption
<1>7. IsScenario(s1) /\ s1.tag = s.tag
  <2>1. s = Scenario(s.summary, s.local, s.bare, s.tag, s.def)
    BY <1>5 DEF IsScenario
  <2>. HIDE DEF s
  <2>. QED  BY <1>6, <2>1 DEF IsScenario, Scenario
<1>. HIDE DEF s1
<1>8. /\ DOMAIN sc1 = DOMAIN f.sc /\ sc1 = [i \in DOMAIN sc1 |-> sc1[i]]
      /\ \A i \in DOMAIN f.sc : /\ i = n => sc1[i] = s1
                                /\ i # n => sc1[i] = f.sc[i]
  <2>. HIDE DEF f
  <2>. QED  OBVIOUS
<1>. HIDE DEF sc1
<1>9. sc1 \in Seq(ToSet(sc1))
  BY <1>5, <1>8, EntriesAre
<1>10. f1 = [format |-> f.format, story |-> f.story, sc |-> sc1]
  <2>. HIDE DEF f
  <2>. QED  BY <1>5
<1>. HIDE DEF f1
<1>11. \A i \in DOMAIN f.sc : IsScenario(sc1[i]) /\ sc1[i].tag = f.sc[i].tag
  BY <1>4, <1>7, <1>8 DEF IsFile
<1>12. IsFile(f1) /\ f1.sc = sc1
  BY <1>8, <1>9, <1>10, <1>11 DEF IsFile
<1>13. /\ DOMAIN files' = DOMAIN files
       /\ \A q \in DOMAIN files : (q = p => files'[q] = f1) /\ (q # p => files'[q] = files[q])
  BY <1>3, <1>4
<1>14. AreFiles(files)'
  BY <1>4, <1>12, <1>13 DEF AreFiles
<1>15. \A q \in DOMAIN files : /\ DOMAIN files'[q].sc = DOMAIN files[q].sc
                               /\ \A i \in DOMAIN files[q].sc :
                                    files'[q].sc[i].tag = files[q].sc[i].tag
  BY <1>8, <1>11, <1>12, <1>13
<1>16. OneOwner(files)'
  BY <1>4, <1>13, <1>15 DEF OneOwner
<1>. QED  BY <1>2, <1>14, <1>16, FilesChange

(* Somebody renames a test while no call runs.                             *)
LEMMA EditTestStep ==
    ASSUME Inv, EditTest
    PROVE  Inv'
<1>1. PICK k \in DOMAIN jira : jira' = [jira EXCEPT ![k].summary = "edited"]
  BY DEF EditTest, Remote
<1>2. run.phase # "running" /\ UNCHANGED <<deployment, files, run, touched, denied>>
  BY DEF EditTest
<1> DEFINE t == jira[k]
           u == [t EXCEPT !.summary = "edited"]
<1>3. IsTest(t) /\ Clean(t)
  BY DEF Inv, ShapeInv, AreTests, NoResidue, Remote
<1>4. jira' = [jira EXCEPT ![k] = u]
  BY <1>1
<1>5. IsTest(u) /\ Clean(u)
  <2>1. t = Test(t.summary, t.links, t.kind, t.steps, t.gherkin)
    BY <1>3 DEF IsTest
  <2>. HIDE DEF t
  <2>2. /\ u.kind = t.kind /\ u.steps = t.steps /\ u.gherkin = t.gherkin
        /\ u = Test(u.summary, u.links, u.kind, u.steps, u.gherkin)
    BY <2>1 DEF Test
  <2>. HIDE DEF u
  <2>. QED  BY <1>3, <2>2 DEF IsTest, Clean
<1>. HIDE DEF u, t
<1>6. /\ DOMAIN jira' = DOMAIN jira
      /\ \A h \in DOMAIN jira : (h = k => jira'[h] = u) /\ (h # k => jira'[h] = jira[h])
  BY <1>4
<1>7. AreTests(jira)' /\ NoResidue'
  BY <1>5, <1>6 DEF Inv, ShapeInv, AreTests, NoResidue, Remote
<1>8. ShapeInv'
  BY <1>2, <1>7 DEF Inv, ShapeInv, RunOK
<1>9. AccountInv'
  BY <1>2 DEF Inv, AccountInv, Returning
<1>10. CreateInv' /\ UpdateInv' /\ OwnersDistinct'
  BY <1>2 DEF Inv, CreateInv, UpdateInv, OwnersDistinct
<1>. QED  BY <1>7, <1>8, <1>9, <1>10 DEF Inv

(* The states a call can start from.                                       *)
LEMMA InvInit ==
    ASSUME Init
    PROVE  Inv
<1>1. PICK s \in Starts : files = s.files /\ jira = s.jira
  BY DEF Init
<1>2. /\ AreFiles(files) /\ OneOwner(files) /\ AreTests(jira)
      /\ \A k \in DOMAIN jira : Clean(jira[k])
  BY <1>1, StartsAssumption
<1>3. /\ run = [kind |-> "none", phase |-> "done", entries |-> <<>>, owned |-> {}, step |-> 1]
      /\ deployment \in {"server", "cloud"}
  BY DEF Init, Run
<1>4. RunOK
  BY <1>3 DEF RunOK
<1>5. ShapeInv
  BY <1>2, <1>3, <1>4 DEF ShapeInv
<1>6. AccountInv /\ CreateInv /\ UpdateInv
  BY <1>3 DEF AccountInv, Returning, CreateInv, UpdateInv
<1>7. NoResidue /\ OwnersDistinct
  BY <1>2 DEF NoResidue, Remote, OwnersDistinct
<1>. QED  BY <1>5, <1>6, <1>7 DEF Inv

(* The inductive invariant: the shape of files, tests and results; every   *)
(* write is in the results or is the one under way; what is planned to be  *)
(* created is not there yet and planned once; an update is about a test of *)
(* its own and its mutations have come as far as the request counter says. *)
THEOREM XrayInvariant == Spec => []Inv
<1>1. Init => Inv
  BY InvInit
<1>2. Inv /\ [Next]_vars => Inv'
  <2>. SUFFICES ASSUME Inv, [Next]_vars
                PROVE  Inv'
    OBVIOUS
  <2>1. CASE Create
    BY <2>1, CreateCallStep, CreateOkStep, CreateUnlinkedStep, CreateRejectedStep,
       CreateNeedsFieldsStep, CreateAuthStep, CreateLostStep DEF Create
  <2>2. CASE Update
    BY <2>2, UpdateCallStep, UpdateSentStep, UpdateNotConfirmedStep, UpdateRejectedStep,
       UpdateAuthStep, UpdateUncertainStep DEF Update
  <2>3. CASE Return \/ WriteKeys \/ PullCall \/ EditFile \/ EditTest
    BY <2>3, ReturnStep, WriteKeysStep, PullStep, EditFileStep, EditTestStep
  <2>4. CASE UNCHANGED vars
    BY <2>4, Untouched DEF vars
  <2>. QED  BY <2>1, <2>2, <2>3, <2>4 DEF Next
<1>. QED  BY <1>1, <1>2, PTL DEF Spec

(* The results name every test a call wrote to, as done or as not known,   *)
(* and a call that raises wrote nothing; all but the tests that creates    *)
(* made which Cloud answered with errors (create_xray_tests_from_files.py   *)
(* _create, update_xray_tests_from_files.py _update, cloud.py _mutate).    *)
THEOREM XrayWritesAccounted == Spec => []WritesAccounted
<1>1. Inv => WritesAccounted
  BY DEF Inv, AccountInv, WritesAccounted
<1>. QED  BY <1>1, XrayInvariant, PTL

(* UPDATED and SKIPPED are true, no test is updated for two scenarios, and *)
(* of an old definition nothing is left, also when an update failed half   *)
(* way (xray_diff.py diff_test, cloud_update.py mutations, server_update.py*)
(* update_body).                                                           *)
THEOREM XrayUpdatedMatches == Spec => []UpdatedMatches
<1>1. Inv => UpdatedMatches
  <2>. SUFFICES ASSUME Inv PROVE AsUpdated /\ NoResidue
    BY DEF UpdatedMatches
  <2>1. AsUpdated
    BY DEF Inv, UpdateInv, EntryOK, AsUpdated, Returning, About
  <2>. QED  BY <2>1 DEF Inv
<1>. QED  BY <1>1, XrayInvariant, PTL

(* No two scenarios end with the same key, whatever is created, written    *)
(* back or pulled (key_ownership.py assign_keys, pull_parent.py            *)
(* known_xray_keys).                                                       *)
THEOREM XrayOwnersDistinct == Spec => []OwnersDistinct
<1>1. Inv => OwnersDistinct
  BY DEF Inv
<1>. QED  BY <1>1, XrayInvariant, PTL

(* What a step may create.                                                 *)
Once == \A k \in DOMAIN jira' \ DOMAIN jira : \A s \in jira'[k].links :
          SameSummary(jira, s, jira'[k].summary) \subseteq run.owned \union Refused

(* What a create request makes, nobody else had.                           *)
LEMMA MakesOnce ==
    ASSUME Inv, Running("create"), NEW links \in SUBSET {Entry1.story}, Makes(links)
    PROVE  Once
<1>. PICK f : f = FreshKey
  OBVIOUS
<1>1. /\ DOMAIN jira' = DOMAIN jira \union {f}
      /\ jira'[f].links = links /\ jira'[f].summary = Entry1.x.summary
      /\ SameSummary(jira, Entry1.story, Entry1.x.summary) \subseteq run.owned \union Refused
  BY MakesIs DEF Inv, ShapeInv
<1>. QED  BY <1>1 DEF Once

(* A test is created for a story and a summary only if every test that has *)
(* them is owned by a scenario of the call, or, for the one retry of a     *)
(* create that Cloud refused with errors, is the test that create made     *)
(* (matching.py match_scenarios, batch.py create_each).                    *)
THEOREM XrayNeverTwice == Spec => NeverTwice
<1>1. Inv /\ [Next]_vars => [Once]_vars
  <2>. SUFFICES ASSUME Inv, [Next]_vars
                PROVE  Once
    OBVIOUS
  <2>1. DOMAIN jira' = DOMAIN jira => Once
    BY DEF Once
  <2>2. CASE CreateOk
    BY <2>2, MakesOnce DEF CreateOk, Adds
  <2>3. CASE CreateUnlinked
    <3>1. PICK links \in {{}, {Entry1.story}} : Adds(links)
      BY <2>3 DEF CreateUnlinked
    <3>2. links \in SUBSET {Entry1.story}
      OBVIOUS
    <3>. QED  BY <2>3, <3>1, <3>2, MakesOnce DEF CreateUnlinked, Adds
  <2>4. CASE CreateLost
    <3>1. CASE Adds({Entry1.story})
      BY <2>4, <3>1, MakesOnce DEF CreateLost, Adds
    <3>2. CASE SameJira
      BY <2>1, <3>2 DEF SameJira
    <3>. QED  BY <2>4, <3>1, <3>2 DEF CreateLost
  <2>5. CASE CreateCall \/ CreateNeedsFields \/ CreateAuth
    BY <2>1, <2>5 DEF CreateCall, Begin, CreateNeedsFields, CreateAuth, SameJira
  <2>11. CASE CreateRejected
    <3>1. CASE SameJira
      BY <2>1, <3>1 DEF SameJira
    <3>2. CASE MakesAnyway
      <4>1. PICK links \in {{}, {Entry1.story}} : Makes(links)
        BY <3>2 DEF MakesAnyway
      <4>2. links \in SUBSET {Entry1.story}
        OBVIOUS
      <4>. QED  BY <2>11, <4>1, <4>2, MakesOnce DEF CreateRejected
    <3>. QED  BY <2>11, <3>1, <3>2 DEF CreateRejected
  <2>6. CASE UpdateSent \/ UpdateNotConfirmed \/ UpdateUncertain
    <3>1. Send => DOMAIN jira' = DOMAIN jira
      BY DEF Send, PutTest, Writes
    <3>2. SameJira => DOMAIN jira' = DOMAIN jira
      BY DEF SameJira
    <3>. QED  BY <2>1, <2>6, <3>1, <3>2 DEF UpdateSent, UpdateNotConfirmed, UpdateUncertain
  <2>7. CASE UpdateCall \/ UpdateRejected \/ UpdateAuth
    BY <2>1, <2>7 DEF UpdateCall, Begin, UpdateRejected, UpdateAuth, SameJira
  <2>8. CASE Return \/ WriteKeys \/ PullCall \/ EditFile
    BY <2>1, <2>8 DEF Return, WriteKeys, PullCall, Pull, EditFile
  <2>9. CASE EditTest
    BY <2>1, <2>9 DEF EditTest
  <2>10. CASE UNCHANGED vars
    BY <2>1, <2>10 DEF vars
  <2>. QED  BY <2>2, <2>3, <2>4, <2>5, <2>6, <2>7, <2>8, <2>9, <2>10,
            <2>11 DEF Next, Create, Update
<1>2. NeverTwice <=> [][Once]_vars
  BY DEF NeverTwice, Once
<1>. QED  BY <1>1, <1>2, XrayInvariant, PTL DEF Spec
=============================================================================
