---------------------------- MODULE Voting_proofs ----------------------------
(***************************************************************************)
(* Proofs about Voting, for any number of channels, any values, any quorum *)
(* and any compare callback that finds a value equal to itself.            *)
(*                                                                         *)
(* The first half is about the algorithm: what the groups of               *)
(* voter_group_matching_responses() have in common and that the largest of *)
(* them decides the vote.  The second half carries the vote of a call      *)
(* through the steps of the call, while the channels change under it.      *)
(***************************************************************************)
EXTENDS Voting, FiniteSetTheorems, TLAPS

\* What a poll of the channels can bring together.
Answers == Seq(Value \cup {Nothing})

\* The earlier channels that channel i agrees with.
Agreeing(cfg, g, i) ==
  {j \in responded(g) : j < i /\ g[i] # Nothing /\ voter_data_equal(cfg, g[i], g[j])}

-----------------------------------------------------------------------------
(* Least elements *)

\* Every nonempty set of naturals has a least element: the one First chooses.
LEMMA FirstFacts ==
  ASSUME NEW S \in SUBSET Nat, S # {}
  PROVE  First(S) \in S /\ \A j \in S : First(S) <= j
<1> DEFINE R == OpToRel(<, Nat)
<1>1. IsWellFoundedOn(R, Nat)
  BY NatLessThanWellFounded
<1> HIDE DEF R
<1>2. PICK x \in S : \A y \in S : ~ (<<y, x>> \in R)
  BY <1>1, WFMin
<1>3. ASSUME NEW y \in S, y < x PROVE <<y, x>> \in R
  BY <1>3 DEF R, OpToRel
<1>4. \A y \in S : ~(y < x)
  BY <1>2, <1>3
<1>5. \A y \in S : x <= y
  BY <1>4
<1> QED
  BY <1>5 DEF First

-----------------------------------------------------------------------------
(* The groups *)

\* The loop over the channels computes the groups: each index only needs the
\* groups of smaller ones.
LEMMA GroupFunction ==
  ASSUME NEW cfg, NEW g \in Answers
  PROVE  LET group == voter_group_matching_responses(cfg, g)
         IN  group = [i \in 1..Len(g) |->
                        IF Agreeing(cfg, g, i) = {} THEN i ELSE group[First(Agreeing(cfg, g, i))]]
<1> DEFINE n == Len(g)
           A(i) == Agreeing(cfg, g, i)
<1>1. n \in Nat
  BY DEF Answers
<1>2. \A i \in 1..n : A(i) # {} => First(A(i)) \in 1..n /\ First(A(i)) < i
  <2> SUFFICES ASSUME NEW i \in 1..n, A(i) # {} PROVE First(A(i)) \in 1..n /\ First(A(i)) < i
    OBVIOUS
  <2>1. A(i) \subseteq 1..n /\ \A j \in A(i) : j < i
    BY DEF Agreeing, responded
  <2> HIDE DEF A
  <2>2. A(i) \in SUBSET Nat
    BY <1>1, <2>1
  <2> QED
    BY <2>1, <2>2, FirstFacts
<1> HIDE DEF A, n
<1> DEFINE Computes(f, m) ==
             \A i \in 1..m : f[i] = IF A(i) = {} THEN i ELSE f[First(A(i))]
           Done(m) == \E f \in [1..m -> Nat] : Computes(f, m)
           Undone == {m \in 0..n : ~Done(m)}
<1>3. Undone = {}
  <2> SUFFICES ASSUME Undone # {} PROVE FALSE
    OBVIOUS
  <2> DEFINE m == First(Undone)
  <2>1. Undone \in SUBSET Nat
    BY <1>1
  <2>2. m \in Undone /\ \A j \in Undone : m <= j
    <3> HIDE DEF Undone
    <3> QED
      BY <2>1, FirstFacts
  <2>3. m \in 0..n /\ ~Done(m)
    BY <2>2
  <2>4. m # 0
    <3>1. [i \in 1..0 |-> 0] \in [1..0 -> Nat] /\ Computes([i \in 1..0 |-> 0], 0)
      OBVIOUS
    <3>2. Done(0)
      BY <3>1
    <3> QED
      BY <2>3, <3>2
  <2>5. m - 1 \in 0..n /\ Done(m - 1)
    <3>1. m - 1 \in 0..n /\ ~(m - 1 >= m)
      BY <1>1, <2>3, <2>4
    <3>2. m - 1 \notin Undone
      BY <2>1, <2>2, <3>1
    <3> QED
      BY <3>1, <3>2
  <2>6. PICK f \in [1..(m - 1) -> Nat] : Computes(f, m - 1)
    BY <2>5
  <2> DEFINE h == [i \in 1..m |-> IF i < m THEN f[i]
                                  ELSE IF A(m) = {} THEN m ELSE f[First(A(m))]]
  <2> HIDE DEF m
  <2>7. m \in Nat \ {0} /\ m <= n
    BY <1>1, <2>3, <2>4
  <2>8. h \in [1..m -> Nat]
    BY <1>1, <1>2, <2>6, <2>7
  <2>9. ASSUME NEW i \in 1..m PROVE h[i] = IF A(i) = {} THEN i ELSE h[First(A(i))]
    <3>1. A(i) # {} => First(A(i)) \in 1..(m - 1) /\ First(A(i)) < i
      BY <1>1, <1>2, <2>7
    <3>2. A(i) # {} => h[First(A(i))] = f[First(A(i))]
      BY <2>7, <3>1
    <3>3. CASE i = m
      BY <2>7, <3>2, <3>3
    <3>4. CASE i # m
      <4>1. i \in 1..(m - 1)
        BY <2>7, <3>4
      <4>2. f[i] = IF A(i) = {} THEN i ELSE f[First(A(i))]
        BY <2>6, <4>1
      <4>3. h[i] = f[i]
        BY <2>7, <4>1
      <4> QED
        BY <3>2, <4>2, <4>3
    <3> QED
      BY <3>3, <3>4
  <2>10. Done(m)
    <3> HIDE DEF h
    <3> QED
      BY <2>8, <2>9
  <2> QED
    BY <2>3, <2>10
<1>4. Done(n)
  <2>1. n \in 0..n
    BY <1>1
  <2> HIDE DEF Done
  <2> QED
    BY <1>3, <2>1
<1>5. PICK f \in [1..n -> Nat] : Computes(f, n)
  BY <1>4
<1>6. f = [i \in 1..n |-> IF A(i) = {} THEN i ELSE f[First(A(i))]]
  BY <1>5
<1>7. voter_group_matching_responses(cfg, g)
        = CHOOSE group : group = [i \in 1..n |-> IF A(i) = {} THEN i ELSE group[First(A(i))]]
  BY Zenon DEF voter_group_matching_responses, Agreeing, A, n
<1> QED
  BY <1>6, <1>7 DEF A, n

\* The group of a channel is that of the first earlier one it agrees with.
LEMMA GroupOf ==
  ASSUME NEW cfg, NEW g \in Answers, NEW i \in 1..Len(g)
  PROVE  LET group == voter_group_matching_responses(cfg, g)
             A == Agreeing(cfg, g, i)
         IN  /\ A = {} => group[i] = i
             /\ A # {} => /\ group[i] = group[First(A)]
                          /\ First(A) \in A /\ \A j \in A : First(A) <= j
                          /\ First(A) \in responded(g) /\ First(A) < i
                          /\ voter_data_equal(cfg, g[i], g[First(A)])
<1> DEFINE group == voter_group_matching_responses(cfg, g)
           A == Agreeing(cfg, g, i)
<1>1. group[i] = IF A = {} THEN i ELSE group[First(A)]
  <2>1. group = [k \in 1..Len(g) |-> IF Agreeing(cfg, g, k) = {} THEN k
                                     ELSE group[First(Agreeing(cfg, g, k))]]
    BY GroupFunction
  <2> HIDE DEF group
  <2> QED
    BY <2>1
<1>2. /\ A \in SUBSET Nat
      /\ \A j \in A : j \in responded(g) /\ j < i /\ voter_data_equal(cfg, g[i], g[j])
  BY DEF Agreeing, responded, Answers
<1> HIDE DEF A, group
<1>3. A # {} => First(A) \in A /\ \A j \in A : First(A) <= j
  BY <1>2, FirstFacts
<1> QED
  BY <1>1, <1>2, <1>3 DEF A, group

\* The channel that began a group is the first of it and delivered something;
\* without a callback all its members delivered the same.
LEMMA LeaderFacts ==
  ASSUME NEW cfg \in Config, NEW g \in Answers, NEW j \in responded(g)
  PROVE  LET group == voter_group_matching_responses(cfg, g)
         IN  /\ group[j] \in responded(g) /\ group[j] <= j
             /\ group[group[j]] = group[j]
             /\ ~cfg.callback => g[j] = g[group[j]]
<1> DEFINE group == voter_group_matching_responses(cfg, g)
           Good(k) == /\ group[k] \in responded(g) /\ group[k] <= k
                      /\ group[group[k]] = group[k]
                      /\ ~cfg.callback => g[k] = g[group[k]]
           Bad == {k \in responded(g) : ~Good(k)}
<1>1. responded(g) \subseteq 1..Len(g) /\ responded(g) \in SUBSET Nat
  BY DEF responded, Answers
<1> HIDE DEF group
<1>2. Bad = {}
  <2> SUFFICES ASSUME Bad # {} PROVE FALSE
    OBVIOUS
  <2>1. Bad \in SUBSET Nat
    BY <1>1
  <2> DEFINE k == First(Bad)
  <2>2. k \in Bad /\ \A i \in Bad : k <= i
    <3> HIDE DEF Bad
    <3> QED
      BY <2>1, FirstFacts
  <2> HIDE DEF k
  <2>3. k \in responded(g) /\ k \in 1..Len(g) /\ ~Good(k) /\ k \in Nat
    BY <1>1, <2>2
  <2> DEFINE A == Agreeing(cfg, g, k)
             f == First(A)
  <2>4. CASE A = {}
    <3>1. group[k] = k
      BY <2>3, <2>4, GroupOf DEF group
    <3> QED
      BY <2>3, <3>1
  <2>5. CASE A # {}
    <3>1. /\ group[k] = group[f] /\ f \in responded(g) /\ f < k
          /\ voter_data_equal(cfg, g[k], g[f])
      BY <2>3, <2>5, GroupOf DEF group
    <3> HIDE DEF A, f
    <3>2. f \notin Bad
      BY <1>1, <2>2, <2>3, <3>1
    <3>3. Good(f)
      BY <3>1, <3>2
    <3>4. ~cfg.callback => g[k] = g[f]
      BY <3>1 DEF voter_data_equal
    <3>5. group[k] <= k
      BY <1>1, <2>3, <3>1, <3>3
    <3> QED
      BY <2>3, <3>1, <3>3, <3>4, <3>5
  <2> QED
    BY <2>4, <2>5
<1> QED
  BY <1>2 DEF group

\* A group of more than one channel has a second one that agrees directly with
\* the one that began it.
LEMMA DirectFollower ==
  ASSUME NEW cfg \in Config, NEW g \in Answers, NEW j \in responded(g),
         voter_group_matching_responses(cfg, g)[j] # j
  PROVE  LET group == voter_group_matching_responses(cfg, g)
         IN  \E k \in responded(g) :
               k # group[j] /\ voter_data_equal(cfg, g[k], g[group[j]])
<1> DEFINE group == voter_group_matching_responses(cfg, g)
           Others == {k \in responded(g) : group[k] = group[j] /\ k # group[j]}
           k == First(Others)
<1>1. responded(g) \subseteq 1..Len(g) /\ responded(g) \in SUBSET Nat
  BY DEF responded, Answers
<1>2. group[j] # j
  OBVIOUS
<1> HIDE DEF group
<1>3. Others \in SUBSET Nat /\ Others # {}
  BY <1>1, <1>2
<1>4. k \in Others /\ \A i \in Others : k <= i
  <2> HIDE DEF Others
  <2> QED
    BY <1>3, FirstFacts
<1> HIDE DEF k
<1>5. k \in responded(g) /\ k \in 1..Len(g) /\ group[k] = group[j] /\ k # group[j] /\ k \in Nat
  BY <1>1, <1>4
<1> DEFINE A == Agreeing(cfg, g, k)
           f == First(A)
<1>6. A # {}
  BY <1>5, GroupOf DEF group
<1>7. /\ group[k] = group[f] /\ f \in responded(g) /\ f < k
      /\ voter_data_equal(cfg, g[k], g[f])
  BY <1>5, <1>6, GroupOf DEF group
<1> HIDE DEF A, f
<1>8. f \notin Others
  BY <1>1, <1>4, <1>5, <1>7
<1>9. f = group[j]
  BY <1>5, <1>7, <1>8
<1> QED
  BY <1>5, <1>7, <1>9 DEF group

\* Channels that delivered the same value are in the same group.
LEMMA SameValueSameGroup ==
  ASSUME NEW cfg \in Config, NEW g \in Answers, NEW i \in responded(g), NEW j \in responded(g),
         g[i] = g[j]
  PROVE  LET group == voter_group_matching_responses(cfg, g) IN group[i] = group[j]
<1> DEFINE group == voter_group_matching_responses(cfg, g)
<1>1. /\ responded(g) \subseteq 1..Len(g) /\ responded(g) \in SUBSET Nat
      /\ \A k \in responded(g) : g[k] \in Value /\ g[k] # Nothing
  BY DEF responded, Answers
<1>2. ASSUME NEW x \in responded(g), NEW y \in responded(g), x < y, g[x] = g[y]
      PROVE  group[x] = group[y]
  <2> DEFINE A == Agreeing(cfg, g, x)
             B == Agreeing(cfg, g, y)
  <2>1. voter_data_equal(cfg, g[y], g[x])
    BY <1>1, <1>2, VotingAssumption DEF voter_data_equal
  <2>2. x \in B /\ B \in SUBSET Nat /\ A \in SUBSET Nat
    BY <1>1, <1>2, <2>1 DEF Agreeing
  <2>3. \A k \in Nat : k < x => (k \in A <=> k \in B)
    BY <1>1, <1>2 DEF Agreeing
  <2>4. \A k \in A : k < x
    BY DEF Agreeing
  <2>5. x \in Nat /\ x \in 1..Len(g) /\ y \in 1..Len(g)
    BY <1>1
  <2>6. group[y] = group[First(B)]
    BY <2>2, <2>5, GroupOf
  <2>7. A = {} => group[x] = x
    BY <2>5, GroupOf
  <2>8. A # {} => group[x] = group[First(A)] /\ First(A) \in A
    BY <2>5, GroupOf
  <2> HIDE DEF A, B, group
  <2>9. First(B) \in B /\ \A k \in B : First(B) <= k
    BY <2>2, FirstFacts
  <2>10. CASE A = {}
    <3>1. First(B) \in Nat /\ First(B) <= x
      BY <2>2, <2>9
    <3>2. ~(First(B) < x)
      BY <2>3, <2>9, <2>10, <3>1
    <3>3. First(B) = x
      BY <2>5, <3>1, <3>2
    <3> QED
      BY <2>6, <2>7, <2>10, <3>3
  <2>11. CASE A # {}
    <3>1. First(A) \in A /\ \A k \in A : First(A) <= k
      BY <2>2, <2>11, FirstFacts
    <3>2. First(A) \in B /\ First(A) < x /\ First(A) \in Nat /\ First(B) \in Nat
      BY <2>2, <2>3, <2>4, <2>9, <3>1
    <3>3. First(B) < x
      BY <2>5, <2>9, <3>2
    <3>4. First(B) \in A
      BY <2>3, <2>9, <3>2, <3>3
    <3>5. First(A) = First(B)
      BY <2>9, <3>1, <3>2, <3>4
    <3> QED
      BY <2>6, <2>8, <2>11, <3>5
  <2> QED
    BY <2>10, <2>11
<1>3. CASE i = j
  BY <1>3
<1>4. CASE i < j
  BY <1>2, <1>4
<1>5. CASE j < i
  BY <1>2, <1>5
<1> QED
  BY <1>1, <1>3, <1>4, <1>5

-----------------------------------------------------------------------------
(* The vote *)

\* A set of channels that delivered is finite, and a larger one counts more.
LEMMA CountFacts ==
  ASSUME NEW g \in Answers, NEW S \in SUBSET responded(g), NEW T \in SUBSET S
  PROVE  /\ IsFiniteSet(S) /\ IsFiniteSet(T)
         /\ Cardinality(S) \in Nat /\ Cardinality(T) \in Nat
         /\ Cardinality(T) <= Cardinality(S) /\ Cardinality(S) <= Len(g)
<1>1. Len(g) \in Nat /\ S \in SUBSET (1..Len(g)) /\ T \in SUBSET S
  BY DEF Answers, responded
<1>2. IsFiniteSet(1..Len(g)) /\ Cardinality(1..Len(g)) = Len(g)
  <2>1. 1 \in Int /\ Len(g) \in Int
    BY <1>1
  <2>2. /\ IsFiniteSet(1..Len(g))
        /\ Cardinality(1..Len(g)) = IF 1 > Len(g) THEN 0 ELSE Len(g) - 1 + 1
    BY <2>1, FS_Interval
  <2> QED
    BY <1>1, <2>2
<1>3. IsFiniteSet(S) /\ Cardinality(S) <= Cardinality(1..Len(g))
  BY <1>1, <1>2, FS_Subset
<1>4. IsFiniteSet(T) /\ Cardinality(T) <= Cardinality(S)
  BY <1>1, <1>3, FS_Subset
<1>5. Cardinality(S) \in Nat /\ Cardinality(T) \in Nat
  BY <1>3, <1>4, FS_CardinalityType
<1> QED
  BY <1>2, <1>3, <1>4, <1>5

\* best_group is the index of a group that no other one outnumbers.
LEMMA BestFacts ==
  ASSUME NEW cfg \in Config, NEW g \in Answers, Len(g) >= 1
  PROVE  /\ best_group(cfg, g) \in 1..Len(g)
         /\ best_count(cfg, g) \in Nat
         /\ \A i \in 1..Len(g) : /\ Cardinality(members(cfg, g)[i]) \in Nat
                                 /\ Cardinality(members(cfg, g)[i]) <= best_count(cfg, g)
<1> DEFINE m == members(cfg, g)
           n == Len(g)
           c == [i \in 1..n |-> Cardinality(m[i])]
           Short == {n - c[i] : i \in 1..n}
           Largest == {i \in 1..n : \A j \in 1..n : Cardinality(m[i]) >= Cardinality(m[j])}
<1>1. n \in Nat /\ n >= 1
  BY DEF Answers
<1>2. \A i \in 1..n : m[i] \in SUBSET responded(g)
  BY DEF members
<1>3. best_group(cfg, g) = First(Largest)
  BY DEF best_group
<1>4. best_count(cfg, g) = Cardinality(m[best_group(cfg, g)])
  BY DEF best_count
<1> HIDE DEF m
<1>5. \A i \in 1..n : Cardinality(m[i]) \in Nat /\ Cardinality(m[i]) <= n
  BY <1>2, CountFacts
<1> HIDE DEF n
<1>6. \A i \in 1..n : c[i] = Cardinality(m[i]) /\ c[i] \in Nat /\ c[i] <= n
  BY <1>5
<1> HIDE DEF c
<1>7. Short \in SUBSET Nat /\ Short # {}
  <2>1. 1 \in 1..n
    BY <1>1
  <2> QED
    BY <1>1, <1>6, <2>1
<1>8. PICK k \in 1..n : n - c[k] = First(Short) /\ \A d \in Short : n - c[k] <= d
  <2>1. First(Short) \in Short /\ \A d \in Short : First(Short) <= d
    <3> HIDE DEF Short
    <3> QED
      BY <1>7, FirstFacts
  <2> QED
    BY <2>1
<1>9. \A j \in 1..n : c[k] >= c[j]
  <2> TAKE j \in 1..n
  <2>1. n - c[k] <= n - c[j]
    BY <1>8
  <2> QED
    BY <1>1, <1>6, <2>1
<1>10. Largest \in SUBSET Nat /\ k \in Largest
  BY <1>1, <1>6, <1>9
<1>11. First(Largest) \in Largest
  <2> HIDE DEF Largest
  <2> QED
    BY <1>10, FirstFacts
<1> QED
  BY <1>3, <1>4, <1>5, <1>11 DEF m, n

\* Two different members make two.
LEMMA TwoOf ==
  ASSUME NEW g \in Answers, NEW S \in SUBSET responded(g), NEW i \in S, NEW j \in S, i # j
  PROVE  Cardinality(S) >= 2
<1>1. Cardinality({i}) = 1 /\ IsFiniteSet({i})
  BY FS_Singleton
<1>2. Cardinality({i} \cup {j}) = 2
  BY <1>1, FS_AddElement
<1>3. Cardinality({i} \cup {j}) <= Cardinality(S)
  BY CountFacts
<1>4. Cardinality(S) \in Nat
  BY CountFacts
<1> QED
  BY <1>2, <1>3, <1>4

\* One member makes one.
LEMMA OneOf ==
  ASSUME NEW g \in Answers, NEW S \in SUBSET responded(g), NEW i \in S
  PROVE  Cardinality(S) >= 1
<1>1. Cardinality({i}) = 1
  BY FS_Singleton
<1>2. Cardinality({i}) <= Cardinality(S) /\ Cardinality(S) \in Nat
  BY CountFacts
<1> QED
  BY <1>1, <1>2

\* None makes none.
LEMMA NoneOf ==
  ASSUME NEW g \in Answers, NEW S \in SUBSET responded(g), Cardinality(S) >= 1
  PROVE  \E i \in S : TRUE
<1>1. Cardinality({}) = 0
  BY FS_EmptySet
<1>2. S # {}
  BY <1>1
<1> QED
  BY <1>2

\* The number of channels fits the strategy.
Fits(cfg, g) == voter_channel_count_matches_strategy(cfg, Len(g))

\* What AgreedHasQuorum says of one vote.
HasQuorum(cfg, g, out) ==
  \E i \in responded(g) :
    /\ out = g[i]
    /\ Cardinality({j \in responded(g) : j = i \/ matched(cfg, g[j], g[i])})
         >= voter_required_quorum(cfg)

\* A quorum is at least one and the comparator has two channels.
LEMMA QuorumFacts ==
  ASSUME NEW cfg \in Config, NEW g \in Answers, Fits(cfg, g)
  PROVE  /\ Len(g) \in Nat /\ Len(g) >= 1
         /\ voter_required_quorum(cfg) \in Nat /\ voter_required_quorum(cfg) >= 1
         /\ cfg.strategy = "CROSS" => Len(g) = 2 /\ voter_required_quorum(cfg) = 2
<1>1. Len(g) \in Nat /\ cfg.quorum_size \in Nat /\ cfg.strategy \in Strategies
  BY DEF Answers, Config
<1>2. CASE cfg.strategy \in {"2OO2", "CROSS"}
  <2>1. Len(g) = 2
    BY <1>2 DEF Fits, voter_channel_count_matches_strategy
  <2>2. voter_required_quorum(cfg) = 2
    BY <1>2 DEF voter_required_quorum
  <2> QED
    BY <2>1, <2>2
<1>3. CASE cfg.strategy = "2OO3"
  <2>1. Len(g) = 3
    BY <1>3 DEF Fits, voter_channel_count_matches_strategy
  <2>2. voter_required_quorum(cfg) = 2
    BY <1>3 DEF voter_required_quorum
  <2> QED
    BY <1>3, <2>1, <2>2
<1>4. CASE cfg.strategy = "NMR"
  BY <1>1, <1>4 DEF Fits, voter_channel_count_matches_strategy, voter_required_quorum
<1> QED
  BY <1>1, <1>2, <1>3, <1>4 DEF Strategies

\* The comparator compares when both channels have delivered.
LEMMA CrossAnswers ==
  ASSUME NEW cfg \in Config, NEW g \in Answers, Fits(cfg, g), cfg.strategy = "CROSS",
         ~too_few(cfg, g)
  PROVE  1 \in responded(g) /\ 2 \in responded(g)
<1>1. /\ voter_required_quorum(cfg) = 2 /\ responded(g) \subseteq 1..2
  BY QuorumFacts DEF responded
<1>2. responded(g) \in SUBSET responded(g) /\ Cardinality(responded(g)) \in Nat
  BY CountFacts
<1>3. Cardinality(responded(g)) >= 2
  BY <1>1, <1>2 DEF too_few
<1>4. ASSUME NEW k \in 1..2, responded(g) \subseteq {k} PROVE FALSE
  <2>1. Cardinality({k}) = 1 /\ IsFiniteSet({k})
    BY FS_Singleton
  <2>2. Cardinality(responded(g)) <= 1
    BY <1>4, <2>1, FS_Subset
  <2> QED
    BY <1>2, <1>3, <2>2
<1> QED
  BY <1>1, <1>4

\* An agreed value has its quorum.
LEMMA AgreedVote ==
  ASSUME NEW cfg \in Config, NEW g \in Answers, NEW t \in BOOLEAN, Fits(cfg, g),
         outcome(cfg, g, t) = "AGREED", GroupsAreMutual(cfg)
  PROVE  HasQuorum(cfg, g, agreed_data(cfg, g))
<1> DEFINE q == voter_required_quorum(cfg)
<1>0. /\ Len(g) \in Nat /\ Len(g) >= 1 /\ q \in Nat /\ q >= 1
      /\ cfg.strategy = "CROSS" => q = 2
  BY QuorumFacts
<1>1. CASE cfg.strategy = "CROSS"
  <2>1. ~too_few(cfg, g) /\ voter_data_equal(cfg, g[1], g[2])
    BY <1>1 DEF outcome, compare
  <2>2. 1 \in responded(g) /\ 2 \in responded(g)
    BY <1>1, <2>1, CrossAnswers
  <2> DEFINE S == {j \in responded(g) : j = 1 \/ matched(cfg, g[j], g[1])}
  <2>3. 1 \in S /\ 2 \in S /\ S \in SUBSET responded(g)
    BY <2>1, <2>2 DEF matched
  <2>4. Cardinality(S) >= 2
    <3> HIDE DEF S
    <3> QED
      BY <2>3, TwoOf
  <2>5. agreed_data(cfg, g) = g[1]
    BY <1>1 DEF agreed_data
  <2> QED
    BY <1>0, <1>1, <2>2, <2>4, <2>5 DEF HasQuorum
<1>2. CASE cfg.strategy # "CROSS"
  <2> DEFINE b == best_group(cfg, g)
             group == voter_group_matching_responses(cfg, g)
             M == {j \in responded(g) : group[j] = b}
             S == {j \in responded(g) : j = b \/ matched(cfg, g[j], g[b])}
  <2>1. best_count(cfg, g) >= q /\ agreed_data(cfg, g) = g[b]
    BY <1>2 DEF outcome, vote, agreed_data
  <2>2. b \in 1..Len(g) /\ best_count(cfg, g) \in Nat
    BY <1>0, BestFacts
  <2>3. best_count(cfg, g) = Cardinality(M)
    BY <2>2 DEF best_count, members
  <2> HIDE DEF b, group
  <2>4. M \in SUBSET responded(g) /\ S \in SUBSET responded(g)
    OBVIOUS
  <2>5. Cardinality(M) >= q /\ Cardinality(M) >= 1
    BY <1>0, <2>1, <2>2, <2>3
  <2>6. PICK j \in M : TRUE
    <3> HIDE DEF M
    <3> QED
      BY <2>4, <2>5, NoneOf
  <2>7. j \in responded(g) /\ group[j] = b
    BY <2>6
  <2>8. b \in responded(g) /\ group[b] = b
    BY <2>7, LeaderFacts DEF group
  <2>9. Cardinality(S) >= q
    <3>1. CASE ~cfg.callback
      <4>1. M \subseteq S
        <5> SUFFICES ASSUME NEW k \in M PROVE k \in S
          OBVIOUS
        <5>1. g[k] = g[b]
          BY <3>1, LeaderFacts DEF group
        <5> QED
          BY <3>1, <5>1 DEF matched, voter_data_equal
      <4> HIDE DEF M, S
      <4>2. Cardinality(M) <= Cardinality(S) /\ Cardinality(S) \in Nat /\ Cardinality(M) \in Nat
        BY <2>4, <4>1, CountFacts
      <4> QED
        BY <1>0, <2>5, <4>2
    <3>2. CASE cfg.callback
      <4>1. q <= 2
        BY <3>2 DEF GroupsAreMutual
      <4>2. b \in S
        BY <2>8
      <4>3. CASE \E k \in M : k # b
        <5>1. PICK k \in M : k # b
          BY <4>3
        <5>2. PICK f \in responded(g) : f # b /\ voter_data_equal(cfg, g[f], g[b])
          BY <5>1, DirectFollower DEF group
        <5>3. f \in S
          BY <5>2 DEF matched
        <5> HIDE DEF S
        <5>4. Cardinality(S) >= 2
          BY <2>4, <4>2, <5>2, <5>3, TwoOf
        <5>5. Cardinality(S) \in Nat
          BY <2>4, CountFacts
        <5> QED
          BY <1>0, <4>1, <5>4, <5>5
      <4>4. CASE \A k \in M : k = b
        <5>1. M \subseteq S
          BY <4>2, <4>4
        <5> HIDE DEF M, S
        <5>2. Cardinality(M) <= Cardinality(S) /\ Cardinality(S) \in Nat /\ Cardinality(M) \in Nat
          BY <2>4, <5>1, CountFacts
        <5> QED
          BY <1>0, <2>5, <5>2
      <4> QED
        BY <4>3, <4>4
    <3> QED
      BY <3>1, <3>2
  <2> QED
    BY <2>1, <2>8, <2>9 DEF HasQuorum
<1> QED
  BY <1>1, <1>2

\* A disagreement: a quorum delivered, but no value has one, and two values differ.
LEMMA DisagreedVote ==
  ASSUME NEW cfg \in Config, NEW g \in Answers, NEW t \in BOOLEAN, Fits(cfg, g),
         outcome(cfg, g, t) = "DISAGREED"
  PROVE  /\ Cardinality(responded(g)) >= voter_required_quorum(cfg)
         /\ \E i, j \in responded(g) : ~voter_data_equal(cfg, g[i], g[j])
         /\ \A v \in Value :
              Cardinality({i \in responded(g) : g[i] = v}) < voter_required_quorum(cfg)
<1> DEFINE q == voter_required_quorum(cfg)
<1>0. /\ Len(g) \in Nat /\ Len(g) >= 1 /\ q \in Nat /\ q >= 1
      /\ cfg.strategy = "CROSS" => q = 2 /\ Len(g) = 2
  BY QuorumFacts
<1>1. Cardinality(responded(g)) \in Nat
  BY CountFacts
<1>2. ~too_few(cfg, g)
  <2>1. CASE cfg.strategy = "CROSS"
    BY <2>1 DEF outcome, compare
  <2>2. CASE cfg.strategy # "CROSS"
    BY <2>2 DEF outcome, vote
  <2> QED
    BY <2>1, <2>2
<1>3. Cardinality(responded(g)) >= q
  BY <1>0, <1>1, <1>2 DEF too_few
<1>4. \A k \in responded(g) : k \in 1..Len(g) /\ g[k] \in Value
  BY DEF responded, Answers
<1>5. CASE cfg.strategy = "CROSS"
  <2>1. ~voter_data_equal(cfg, g[1], g[2])
    BY <1>5 DEF outcome, compare
  <2>2. 1 \in responded(g) /\ 2 \in responded(g)
    BY <1>2, <1>5, CrossAnswers
  <2>3. g[1] # g[2]
    BY <1>4, <2>1, <2>2, VotingAssumption DEF voter_data_equal
  <2>4. ASSUME NEW v \in Value
        PROVE  Cardinality({i \in responded(g) : g[i] = v}) < q
    <3> DEFINE S == {i \in responded(g) : g[i] = v}
    <3>0. \A i \in S : (i = 1 \/ i = 2) /\ g[i] = v
      <4> SUFFICES ASSUME NEW i \in S PROVE (i = 1 \/ i = 2) /\ g[i] = v
        OBVIOUS
      <4>1. i \in 1..2 /\ g[i] = v
        BY <1>0, <1>4, <1>5
      <4> QED
        BY <4>1
    <3>1. \E k \in 1..2 : S \subseteq {k}
      <4>1. CASE v = g[1]
        <5>1. S \subseteq {1}
          BY <2>3, <3>0, <4>1
        <5> QED
          BY <5>1
      <4>2. CASE v # g[1]
        <5>1. S \subseteq {2}
          BY <3>0, <4>2
        <5> QED
          BY <5>1
      <4> QED
        BY <4>1, <4>2
    <3>2. PICK k \in 1..2 : S \subseteq {k}
      BY <3>1
    <3>3. Cardinality({k}) = 1 /\ IsFiniteSet({k})
      BY FS_Singleton
    <3>4. Cardinality(S) \in Nat
      BY CountFacts
    <3> HIDE DEF S
    <3>5. Cardinality(S) <= 1
      BY <3>2, <3>3, FS_Subset
    <3> QED
      BY <1>0, <1>5, <3>4, <3>5 DEF S
  <2> QED
    BY <1>3, <2>1, <2>2, <2>4
<1>6. CASE cfg.strategy # "CROSS"
  <2> DEFINE group == voter_group_matching_responses(cfg, g)
  <2>1. ~(best_count(cfg, g) >= q)
    BY <1>2, <1>6 DEF outcome, vote
  <2>2. ASSUME NEW i \in 1..Len(g)
        PROVE  Cardinality({j \in responded(g) : group[j] = i}) < q
    <3>1. members(cfg, g)[i] = {j \in responded(g) : group[j] = i}
      BY DEF members
    <3>2. /\ Cardinality(members(cfg, g)[i]) \in Nat /\ best_count(cfg, g) \in Nat
          /\ Cardinality(members(cfg, g)[i]) <= best_count(cfg, g)
      BY <1>0, BestFacts
    <3> HIDE DEF group
    <3> QED
      BY <1>0, <2>1, <3>1, <3>2
  <2>3. ASSUME NEW S \in SUBSET responded(g), NEW i \in S, \A j \in S : group[j] = group[i]
        PROVE  Cardinality(S) < q
    <3> DEFINE M == {j \in responded(g) : group[j] = group[i]}
    <3>1. group[i] \in 1..Len(g)
      BY <1>4, LeaderFacts
    <3>2. Cardinality(M) < q
      BY <2>2, <3>1
    <3>3. S \in SUBSET M /\ M \in SUBSET responded(g)
      BY <2>3
    <3> HIDE DEF M, group
    <3>4. Cardinality(S) <= Cardinality(M) /\ Cardinality(S) \in Nat /\ Cardinality(M) \in Nat
      BY <3>3, CountFacts
    <3> QED
      BY <1>0, <3>2, <3>4
  <2>4. ASSUME \A i, j \in responded(g) : voter_data_equal(cfg, g[i], g[j]) PROVE FALSE
    <3>1. PICK i \in responded(g) : TRUE
      <4>1. Cardinality(responded(g)) >= 1 /\ responded(g) \in SUBSET responded(g)
        BY <1>0, <1>1, <1>3
      <4> QED
        BY <4>1, NoneOf
    <3> DEFINE r == First(responded(g))
    <3>2. responded(g) \in SUBSET Nat
      BY <1>0, <1>4
    <3>3. r \in responded(g) /\ \A k \in responded(g) : r <= k
      BY <3>1, <3>2, FirstFacts
    <3> HIDE DEF r
    <3>4. ASSUME NEW k \in responded(g) PROVE group[k] = r
      <4> DEFINE A == Agreeing(cfg, g, k)
      <4>0. k \in 1..Len(g) /\ k \in Nat /\ r \in Nat /\ g[k] # Nothing
        BY <1>0, <1>4, <3>2, <3>3, VotingAssumption
      <4>1. A = {} => group[k] = k
        BY <4>0, GroupOf
      <4>2. A # {} => group[k] = group[First(A)] /\ First(A) \in A /\ \A j \in A : First(A) <= j
        BY <4>0, GroupOf
      <4>3. A = {j \in responded(g) : j < k}
        BY <2>4, <4>0 DEF Agreeing
      <4> HIDE DEF A, group
      <4>4. CASE k = r
        BY <3>2, <3>3, <4>0, <4>1, <4>3, <4>4
      <4>5. CASE k # r
        <5>1. r \in A
          BY <3>2, <3>3, <4>0, <4>3, <4>5
        <5>2. First(A) \in responded(g) /\ First(A) <= r /\ r <= First(A)
          BY <3>3, <4>2, <4>3, <5>1
        <5>3. First(A) \in Nat
          BY <3>2, <5>2
        <5>4. First(A) = r
          BY <4>0, <5>2, <5>3
        <5>5. group[r] = r
          <6> DEFINE B == Agreeing(cfg, g, r)
          <6>1. B = {}
            BY <3>2, <3>3 DEF Agreeing
          <6>2. r \in 1..Len(g)
            BY <1>4, <3>3
          <6> QED
            BY <6>1, <6>2, GroupOf DEF group
        <5> QED
          BY <4>2, <5>1, <5>4, <5>5
      <4> QED
        BY <4>4, <4>5
    <3> HIDE DEF group
    <3>5. Cardinality(responded(g)) < q
      BY <2>3, <3>3, <3>4
    <3> QED
      BY <1>0, <1>1, <1>3, <3>5
  <2>5. ASSUME NEW v \in Value
        PROVE  Cardinality({i \in responded(g) : g[i] = v}) < q
    <3> DEFINE S == {i \in responded(g) : g[i] = v}
    <3>1. CASE S = {}
      <4>1. Cardinality({}) = 0
        BY FS_EmptySet
      <4> HIDE DEF S
      <4>2. Cardinality(S) = 0
        BY <3>1, <4>1
      <4> QED
        BY <1>0, <4>2 DEF S
    <3>2. CASE S # {}
      <4>1. PICK i \in S : TRUE
        BY <3>2
      <4>2. \A j \in S : group[j] = group[i]
        BY <4>1, SameValueSameGroup
      <4> HIDE DEF group
      <4> QED
        BY <2>3, <4>1, <4>2
    <3> QED
      BY <3>1, <3>2
  <2> QED
    BY <1>3, <2>4, <2>5
<1> QED
  BY <1>5, <1>6

-----------------------------------------------------------------------------
(* The steps of a call *)

\* The polling began with a table that fits the strategy; between two calls
\* nothing is left of it.
PollInv ==
  /\ pc = "poll" => voter_channel_count_matches_strategy(engine.config, Registered)
  /\ pc # "poll" => got = <<>>

\* The vote that was taken is the one the algorithm gives for what was got.
VoteTaken ==
  /\ last.got \in Answers /\ Fits(engine.config, last.got)
  /\ \E t \in BOOLEAN : last.result = outcome(engine.config, last.got, t)
  /\ last.result = "AGREED" => last.out = agreed_data(engine.config, last.got)

\* A vote is there exactly from its decision to the next call.
VoteInv ==
  /\ pc \in {"idle", "poll"} => last = NoVote
  /\ pc \in {"decided", "halted"} => VoteTaken
  /\ pc = "halted" => told /\ last.result = "DISAGREED"

\* The inductive invariant.
IInv == TypeOK /\ PollInv /\ VoteInv

\* The outcome of a vote is a result.
LEMMA OutcomeType ==
  ASSUME NEW cfg, NEW g, NEW t
  PROVE  outcome(cfg, g, t) \in Results
  BY DEF outcome, vote, compare, Results

\* A vote over answers that fit the strategy.
LEMMA DecideInv ==
  ASSUME IInv, NEW g \in Answers, NEW t \in BOOLEAN, Fits(engine.config, g), decide(g, t),
         UNCHANGED <<chan, engine, locked>>
  PROVE  IInv'
<1> DEFINE result == outcome(engine.config, g, t)
<1>1. /\ last' = [result |-> result, got |-> g,
                  out |-> IF result = "AGREED" THEN agreed_data(engine.config, g) ELSE Nothing]
      /\ told' = FALSE /\ pc' = "decided" /\ at' = 1 /\ got' = <<>> /\ timeouts' = FALSE
  BY DEF decide
<1>2. result \in Results
  BY OutcomeType
<1>3. last'.result = result /\ last'.got = g
      /\ (result = "AGREED" => last'.out = agreed_data(engine.config, g))
  BY <1>1
<1> HIDE DEF result
<1>4. TypeOK'
  <2>1. got' \in Seq(Value \cup {Nothing}) /\ at' = Len(got') + 1
    BY <1>1
  <2> QED
    BY <1>1, <1>2, <1>3, <2>1 DEF IInv, TypeOK, Registered, Capacity
<1>5. VoteTaken'
  BY <1>3 DEF VoteTaken, result
<1> QED
  BY <1>1, <1>4, <1>5 DEF IInv, PollInv, VoteInv

\* Before the first call.
LEMMA InitInv == Init => IInv
<1> SUFFICES ASSUME Init PROVE IInv
  OBVIOUS
<1>1. engine.channels = <<>> /\ engine.config.strategy = "CROSS" /\ engine.config \in Config
      /\ engine \in [initialized: BOOLEAN, channels: Seq(Channel), config: Config]
  BY DEF Init, NoEngine, Config, Strategies, Levels
<1>2. Registered <= Capacity
  BY <1>1 DEF Registered, Capacity
<1>3. last.result = "none" /\ last = NoVote
  BY DEF Init, NoVote
<1>4. TypeOK
  <2>1. got \in Seq(Value \cup {Nothing}) /\ at = Len(got) + 1
    BY DEF Init
  <2> QED
    BY <1>1, <1>2, <1>3, <2>1 DEF Init, TypeOK, LifecycleInit
<1> QED
  BY <1>3, <1>4 DEF Init, IInv, PollInv, VoteInv

\* A channel appears, changes its health or goes away: the vote is not touched.
LEMMA ChannelInv ==
  ASSUME IInv, UNCHANGED <<engine, locked, polling, last, told>>,
         chan' \in [Channel -> [initialized: BOOLEAN, healthy: BOOLEAN]]
  PROVE  IInv'
<1>1. TypeOK'
  BY DEF IInv, TypeOK, polling, Registered, Capacity
<1> QED
  BY <1>1 DEF IInv, PollInv, VoteInv, VoteTaken, Fits, polling, Registered

\* The engine is set up or destroyed between two calls.
LEMMA SetupInv ==
  ASSUME IInv, pc = "idle", UNCHANGED <<chan, polling, last, told>>, locked' \in BOOLEAN,
         engine' \in [initialized: BOOLEAN, channels: Seq(Channel), config: Config],
         (Registered <= Capacity)'
  PROVE  IInv'
<1>1. pc' = "idle" /\ at' = at /\ got' = got /\ timeouts' = timeouts
  BY DEF polling
<1>2. TypeOK'
  BY <1>1 DEF IInv, TypeOK
<1> QED
  BY <1>1, <1>2 DEF IInv, PollInv, VoteInv

\* One channel of the table is polled.
LEMMA PollsInv ==
  ASSUME IInv, receive_polls
  PROVE  IInv'
<1>0. /\ pc = "poll" /\ UNCHANGED <<chan, engine, locked>>
      /\ got \in Answers /\ at = Len(got) + 1 /\ at <= Registered /\ timeouts \in BOOLEAN
      /\ engine.channels \in Seq(Channel) /\ Registered \in Nat
      /\ voter_channel_count_matches_strategy(engine.config, Registered)
  BY DEF receive_polls, IInv, TypeOK, PollInv, Answers, Registered
<1>1. PICK d \in Deliveries(engine.channels[at]) :
        LET skipped == engine.config.strategy # "CROSS" /\ ~chan[engine.channels[at]].healthy
            g == Append(got, IF skipped THEN Nothing ELSE d.data)
            saw_timeout == timeouts \/ (~skipped /\ d.status = "TIMEOUT")
        IN  IF at = Registered
            THEN decide(g, saw_timeout)
            ELSE /\ at' = at + 1 /\ got' = g /\ timeouts' = saw_timeout
                 /\ UNCHANGED <<pc, last, told>>
  BY DEF receive_polls
<1> DEFINE skipped == engine.config.strategy # "CROSS" /\ ~chan[engine.channels[at]].healthy
           x == IF skipped THEN Nothing ELSE d.data
           g == Append(got, x)
           saw_timeout == timeouts \/ (~skipped /\ d.status = "TIMEOUT")
<1>2. d.data \in Value \cup {Nothing}
  BY DEF Deliveries
<1>3. x \in Value \cup {Nothing} /\ saw_timeout \in BOOLEAN
  BY <1>0, <1>2
<1>4. /\ at = Registered => decide(g, saw_timeout)
      /\ at # Registered => /\ at' = at + 1 /\ got' = g /\ timeouts' = saw_timeout
                            /\ UNCHANGED <<pc, last, told>>
  BY <1>1
<1> HIDE DEF x, saw_timeout
<1>5. g \in Answers /\ Len(g) = at
  BY <1>0, <1>3 DEF Answers
<1> HIDE DEF g
<1>6. CASE at = Registered
  <2>1. Fits(engine.config, g)
    BY <1>0, <1>5, <1>6 DEF Fits
  <2> QED
    BY <1>0, <1>3, <1>4, <1>5, <1>6, <2>1, DecideInv
<1>7. CASE at # Registered
  <2>1. at' = Len(got') + 1 /\ at' <= Registered
    BY <1>0, <1>4, <1>5, <1>7
  <2>2. TypeOK'
    BY <1>0, <1>3, <1>4, <1>5, <1>7, <2>1 DEF IInv, TypeOK, Answers, Registered, Capacity
  <2> QED
    BY <1>0, <1>4, <1>7, <2>2 DEF IInv, PollInv, VoteInv, VoteTaken, Fits, Registered
<1> QED
  BY <1>6, <1>7

\* Every step.
LEMMA StepInv == IInv /\ [Next]_vars => IInv'
<1> SUFFICES ASSUME IInv, [Next]_vars PROVE IInv'
  OBVIOUS
<1>0. /\ chan \in [Channel -> [initialized: BOOLEAN, healthy: BOOLEAN]]
      /\ engine \in [initialized: BOOLEAN, channels: Seq(Channel), config: Config]
      /\ engine.channels \in Seq(Channel) /\ engine.config \in Config
      /\ Registered <= Capacity /\ Registered \in Nat /\ locked \in BOOLEAN
  BY DEF IInv, TypeOK, Registered
<1>1. CASE UNCHANGED vars \/ rte_voter_send
  <2>1. UNCHANGED <<chan, engine, locked, polling, last, told>>
    BY <1>1 DEF vars, rte_voter_send
  <2> QED
    BY <1>0, <2>1, ChannelInv
<1>2. ASSUME NEW c \in Channel,
             \/ rte_channel_init(c) \/ rte_channel_destroy(c)
             \/ \E h \in BOOLEAN : rte_channel_set_healthy(c, h)
      PROVE  IInv'
  <2>1. chan' \in [Channel -> [initialized: BOOLEAN, healthy: BOOLEAN]]
    <3>0. chan[c] \in [initialized: BOOLEAN, healthy: BOOLEAN]
      BY <1>0
    <3>1. CASE rte_channel_init(c)
      BY <1>0, <3>1 DEF rte_channel_init
    <3>2. CASE rte_channel_destroy(c)
      BY <1>0, <3>0, <3>2 DEF rte_channel_destroy
    <3>3. ASSUME NEW h \in BOOLEAN, rte_channel_set_healthy(c, h)
          PROVE  chan' \in [Channel -> [initialized: BOOLEAN, healthy: BOOLEAN]]
      BY <1>0, <3>0, <3>3 DEF rte_channel_set_healthy
    <3> QED
      BY <1>2, <3>1, <3>2, <3>3
  <2> QED
    BY <1>2, <2>1, ChannelInv DEF rte_channel_init, rte_channel_destroy, rte_channel_set_healthy
<1>3. ASSUME NEW c \in Channel, engine_register_channel(c) PROVE IInv'
  <2>1. /\ pc = "idle" /\ UNCHANGED <<chan, locked, polling, last, told>> /\ Registered < Capacity
        /\ engine' = [engine EXCEPT !.channels = Append(engine.channels, c)]
    BY <1>3 DEF engine_register_channel
  <2>2. Append(engine.channels, c) \in Seq(Channel)
        /\ Len(Append(engine.channels, c)) = Registered + 1
    BY <1>0 DEF Registered
  <2>3. engine' \in [initialized: BOOLEAN, channels: Seq(Channel), config: Config]
        /\ engine'.channels = Append(engine.channels, c) /\ engine'.config = engine.config
    BY <1>0, <2>1, <2>2
  <2>4. Capacity \in Nat
    BY VotingAssumption DEF Capacity
  <2>5. (Registered <= Capacity)'
    BY <1>0, <2>1, <2>2, <2>3, <2>4 DEF Registered, Capacity
  <2> QED
    BY <1>0, <2>1, <2>3, <2>5, SetupInv
<1>4. ASSUME NEW cfg \in Configs, engine_init(cfg) PROVE IInv'
  <2>1. /\ pc = "idle" /\ UNCHANGED <<chan, locked, polling, last, told>>
        /\ engine' = [initialized |-> TRUE, channels |-> <<>>, config |-> cfg]
    BY <1>4 DEF engine_init
  <2>2. cfg \in Config
    BY VotingAssumption
  <2>3. engine' \in [initialized: BOOLEAN, channels: Seq(Channel), config: Config]
        /\ engine'.channels = <<>>
    BY <2>1, <2>2
  <2>4. (Registered <= Capacity)'
    BY <2>3, VotingAssumption DEF Registered, Capacity
  <2> QED
    BY <1>0, <2>1, <2>3, <2>4, SetupInv
<1>5. CASE engine_destroy
  <2>1. engine' \in [initialized: BOOLEAN, channels: Seq(Channel), config: Config]
        /\ engine'.channels = engine.channels /\ engine'.config = engine.config
    BY <1>0, <1>5 DEF engine_destroy
  <2>2. (Registered <= Capacity)'
    BY <1>0, <2>1 DEF Registered, Capacity
  <2> QED
    BY <1>0, <1>5, <2>1, <2>2, SetupInv DEF engine_destroy
<1>6. CASE setup_ends
  <2>1. locked' \in BOOLEAN /\ pc = "idle" /\ UNCHANGED <<chan, engine, polling, last, told>>
    BY <1>6 DEF setup_ends, rte_lifecycle_lock
  <2>2. (Registered <= Capacity)'
    BY <1>0, <2>1 DEF Registered, Capacity
  <2> QED
    BY <1>0, <2>1, <2>2, SetupInv
<1>7. CASE receive_begins
  <2>0. /\ pc = "idle" /\ UNCHANGED <<chan, engine, locked>>
        /\ voter_channel_count_matches_strategy(engine.config, Registered)
    BY <1>7 DEF receive_begins
  <2> DEFINE g == [i \in 1..Registered |-> Nothing]
  <2>1. g \in Answers /\ Len(g) = Registered
    BY <1>0 DEF Answers
  <2>2. Fits(engine.config, g)
    BY <2>0, <2>1 DEF Fits
  <2>3. CASE decide(g, FALSE)
    <3> HIDE DEF g
    <3> QED
      BY <2>0, <2>1, <2>2, <2>3, DecideInv
  <2>4. CASE pc' = "poll" /\ UNCHANGED <<at, got, timeouts, last, told>>
    <3>1. at' = Len(got') + 1 /\ at' <= Registered
      <4>1. got = <<>> /\ at = 1
        BY <2>0 DEF IInv, PollInv, TypeOK
      <4>2. Registered >= 1
        BY <1>0, <2>1, <2>2, QuorumFacts
      <4> QED
        BY <1>0, <2>4, <4>1, <4>2
    <3>2. TypeOK'
      BY <2>0, <2>4, <3>1 DEF IInv, TypeOK, Registered, Capacity
    <3> QED
      BY <2>0, <2>4, <3>2 DEF IInv, PollInv, VoteInv, Registered
  <2> QED
    BY <1>7, <2>3, <2>4 DEF receive_begins
<1>8. CASE receive_polls
  BY <1>8, PollsInv
<1>9. ASSUME NEW n \in 1..MaxChannels, NEW g \in [1..n -> Value], vote_buffers(g) PROVE IInv'
  <2>1. g \in Answers
    BY VotingAssumption DEF Answers
  <2>2. Fits(engine.config, g) /\ decide(g, FALSE) /\ UNCHANGED <<chan, engine, locked>>
    BY <1>9 DEF vote_buffers, Fits
  <2> QED
    BY <2>1, <2>2, DecideInv
<1>10. CASE on_disagreement
  <2>1. /\ pc = "decided" /\ pc' = "decided" /\ told' = TRUE
        /\ UNCHANGED <<chan, engine, locked, at, got, timeouts, last>>
    BY <1>10 DEF on_disagreement, polling
  <2>2. TypeOK'
    BY <2>1 DEF IInv, TypeOK, Registered, Capacity
  <2> QED
    BY <2>1, <2>2 DEF IInv, PollInv, VoteInv, VoteTaken, Fits
<1>11. CASE vote_returns
  <2>1. pc = "decided" /\ UNCHANGED <<chan, engine, locked, at, got, timeouts>>
    BY <1>11 DEF vote_returns
  <2>2. CASE pc' = "halted" /\ UNCHANGED <<last, told>> /\ enters_safestate(last.result)
    <3>1. TypeOK'
      BY <2>1, <2>2 DEF IInv, TypeOK, Registered, Capacity
    <3>2. last.result = "DISAGREED" /\ told
      BY <1>11, <2>2 DEF enters_safestate, vote_returns
    <3> QED
      BY <2>1, <2>2, <3>1, <3>2 DEF IInv, PollInv, VoteInv, VoteTaken, Fits
  <2>3. CASE pc' = "idle" /\ last' = NoVote /\ told' = FALSE
    <3>1. TypeOK'
      BY <2>1, <2>3 DEF IInv, TypeOK, Registered, Capacity, NoVote
    <3> QED
      BY <2>1, <2>3, <3>1 DEF IInv, PollInv, VoteInv
  <2> QED
    BY <1>11, <2>2, <2>3 DEF vote_returns
<1> QED
  BY <1>1, <1>2, <1>3, <1>4, <1>5, <1>6, <1>7, <1>8, <1>9, <1>10, <1>11 DEF Next

\* The invariant holds all along.
LEMMA Invariance == Spec => []IInv
  BY InitInv, StepInv, PTL DEF Spec

-----------------------------------------------------------------------------
(* What the engines promise *)

\* The table of channels is never overrun, the poll never reads past it, and
\* every variable keeps its type.
THEOREM TypeCorrect == Spec => []TypeOK
<1>1. IInv => TypeOK
  BY DEF IInv
<1> QED
  BY <1>1, Invariance, PTL

\* REQ-VOTER-004: a vote agrees exactly when it should, for any number of
\* channels and any quorum, however the channels change during the poll.
THEOREM VoteExact == Spec => []VoteIsExact
<1>1. IInv => VoteIsExact
  <2> SUFFICES ASSUME IInv PROVE VoteIsExact
    OBVIOUS
  <2>0. engine.config \in Config /\ pc \in {"idle", "poll", "decided", "halted"}
    BY DEF IInv, TypeOK
  <2>1. AgreedHasQuorum
    <3> SUFFICES ASSUME pc = "decided", last.result = "AGREED", GroupsAreMutual(engine.config)
                 PROVE  HasQuorum(engine.config, last.got, last.out)
      BY DEF AgreedHasQuorum, HasQuorum
    <3>1. VoteTaken
      BY DEF IInv, VoteInv
    <3>2. PICK t \in BOOLEAN : outcome(engine.config, last.got, t) = "AGREED"
      BY <3>1 DEF VoteTaken
    <3> QED
      BY <2>0, <3>1, <3>2, AgreedVote DEF VoteTaken
  <2>2. NoQuorumMissed
    <3> SUFFICES ASSUME last.result = "DISAGREED"
                 PROVE  \A v \in Value : Cardinality({i \in responded(last.got) : last.got[i] = v})
                                           < voter_required_quorum(engine.config)
      BY DEF NoQuorumMissed
    <3>1. VoteTaken
      BY <2>0 DEF IInv, VoteInv, NoVote
    <3>2. PICK t \in BOOLEAN : outcome(engine.config, last.got, t) = "DISAGREED"
      BY <3>1 DEF VoteTaken
    <3> QED
      BY <2>0, <3>1, <3>2, DisagreedVote DEF VoteTaken
  <2> QED
    BY <2>1, <2>2 DEF VoteIsExact
<1> QED
  BY <1>1, Invariance, PTL

\* REQ-VOTER-005: only a real disagreement of a quorum halts, and the
\* application was told before.
THEOREM HaltsOnDisagreement == Spec => []HaltsOnlyOnDisagreement
<1>1. IInv => HaltsOnlyOnDisagreement
  <2> SUFFICES ASSUME IInv, pc = "halted"
               PROVE  /\ told
                      /\ Cardinality(responded(last.got)) >= voter_required_quorum(engine.config)
                      /\ \E i, j \in responded(last.got) :
                           ~voter_data_equal(engine.config, last.got[i], last.got[j])
    BY DEF HaltsOnlyOnDisagreement
  <2>1. VoteTaken /\ told /\ last.result = "DISAGREED" /\ engine.config \in Config
    BY DEF IInv, VoteInv, TypeOK
  <2>2. PICK t \in BOOLEAN : outcome(engine.config, last.got, t) = "DISAGREED"
    BY <2>1 DEF VoteTaken
  <2> QED
    BY <2>1, <2>2, DisagreedVote DEF VoteTaken
<1> QED
  BY <1>1, Invariance, PTL
=============================================================================
