---------------------------- MODULE StartupProofs ----------------------------
(***************************************************************************)
(* Theorems about Startup, for files of any length over any candidates.    *)
(*                                                                         *)
(* What the loop over the mappings computes needs an induction over the    *)
(* file.  The induction theorems of the library cannot be instantiated by  *)
(* the provers, so it goes by the least counterexample instead: a set of   *)
(* numbers that is not empty has a least member (LeastMember).             *)
(***************************************************************************)
EXTENDS Startup, FiniteSetTheorems, WellFoundedInduction, TLAPS

-----------------------------------------------------------------------------
(* Least and greatest members of a set of numbers *)

LEMMA LessThan == \A x, y \in Nat : x < y => <<x, y>> \in OpToRel(<,Nat)
BY DEF OpToRel

LEMMA LeastMember ==
  ASSUME NEW T \in SUBSET Nat, T # {}
  PROVE  \E x \in T : \A y \in T : x <= y
<1>1. PICK x \in T : \A y \in T : ~ (<<y, x>> \in OpToRel(<,Nat))
  BY NatLessThanWellFounded, WFMin
<1>2. \A y \in T : ~ (y < x)
  BY <1>1, LessThan
<1> QED
  BY <1>2

LEMMA GreatestMember ==
  ASSUME NEW n \in Nat, NEW T \in SUBSET (1..n), T # {}
  PROVE  Max(T) \in T /\ \A y \in T : y <= Max(T)
<1> DEFINE U == {n - t : t \in T}
<1>1. PICK u \in U : \A v \in U : u <= v
  <2>1. \A t \in T : n - t \in Nat
    OBVIOUS
  <2>2. U \in SUBSET Nat
    BY <2>1
  <2>3. U # {}
    OBVIOUS
  <2> HIDE DEF U
  <2> QED
    BY <2>2, <2>3, LeastMember
<1>2. PICK t \in T : u = n - t
  OBVIOUS
<1>3. ASSUME NEW y \in T PROVE t >= y
  <2>1. n - y \in U
    OBVIOUS
  <2>2. u <= n - y
    BY <1>1, <2>1
  <2>3. t \in 1..n /\ y \in 1..n
    OBVIOUS
  <2> QED
    BY <1>2, <2>2, <2>3
<1>4. Max(T) \in T /\ \A y \in T : Max(T) >= y
  BY <1>3 DEF Max
<1> QED
  BY <1>4

LEMMA GreatestOfPrefix == \A k \in Nat \ {0} : Max(1..k) = k
<1>1. SUFFICES ASSUME NEW k \in Nat \ {0}
               PROVE  Max(1..k) = k
  OBVIOUS
<1>2. k \in 1..k
  OBVIOUS
<1>3. Max(1..k) \in 1..k /\ k <= Max(1..k)
  BY <1>2, GreatestMember
<1> QED
  BY <1>3

-----------------------------------------------------------------------------
(* The loop of Config::validate *)

Nothing == [ids |-> {}, error |-> "none"]

\* What the loop has found when it is through with a file.
Found(s) == FoldLeft(Checked, Nothing, s)

\* The recursion that FoldLeft stands for, on the indices it has been through.
Loop(s) ==
  CHOOSE loop :
    loop = [S \in SUBSET (DOMAIN s) |->
              IF S = {} THEN Nothing
              ELSE Checked(loop[S \ {Max(S)}], s[Max(S)])]

\* What the loop ought to find: the first mistake, by index.
Mistake(s, S, i) ==
  IF \E j \in S : j < i /\ s[j].id = s[i].id THEN "duplicate id"
  ELSE IF s[i].switch = <<>> THEN "empty switch"
  ELSE IF s[i].code = "" THEN "empty code"
  ELSE "none"

Mistakes(s, S) == {i \in S : Mistake(s, S, i) # "none"}

First(T) == CHOOSE i \in T : \A j \in T : i <= j

Outcome(s, S) ==
  [ids |-> {s[i].id : i \in S},
   error |-> IF Mistakes(s, S) = {} THEN "none" ELSE Mistake(s, S, First(Mistakes(s, S)))]

LEMMA FoundByLoop == ASSUME NEW s PROVE Found(s) = Loop(s)[DOMAIN s]
BY DEF Found, FoldLeft, MapThenFoldSet, Loop

LEMMA FirstMember ==
  ASSUME NEW T \in SUBSET Nat, T # {}
  PROVE  First(T) \in T /\ \A j \in T : First(T) <= j
BY LeastMember DEF First

\* One more mapping, after all the others, changes the outcome as the body of the
\* loop does.
LEMMA OutcomeStep ==
  ASSUME NEW n \in Nat, NEW s, NEW S \in SUBSET (1..n), S # {}
  PROVE  Outcome(s, S) = Checked(Outcome(s, S \ {Max(S)}), s[Max(S)])
<1> DEFINE m == Max(S)
           R == S \ {m}
<1>1. m \in S /\ \A i \in S : i <= m
  BY GreatestMember
<1>2. \A i \in R : i \in 1..n /\ m \in 1..n /\ i < m /\ ~(m < i)
  <2>1. \A i \in R : i \in 1..n /\ m \in 1..n /\ i <= m /\ i # m
    BY <1>1
  <2> HIDE DEF m, R
  <2> QED
    BY <2>1
<1> HIDE DEF m
<1>3. \A i \in R : Mistake(s, S, i) = Mistake(s, R, i)
  <2>1. ASSUME NEW i \in R
        PROVE  (\E j \in S : j < i /\ s[j].id = s[i].id)
                 <=> \E j \in R : j < i /\ s[j].id = s[i].id
    BY <1>2
  <2> QED
    BY <2>1 DEF Mistake
<1>4. Mistakes(s, R) = Mistakes(s, S) \ {m}
  BY <1>3 DEF Mistakes
<1>5. (\E j \in S : j < m /\ s[j].id = s[m].id) <=> s[m].id \in Outcome(s, R).ids
  <2>1. (\E j \in S : j < m /\ s[j].id = s[m].id) <=> \E j \in R : s[j].id = s[m].id
    <3>1. \A j \in S : j < m => j \in R
      <4>1. m \in 1..n
        BY <1>1
      <4> QED
        BY <4>1
    <3> QED
      BY <1>2, <3>1
  <2> QED
    BY <2>1 DEF Outcome
<1>6. Outcome(s, S).ids = Outcome(s, R).ids \cup {s[m].id}
  BY <1>1 DEF Outcome
<1>7. Outcome(s, S).error = Checked(Outcome(s, R), s[m]).error
  <2>1. CASE Mistakes(s, R) # {}
    <3>1. Mistakes(s, S) \in SUBSET Nat /\ Mistakes(s, R) \in SUBSET Nat
      <4>1. \A i \in 1..n : i \in Nat
        OBVIOUS
      <4>2. S \subseteq Nat /\ R \subseteq Nat
        BY <4>1
      <4> HIDE DEF R
      <4> QED
        BY <4>2 DEF Mistakes
    <3>2. /\ First(Mistakes(s, R)) \in Mistakes(s, R)
          /\ \A j \in Mistakes(s, R) : First(Mistakes(s, R)) <= j
      BY <2>1, <3>1, FirstMember
    <3>3. /\ First(Mistakes(s, S)) \in Mistakes(s, S)
          /\ \A j \in Mistakes(s, S) : First(Mistakes(s, S)) <= j
      BY <2>1, <1>4, <3>1, FirstMember
    <3>4. First(Mistakes(s, R)) \in R
      BY <3>2 DEF Mistakes
    <3>5. First(Mistakes(s, S)) # m
      <4>1. First(Mistakes(s, R)) \in Mistakes(s, S)
        BY <1>4, <3>2
      <4>2. First(Mistakes(s, S)) <= First(Mistakes(s, R))
        BY <3>3, <4>1
      <4>3. First(Mistakes(s, R)) \in 1..n /\ m \in 1..n /\ First(Mistakes(s, R)) < m
        BY <1>2, <3>4
      <4> QED
        BY <4>2, <4>3
    <3>6. First(Mistakes(s, S)) = First(Mistakes(s, R))
      <4>1. First(Mistakes(s, S)) \in Mistakes(s, R)
        BY <1>4, <3>3, <3>5
      <4>2. First(Mistakes(s, R)) \in Mistakes(s, S)
        BY <1>4, <3>2
      <4>3. /\ First(Mistakes(s, R)) <= First(Mistakes(s, S))
            /\ First(Mistakes(s, S)) <= First(Mistakes(s, R))
        BY <3>2, <3>3, <4>1, <4>2
      <4>4. First(Mistakes(s, S)) \in Nat /\ First(Mistakes(s, R)) \in Nat
        BY <3>1, <3>2, <3>3
      <4> QED
        BY <4>3, <4>4
    <3>7. Outcome(s, S).error = Mistake(s, R, First(Mistakes(s, R)))
      BY <2>1, <1>3, <1>4, <3>4, <3>6 DEF Outcome
    <3>8. /\ Outcome(s, R).error = Mistake(s, R, First(Mistakes(s, R)))
          /\ Outcome(s, R).error # "none"
      BY <2>1, <3>2 DEF Outcome, Mistakes
    <3> QED
      BY <3>7, <3>8 DEF Checked
  <2>2. CASE Mistakes(s, R) = {}
    <3>1. Outcome(s, R).error = "none"
      BY <2>2 DEF Outcome
    <3>2. Checked(Outcome(s, R), s[m]).error = Mistake(s, S, m)
      BY <1>5, <3>1 DEF Checked, Mistake
    <3>3. CASE Mistake(s, S, m) = "none"
      <4>1. Mistakes(s, S) = {}
        BY <1>4, <2>2, <3>3 DEF Mistakes
      <4> QED
        BY <3>2, <3>3, <4>1 DEF Outcome
    <3>4. CASE Mistake(s, S, m) # "none"
      <4>1. Mistakes(s, S) = {m}
        BY <1>1, <1>4, <2>2, <3>4 DEF Mistakes
      <4>2. First({m}) = m
        BY DEF First
      <4> QED
        BY <3>2, <4>1, <4>2 DEF Outcome
    <3> QED
      BY <3>3, <3>4
  <2> QED
    BY <2>1, <2>2
<1>8. Checked(Outcome(s, R), s[m]).ids = Outcome(s, R).ids \cup {s[m].id}
  BY DEF Checked, TakenIds
<1> QED
  BY <1>6, <1>7, <1>8 DEF Outcome, Checked, m

\* The recursion has a solution, and so Loop is one.
LEMMA LoopStep ==
  ASSUME NEW n \in Nat, NEW s, DOMAIN s = 1..n
  PROVE  \A S \in SUBSET (1..n) :
           Loop(s)[S] = IF S = {} THEN Nothing
                        ELSE Checked(Loop(s)[S \ {Max(S)}], s[Max(S)])
<1> DEFINE Body(f) == [S \in SUBSET (DOMAIN s) |->
                         IF S = {} THEN Nothing
                         ELSE Checked(f[S \ {Max(S)}], s[Max(S)])]
           g == [S \in SUBSET (DOMAIN s) |-> Outcome(s, S)]
<1>1. g = Body(g)
  <2>1. ASSUME NEW S \in SUBSET (1..n), S # {}
        PROVE  g[S] = Checked(g[S \ {Max(S)}], s[Max(S)])
    BY <2>1, OutcomeStep
  <2>2. Mistakes(s, {}) = {}
    BY DEF Mistakes
  <2>3. Outcome(s, {}) = Nothing
    BY <2>2 DEF Outcome, Nothing
  <2>4. g[{}] = Nothing
    BY <2>3
  <2>5. \A S \in SUBSET (DOMAIN s) : g[S] = Body(g)[S]
    BY <2>1, <2>4
  <2> QED
    BY <2>5
<1>2. Loop(s) = Body(Loop(s))
  BY <1>1 DEF Loop
<1> QED
  BY <1>2

\* The loop finds what it ought to.
LEMMA FoundOutcome ==
  ASSUME NEW n \in Nat, NEW s, DOMAIN s = 1..n
  PROVE  Found(s) = Outcome(s, 1..n)
<1> DEFINE Wrong == {k \in 0..n : Loop(s)[1..k] # Outcome(s, 1..k)}
<1>1. Wrong = {}
  <2>1. SUFFICES ASSUME Wrong # {} PROVE FALSE
    OBVIOUS
  <2>2. PICK k \in Wrong : \A j \in Wrong : k <= j
    <3>1. Wrong \in SUBSET Nat
      OBVIOUS
    <3> QED
      BY <2>1, <3>1, LeastMember
  <2>3. CASE k = 0
    <3>1. 1..0 = {}
      OBVIOUS
    <3>2. Loop(s)[{}] = Nothing
      BY LoopStep
    <3>3. Mistakes(s, {}) = {}
      BY DEF Mistakes
    <3>4. Outcome(s, {}) = Nothing
      BY <3>3 DEF Outcome, Nothing
    <3> QED
      BY <2>3, <3>1, <3>2, <3>4
  <2>4. CASE k # 0
    <3>1. k \in 1..n /\ k - 1 \in 0..n /\ ~(k <= k - 1)
      BY <2>4
    <3>2. Loop(s)[1..k - 1] = Outcome(s, 1..k - 1)
      BY <2>2, <3>1
    <3>3. 1..k \in SUBSET (1..n) /\ 1..k # {}
      BY <3>1
    <3>4. Max(1..k) = k
      BY <3>1, GreatestOfPrefix
    <3>5. (1..k) \ {k} = 1..k - 1
      BY <3>1
    <3>6. Loop(s)[1..k] = Checked(Loop(s)[1..k - 1], s[k])
      BY <3>3, <3>4, <3>5, LoopStep
    <3>7. Outcome(s, 1..k) = Checked(Outcome(s, 1..k - 1), s[k])
      BY <3>3, <3>4, <3>5, OutcomeStep
    <3> QED
      BY <3>2, <3>6, <3>7
  <2> QED
    BY <2>3, <2>4
<1>2. n \in 0..n
  OBVIOUS
<1> QED
  BY <1>1, <1>2, FoundByLoop

-----------------------------------------------------------------------------
(* A file that is well formed, and the errors of one that is not *)

FileError == {"no mappings", "no capacity", "duplicate id", "empty switch", "empty code"}

\* The files of Init.
ConfigType ==
  config \in [mappings : File, capacity : {0, 1}, stdin : BOOLEAN]

LEMMA FileSequence ==
  ASSUME ConfigType
  PROVE  /\ \E n \in Nat : config.mappings \in [1..n -> Candidate]
         /\ config.capacity \in {0, 1}
         /\ config.stdin \in BOOLEAN
<1>1. config.mappings \in Seq(Candidate)
  BY StartupAssumption DEF ConfigType
<1>2. \E n \in Nat : config.mappings \in [1..n -> Candidate]
  BY <1>1
<1> QED
  BY <1>2 DEF ConfigType

\* Config::validate lets through just the files that are well formed.
THEOREM FileErrorExact ==
  ASSUME ConfigType
  PROVE  /\ ConfigError = "none" <=> WellFormed
         /\ ConfigError \in FileError \cup {"none"}
<1> DEFINE s == config.mappings
<1>1. PICK n \in Nat : s \in [1..n -> Candidate]
  BY FileSequence
<1>2. /\ DOMAIN s = 1..n
      /\ Mappings = {s[i] : i \in 1..n}
      /\ s = <<>> <=> n = 0
  BY <1>1 DEF Mappings, ToSet
<1>3. Found(s) = Outcome(s, 1..n)
  BY <1>2, FoundOutcome
<1>4. Found(s).error = "none" <=> Mistakes(s, 1..n) = {}
  <2>1. ASSUME Mistakes(s, 1..n) # {}
        PROVE  Mistake(s, 1..n, First(Mistakes(s, 1..n))) # "none"
    <3>1. Mistakes(s, 1..n) \in SUBSET Nat
      BY DEF Mistakes
    <3>2. First(Mistakes(s, 1..n)) \in Mistakes(s, 1..n)
      BY <2>1, <3>1, FirstMember
    <3> QED
      BY <3>2 DEF Mistakes
  <2> QED
    BY <1>3, <2>1 DEF Outcome
<1>5. Mistakes(s, 1..n) = {}
        <=> /\ \A i, j \in 1..n : s[i].id = s[j].id => i = j
            /\ \A i \in 1..n : s[i].switch # <<>> /\ s[i].code # ""
  <2>1. \A i \in 1..n :
          Mistake(s, 1..n, i) = "none"
            <=> /\ ~ \E j \in 1..n : j < i /\ s[j].id = s[i].id
                /\ s[i].switch # <<>>
                /\ s[i].code # ""
    BY DEF Mistake
  <2>2. (\A i, j \in 1..n : s[i].id = s[j].id => i = j)
          <=> \A i \in 1..n : ~ \E j \in 1..n : j < i /\ s[j].id = s[i].id
    <3>1. \A i, j \in 1..n : i # j => i < j \/ j < i
      OBVIOUS
    <3>2. \A i, j \in 1..n : j < i => i # j
      OBVIOUS
    <3> HIDE DEF s
    <3> QED
      BY <3>1, <3>2
  <2> QED
    BY <2>1, <2>2 DEF Mistakes
<1>6. config.capacity > 0 <=> config.capacity # 0
  BY FileSequence
<1>7. ConfigError = IF s = <<>> THEN "no mappings"
                    ELSE IF config.capacity = 0 THEN "no capacity"
                    ELSE Found(s).error
  BY DEF ConfigError, Found, Nothing
<1>8. Found(s).error \in FileError \cup {"none"}
  <2>1. \A S, i : Mistake(s, S, i) \in FileError \cup {"none"}
    BY DEF Mistake, FileError
  <2> QED
    BY <1>3, <2>1 DEF Outcome
<1>9. WellFormed <=> /\ s # <<>>
                     /\ config.capacity # 0
                     /\ Mistakes(s, 1..n) = {}
  BY <1>2, <1>5, <1>6 DEF WellFormed
<1> QED
  BY <1>4, <1>7, <1>8, <1>9 DEF FileError

-----------------------------------------------------------------------------
(* The table of the broker *)

\* An entry is that of the last mapping with the id.
LEMMA TableEntry ==
  ASSUME NEW T, NEW ms \in Seq(T), NEW i \in 1..Len(ms)
  PROVE  /\ ms[i].id \in DOMAIN TableOf(ms)
         /\ \E j \in i..Len(ms) : /\ ms[j].id = ms[i].id
                                 /\ TableOf(ms)[ms[i].id] = ms[j].switch
<1> DEFINE n == Len(ms)
           id == ms[i].id
           I == {j \in 1..n : ms[j].id = id}
<1>0. n \in Nat
  OBVIOUS
<1>1. I \in SUBSET (1..n) /\ i \in I
  OBVIOUS
<1>2. Max(I) \in I /\ \A y \in I : y <= Max(I)
  <2> HIDE DEF I, n
  <2> QED
    BY <1>0, <1>1, GreatestMember
<1>3. id \in {m.id : m \in ToSet(ms)}
  BY DEF ToSet
<1>4. TableOf(ms)[id] = ms[IF I # {} THEN Max(I) ELSE 0].switch
  BY <1>3 DEF TableOf, SelectLastInSeq
<1>5. I # {} /\ i <= Max(I) /\ Max(I) \in 1..n
  <2> HIDE DEF I
  <2> QED
    BY <1>1, <1>2
<1>6. Max(I) \in i..n
  <2> HIDE DEF I, n
  <2> QED
    BY <1>0, <1>5
<1>7. ms[Max(I)].id = id
  BY <1>2
<1>8. TableOf(ms)[id] = ms[Max(I)].switch
  <2> HIDE DEF I
  <2> QED
    BY <1>4, <1>5
<1>9. id \in DOMAIN TableOf(ms)
  BY <1>3 DEF TableOf
<1> HIDE DEF I
<1> QED
  BY <1>6, <1>7, <1>8, <1>9

\* SetToSeq lists a finite set.
LEMMA SetListed ==
  ASSUME NEW S, IsFiniteSet(S)
  PROVE  /\ Cardinality(S) \in Nat
         /\ SetToSeq(S) \in [1..Cardinality(S) -> S]
         /\ \A x \in S : \E i \in 1..Cardinality(S) : SetToSeq(S)[i] = x
<1> DEFINE n == Cardinality(S)
           f == SetToSeq(S)
<1>1. n \in Nat /\ ExistsBijection(1..n, S)
  BY FS_CardinalityType
<1>2. \E g \in [1..n -> S] : IsInjective(g)
  BY <1>1 DEF ExistsBijection, Bijection, Injection
<1>3. f \in [1..n -> S] /\ IsInjective(f)
  BY <1>2 DEF SetToSeq
<1>4. f \in Injection(1..n, S)
  BY <1>3 DEF Injection
<1>5. Cardinality(1..n) = n
  BY <1>1, FS_Interval
<1>6. f \in Surjection(1..n, S)
  BY <1>4, <1>5, FS_Injection
<1> QED
  BY <1>1, <1>3, <1>6 DEF Surjection

SimulatedMapping(switch) == [id |-> SimulatedId(switch), switch |-> switch]

\* The simulator's mappings, one for each switch of the file.
LEMMA SimulatorList ==
  ASSUME ConfigType
  PROVE  \E n \in Nat :
           /\ SimulatorMappings \in [1..n -> {SimulatedMapping(s) : s \in Switches}]
           /\ \A s \in Switches : \E i \in 1..n : SimulatorMappings[i] = SimulatedMapping(s)
<1> DEFINE S == {SimulatedMapping(s) : s \in Switches}
<1>1. PICK n \in Nat : config.mappings \in [1..n -> Candidate]
  BY FileSequence
<1>2. IsFiniteSet(S)
  <2> DEFINE g == [i \in 1..n |-> SimulatedMapping(config.mappings[i].switch)]
  <2>1. g \in [1..n -> S]
    BY <1>1 DEF Switches, Mappings, ToSet
  <2>2. \A x \in S : \E i \in 1..n : g[i] = x
    BY <1>1 DEF Switches, Mappings, ToSet
  <2>3. g \in Surjection(1..n, S)
    <3> HIDE DEF g, S
    <3> QED
      BY <2>1, <2>2 DEF Surjection
  <2>4. IsFiniteSet(1..n)
    BY FS_Interval
  <2> HIDE DEF g, S
  <2> QED
    BY <2>3, <2>4, FS_Surjection
<1>3. SimulatorMappings = SetToSeq(S)
  BY DEF SimulatorMappings, SimulatedMapping
<1>4. \A s \in Switches : SimulatedMapping(s) \in S
  OBVIOUS
<1> HIDE DEF S
<1>5. /\ Cardinality(S) \in Nat
      /\ SimulatorMappings \in [1..Cardinality(S) -> S]
      /\ \A s \in Switches :
           \E i \in 1..Cardinality(S) : SimulatorMappings[i] = SimulatedMapping(s)
  BY <1>2, <1>3, <1>4, SetListed
<1> QED
  BY <1>5 DEF S

LEMMA SimulatedIdInjective ==
  \A s, t : SimulatedId(s) = SimulatedId(t) => s = t
BY DEF SimulatedId

BrokerEntry == Candidate \cup {SimulatedMapping(s) : s \in Switches}

\* The simulator's mappings come after those of the file.
LEMMA BrokerList ==
  ASSUME ConfigType, config.stdin
  PROVE  \E n \in Nat, k \in Nat :
           /\ Len(BrokerMappings) = n + k
           /\ BrokerMappings \in Seq(BrokerEntry)
           /\ DOMAIN config.mappings = 1..n
           /\ \A i \in 1..n : BrokerMappings[i] = config.mappings[i]
           /\ \A i \in n + 1..n + k :
                \E s \in Switches : BrokerMappings[i] = SimulatedMapping(s)
           /\ \A s \in Switches :
                \E i \in n + 1..n + k : BrokerMappings[i] = SimulatedMapping(s)
<1>1. PICK n \in Nat : config.mappings \in [1..n -> Candidate]
  BY FileSequence
<1>2. PICK k \in Nat :
        /\ SimulatorMappings \in [1..k -> {SimulatedMapping(s) : s \in Switches}]
        /\ \A s \in Switches : \E i \in 1..k : SimulatorMappings[i] = SimulatedMapping(s)
  BY SimulatorList
<1> DEFINE a == config.mappings
           b == SimulatorMappings
<1>3. BrokerMappings = a \o b
  BY DEF BrokerMappings
<1>4. a \in Seq(BrokerEntry) /\ b \in Seq(BrokerEntry) /\ Len(a) = n /\ Len(b) = k
  BY <1>1, <1>2 DEF BrokerEntry
<1>5. b \in [1..k -> {SimulatedMapping(s) : s \in Switches}]
  BY <1>2
<1> HIDE DEF a, b
<1>6. /\ a \o b \in Seq(BrokerEntry)
      /\ Len(a \o b) = n + k
      /\ \A i \in 1..n : (a \o b)[i] = a[i]
      /\ \A i \in n + 1..n + k : (a \o b)[i] = b[i - n]
  BY <1>4
<1>8. \A i \in n + 1..n + k : i - n \in 1..k
  OBVIOUS
<1>9. \A i \in n + 1..n + k : \E s \in Switches : (a \o b)[i] = SimulatedMapping(s)
  BY <1>5, <1>6, <1>8
<1>10. ASSUME NEW s \in Switches
       PROVE  \E i \in n + 1..n + k : (a \o b)[i] = SimulatedMapping(s)
  <2>1. PICK i \in 1..k : b[i] = SimulatedMapping(s)
    BY <1>2 DEF b
  <2>2. n + i \in n + 1..n + k /\ (n + i) - n = i
    OBVIOUS
  <2> QED
    BY <1>6, <2>1, <2>2
<1>11. DOMAIN config.mappings = 1..n
  BY <1>1
<1> QED
  BY <1>3, <1>6, <1>9, <1>10, <1>11 DEF a

\* The entry of a mapping of a well-formed file is its own, or one of the simulator's.
LEMMA TableOfFile ==
  ASSUME ConfigType, WellFormed, NEW m \in Mappings
  PROVE  /\ m.id \in DOMAIN TableOf(BrokerMappings)
         /\ \/ TableOf(BrokerMappings)[m.id] = m.switch
            \/ config.stdin /\ \E s \in Switches : m.id = SimulatedId(s)
<1>1. PICK n \in Nat : config.mappings \in [1..n -> Candidate]
  BY FileSequence
<1>2. PICK i \in 1..n : m = config.mappings[i]
  BY <1>1 DEF Mappings, ToSet
<1>3. \A j \in 1..n : config.mappings[j].id = m.id => j = i
  BY <1>1, <1>2 DEF WellFormed
<1>4. CASE ~config.stdin
  <2>1. BrokerMappings = config.mappings
    BY <1>4, FileSequence DEF BrokerMappings
  <2>2. config.mappings \in Seq(Candidate) /\ Len(config.mappings) = n
    BY <1>1
  <2>3. /\ m.id \in DOMAIN TableOf(BrokerMappings)
        /\ \E j \in i..n : /\ config.mappings[j].id = m.id
                           /\ TableOf(BrokerMappings)[m.id] = config.mappings[j].switch
    BY <1>2, <2>1, <2>2, TableEntry
  <2> QED
    BY <1>2, <1>3, <2>3
<1>5. CASE config.stdin
  <2>1. PICK n2, k \in Nat :
           /\ Len(BrokerMappings) = n2 + k
           /\ BrokerMappings \in Seq(BrokerEntry)
           /\ DOMAIN config.mappings = 1..n2
           /\ \A j \in 1..n2 : BrokerMappings[j] = config.mappings[j]
           /\ \A j \in n2 + 1..n2 + k :
                \E s \in Switches : BrokerMappings[j] = SimulatedMapping(s)
    BY <1>5, BrokerList
  <2>2. n2 = n
    BY <1>1, <2>1
  <2>3. i \in 1..n + k /\ n + k \in Nat /\ BrokerMappings[i] = m
    BY <1>2, <2>1, <2>2
  <2>4. /\ m.id \in DOMAIN TableOf(BrokerMappings)
        /\ \E j \in i..n + k : /\ BrokerMappings[j].id = m.id
                               /\ TableOf(BrokerMappings)[m.id] = BrokerMappings[j].switch
    BY <2>1, <2>2, <2>3, TableEntry
  <2>5. PICK j \in i..n + k : /\ BrokerMappings[j].id = m.id
                              /\ TableOf(BrokerMappings)[m.id] = BrokerMappings[j].switch
    BY <2>4
  <2>6. CASE j \in 1..n
    <3>1. config.mappings[j].id = m.id
      BY <2>1, <2>2, <2>5, <2>6
    <3>2. j = i
      BY <1>3, <2>6, <3>1
    <3> QED
      BY <2>3, <2>4, <2>5, <3>2
  <2>7. CASE j \in n + 1..n + k
    <3>1. PICK s \in Switches : BrokerMappings[j] = SimulatedMapping(s)
      BY <2>1, <2>2, <2>7
    <3>2. m.id = SimulatedId(s)
      BY <2>5, <3>1 DEF SimulatedMapping
    <3> QED
      BY <1>5, <2>4, <3>2
  <2> QED
    BY <2>6, <2>7
<1> QED
  BY <1>4, <1>5

\* The entry of a simulator's id is always the switch it was made from.
LEMMA TableOfSimulator ==
  ASSUME ConfigType, config.stdin, NEW s \in Switches
  PROVE  TableOf(BrokerMappings)[SimulatedId(s)] = s
<1>1. PICK n, k \in Nat :
        /\ Len(BrokerMappings) = n + k
        /\ BrokerMappings \in Seq(BrokerEntry)
        /\ \A i \in n + 1..n + k :
             \E r \in Switches : BrokerMappings[i] = SimulatedMapping(r)
        /\ \A r \in Switches :
             \E i \in n + 1..n + k : BrokerMappings[i] = SimulatedMapping(r)
  BY BrokerList
<1>2. PICK i \in n + 1..n + k : BrokerMappings[i] = SimulatedMapping(s)
  BY <1>1
<1>3. BrokerMappings[i].id = SimulatedId(s)
  BY <1>2 DEF SimulatedMapping
<1>4. i \in 1..Len(BrokerMappings)
  BY <1>1
<1>5. \E j \in i..Len(BrokerMappings) :
        /\ BrokerMappings[j].id = BrokerMappings[i].id
        /\ TableOf(BrokerMappings)[BrokerMappings[i].id] = BrokerMappings[j].switch
  BY <1>1, <1>4, TableEntry
<1>6. PICK j \in i..n + k :
        /\ BrokerMappings[j].id = SimulatedId(s)
        /\ TableOf(BrokerMappings)[SimulatedId(s)] = BrokerMappings[j].switch
  BY <1>1, <1>3, <1>5
<1>7. j \in n + 1..n + k
  OBVIOUS
<1>8. PICK r \in Switches : BrokerMappings[j] = SimulatedMapping(r)
  BY <1>1, <1>7
<1>9. r = s
  BY <1>6, <1>8, SimulatedIdInjective DEF SimulatedMapping
<1> QED
  BY <1>6, <1>8, <1>9 DEF SimulatedMapping

-----------------------------------------------------------------------------
(* Start-up *)

Later == {"validated", "broker", "inputs", "serving", "stopped"}

StartError == {"bad input", "no thread", "no address"}

TypeOK ==
  /\ platform \in Platform
  /\ ConfigType
  /\ stage \in Stage

\* How far main has come says what it has checked and built.
Inv ==
  /\ TypeOK
  /\ stage \notin {"start", "failed"} => ConfigError = "none"
  /\ stage \in Later => \A m \in Mappings : InputValid(m)
  /\ stage \in Later \ {"validated"} => table = TableOf(BrokerMappings)
  /\ stage \in {"inputs", "serving", "stopped"} => heard = Heard
  /\ stage # "failed" => error = "none"
  /\ \/ error \in {"none"} \cup StartError
     \/ ConfigError # "none" /\ error = ConfigError
  /\ CommandDrivesItsSwitch

LEMMA InitInv == Init => Inv
<1> SUFFICES ASSUME Init PROVE Inv
  OBVIOUS
<1>1. TypeOK
  BY DEF Init, TypeOK, ConfigType, Stage
<1>2. stage = "start" /\ error = "none" /\ driven = NoCommand
  BY DEF Init
<1> QED
  BY <1>1, <1>2 DEF Inv, Later, CommandDrivesItsSwitch

\* Nothing that is fixed changes, nor what is worked out from it.
LEMMA FixedStays ==
  ASSUME UNCHANGED fixed
  PROVE  /\ ConfigError' = ConfigError
         /\ Mappings' = Mappings
         /\ BrokerMappings' = BrokerMappings
         /\ TableOf(BrokerMappings)' = TableOf(BrokerMappings)
         /\ Heard' = Heard
         /\ \A m : InputValid(m)' = InputValid(m)
         /\ ConfigType' = ConfigType
         /\ WellFormed' = WellFormed
         /\ Switches' = Switches
BY DEF fixed, ConfigError, Mappings, BrokerMappings, Switches, SimulatorMappings, Heard,
       Captured, KnownNames, Source, InputValid, GamepadValid, ConfigType, WellFormed

LEMMA NextFixed == Next => UNCHANGED fixed
BY DEF Next, Load, LoadFails, Validate, ValidateFails, SpawnBroker, SpawnInput,
       SpawnInputFails, Bind, BindFails, Stop, Type, Proceed, Fail

LEMMA NextInv == Inv /\ [Next]_vars => Inv'
<1> SUFFICES ASSUME Inv, [Next]_vars PROVE Inv'
  OBVIOUS
<1>1. UNCHANGED fixed
  BY NextFixed DEF vars
<1>2. platform' = platform
  BY <1>1 DEF fixed
<1>a. CASE UNCHANGED vars
  BY <1>1, <1>2, <1>a, FixedStays DEF vars, tables, Inv, TypeOK, CommandDrivesItsSwitch
<1>b. CASE Load
  BY <1>1, <1>2, <1>b, FixedStays
     DEF Load, Proceed, Goto, tables, Inv, TypeOK, CommandDrivesItsSwitch, Stage, Later
<1>c. CASE LoadFails
  BY <1>1, <1>2, <1>c, FixedStays
     DEF LoadFails, Fail, Goto, tables, Inv, TypeOK, CommandDrivesItsSwitch, Stage, Later
<1>d. CASE Validate
  BY <1>1, <1>2, <1>d, FixedStays
     DEF Validate, Proceed, Goto, tables, Inv, TypeOK, CommandDrivesItsSwitch, Stage, Later
<1>e. CASE ValidateFails
  BY <1>1, <1>2, <1>e, FixedStays
     DEF ValidateFails, Fail, Goto, tables, Inv, TypeOK, CommandDrivesItsSwitch, Stage,
         Later, StartError
<1>f. CASE SpawnBroker
  BY <1>1, <1>2, <1>f, FixedStays
     DEF SpawnBroker, Proceed, Goto, Inv, TypeOK, CommandDrivesItsSwitch, Stage, Later
<1>g. CASE SpawnInput
  BY <1>1, <1>2, <1>g, FixedStays
     DEF SpawnInput, Proceed, Goto, Inv, TypeOK, CommandDrivesItsSwitch, Stage, Later
<1>h. CASE SpawnInputFails
  BY <1>1, <1>2, <1>h, FixedStays
     DEF SpawnInputFails, Fail, Goto, tables, Inv, TypeOK, CommandDrivesItsSwitch, Stage,
         Later, StartError
<1>i. CASE Bind
  BY <1>1, <1>2, <1>i, FixedStays
     DEF Bind, Proceed, Goto, tables, Inv, TypeOK, CommandDrivesItsSwitch, Stage, Later
<1>j. CASE BindFails
  BY <1>1, <1>2, <1>j, FixedStays
     DEF BindFails, Fail, Goto, tables, Inv, TypeOK, CommandDrivesItsSwitch, Stage, Later,
         StartError
<1>k. CASE Stop
  BY <1>1, <1>2, <1>k, FixedStays
     DEF Stop, Proceed, Goto, tables, Inv, TypeOK, CommandDrivesItsSwitch, Stage, Later
<1>l. ASSUME NEW line \in Line, Type(line) PROVE Inv'
  <2>1. config.stdin /\ <<line[2]>> \in Switches /\ stage \in {"inputs", "serving"}
    BY <1>l DEF Type
  <2>2. table = TableOf(BrokerMappings) /\ ConfigType
    BY <2>1 DEF Inv, TypeOK, Later
  <2>3. table[SimulatedId(<<line[2]>>)] = <<line[2]>>
    BY <2>1, <2>2, TableOfSimulator
  <2>4. CommandDrivesItsSwitch'
    BY <1>l, <2>3 DEF Type, CommandDrivesItsSwitch
  <2> QED
    BY <1>1, <1>2, <1>l, <2>4, FixedStays DEF Type, Inv, TypeOK
<1> QED
  BY <1>a, <1>b, <1>c, <1>d, <1>e, <1>f, <1>g, <1>h, <1>i, <1>j, <1>k, <1>l DEF Next

\* Every state that start-up reaches keeps Inv.
THEOREM Invariance == Spec => []Inv
BY InitInv, NextInv, PTL DEF Spec

LEMMA LoadsWellFormedOfInv == Inv => LoadsWellFormed
<1> SUFFICES ASSUME Inv PROVE LoadsWellFormed
  OBVIOUS
<1>1. ConfigError = "none" <=> WellFormed
  BY FileErrorExact DEF Inv, TypeOK
<1> QED
  BY <1>1 DEF Inv, LoadsWellFormed, StartError

\* A file is refused just when it is not well formed, for files of any length.
THEOREM LoadsWellFormedAlways == Spec => []LoadsWellFormed
BY Invariance, LoadsWellFormedOfInv, PTL

\* The table of macOS has every name that parse_key accepts.
LEMMA TablesMirror == DOMAIN ParsedKey \subseteq KnownNames
BY DEF ParsedKey, KeyCode, KnownNames

LEMMA EveryMappingHeardOfInv == Inv => EveryMappingHeard
<1> SUFFICES ASSUME Inv, Capturing PROVE EveryMappingHeard
  BY DEF EveryMappingHeard
<1>1. /\ ConfigType
      /\ ConfigError = "none"
      /\ \A m \in Mappings : InputValid(m)
      /\ table = TableOf(BrokerMappings)
      /\ heard = Heard
      /\ platform \in Platform
  BY DEF Inv, TypeOK, Capturing, Later
<1>2. WellFormed
  BY <1>1, FileErrorExact
<1>3. \A m \in Mappings : m.input \in {"keyboard", "gamepad"}
  BY <1>1, FileSequence, StartupAssumption DEF Mappings, ToSet
<1>4. \A m \in Mappings : Captured(m)
  BY <1>1, <1>3, TablesMirror DEF InputValid, GamepadValid, Captured
<1>5. {h.id : h \in heard} = {m.id : m \in Mappings}
  <2>1. \A h \in Heard : \E m \in Mappings : h.id = m.id
    BY DEF Heard
  <2>2. ASSUME NEW m \in Mappings PROVE \E h \in Heard : h.id = m.id
    <3>1. [source |-> Source(m), id |-> m.id] \in Heard
      BY <1>4 DEF Heard
    <3>2. [source |-> Source(m), id |-> m.id].id = m.id
      OBVIOUS
    <3> QED
      BY <3>1, <3>2
  <2> QED
    BY <1>1, <2>1, <2>2
<1>6. \A m \in Mappings : m.id \in DOMAIN table
  BY <1>1, <1>2, TableOfFile
<1>7. \A h \in heard : h.id \in DOMAIN table
  BY <1>5, <1>6
<1> QED
  BY <1>5, <1>7 DEF EveryMappingHeard

\* No mapping that start-up let through is left without a backend, and the broker
\* knows every id a backend may send it.
THEOREM EveryMappingHeardAlways == Spec => []EveryMappingHeard
BY Invariance, EveryMappingHeardOfInv, PTL

LEMMA InputDrivesItsSwitchOfInv == Inv => InputDrivesItsSwitch
<1> SUFFICES ASSUME Inv, Capturing PROVE InputDrivesItsSwitch
  BY DEF InputDrivesItsSwitch
<1>1. ConfigType /\ ConfigError = "none" /\ table = TableOf(BrokerMappings)
  BY DEF Inv, TypeOK, Capturing, Later
<1>2. WellFormed
  BY <1>1, FileErrorExact
<1> QED
  BY <1>1, <1>2, TableOfFile DEF InputDrivesItsSwitch

\* An input drives the switch its mapping names, unless its id is one of the
\* simulator's.
THEOREM InputDrivesItsSwitchAlways == Spec => []InputDrivesItsSwitch
BY Invariance, InputDrivesItsSwitchOfInv, PTL

\* A simulator command drives the switch it names.
THEOREM CommandDrivesItsSwitchAlways == Spec => []CommandDrivesItsSwitch
<1>1. Inv => CommandDrivesItsSwitch
  BY DEF Inv
<1> QED
  BY <1>1, Invariance, PTL
=============================================================================
