---------------------------- MODULE SwitchProofs ----------------------------
(***************************************************************************)
(* What the operators of SwitchStateMachine return, for any mappings: the  *)
(* facts that the theorems about Broker and Keyboard share, and that one   *)
(* set of pressed mappings says the same as active_by_switch of the code.  *)
(***************************************************************************)
EXTENDS SwitchStateMachine, FiniteSetTheorems, TLAPS

LEMMA EdgesDiffer == Press # Release /\ Press \in Edge /\ Release \in Edge
BY DEF Press, Release, Edge

\* The switches are finitely many, as the mappings are.
LEMMA SwitchFinite == IsFiniteSet(Switch)
<1>1. SwitchOf \in Surjection(Mapping, Switch)
  BY MappingAssumption DEF Surjection
<1> QED
  BY <1>1, MappingAssumption, FS_Surjection

LEMMA NothingHeld == Held({}) = {} /\ Held(NoneActive) = {}
BY DEF Held, NoneActive

LEMMA HeldType ==
  ASSUME NEW A \in SUBSET Mapping
  PROVE  Held(A) \in SUBSET Switch
BY MappingAssumption DEF Held

LEMMA AppliedType ==
  ASSUME NEW A \in SUBSET Mapping, NEW m \in Mapping, NEW edge \in Edge
  PROVE  Applied(A, m, edge) \in SUBSET Mapping
BY DEF Applied

-----------------------------------------------------------------------------
(* Logical edges *)

LEMMA EmittedPress ==
  ASSUME NEW A \in SUBSET Mapping, NEW m \in Mapping,
         IsValid(A, m, Press), Emits(A, m, Press)
  PROVE  /\ SwitchOf[m] \in Switch
         /\ SwitchOf[m] \notin Held(A)
         /\ Held(Applied(A, m, Press)) = Held(A) \cup {SwitchOf[m]}
BY MappingAssumption DEF IsValid, Emits, Applied, ActiveOn, Held

LEMMA EmittedRelease ==
  ASSUME NEW A \in SUBSET Mapping, NEW m \in Mapping,
         IsValid(A, m, Release), Emits(A, m, Release)
  PROVE  /\ SwitchOf[m] \in Switch
         /\ SwitchOf[m] \in Held(A)
         /\ Held(Applied(A, m, Release)) = Held(A) \ {SwitchOf[m]}
BY EdgesDiffer, MappingAssumption DEF IsValid, Emits, Applied, ActiveOn, Held

LEMMA InnerEdge ==
  ASSUME NEW A \in SUBSET Mapping, NEW m \in Mapping, NEW edge \in Edge,
         IsValid(A, m, edge), ~Emits(A, m, edge)
  PROVE  Held(Applied(A, m, edge)) = Held(A)
<1>1. CASE edge = Press
  <2>1. PICK k \in A : SwitchOf[k] = SwitchOf[m]
    BY <1>1 DEF IsValid, Emits, Applied, ActiveOn
  <2> QED
    BY <1>1, <2>1 DEF Applied, Held
<1>2. CASE edge # Press
  <2>1. PICK k \in A \ {m} : SwitchOf[k] = SwitchOf[m]
    BY <1>2 DEF IsValid, Emits, Applied, ActiveOn
  <2> QED
    BY <1>2, <2>1 DEF Applied, Held
<1> QED
  BY <1>1, <1>2

\* apply returns a transition just when the switch of the mapping, and then no other,
\* changes what snapshots reports of it.
THEOREM TransitionsExact ==
  ASSUME NEW A \in SUBSET Mapping, NEW m \in Mapping, NEW edge \in Edge,
         IsValid(A, m, edge)
  PROVE  LET s == SwitchOf[m]
             after == Held(Applied(A, m, edge))
         IN  /\ s \in Switch
             /\ Emits(A, m, edge) <=> after # Held(A)
             /\ Emits(A, m, edge) =>
                  /\ s \in after <=> edge = Press
                  /\ after = IF s \in Held(A) THEN Held(A) \ {s} ELSE Held(A) \cup {s}
<1>1. SwitchOf[m] \in Switch
  BY MappingAssumption
<1>2. CASE ~Emits(A, m, edge)
  BY <1>1, <1>2, InnerEdge
<1>3. CASE Emits(A, m, edge) /\ edge = Press
  BY <1>1, <1>3, EmittedPress
<1>4. CASE Emits(A, m, edge) /\ edge = Release
  BY <1>1, <1>4, EdgesDiffer, EmittedRelease
<1> QED
  BY <1>2, <1>3, <1>4 DEF Edge

-----------------------------------------------------------------------------
(* The code keeps the pressed mappings of each switch by themselves *)

\* active_by_switch.
BySwitch(A) == [s \in Switch |-> ActiveOn(A, s)]

\* What apply finds in the entry of the switch, what it leaves there, and the test it
\* makes on that.
THEOREM TableExact ==
  ASSUME NEW A \in SUBSET Mapping, NEW m \in Mapping, NEW edge \in Edge
  PROVE  LET s == SwitchOf[m]
             before == BySwitch(A)[s]
             after == IF edge = Press THEN before \cup {m} ELSE before \ {m}
         IN  /\ IsValid(A, m, edge) <=> after # before
             /\ BySwitch(Applied(A, m, edge)) = [BySwitch(A) EXCEPT ![s] = after]
             /\ IsValid(A, m, edge) =>
                  (Emits(A, m, edge)
                     <=> Cardinality(after) = IF edge = Press THEN 1 ELSE 0)
<1> DEFINE s == SwitchOf[m]
           before == BySwitch(A)[s]
           after == IF edge = Press THEN before \cup {m} ELSE before \ {m}
           B == Applied(A, m, edge)
<1>1. s \in Switch
  BY MappingAssumption
<1>2. before = ActiveOn(A, s)
  BY <1>1 DEF BySwitch
<1>3. m \in before <=> m \in A
  BY <1>2 DEF ActiveOn
<1>4. after = ActiveOn(B, s)
  BY <1>2 DEF ActiveOn, Applied
<1>5. IsValid(A, m, edge) <=> after # before
  BY <1>3 DEF IsValid
<1>6. \A r \in Switch \ {s} : ActiveOn(B, r) = ActiveOn(A, r)
  BY DEF ActiveOn, Applied
<1>7. BySwitch(B) = [BySwitch(A) EXCEPT ![s] = after]
  BY <1>1, <1>4, <1>6 DEF BySwitch
<1>8. IsFiniteSet(after)
  <2>1. after \in SUBSET Mapping
    BY <1>2 DEF ActiveOn
  <2> QED
    BY <2>1, MappingAssumption, FS_Subset
<1>9. (Cardinality(after) = 0 <=> after = {}) /\ (after = {m} => Cardinality(after) = 1)
  BY <1>8, FS_EmptySet, FS_Singleton
<1>10. Cardinality(after) = 1 /\ m \in after => after = {m}
  BY <1>8, FS_Singleton
<1>11. Emits(A, m, edge) <=> after = IF edge = Press THEN {m} ELSE {}
  BY <1>4 DEF Emits
<1>12. Emits(A, m, edge) <=> Cardinality(after) = IF edge = Press THEN 1 ELSE 0
  <2>1. CASE edge = Press
    BY <1>9, <1>10, <1>11, <2>1
  <2>2. CASE edge # Press
    BY <1>9, <1>11, <2>2
  <2> QED
    BY <2>1, <2>2
<1> HIDE DEF s, before, after, B
<1>13. /\ IsValid(A, m, edge) <=> after # before
       /\ BySwitch(B) = [BySwitch(A) EXCEPT ![s] = after]
       /\ IsValid(A, m, edge) =>
            (Emits(A, m, edge) <=> Cardinality(after) = IF edge = Press THEN 1 ELSE 0)
  BY <1>5, <1>7, <1>12
<1> QED
  BY <1>13 DEF s, before, after, B

\* snapshots reports, and release_all returns, the switches whose entries are not
\* empty, and release_all leaves all of them empty.
THEOREM TableReports ==
  ASSUME NEW A \in SUBSET Mapping
  PROVE  /\ Held(A) = {s \in Switch : BySwitch(A)[s] # {}}
         /\ ToRelease(A) = {s \in Switch : BySwitch(A)[s] # {}}
         /\ BySwitch(NoneActive) = [s \in Switch |-> {}]
<1>1. Held(A) = {s \in Switch : BySwitch(A)[s] # {}}
  BY MappingAssumption DEF Held, BySwitch, ActiveOn
<1>2. BySwitch(NoneActive) = [s \in Switch |-> {}]
  BY DEF BySwitch, ActiveOn, NoneActive
<1> QED
  BY <1>1, <1>2 DEF ToRelease
=============================================================================
