-------------------------- MODULE KGPipelineProofs --------------------------
(***************************************************************************)
(* What the runtime judges by was signed, what the strict validation let   *)
(* through is governed at tier 1 wherever nothing can check it, a compiled *)
(* obligation applies where the graph says it does, the conversion of a    *)
(* flat document keeps its rules and the extraction loses none, for any    *)
(* drafts, edits, answers of the extraction model, keys and anchors.       *)
(***************************************************************************)
EXTENDS KGPipeline, SequenceTheorems, FiniteSetTheorems, WellFoundedInduction, TLAPS

\* What edits can break: the signature block in the file is one that was made,
\* although perhaps over another content than the file now has.
SignatureWasMade ==
  file # None =>
    /\ file = [shape |-> file.shape, kg |-> file.kg, sig |-> file.sig]
    /\ file.sig # None => <<file.sig.key, file.sig.over>> \in signed

SignedInv == SignatureWasMade /\ RunsWhatWasSigned

\* A file that from_dict accepts was signed with its content (_verify_signature).
LEMMA AcceptedWasSigned ==
  ASSUME SignatureWasMade, file # None, FromDictAccepts(file)
  PROVE  \E k \in Anchors : <<k, Content(file)>> \in signed
BY DEF SignatureWasMade, FromDictAccepts, Verifies

\* A step that leaves the loaded graph alone and forgets no signature.
LEMMA SignedStaysSigned ==
  ASSUME RunsWhatWasSigned, UNCHANGED runtime, signed \subseteq signed'
  PROVE  RunsWhatWasSigned'
BY DEF RunsWhatWasSigned

\* Nothing a tool or an editor does breaks the invariant.
LEMMA SignedStep ==
  ASSUME SignedInv, [Next]_vars
  PROVE  SignedInv'
<1> USE DEF SignedInv
<1>1. ASSUME NEW content, Write(content) PROVE SignedInv'
  <2>1. SignatureWasMade' BY <1>1 DEF Write, Unsigned, SignatureWasMade
  <2> QED BY <1>1, <2>1, SignedStaysSigned DEF Write
<1>2. ASSUME NEW answers, NEW place, Extract(answers, place) PROVE SignedInv'
  <2>1. SignatureWasMade' BY <1>2 DEF Extract, Unsigned, SignatureWasMade
  <2> QED BY <1>2, <2>1, SignedStaysSigned DEF Extract
<1>3. ASSUME NEW kind, NEW node, EditNode(kind, node) PROVE SignedInv'
  <2>1. SignatureWasMade' BY <1>3 DEF EditNode, SignatureWasMade
  <2> QED BY <1>3, <2>1, SignedStaysSigned DEF EditNode
<1>4. ASSUME NEW edge, EditEdge(edge) PROVE SignedInv'
  <2>1. SignatureWasMade' BY <1>4 DEF EditEdge, SignatureWasMade
  <2> QED BY <1>4, <2>1, SignedStaysSigned DEF EditEdge
<1>5. ASSUME Convert PROVE SignedInv'
  <2>1. SignatureWasMade' BY <1>5 DEF Convert, Unsigned, SignatureWasMade
  <2> QED BY <1>5, <2>1, SignedStaysSigned DEF Convert
<1>6. ASSUME Validate PROVE SignedInv'
  BY <1>6, SignedStaysSigned DEF Validate, SignatureWasMade
<1>7. ASSUME NEW key \in Keys, SignKG(key) PROVE SignedInv'
  <2>1. SignatureWasMade' BY <1>7 DEF SignKG, SignatureWasMade
  <2> QED BY <1>7, <2>1, SignedStaysSigned DEF SignKG
<1>8. ASSUME LoadKnowledgeGraph PROVE SignedInv'
  BY <1>8, SignedStaysSigned DEF LoadKnowledgeGraph, SignatureWasMade
<1>9. ASSUME LoadKG PROVE SignedInv'
  <2>1. \E k \in Anchors : <<k, Content(file)>> \in signed
    BY <1>9, AcceptedWasSigned DEF LoadKG
  <2>2. runtime'.content = Content(file) /\ signed' = signed
    BY <1>9 DEF LoadKG
  <2>3. RunsWhatWasSigned' BY <2>1, <2>2 DEF RunsWhatWasSigned
  <2> QED BY <1>9, <2>3 DEF LoadKG, SignatureWasMade
<1>10. ASSUME UNCHANGED vars PROVE SignedInv'
  BY <1>10, SignedStaysSigned DEF vars, SignatureWasMade
<1> QED BY <1>1, <1>2, <1>3, <1>4, <1>5, <1>6, <1>7, <1>8, <1>9, <1>10 DEF Next

\* RunsWhatWasSigned of every reachable state, for any files, keys and anchors.
THEOREM RuntimeRunsWhatWasSigned == Spec => []RunsWhatWasSigned
<1>1. Init => SignedInv
  BY DEF Init, SignedInv, SignatureWasMade, RunsWhatWasSigned
<1>2. SignedInv /\ [Next]_vars => SignedInv'
  BY SignedStep
<1>3. SignedInv => RunsWhatWasSigned
  BY DEF SignedInv
<1> QED BY <1>1, <1>2, <1>3, PTL DEF Spec

-----------------------------------------------------------------------------
(* Obligations that nothing can check.                                     *)

\* The least of some of 1, 2, 3 is 1 when 1 is among them.
LEMMA MinIsOne ==
  ASSUME NEW S \in SUBSET (1..3), 1 \in S
  PROVE  Min(S) = 1
<1>1. \A y \in S : 1 <= y
  OBVIOUS
<1>2. \A x \in S : (\A y \in S : x <= y) => x = 1
  OBVIOUS
<1> QED BY <1>1, <1>2 DEF Min

\* canonicalise: "high" and no tier at all are tier 1, and there are three tiers.
LEMMA CanonicalFacts ==
  /\ \A tier : Canonicalise(tier) \in 1..3
  /\ Canonicalise("high") = 1
  /\ Canonicalise(None) = 1
<1>1. LowerCase("high") = "high"
  BY NamesAssumption DEF LowerCase
<1>2. ASSUME NEW tier PROVE Canonicalise(tier) \in 1..3
  <2>1. CASE tier # None /\ LowerCase(tier) \in {"tier-2", "standard", "medium"}
    BY <2>1 DEF Canonicalise
  <2>2. CASE ~(tier # None /\ LowerCase(tier) \in {"tier-2", "standard", "medium"})
    BY <2>2 DEF Canonicalise
  <2> QED BY <2>1, <2>2
<1> QED BY <1>1, <1>2 DEF Canonicalise

\* compile_graph after kg-validator --strict: the tier of an obligation without
\* a check function is high, or None when no rule owns it.
LEMMA QualitativeIsHigh ==
  ASSUME NEW g, UnderTieredQualitative(g) = {},
         NEW o \in NodesOf(g, "obligations"), o.data.type \notin Checkable
  PROVE  CompiledTier(g, o.id) \in {None, "high"}
<1> DEFINE owning == {s \in NodesOf(g, "rules") : s.id \in Owners(g, o.id)}
           declared == {r.data : r \in owning}
           ranks == {k \in 1..3 : Tiers[k] \in declared}
<1>1. \A r \in owning : r.data = "high"
  BY DEF Owners, UnderTieredQualitative
<1>2. declared \subseteq {"high"}
  BY <1>1
<1>3. Tiers[1] = "high" /\ Tiers[2] # "high" /\ Tiers[3] # "high"
  BY DEF Tiers
<1>4. ranks \subseteq {1}
  BY <1>2, <1>3
<1>5. CompiledTier(g, o.id) = IF ranks = {} THEN None ELSE Tiers[Min(ranks)]
  BY DEF CompiledTier
<1>6. CASE ranks = {}
  BY <1>5, <1>6
<1>7. CASE ranks # {}
  <2>1. ranks \in SUBSET (1..3) /\ 1 \in ranks
    BY <1>4, <1>7
  <2>2. Min(ranks) = 1
    BY <2>1, MinIsOne
  <2> QED BY <1>3, <1>5, <1>7, <2>2
<1> QED BY <1>6, <1>7

\* What the validation log and the runtime's graph are: every content that
\* passed is a graph without an under-tiered rule, and the obligations loaded
\* are those compile_graph makes of the loaded content.
ValidatedInv ==
  /\ \A c \in passed : c.shape = "graph" /\ UnderTieredQualitative(c.kg) = {}
  /\ runtime # None => runtime.rules = Compile(GraphOf(runtime.content))

LEMMA ValidatedStep ==
  ASSUME ValidatedInv, [Next]_vars
  PROVE  ValidatedInv'
<1>1. CASE Validate
  <2>1. passed' = passed \cup {Content(file)} /\ runtime' = runtime
        /\ file.shape = "graph" /\ UnderTieredQualitative(file.kg) = {}
    BY <1>1 DEF Validate, IsClean
  <2>2. Content(file).shape = "graph" /\ Content(file).kg = file.kg
    BY <2>1 DEF Content
  <2> QED BY <2>1, <2>2 DEF ValidatedInv
<1>2. CASE LoadKG
  <2>1. passed' = passed /\ runtime'.content = Content(file)
        /\ runtime'.rules = Compile(GraphOf(Content(file)))
    BY <1>2 DEF LoadKG
  <2> QED BY <2>1 DEF ValidatedInv
<1>3. CASE UNCHANGED <<passed, runtime>>
  BY <1>3 DEF ValidatedInv
<1> QED BY <1>1, <1>2, <1>3
     DEF Next, vars, Write, Extract, EditNode, EditEdge, Convert, SignKG, LoadKnowledgeGraph

\* QualitativeAtTierOne of every reachable state: whatever is edited, signed and
\* loaded, a slice with an obligation nothing can check is governed at tier 1
\* if the loaded content passed kg-validator --strict.
THEOREM QualitativeAlwaysAtTierOne == Spec => []QualitativeAtTierOne
<1>1. Init => ValidatedInv
  BY DEF Init, ValidatedInv
<1>2. ValidatedInv /\ [Next]_vars => ValidatedInv'
  BY ValidatedStep
<1>3. ValidatedInv => QualitativeAtTierOne
  <2> SUFFICES ASSUME ValidatedInv, runtime # None, runtime.content \in passed,
                      NEW q \in Requests, NEW r \in Slice(runtime.rules, q), r.type \notin Checkable
               PROVE  TierForSnapshot(Slice(runtime.rules, q)) = 1
    BY DEF QualitativeAtTierOne
  <2> DEFINE g == runtime.content.kg
             S == Slice(runtime.rules, q)
             tiers == {Canonicalise(s.tier) : s \in S}
  <2>1. /\ UnderTieredQualitative(g) = {}
        /\ runtime.rules = Compile(g)
    BY DEF ValidatedInv, GraphOf
  <2>2. r \in Compile(g)
    BY <2>1 DEF Slice, ScopeTo
  <2>3. PICK o \in NodesOf(g, "obligations") :
               r.type = o.data.type /\ r.tier = CompiledTier(g, o.id)
    <3>1. PICK o \in NodesOf(g, "obligations") : r = CompiledRule(g, o)
      BY <2>2 DEF Compile
    <3> QED BY <3>1 DEF CompiledRule
  <2>4. r.tier \in {None, "high"}
    BY <2>1, <2>3, QualitativeIsHigh
  <2>5. Canonicalise(r.tier) = 1
    BY <2>4, CanonicalFacts
  <2>6. tiers \in SUBSET (1..3) /\ 1 \in tiers
    BY <2>5, CanonicalFacts
  <2>7. TierForSnapshot(S) = Min(tiers)
    <3>1. S # {}
      OBVIOUS
    <3>2. tiers \cup (IF S = {} THEN {1} ELSE {}) = tiers
      BY <3>1
    <3> QED BY <3>2 DEF TierForSnapshot
  <2> QED BY <2>6, <2>7, MinIsOne
<1> QED BY <1>1, <1>2, <1>3, PTL DEF Spec

-----------------------------------------------------------------------------
(* Where an obligation applies.                                            *)

\* The children of a set's members are in it, and the parents of a set's members.
ClosedDown(g, S) == \A n \in NodesOf(g, "jurisdictions") : n.data # None /\ n.data \in S => n.id \in S
ClosedUp(g, S) ==
  \A n \in NodesOf(g, "jurisdictions") :
    n.id \in S /\ n.data \in Ids(g, "jurisdictions") \ {None} => n.data \in S

\* with_descendants, and the way up from a jurisdiction, as least closed sets.
LEMMA DescendantFacts ==
  ASSUME NEW g, NEW roots \in SUBSET Ids(g, "jurisdictions")
  PROVE  /\ WithDescendants(g, roots) \subseteq Ids(g, "jurisdictions")
         /\ roots \subseteq WithDescendants(g, roots)
         /\ ClosedDown(g, WithDescendants(g, roots))
         /\ \A S \in SUBSET Ids(g, "jurisdictions") :
              roots \subseteq S /\ ClosedDown(g, S) => WithDescendants(g, roots) \subseteq S
<1>1. ClosedDown(g, WithDescendants(g, roots))
  <2> SUFFICES ASSUME NEW n \in NodesOf(g, "jurisdictions"), n.data # None,
                      n.data \in WithDescendants(g, roots)
               PROVE  n.id \in WithDescendants(g, roots)
    BY DEF ClosedDown
  <2> QED BY DEF WithDescendants, Ids
<1> QED BY <1>1 DEF WithDescendants, ClosedDown

LEMMA AncestorFacts ==
  ASSUME NEW g, NEW j \in Ids(g, "jurisdictions")
  PROVE  /\ Ancestors(g, j) \subseteq Ids(g, "jurisdictions")
         /\ j \in Ancestors(g, j)
         /\ ClosedUp(g, Ancestors(g, j))
         /\ \A S \in SUBSET Ids(g, "jurisdictions") :
              j \in S /\ ClosedUp(g, S) => Ancestors(g, j) \subseteq S
<1>1. ClosedUp(g, Ancestors(g, j))
  <2> SUFFICES ASSUME NEW n \in NodesOf(g, "jurisdictions"), n.id \in Ancestors(g, j),
                      n.data \in Ids(g, "jurisdictions") \ {None}
               PROVE  n.data \in Ancestors(g, j)
    BY DEF ClosedUp
  <2> QED BY DEF Ancestors
<1> QED BY <1>1 DEF Ancestors, ClosedUp

\* A jurisdiction lies below one of the roots iff its way up meets one: the sets
\* of the two readings separate the same pairs, whatever the parents are, cycles
\* and parents that are no node included.
LEMMA BelowIffOnTheWayUp ==
  ASSUME NEW g, NEW roots \in SUBSET Ids(g, "jurisdictions"), NEW j \in Ids(g, "jurisdictions")
  PROVE  j \in WithDescendants(g, roots) <=> Ancestors(g, j) \cap roots # {}
<1> DEFINE all == Ids(g, "jurisdictions")
           below == WithDescendants(g, roots)
           meets == {k \in all : Ancestors(g, k) \cap roots # {}}
<1>1. ASSUME j \notin below PROVE Ancestors(g, j) \cap roots = {}
  <2>1. ClosedUp(g, all \ below)
    BY DescendantFacts DEF ClosedUp, ClosedDown, Ids
  <2>2. Ancestors(g, j) \subseteq all \ below
    BY <1>1, <2>1, AncestorFacts
  <2> QED BY <2>2, DescendantFacts
<1>2. roots \subseteq meets
  BY AncestorFacts
<1>3. ClosedDown(g, meets)
  <2> SUFFICES ASSUME NEW n \in NodesOf(g, "jurisdictions"), n.data # None, n.data \in meets
               PROVE  n.id \in meets
    BY DEF ClosedDown
  <2>1. n.id \in all
    BY DEF Ids
  <2>2. n.data \in Ancestors(g, n.id)
    BY <2>1, AncestorFacts DEF ClosedUp
  <2>3. Ancestors(g, n.data) \subseteq Ancestors(g, n.id)
    BY <2>1, <2>2, AncestorFacts
  <2> QED BY <2>1, <2>3
<1>4. below \subseteq meets
  BY <1>2, <1>3, DescendantFacts
<1> QED BY <1>1, <1>4

\* The parts of AppliesWhereWritten for one obligation and one request.
Placed(g, o, p) ==
  \/ p = None \/ Roots(g, o) = {}
  \/ \E j \in Ids(g, "jurisdictions") :
       /\ Normal(j) \in {Normal(p)} \cup Universal
       /\ Ancestors(g, j) \cap Roots(g, o) # {}
Spoken(g, o, s) ==
  \/ s = None \/ Owners(g, o) = {}
  \/ \E r \in Owners(g, o) : Subjects(g, r) \in {{}} \/ s \in Subjects(g, r)

Owned(g) == {o \in NodesOf(g, "obligations") : Owners(g, o.id) # {}}

\* compile_graph and scope_to together, for one obligation.
LEMMA CompiledPlace ==
  ASSUME NEW g, NEW o, NEW p
  PROVE  InJurisdiction(CompiledRule(g, o), p) <=> Placed(g, o.id, p)
<1> DEFINE roots == Roots(g, o.id)
<1>1. roots \in SUBSET Ids(g, "jurisdictions")
  BY DEF Roots, Scopes
<1>2. CompiledRule(g, o).jurisdiction = CompiledJurisdiction(g, o.id)
  BY DEF CompiledRule
<1>3. CASE roots = {}
  BY <1>2, <1>3 DEF CompiledJurisdiction, InJurisdiction, Placed
<1>4. CASE roots # {}
  <2>1. CompiledRule(g, o).jurisdiction = WithDescendants(g, roots)
    BY <1>2, <1>4 DEF CompiledJurisdiction
  <2>2. WithDescendants(g, roots) # {} /\ WithDescendants(g, roots) \subseteq Ids(g, "jurisdictions")
    BY <1>1, <1>4, DescendantFacts
  <2>3. \A j \in Ids(g, "jurisdictions") :
          j \in WithDescendants(g, roots) <=> Ancestors(g, j) \cap roots # {}
    BY <1>1, BelowIffOnTheWayUp
  <2> HIDE DEF roots
  <2> QED BY <1>4, <2>1, <2>2, <2>3 DEF InJurisdiction, Placed, roots
<1> QED BY <1>3, <1>4

LEMMA CompiledSubject ==
  ASSUME NEW g, NEW o, NEW s
  PROVE  (s = None \/ CompiledRule(g, o).subjects = {} \/ s \in CompiledRule(g, o).subjects)
           <=> Spoken(g, o.id, s)
<1>1. CompiledRule(g, o).subjects = CompiledSubjects(g, o.id)
  BY DEF CompiledRule
<1> QED BY <1>1 DEF CompiledSubjects, Spoken

LEMMA CompiledDates ==
  ASSUME NEW g, NEW o, NEW t
  PROVE  InForce(CompiledRule(g, o), t) <=> InForce(o.data, t)
BY DEF CompiledRule, InForce

\* AppliesWhereWritten of every reachable state: with_descendants, the owners and
\* the subjects compiled from any graph select for every measurement, among the
\* obligations that a rule owns, those its edges and parents name.
THEOREM AlwaysAppliesWhereWritten == Spec => []AppliesWhereWritten
<1>1. Init => ValidatedInv
  BY DEF Init, ValidatedInv
<1>2. ValidatedInv /\ [Next]_vars => ValidatedInv'
  BY ValidatedStep
<1>3. ValidatedInv => AppliesWhereWritten
  <2> SUFFICES ASSUME ValidatedInv, runtime # None PROVE AppliesWhereWritten
    BY DEF AppliesWhereWritten
  <2>1. PICK g : g = GraphOf(runtime.content)
    OBVIOUS
  <2>2. runtime.rules = Compile(g)
    BY <2>1 DEF ValidatedInv
  <2>3. ASSUME NEW q \in Requests
        PROVE  {r.id : r \in Slice(runtime.rules, q)} \cap {o.id : o \in Owned(g)} =
                 {o.id : o \in {n \in Owned(g) :
                    InForce(n.data, q.time) /\ Placed(g, n.id, q.place) /\ Spoken(g, n.id, q.subject)}}
    <3>1. \A o \in NodesOf(g, "obligations") :
            CompiledRule(g, o) \in Slice(runtime.rules, q)
              <=> InForce(o.data, q.time) /\ Placed(g, o.id, q.place) /\ Spoken(g, o.id, q.subject)
      BY <2>2, CompiledPlace, CompiledSubject, CompiledDates DEF Slice, ScopeTo, Compile
    <3>2. \A r \in Slice(runtime.rules, q) : \E o \in NodesOf(g, "obligations") : r = CompiledRule(g, o)
      BY <2>2 DEF Slice, ScopeTo, Compile
    <3>3. \A o : CompiledRule(g, o).id = o.id
      BY DEF CompiledRule
    <3>4. \A o : o \in Owned(g) <=> o \in NodesOf(g, "obligations") /\ Owners(g, o.id) # {}
      BY DEF Owned
    <3> DEFINE Judges(o) == InForce(o.data, q.time) /\ Placed(g, o.id, q.place) /\ Spoken(g, o.id, q.subject)
    <3>5. ASSUME NEW x
          PROVE  x \in {r.id : r \in Slice(runtime.rules, q)} /\ x \in {o.id : o \in Owned(g)}
                   <=> \E o \in Owned(g) : Judges(o) /\ x = o.id
      <4>1. ASSUME NEW r \in Slice(runtime.rules, q), NEW m \in Owned(g), x = r.id, x = m.id
            PROVE  \E o \in Owned(g) : Judges(o) /\ x = o.id
        <5>1. PICK o \in NodesOf(g, "obligations") : r = CompiledRule(g, o)
          BY <3>2
        <5>2. o.id = m.id
          BY <3>3, <4>1, <5>1
        <5>3. o \in Owned(g)
          BY <3>4, <5>2
        <5> QED BY <3>1, <4>1, <5>1, <5>2, <5>3
      <4>2. ASSUME NEW o \in Owned(g), Judges(o), x = o.id
            PROVE  /\ \E r \in Slice(runtime.rules, q) : x = r.id
                   /\ \E m \in Owned(g) : x = m.id
        BY <3>1, <3>3, <3>4, <4>2
      <4> HIDE DEF Judges
      <4> QED BY <4>1, <4>2
    <3> QED BY <3>5
  <2> DEFINE G == GraphOf(runtime.content)
  <2>4. ASSUME NEW q \in Requests
        PROVE  {r.id : r \in Slice(runtime.rules, q)} \cap {o.id : o \in Owned(G)} =
                 {o.id : o \in {n \in Owned(G) :
                    InForce(n.data, q.time) /\ Placed(G, n.id, q.place) /\ Spoken(G, n.id, q.subject)}}
    BY <2>1, <2>3
  <2>5. ASSUME NEW n \in Owned(G), NEW s
        PROVE  Spoken(G, n.id, s) <=>
                 \/ s = None
                 \/ \E r \in Owners(G, n.id) : Subjects(G, r) \in {{}} \/ s \in Subjects(G, r)
    BY DEF Owned, Spoken
  <2> QED BY <2>4, <2>5 DEF AppliesWhereWritten, Placed, Owned, Roots
<1> QED BY <1>1, <1>2, <1>3, PTL DEF Spec

-----------------------------------------------------------------------------
(* Arrays and their nodes.                                                 *)

\* A sequence made of a finite set has every member once.
LEMMA SetToSeqFacts ==
  ASSUME NEW S, IsFiniteSet(S)
  PROVE  /\ ToSet(SetToSeq(S)) = S
         /\ \A i, j \in DOMAIN SetToSeq(S) : SetToSeq(S)[i] = SetToSeq(S)[j] => i = j
<1> DEFINE n == Cardinality(S)
           f == SetToSeq(S)
<1>1. n \in Nat
  BY FS_CardinalityType
<1>2. IsFiniteSet(1..n) /\ Cardinality(1..n) = n
  BY <1>1, FS_Interval
<1>3. \E h \in [1..n -> S] : IsInjective(h)
  <2>1. ExistsBijection(1..n, S)
    BY <1>2, FS_SameCardinalityBij
  <2> QED BY <2>1 DEF ExistsBijection, Bijection, Injection
<1>4. f \in [1..n -> S] /\ IsInjective(f)
  BY <1>3 DEF SetToSeq
<1>5. f \in Injection(1..n, S)
  BY <1>4 DEF Injection
<1>6. f \in Surjection(1..n, S)
  BY <1>2, <1>5, FS_Injection
<1>7. \A x \in S : \E i \in 1..n : f[i] = x
  BY <1>6 DEF Surjection
<1> HIDE DEF f
<1>8. ToSet(f) = S
  BY <1>4, <1>7 DEF ToSet
<1> QED BY <1>4, <1>8 DEF f, IsInjective

LEMMA KindsSet ==
  ToSet(Kinds) = {"subjects", "rules", "obligations", "definitions", "exemptions",
                  "precedents", "jurisdictions", "citations"}
<1>1. DOMAIN Kinds = 1..8
  BY DEF Kinds
<1>2. /\ Kinds[1] = "subjects" /\ Kinds[2] = "rules" /\ Kinds[3] = "obligations"
      /\ Kinds[4] = "definitions" /\ Kinds[5] = "exemptions" /\ Kinds[6] = "precedents"
      /\ Kinds[7] = "jurisdictions" /\ Kinds[8] = "citations"
  BY DEF Kinds
<1>3. \A i \in 1..8 : i = 1 \/ i = 2 \/ i = 3 \/ i = 4 \/ i = 5 \/ i = 6 \/ i = 7 \/ i = 8
  OBVIOUS
<1> QED BY <1>1, <1>2, <1>3 DEF ToSet

-----------------------------------------------------------------------------
(* Flat documents.                                                         *)

Bare(ids) == {[id |-> id, data |-> None] : id \in ids}
FlatRule(r) == [id |-> RuleId(r.id), data |-> ConvertedTier(r.tier)]
FlatObligation(r, date) ==
  [id |-> r.id, data |-> [type |-> r.type, from |-> IF r.from = None THEN date ELSE r.from,
                          until |-> r.until]]
Scope(r) == r.jurisdiction \ Universal
FlatPlaces(flat) == UNION {Scope(r) : r \in ToSet(flat.rules)}

Link(type, from, to) == [type |-> type, from |-> from, to |-> to]

LEMMA LinkFields ==
  \A type, from, to : /\ Link(type, from, to).type = type
                      /\ Link(type, from, to).from = from
                      /\ Link(type, from, to).to = to
BY DEF Link

LEMMA TargetsOfEdges ==
  \A g, type, id, to : to \in Targets(g, type, id) <=> \E e \in EdgesOf(g, type) : e.from = id /\ e.to = to
BY DEF Targets

\* The arrays and edges flat_to_graph makes.
LEMMA FlatGraphArrays ==
  ASSUME NEW flat, NEW date, NEW g, g = FlatToGraph(flat, date)
  PROVE  /\ DOMAIN g.nodes["rules"] = DOMAIN flat.rules
         /\ DOMAIN g.nodes["obligations"] = DOMAIN flat.rules
         /\ \A i \in DOMAIN flat.rules : g.nodes["rules"][i] = FlatRule(flat.rules[i])
         /\ \A i \in DOMAIN flat.rules : g.nodes["obligations"][i] = FlatObligation(flat.rules[i], date)
         /\ g.nodes["jurisdictions"] = SetToSeq(Bare(FlatPlaces(flat)))
         /\ g.nodes["subjects"] = SetToSeq(Bare(DOMAIN flat.registry))
BY KindsSet DEF FlatToGraph, FlatRule, FlatObligation, Bare, Scope, FlatPlaces

LEMMA FlatGraphEdges ==
  ASSUME NEW flat, NEW date, NEW g, g = FlatToGraph(flat, date), NEW e
  PROVE  /\ e \in EdgesOf(g, "consists_of") <=> \E r \in ToSet(flat.rules) :
              e = Link("consists_of", RuleId(r.id), r.id)
         /\ e \in EdgesOf(g, "scoped_to") <=> \E r \in ToSet(flat.rules) : \E j \in Scope(r) :
              e = Link("scoped_to", r.id, j)
         /\ e \in EdgesOf(g, "applies_to") <=> \E s \in DOMAIN flat.registry :
              e = Link("applies_to", RuleId(flat.registry[s]), s)
<1> DEFINE A == {Link("consists_of", RuleId(r.id), r.id) : r \in ToSet(flat.rules)}
           B == UNION {{Link("scoped_to", r.id, j) : j \in Scope(r)} :
                          r \in ToSet(flat.rules)}
           C == {Link("applies_to", RuleId(flat.registry[s]), s) :
                    s \in DOMAIN flat.registry}
<1>1. g.edges = A \cup C \cup B
  BY DEF FlatToGraph, Scope, Link
<1>2. \A f \in A : f.type = "consists_of"
  BY LinkFields
<1>3. \A f \in B : f.type = "scoped_to"
  BY LinkFields
<1>4. \A f \in C : f.type = "applies_to"
  BY LinkFields
<1> HIDE DEF A, B, C
<1>5. EdgesOf(g, "consists_of") = A /\ EdgesOf(g, "scoped_to") = B /\ EdgesOf(g, "applies_to") = C
  BY <1>1, <1>2, <1>3, <1>4 DEF EdgesOf
<1> QED BY <1>5 DEF A, B, C

LEMMA BareFacts ==
  ASSUME NEW ids
  PROVE  /\ IsFiniteSet(ids) => IsFiniteSet(Bare(ids))
         /\ {n.id : n \in Bare(ids)} = ids
         /\ \A n \in Bare(ids) : n.data = None
<1> DEFINE f == [id \in ids |-> [id |-> id, data |-> None]]
<1>1. f \in Surjection(ids, Bare(ids))
  BY DEF Surjection, Bare
<1>2. \A n \in Bare(ids) : n.id \in ids
  BY DEF Bare
<1>3. \A id \in ids : [id |-> id, data |-> None] \in Bare(ids) /\ [id |-> id, data |-> None].id = id
  BY DEF Bare
<1>4. \A n \in Bare(ids) : n.data = None
  BY DEF Bare
<1>5. {n.id : n \in Bare(ids)} = ids
  BY <1>2, <1>3
<1>6. IsFiniteSet(ids) => IsFiniteSet(Bare(ids))
  BY <1>1, FS_Surjection
<1> QED BY <1>4, <1>5, <1>6

LEMMA PlacesFinite ==
  ASSUME NEW flat, IsFlat(flat)
  PROVE  IsFiniteSet(FlatPlaces(flat))
<1> DEFINE T == {Scope(r) : r \in ToSet(flat.rules)}
           f == [i \in DOMAIN flat.rules |-> Scope(flat.rules[i])]
<1>1. f \in Surjection(DOMAIN flat.rules, T)
  BY DEF Surjection, ToSet
<1>2. IsFiniteSet(T)
  BY <1>1, FS_Surjection DEF IsFlat
<1>3. \A S \in T : IsFiniteSet(S)
  BY FS_Difference DEF IsFlat, Scope
<1> QED BY <1>2, <1>3, FS_UNION DEF FlatPlaces

\* The nodes flat_to_graph makes.
LEMMA FlatGraphNodes ==
  ASSUME NEW flat, IsFlat(flat), NEW date, NEW g, g = FlatToGraph(flat, date)
  PROVE  /\ \A n : n \in NodesOf(g, "rules") <=> \E r \in ToSet(flat.rules) : n = FlatRule(r)
         /\ \A n : n \in NodesOf(g, "obligations")
                     <=> \E r \in ToSet(flat.rules) : n = FlatObligation(r, date)
         /\ NodesOf(g, "jurisdictions") = Bare(FlatPlaces(flat))
         /\ NodesOf(g, "subjects") = Bare(DOMAIN flat.registry)
<1>1. \A n : n \in NodesOf(g, "rules") <=> \E r \in ToSet(flat.rules) : n = FlatRule(r)
  BY FlatGraphArrays DEF NodesOf, ToSet
<1>2. \A n : n \in NodesOf(g, "obligations") <=> \E r \in ToSet(flat.rules) : n = FlatObligation(r, date)
  BY FlatGraphArrays DEF NodesOf, ToSet
<1>3. IsFiniteSet(Bare(FlatPlaces(flat))) /\ IsFiniteSet(Bare(DOMAIN flat.registry))
  BY PlacesFinite, BareFacts DEF IsFlat
<1>4. /\ NodesOf(g, "jurisdictions") = Bare(FlatPlaces(flat))
      /\ NodesOf(g, "subjects") = Bare(DOMAIN flat.registry)
  BY <1>3, FlatGraphArrays, SetToSeqFacts DEF NodesOf
<1> QED BY <1>1, <1>2, <1>4

LEMMA FlatGraphIds ==
  ASSUME NEW flat, IsFlat(flat), NEW date, NEW g, g = FlatToGraph(flat, date)
  PROVE  /\ \A x : x \in Ids(g, "rules") <=> \E r \in ToSet(flat.rules) : x = RuleId(r.id)
         /\ Ids(g, "jurisdictions") = FlatPlaces(flat)
         /\ Ids(g, "subjects") = DOMAIN flat.registry
<1>1. \A x : x \in Ids(g, "rules") <=> \E r \in ToSet(flat.rules) : x = RuleId(r.id)
  <2>1. \A r : FlatRule(r).id = RuleId(r.id)
    BY DEF FlatRule
  <2>2. \A n : n \in NodesOf(g, "rules") <=> \E r \in ToSet(flat.rules) : n = FlatRule(r)
    BY FlatGraphNodes
  <2> QED BY <2>1, <2>2 DEF Ids
<1>2. Ids(g, "jurisdictions") = FlatPlaces(flat) /\ Ids(g, "subjects") = DOMAIN flat.registry
  BY BareFacts, FlatGraphNodes DEF Ids
<1> QED BY <1>1, <1>2

LEMMA RuleIdInjective ==
  ASSUME NEW S, NEW T, NEW a \in Seq(S), NEW b \in Seq(T), RuleId(a) = RuleId(b)
  PROVE  a = b
<1> DEFINE all == S \cup T \cup {"rule"}
<1>1. a \in Seq(all) /\ b \in Seq(all)
  BY SeqMonotonic
<1>2. <<"rule">> \in Seq(all)
  OBVIOUS
<1> QED BY <1>1, <1>2, ConcatSimplifications DEF RuleId

\* What compile_graph's check of the ids gives of a converted document: no two
\* flat rules share an id, and no id is the name of a rule node.
LEMMA FlatIdsUnique ==
  ASSUME NEW flat, NEW date, NEW g, g = FlatToGraph(flat, date), UniqueIds(g)
  PROVE  \A r, s \in ToSet(flat.rules) : /\ r.id = s.id => r = s
                                         /\ RuleId(r.id) # s.id
<1> SUFFICES ASSUME NEW i \in DOMAIN flat.rules, NEW j \in DOMAIN flat.rules
             PROVE  /\ flat.rules[i].id = flat.rules[j].id => i = j
                    /\ RuleId(flat.rules[i].id) # flat.rules[j].id
  BY DEF ToSet
<1>1. DOMAIN g.nodes["rules"] = DOMAIN flat.rules /\ DOMAIN g.nodes["obligations"] = DOMAIN flat.rules
  BY FlatGraphArrays
<1>2. \A k \in DOMAIN flat.rules : /\ g.nodes["rules"][k].id = RuleId(flat.rules[k].id)
                                   /\ g.nodes["obligations"][k].id = flat.rules[k].id
  <2>1. \A k \in DOMAIN flat.rules : /\ g.nodes["rules"][k] = FlatRule(flat.rules[k])
                                     /\ g.nodes["obligations"][k] = FlatObligation(flat.rules[k], date)
    BY FlatGraphArrays
  <2>2. \A r : FlatRule(r).id = RuleId(r.id) /\ FlatObligation(r, date).id = r.id
    BY DEF FlatRule, FlatObligation
  <2> QED BY <2>1, <2>2
<1>3. "rules" \in ToSet(Kinds) /\ "obligations" \in ToSet(Kinds)
  BY KindsSet
<1>4. \A k, l \in DOMAIN flat.rules :
        g.nodes["obligations"][k].id = g.nodes["obligations"][l].id => k = l
  BY <1>1, <1>3 DEF UniqueIds
<1>5. \A k, l \in DOMAIN flat.rules : g.nodes["rules"][k].id # g.nodes["obligations"][l].id
  BY <1>1, <1>3 DEF UniqueIds
<1> QED BY <1>2, <1>4, <1>5

\* What the edges of a converted rule reach.
LEMMA FlatOwners ==
  ASSUME NEW flat, IsFlat(flat), NEW date, NEW g, g = FlatToGraph(flat, date),
         NEW r \in ToSet(flat.rules)
  PROVE  Owners(g, r.id) = {RuleId(r.id)}
<1>1. \A x : r.id \in Targets(g, "consists_of", x)
               <=> \E s \in ToSet(flat.rules) : s.id = r.id /\ RuleId(s.id) = x
  <2>1. \A e : e \in EdgesOf(g, "consists_of") <=> \E s \in ToSet(flat.rules) :
                  e = Link("consists_of", RuleId(s.id), s.id)
    BY FlatGraphEdges
  <2> QED BY <2>1, LinkFields, TargetsOfEdges
<1>2. RuleId(r.id) \in Ids(g, "rules")
  BY FlatGraphIds
<1> QED BY <1>1, <1>2 DEF Owners

LEMMA FlatRoots ==
  ASSUME NEW flat, IsFlat(flat), NEW date, NEW g, g = FlatToGraph(flat, date), UniqueIds(g),
         NEW r \in ToSet(flat.rules)
  PROVE  Roots(g, r.id) = Scope(r)
<1>1. \A x, j : j \in Targets(g, "scoped_to", x)
                  <=> \E s \in ToSet(flat.rules) : s.id = x /\ j \in Scope(s)
  <2>1. \A e : e \in EdgesOf(g, "scoped_to") <=> \E s \in ToSet(flat.rules) : \E j \in Scope(s) :
                  e = Link("scoped_to", s.id, j)
    BY FlatGraphEdges
  <2> QED BY <2>1, LinkFields, TargetsOfEdges
<1>2. Targets(g, "scoped_to", r.id) = Scope(r) /\ Targets(g, "scoped_to", RuleId(r.id)) = {}
  <2>1. \A s \in ToSet(flat.rules) : (s.id = r.id => s = r) /\ s.id # RuleId(r.id)
    BY FlatIdsUnique
  <2> QED BY <1>1, <2>1
<1>3. Scope(r) \subseteq Ids(g, "jurisdictions")
  BY FlatGraphIds DEF FlatPlaces
<1>4. Scopes(g, r.id) = Scope(r) /\ Scopes(g, RuleId(r.id)) = {}
  BY <1>2, <1>3 DEF Scopes
<1> QED BY <1>4, FlatOwners DEF Roots

LEMMA FlatSubjects ==
  ASSUME NEW flat, IsFlat(flat), ~ FlatRaises(flat), NEW date, NEW g, g = FlatToGraph(flat, date),
         NEW r \in ToSet(flat.rules)
  PROVE  Subjects(g, RuleId(r.id)) = {s \in DOMAIN flat.registry : flat.registry[s] = r.id}
<1>1. \A s : s \in Targets(g, "applies_to", RuleId(r.id))
               <=> s \in DOMAIN flat.registry /\ RuleId(flat.registry[s]) = RuleId(r.id)
  <2>1. \A e : e \in EdgesOf(g, "applies_to") <=> \E s \in DOMAIN flat.registry :
                  e = Link("applies_to", RuleId(flat.registry[s]), s)
    BY FlatGraphEdges
  <2> QED BY <2>1, LinkFields, TargetsOfEdges
<1>2. \A s \in DOMAIN flat.registry : flat.registry[s] \in Seq(ToSet(flat.registry[s]))
  BY DEF FlatRaises, IsFlat
<1>3. r.id \in Seq(ToSet(r.id))
  BY DEF IsFlat
<1>4. \A s \in DOMAIN flat.registry : RuleId(flat.registry[s]) = RuleId(r.id) => flat.registry[s] = r.id
  BY <1>2, <1>3, RuleIdInjective
<1> QED BY <1>1, <1>4, FlatGraphIds DEF Subjects

\* The tier survives the conversion and the compilation up to its alias.
LEMMA ConvertedTierFacts ==
  ASSUME NEW tier
  PROVE  /\ ConvertedTier(tier) \in {None, "high", "medium", "low"}
         /\ Canonicalise(ConvertedTier(tier)) = Canonicalise(tier)
<1> DEFINE low == LowerCase(tier)
           H == {"tier-1", "tier1", "high", "high-risk"}
           M == {"tier-2", "tier2", "standard", "default", "medium"}
           L == {"tier-3", "tier3", "low", "low-risk"}
<1>1. LowerCase("high") = "high" /\ LowerCase("medium") = "medium" /\ LowerCase("low") = "low"
  BY NamesAssumption DEF LowerCase
<1>2. Canonicalise("high") = 1 /\ Canonicalise(None) = 1
  BY CanonicalFacts
<1>3. Canonicalise("medium") = 2
  BY <1>1, NamesAssumption DEF Canonicalise
<1>4. Canonicalise("low") = 3
  <2>1. "low" # None
    BY NamesAssumption
  <2>2. LowerCase("low") \notin M /\ LowerCase("low") \in L
    BY <1>1
  <2> QED BY <2>1, <2>2 DEF Canonicalise
<1>5. CASE tier = None
  BY <1>5, <1>2 DEF ConvertedTier
<1>6. CASE tier # None /\ low \in H
  <2>1. low \notin M /\ low \notin L
    BY <1>6
  <2>2. ConvertedTier(tier) = "high"
    BY <1>6, <2>1 DEF ConvertedTier
  <2>3. Canonicalise(tier) = 1
    BY <2>1 DEF Canonicalise
  <2> QED BY <2>2, <2>3, <1>2
<1>7. CASE tier # None /\ low \in M
  <2>1. low \notin H /\ low \notin L
    BY <1>7
  <2>2. ConvertedTier(tier) = "medium"
    BY <1>7, <2>1 DEF ConvertedTier
  <2>3. Canonicalise(tier) = 2
    BY <1>7, <2>1 DEF Canonicalise
  <2> QED BY <2>2, <2>3, <1>3
<1>8. CASE tier # None /\ low \in L
  <2>1. low \notin H /\ low \notin M
    BY <1>8
  <2>2. ConvertedTier(tier) = "low"
    BY <1>8, <2>1 DEF ConvertedTier
  <2>3. Canonicalise(tier) = 3
    BY <1>8, <2>1 DEF Canonicalise
  <2> QED BY <2>2, <2>3, <1>4
<1>9. CASE tier # None /\ low \notin H /\ low \notin M /\ low \notin L
  <2>1. ConvertedTier(tier) = None
    BY <1>9 DEF ConvertedTier
  <2>2. Canonicalise(tier) = 1
    BY <1>9 DEF Canonicalise
  <2> QED BY <2>1, <2>2, <1>2
<1> HIDE DEF H, M, L
<1> QED BY <1>5, <1>6, <1>7, <1>8, <1>9

LEMMA MinOfOne ==
  ASSUME NEW k \in 1..3
  PROVE  Min({k}) = k
BY DEF Min

LEMMA FlatTier ==
  ASSUME NEW flat, IsFlat(flat), NEW date, NEW g, g = FlatToGraph(flat, date), UniqueIds(g),
         NEW r \in ToSet(flat.rules)
  PROVE  CompiledTier(g, r.id) = ConvertedTier(r.tier)
<1> DEFINE owning == {s \in NodesOf(g, "rules") : s.id \in Owners(g, r.id)}
           declared == {n.data : n \in owning}
           ranks == {k \in 1..3 : Tiers[k] \in declared}
           tier == ConvertedTier(r.tier)
<1>1. \A n : n \in owning <=> n = FlatRule(r)
  <2>1. \A n : n \in NodesOf(g, "rules") <=> \E s \in ToSet(flat.rules) : n = FlatRule(s)
    BY FlatGraphNodes
  <2>2. \A s : FlatRule(s).id = RuleId(s.id)
    BY DEF FlatRule
  <2>3. \A s \in ToSet(flat.rules) : s.id \in Seq(ToSet(s.id))
    BY DEF IsFlat
  <2>4. \A s \in ToSet(flat.rules) : RuleId(s.id) = RuleId(r.id) => s.id = r.id
    BY <2>3, RuleIdInjective
  <2>5. \A s \in ToSet(flat.rules) : s.id = r.id => s = r
    BY FlatIdsUnique
  <2>6. Owners(g, r.id) = {RuleId(r.id)}
    BY FlatOwners
  <2> QED BY <2>1, <2>2, <2>4, <2>5, <2>6
<1>2. declared = {tier}
  <2>1. FlatRule(r).data = tier
    BY DEF FlatRule
  <2> HIDE DEF owning
  <2> QED BY <1>1, <2>1
<1>3. CompiledTier(g, r.id) = IF ranks = {} THEN None ELSE Tiers[Min(ranks)]
  BY DEF CompiledTier
<1>4. Tiers[1] = "high" /\ Tiers[2] = "medium" /\ Tiers[3] = "low"
  BY DEF Tiers
<1> HIDE DEF declared
<1>5. \A k : k \in ranks <=> k \in 1..3 /\ Tiers[k] = tier
  BY <1>2
<1>6. \A k \in 1..3 : k = 1 \/ k = 2 \/ k = 3
  OBVIOUS
<1>7. tier \in {None, "high", "medium", "low"}
  BY ConvertedTierFacts
<1> HIDE DEF ranks, tier
<1>8. CASE tier = None
  <2>1. ranks = {}
    BY <1>4, <1>5, <1>6, <1>8, NamesAssumption
  <2> QED BY <1>3, <1>8, <2>1 DEF tier
<1>9. ASSUME NEW k \in 1..3, Tiers[k] = tier PROVE CompiledTier(g, r.id) = tier
  <2>1. ranks = {k}
    BY <1>4, <1>5, <1>6, <1>9
  <2>2. Min(ranks) = k
    BY <2>1, MinOfOne
  <2> QED BY <1>3, <1>9, <2>1, <2>2
<1>10. tier = None \/ \E k \in 1..3 : Tiers[k] = tier
  BY <1>4, <1>7
<1> QED BY <1>8, <1>9, <1>10 DEF tier

\* A universal name is its own normal form.
LEMMA UniversalIsNormal ==
  ASSUME NEW u \in Universal
  PROVE  Normal(u) \in Universal
<1>1. LowerCase("global") = "global" /\ LowerCase("*") = "*" /\ LowerCase("") = ""
  BY NamesAssumption DEF LowerCase
<1>2. ASSUME NEW x, LowerCase(x) = x PROVE Normal(<<x>>) = <<x>>
  BY <1>2 DEF Normal
<1> QED BY <1>1, <1>2 DEF Universal

\* flat_to_graph leaves out the universal names, and compile_graph reads a rule
\* without a scope as one that applies everywhere: together they keep the places
\* of a rule that does not name a universal jurisdiction beside another one.
LEMMA FlatPlace ==
  ASSUME NEW flat, IsFlat(flat), NEW date, NEW g, g = FlatToGraph(flat, date), UniqueIds(g),
         NEW r \in ToSet(flat.rules), NEW o, o.id = r.id, NEW p,
         r.jurisdiction \cap Universal = {} \/ r.jurisdiction \ Universal = {}
  PROVE  InJurisdiction(CompiledRule(g, o), p) <=> InJurisdiction(r, p)
<1>1. Roots(g, r.id) = Scope(r)
  BY FlatRoots
<1>2. Scope(r) \in SUBSET Ids(g, "jurisdictions")
  BY FlatGraphIds DEF FlatPlaces
<1>3. WithDescendants(g, Scope(r)) = Scope(r)
  <2>1. \A n \in NodesOf(g, "jurisdictions") : n.data = None
    BY FlatGraphNodes, BareFacts
  <2>2. ClosedDown(g, Scope(r))
    BY <2>1 DEF ClosedDown
  <2> QED BY <1>2, <2>2, DescendantFacts
<1>4. CompiledRule(g, o).jurisdiction = Scope(r)
  <2>1. CompiledRule(g, o).jurisdiction = CompiledJurisdiction(g, r.id)
    BY DEF CompiledRule
  <2> QED BY <1>1, <1>3, <2>1 DEF CompiledJurisdiction
<1>5. CASE r.jurisdiction \cap Universal = {}
  <2>1. Scope(r) = r.jurisdiction
    BY <1>5 DEF Scope
  <2> QED BY <1>4, <2>1 DEF InJurisdiction
<1>6. CASE r.jurisdiction \ Universal = {}
  <2>1. InJurisdiction(CompiledRule(g, o), p)
    BY <1>4, <1>6 DEF Scope, InJurisdiction
  <2>2. \A j \in r.jurisdiction : Normal(j) \in Universal
    BY <1>6, UniversalIsNormal
  <2>3. InJurisdiction(r, p)
    BY <2>2 DEF InJurisdiction
  <2> QED BY <2>1, <2>3
<1> QED BY <1>5, <1>6

LEMMA FlatSpoken ==
  ASSUME NEW flat, IsFlat(flat), ~ FlatRaises(flat), NEW date, NEW g, g = FlatToGraph(flat, date),
         NEW r \in ToSet(flat.rules), NEW o, o.id = r.id
  PROVE  CompiledRule(g, o).subjects = {s \in DOMAIN flat.registry : flat.registry[s] = r.id}
<1> DEFINE routed == {s \in DOMAIN flat.registry : flat.registry[s] = r.id}
<1>1. CompiledRule(g, o).subjects = CompiledSubjects(g, r.id)
  BY DEF CompiledRule
<1>2. Owners(g, r.id) = {RuleId(r.id)}
  BY FlatOwners
<1>3. Subjects(g, RuleId(r.id)) = routed
  BY FlatSubjects
<1> HIDE DEF routed
<1>4. CompiledSubjects(g, r.id) = routed
  BY <1>2, <1>3 DEF CompiledSubjects
<1> QED BY <1>1, <1>4 DEF routed

\* One flat rule and the obligation compiled from it, under one request.
LEMMA FlatRuleInSlice ==
  ASSUME NEW flat, IsFlat(flat), ~ FlatRaises(flat), NEW g, g = FlatToGraph(flat, None), UniqueIds(g),
         NEW r \in ToSet(flat.rules), NEW q,
         r.jurisdiction \cap Universal = {} \/ r.jurisdiction \ Universal = {}
  PROVE  CompiledRule(g, FlatObligation(r, None)) \in Slice(Compile(g), q) <=> r \in FlatSlice(flat, q)
<1>1. PICK o : o = FlatObligation(r, None)
  OBVIOUS
<1>2. o.id = r.id /\ o \in NodesOf(g, "obligations")
  BY <1>1, FlatGraphNodes DEF FlatObligation
<1>3. InForce(CompiledRule(g, o), q.time) <=> InForce(r, q.time)
  <2>1. InForce(o.data, q.time) <=> InForce(r, q.time)
    BY <1>1 DEF FlatObligation, InForce
  <2> QED BY <2>1, CompiledDates
<1>4. InJurisdiction(CompiledRule(g, o), q.place) <=> InJurisdiction(r, q.place)
  BY <1>2, FlatPlace
<1>5. CompiledRule(g, o).subjects = {s \in DOMAIN flat.registry : flat.registry[s] = r.id}
  BY <1>2, FlatSpoken
<1>6. CompiledRule(g, o) \in Compile(g)
  BY <1>2 DEF Compile
<1> QED BY <1>1, <1>3, <1>4, <1>5, <1>6 DEF Slice, ScopeTo, FlatSlice

\* What a flat file on disk is, and what is known of a flat document that loaded.
FlatInv ==
  /\ file # None /\ file.shape = "flat" => IsFlat(file.kg)
  /\ runtime # None /\ runtime.content.shape = "flat" =>
       LET flat == runtime.content.kg
       IN  IsFlat(flat) /\ ~ FlatRaises(flat) /\ UniqueIds(FlatToGraph(flat, None))

ConvertedInv == SignedInv /\ ValidatedInv /\ FlatInv

LEMMA FlatStep ==
  ASSUME SignedInv, FlatInv, [Next]_vars
  PROVE  FlatInv'
<1> DEFINE OnDisk == file # None /\ file.shape = "flat" => IsFlat(file.kg)
           Loaded == runtime # None /\ runtime.content.shape = "flat" =>
                       /\ IsFlat(runtime.content.kg) /\ ~ FlatRaises(runtime.content.kg)
                       /\ UniqueIds(FlatToGraph(runtime.content.kg, None))
<1>1. OnDisk /\ Loaded
  BY DEF FlatInv
<1>2. SUFFICES OnDisk' /\ Loaded'
  BY DEF FlatInv
<1>3. ASSUME NEW d \in Drafts, Write(d) PROVE OnDisk' /\ Loaded'
  BY <1>1, <1>3, PipelineAssumption DEF Write, Unsigned
<1>4. ASSUME NEW answers, NEW place, Extract(answers, place) PROVE OnDisk' /\ Loaded'
  BY <1>1, <1>4 DEF Extract, Unsigned
<1>5. ASSUME NEW kind, NEW node, EditNode(kind, node) PROVE OnDisk' /\ Loaded'
  <2>1. file'.shape = "graph" /\ runtime' = runtime
    BY <1>5 DEF EditNode, SignedInv, SignatureWasMade
  <2> QED BY <1>1, <2>1
<1>6. ASSUME NEW edge, EditEdge(edge) PROVE OnDisk' /\ Loaded'
  <2>1. file'.shape = "graph" /\ runtime' = runtime
    BY <1>6 DEF EditEdge, SignedInv, SignatureWasMade
  <2> QED BY <1>1, <2>1
<1>7. ASSUME Convert PROVE OnDisk' /\ Loaded'
  BY <1>1, <1>7 DEF Convert, Unsigned
<1>8. ASSUME NEW key, SignKG(key) PROVE OnDisk' /\ Loaded'
  <2>1. file # None /\ file'.shape = file.shape /\ file'.kg = file.kg /\ runtime' = runtime
    BY <1>8 DEF SignKG, SignedInv, SignatureWasMade
  <2> QED BY <1>1, <2>1
<1>9. ASSUME LoadKG PROVE OnDisk' /\ Loaded'
  <2>1. file' = file /\ file # None /\ FromDictAccepts(file)
    BY <1>9 DEF LoadKG
  <2>2. runtime'.content.shape = file.shape /\ runtime'.content.kg = file.kg
    BY <1>9 DEF LoadKG, Content
  <2>3. ASSUME file.shape = "flat"
        PROVE  ~ FlatRaises(file.kg) /\ UniqueIds(FlatToGraph(file.kg, None))
    <3>1. GraphOf(Content(file)) = FlatToGraph(file.kg, None)
      BY <2>3 DEF GraphOf, Content
    <3> QED BY <2>1, <2>3, <3>1 DEF FromDictAccepts, CompileRaises
  <2> QED BY <1>1, <2>1, <2>2, <2>3
<1>10. ASSUME UNCHANGED <<file, runtime>> PROVE OnDisk' /\ Loaded'
  BY <1>1, <1>10
<1> HIDE DEF OnDisk, Loaded
<1> QED BY <1>3, <1>4, <1>5, <1>6, <1>7, <1>8, <1>9, <1>10
     DEF Next, vars, Validate, LoadKnowledgeGraph

\* ConversionKeepsRules of every reachable state: flat_to_graph and compile_graph
\* together judge every measurement by the rules of any flat document that loads,
\* at their tier, read one by one.
THEOREM ConversionAlwaysKeepsRules == Spec => []ConversionKeepsRules
<1>1. Init => ConvertedInv
  BY DEF Init, ConvertedInv, SignedInv, SignatureWasMade, RunsWhatWasSigned, ValidatedInv, FlatInv
<1>2. ConvertedInv /\ [Next]_vars => ConvertedInv'
  BY SignedStep, ValidatedStep, FlatStep DEF ConvertedInv
<1>3. ConvertedInv => ConversionKeepsRules
  <2> SUFFICES ASSUME ConvertedInv, runtime # None, runtime.content.shape = "flat",
                      ~ \E r \in ToSet(runtime.content.kg.rules) :
                          r.jurisdiction \cap Universal # {} /\ r.jurisdiction \ Universal # {},
                      NEW q \in Requests
               PROVE  /\ {r.id : r \in Slice(runtime.rules, q)} =
                           {r.id : r \in FlatSlice(runtime.content.kg, q)}
                      /\ TierForSnapshot(Slice(runtime.rules, q)) =
                           TierForSnapshot(FlatSlice(runtime.content.kg, q))
    BY DEF ConversionKeepsRules
  <2>1. PICK flat : flat = runtime.content.kg
    OBVIOUS
  <2>2. PICK g : g = FlatToGraph(flat, None)
    OBVIOUS
  <2>3. IsFlat(flat) /\ ~ FlatRaises(flat) /\ UniqueIds(g)
    BY <2>1, <2>2 DEF ConvertedInv, FlatInv
  <2>4. runtime.rules = Compile(g)
    BY <2>1, <2>2 DEF ConvertedInv, ValidatedInv, GraphOf
  <2> DEFINE S == Slice(Compile(g), q)
             F == FlatSlice(flat, q)
             made(r) == CompiledRule(g, FlatObligation(r, None))
  <2>5. \A r \in ToSet(flat.rules) : made(r) \in S <=> r \in F
    BY <2>1, <2>2, <2>3, FlatRuleInSlice
  <2>6. \A c \in S : \E r \in ToSet(flat.rules) : c = made(r)
    <3>1. \A n \in NodesOf(g, "obligations") : \E r \in ToSet(flat.rules) : n = FlatObligation(r, None)
      BY <2>2, <2>3, FlatGraphNodes
    <3> QED BY <3>1 DEF Slice, ScopeTo, Compile
  <2>7. F \subseteq ToSet(flat.rules)
    BY DEF FlatSlice
  <2>8. \A r \in ToSet(flat.rules) : made(r).id = r.id /\ Canonicalise(made(r).tier) = Canonicalise(r.tier)
    <3> SUFFICES ASSUME NEW r \in ToSet(flat.rules)
                 PROVE  made(r).id = r.id /\ Canonicalise(made(r).tier) = Canonicalise(r.tier)
      OBVIOUS
    <3>1. FlatObligation(r, None).id = r.id
      BY DEF FlatObligation
    <3>2. made(r).id = r.id /\ made(r).tier = CompiledTier(g, r.id)
      BY <3>1 DEF CompiledRule
    <3>3. CompiledTier(g, r.id) = ConvertedTier(r.tier)
      BY <2>2, <2>3, FlatTier
    <3> QED BY <3>2, <3>3, ConvertedTierFacts
  <2> HIDE DEF S, F, made
  <2>9. {c.id : c \in S} = {r.id : r \in F}
    BY <2>5, <2>6, <2>7, <2>8
  <2>10. {Canonicalise(c.tier) : c \in S} = {Canonicalise(r.tier) : r \in F}
    BY <2>5, <2>6, <2>7, <2>8
  <2>11. S = {} <=> F = {}
    BY <2>5, <2>6, <2>7
  <2>12. TierForSnapshot(S) = TierForSnapshot(F)
    BY <2>10, <2>11 DEF TierForSnapshot
  <2> QED BY <2>1, <2>4, <2>9, <2>12 DEF S, F
<1> QED BY <1>1, <1>2, <1>3, PTL DEF Spec

-----------------------------------------------------------------------------
(* Extracted graphs.                                                       *)

\* A non-empty set of numbers has a least one.
LEMMA LeastOfNat ==
  ASSUME NEW S, S \subseteq Nat, S # {}
  PROVE  \E n \in S : \A m \in S : n <= m
<1>1. PICK n \in S : \A m \in S : ~ (<<m, n>> \in OpToRel(<, Nat))
  BY WFMin, NatLessThanWellFounded
<1>2. \A m \in S : ~ (m < n)
  BY <1>1 DEF OpToRel
<1> QED BY <1>2

\* Everything the model stated, before _deduplicate.
Stated(answers) == UNION {ChunkRules(answers[c], c) : c \in DOMAIN answers}
\* An item that _extract_from_chunk keeps, and the rule it makes of it.
Kept(item) == item.quality = "IMPLIED" \/ (item.quality # "unknown" /\ item.triple \notin Blank)
Made(item, c, i) ==
  [at |-> <<c, i>>, triple |-> item.triple,
   id |-> IF item.quality = "IMPLIED" THEN <<"rejected", c, i>>
          ELSE IF item.id = None THEN <<"rule", c, i>>
          ELSE Normal(item.id),
   from  |-> IF item.quality = "IMPLIED" THEN None ELSE item.from,
   until |-> IF item.quality = "IMPLIED" THEN None ELSE item.until]

\* The triples of the rules it makes, IMPLIED ones included.
Triples(answers) == FoundTriples(answers) \cup ImpliedTriples(answers)

LEMMA MadeFields ==
  \A item, c, i : /\ Made(item, c, i).triple = item.triple
                  /\ Made(item, c, i).at = <<c, i>>
                  /\ Made(item, c, i).at[1] = c
                  /\ Made(item, c, i).at[2] = i
BY DEF Made

LEMMA StatedItems ==
  ASSUME NEW answers, NEW r
  PROVE  r \in Stated(answers) <=>
           \E c \in DOMAIN answers : /\ answers[c] # None
                                     /\ \E i \in DOMAIN answers[c] :
                                          Kept(answers[c][i]) /\ r = Made(answers[c][i], c, i)
<1>1. \A c : r \in ChunkRules(answers[c], c) <=>
               answers[c] # None /\ \E i \in DOMAIN answers[c] :
                                      Kept(answers[c][i]) /\ r = Made(answers[c][i], c, i)
  BY DEF ChunkRules, Kept, Made
<1> QED BY <1>1 DEF Stated

\* The position of a rule tells what it is.
LEMMA PositionsDiffer ==
  ASSUME NEW answers, NEW r \in Stated(answers), NEW s \in Stated(answers),
         r.at[1] = s.at[1], r.at[2] = s.at[2]
  PROVE  r = s
BY StatedItems, MadeFields

LEMMA PositionsAreNumbers ==
  ASSUME NEW answers, IsAnswer(answers), NEW r \in Stated(answers)
  PROVE  r.at[1] \in Nat /\ r.at[2] \in Nat
<1>1. PICK c \in DOMAIN answers : /\ answers[c] # None
                                  /\ \E i \in DOMAIN answers[c] :
                                       Kept(answers[c][i]) /\ r = Made(answers[c][i], c, i)
  BY StatedItems
<1>2. PICK i \in DOMAIN answers[c] : r = Made(answers[c][i], c, i)
  BY <1>1
<1>3. answers[c] \in ToSet(answers) \ {None}
  BY <1>1 DEF ToSet
<1>4. c \in Nat /\ i \in Nat
  BY <1>3 DEF IsAnswer
<1> QED BY <1>2, <1>4, MadeFields

LEMMA StatedFinite ==
  ASSUME NEW answers, IsAnswer(answers)
  PROVE  IsFiniteSet(Stated(answers))
<1> DEFINE F == {ChunkRules(answers[c], c) : c \in DOMAIN answers}
           h == [c \in DOMAIN answers |-> ChunkRules(answers[c], c)]
<1>1. h \in Surjection(DOMAIN answers, F)
  BY DEF Surjection
<1>2. IsFiniteSet(F)
  BY <1>1, FS_Surjection DEF IsAnswer
<1>3. ASSUME NEW c \in DOMAIN answers PROVE IsFiniteSet(ChunkRules(answers[c], c))
  <2>1. CASE answers[c] = None
    <3>1. ChunkRules(answers[c], c) = {}
      BY <2>1 DEF ChunkRules
    <3> QED BY <3>1, FS_EmptySet
  <2>2. CASE answers[c] # None
    <3> DEFINE kept == {i \in DOMAIN answers[c] : Kept(answers[c][i])}
               f == [i \in kept |-> Made(answers[c][i], c, i)]
    <3>1. IsFiniteSet(DOMAIN answers[c])
      BY <2>2 DEF IsAnswer, ToSet
    <3>2. IsFiniteSet(kept)
      BY <3>1, FS_Subset
    <3>3. ChunkRules(answers[c], c) = {Made(answers[c][i], c, i) : i \in kept}
      BY <2>2 DEF ChunkRules, Kept, Made
    <3>4. f \in Surjection(kept, ChunkRules(answers[c], c))
      BY <3>3 DEF Surjection
    <3> QED BY <3>2, <3>4, FS_Surjection
  <2> QED BY <2>1, <2>2
<1>4. \A T \in F : IsFiniteSet(T)
  BY <1>3
<1> QED BY <1>2, <1>4, FS_UNION DEF Stated

\* _deduplicate leaves exactly one rule of every triple that was stated.
LEMMA OneRulePerTriple ==
  ASSUME NEW answers, IsAnswer(answers)
  PROVE  /\ IsFiniteSet(Extracted(answers)) /\ IsFiniteSet(Triples(answers))
         /\ Cardinality(Extracted(answers)) = Cardinality(Triples(answers))
         /\ Triples(answers) # {} => Extracted(answers) # {}
<1> DEFINE all == Stated(answers)
           R == Extracted(answers)
           found == Triples(answers)
           f == [r \in R |-> LowerCase(r.triple)]
<1>1. \A r : r \in R <=> r \in all /\ ~ \E s \in all : LowerCase(s.triple) = LowerCase(r.triple) /\ Before(s, r)
  BY DEF Extracted, Deduplicate, Stated
<1>2. IsFiniteSet(R)
  BY <1>1, StatedFinite, FS_Subset
<1>3. \A t : t \in found <=> \E r \in all : LowerCase(r.triple) = t
  <2>1. \A t : t \in found <=> \E a \in ToSet(answers) \ {None} : \E item \in ToSet(a) :
                                 Kept(item) /\ LowerCase(item.triple) = t
    BY DEF Triples, FoundTriples, ImpliedTriples, Items, Kept
  <2>2. \A t : t \in found <=> \E c \in DOMAIN answers : /\ answers[c] # None
                                 /\ \E i \in DOMAIN answers[c] :
                                      Kept(answers[c][i]) /\ LowerCase(answers[c][i].triple) = t
    BY <2>1 DEF ToSet
  <2>3. \A r : r \in all <=> \E c \in DOMAIN answers : /\ answers[c] # None
                               /\ \E i \in DOMAIN answers[c] :
                                    Kept(answers[c][i]) /\ r = Made(answers[c][i], c, i)
    BY StatedItems
  <2> HIDE DEF all, found
  <2> QED BY <2>2, <2>3, MadeFields
<1>4. ASSUME NEW r \in R, NEW s \in R, LowerCase(r.triple) = LowerCase(s.triple) PROVE r = s
  <2>1. r \in all /\ s \in all /\ ~ Before(r, s) /\ ~ Before(s, r)
    BY <1>1, <1>4
  <2>2. r.at[1] \in Nat /\ r.at[2] \in Nat /\ s.at[1] \in Nat /\ s.at[2] \in Nat
    BY <2>1, PositionsAreNumbers
  <2>3. r.at[1] = s.at[1] /\ r.at[2] = s.at[2]
    BY <2>1, <2>2 DEF Before
  <2> QED BY <2>1, <2>3, PositionsDiffer
<1>5. ASSUME NEW t \in found PROVE \E r \in R : LowerCase(r.triple) = t
  <2> DEFINE T == {r \in all : LowerCase(r.triple) = t}
             C == {r.at[1] : r \in T}
  <2>1. T # {}
    BY <1>3
  <2>2. \A r \in T : r.at[1] \in Nat /\ r.at[2] \in Nat
    BY PositionsAreNumbers
  <2>3. C \in SUBSET Nat /\ C # {}
    BY <2>1, <2>2
  <2>4. PICK c \in C : \A d \in C : c <= d
    BY <2>3, LeastOfNat
  <2> DEFINE I == {r.at[2] : r \in {s \in T : s.at[1] = c}}
  <2>5. I \in SUBSET Nat /\ I # {}
    BY <2>2, <2>4
  <2>6. PICK i \in I : \A j \in I : i <= j
    BY <2>5, LeastOfNat
  <2>7. PICK r \in T : r.at[1] = c /\ r.at[2] = i
    BY <2>6
  <2>8. \A s \in T : c <= s.at[1] /\ (s.at[1] = c => i <= s.at[2])
    BY <2>4, <2>6
  <2>9. \A s \in T : ~ Before(s, r)
    BY <2>2, <2>7, <2>8 DEF Before
  <2>10. r \in R
    BY <1>1, <2>7, <2>9
  <2> QED BY <2>7, <2>10
<1>6. f \in Bijection(R, found)
  <2>1. f \in [R -> found]
    BY <1>1, <1>3
  <2> HIDE DEF R, found
  <2>2. IsInjective(f)
    BY <1>4 DEF IsInjective
  <2>3. \A t \in found : \E r \in R : f[r] = t
    BY <1>5
  <2> QED BY <2>1, <2>2, <2>3 DEF Bijection, Injection, Surjection
<1>7. ExistsBijection(R, found)
  BY <1>6 DEF ExistsBijection
<1> QED BY <1>2, <1>5, <1>7, FS_Bijection

\* Names that emit_v3_kg makes.
Named(prefix, r) == <<prefix>> \o r.id
SubjectName(r) == <<"subj">> \o SubjectOf[r.triple]
SubjectNodes(rules) == {[id |-> SubjectName(r), data |-> None] : r \in rules}

\* The arrays and edges emit_v3_kg makes.
LEMMA EmittedArrays ==
  ASSUME NEW rules, NEW p, NEW t, NEW g, g = Emit(rules, p, t)
  PROVE  /\ DOMAIN g.nodes["rules"] = DOMAIN SetToSeq(rules)
         /\ DOMAIN g.nodes["obligations"] = DOMAIN SetToSeq(rules)
         /\ DOMAIN g.nodes["citations"] = DOMAIN SetToSeq(rules)
         /\ \A i \in DOMAIN SetToSeq(rules) :
              /\ g.nodes["rules"][i].id = Named("rule", SetToSeq(rules)[i])
              /\ g.nodes["obligations"][i].id = Named("ob", SetToSeq(rules)[i])
              /\ g.nodes["citations"][i].id = Named("cite", SetToSeq(rules)[i])
         /\ g.nodes["subjects"] = SetToSeq(SubjectNodes(rules))
         /\ DOMAIN g.nodes["jurisdictions"] = 1..1
         /\ g.nodes["jurisdictions"][1].id = Normal(p)
         /\ DOMAIN g.nodes["definitions"] = {}
         /\ DOMAIN g.nodes["exemptions"] = {}
         /\ DOMAIN g.nodes["precedents"] = {}
<1> DEFINE order == SetToSeq(rules)
<1>1. /\ g.nodes["rules"] = [i \in DOMAIN order |-> [id |-> <<"rule">> \o order[i].id, data |-> "medium"]]
      /\ g.nodes["obligations"] =
           [i \in DOMAIN order |-> [id |-> <<"ob">> \o order[i].id,
              data |-> [type |-> GuessType[order[i].triple],
                       from |-> IF order[i].from = None THEN t ELSE order[i].from,
                       until |-> order[i].until]]]
      /\ g.nodes["citations"] = [i \in DOMAIN order |-> [id |-> <<"cite">> \o order[i].id, data |-> None]]
  BY KindsSet DEF Emit
<1>2. /\ g.nodes["subjects"] = SetToSeq(SubjectNodes(rules))
      /\ g.nodes["jurisdictions"] = <<[id |-> Normal(p), data |-> None]>>
      /\ g.nodes["definitions"] = <<>> /\ g.nodes["exemptions"] = <<>> /\ g.nodes["precedents"] = <<>>
  BY KindsSet DEF Emit, SubjectNodes, SubjectName
<1> HIDE DEF order
<1>3. DOMAIN g.nodes["jurisdictions"] = 1..1 /\ g.nodes["jurisdictions"][1].id = Normal(p)
  BY <1>2
<1>4. /\ DOMAIN g.nodes["definitions"] = {} /\ DOMAIN g.nodes["exemptions"] = {}
      /\ DOMAIN g.nodes["precedents"] = {}
  BY <1>2
<1>5. /\ DOMAIN g.nodes["rules"] = DOMAIN order /\ DOMAIN g.nodes["obligations"] = DOMAIN order
      /\ DOMAIN g.nodes["citations"] = DOMAIN order
      /\ \A i \in DOMAIN order : /\ g.nodes["rules"][i].id = Named("rule", order[i])
                                 /\ g.nodes["obligations"][i].id = Named("ob", order[i])
                                 /\ g.nodes["citations"][i].id = Named("cite", order[i])
  BY <1>1 DEF Named
<1> QED BY <1>2, <1>3, <1>4, <1>5 DEF order

LEMMA EmittedEdges ==
  ASSUME NEW rules, NEW p, NEW t, NEW g, g = Emit(rules, p, t), NEW e
  PROVE  e \in g.edges <=>
           \E r \in rules : \/ e = Link("applies_to", Named("rule", r), SubjectName(r))
                            \/ e = Link("consists_of", Named("rule", r), Named("ob", r))
                            \/ e = Link("scoped_to", Named("ob", r), Normal(p))
                            \/ e = Link("cited_by", Named("ob", r), Named("cite", r))
<1>1. g.edges = UNION {{Link("applies_to", Named("rule", r), SubjectName(r)),
                        Link("consists_of", Named("rule", r), Named("ob", r)),
                        Link("scoped_to", Named("ob", r), Normal(p)),
                        Link("cited_by", Named("ob", r), Named("cite", r))} : r \in rules}
  BY DEF Emit, Link, Named, SubjectName
<1> QED BY <1>1

LEMMA SubjectNodesFacts ==
  ASSUME NEW rules, IsFiniteSet(rules)
  PROVE  /\ IsFiniteSet(SubjectNodes(rules))
         /\ \A n \in SubjectNodes(rules) : \E r \in rules : n.id = SubjectName(r)
         /\ \A r \in rules : \E n \in SubjectNodes(rules) : n.id = SubjectName(r)
         /\ \A m, n \in SubjectNodes(rules) : m.id = n.id => m = n
<1> DEFINE node(r) == [id |-> SubjectName(r), data |-> None]
           f == [r \in rules |-> node(r)]
<1>1. f \in Surjection(rules, SubjectNodes(rules))
  BY DEF Surjection, SubjectNodes
<1>2. IsFiniteSet(SubjectNodes(rules))
  BY <1>1, FS_Surjection
<1>3. \A n : n \in SubjectNodes(rules) <=> \E r \in rules : n = node(r)
  BY DEF SubjectNodes
<1>4. \A r : node(r).id = SubjectName(r)
  OBVIOUS
<1>5. \A r, s : node(r).id = node(s).id => node(r) = node(s)
  OBVIOUS
<1> HIDE DEF node
<1> QED BY <1>2, <1>3, <1>4, <1>5

\* The ids of the nodes emit_v3_kg makes, array by array.
LEMMA EmittedIds ==
  ASSUME NEW rules, IsFiniteSet(rules), NEW p, NEW t, NEW g, g = Emit(rules, p, t)
  PROVE  /\ \A x : x \in Ids(g, "rules") <=> \E r \in rules : x = Named("rule", r)
         /\ \A x : x \in Ids(g, "obligations") <=> \E r \in rules : x = Named("ob", r)
         /\ \A x : x \in Ids(g, "citations") <=> \E r \in rules : x = Named("cite", r)
         /\ \A x : x \in Ids(g, "subjects") <=> \E r \in rules : x = SubjectName(r)
         /\ Normal(p) \in Ids(g, "jurisdictions")
<1>1. PICK order : order = SetToSeq(rules)
  OBVIOUS
<1>2. \A r : r \in rules <=> \E i \in DOMAIN order : order[i] = r
  BY <1>1, SetToSeqFacts DEF ToSet
<1>3. \A k, x : x \in Ids(g, k) <=> \E i \in DOMAIN g.nodes[k] : x = g.nodes[k][i].id
  BY DEF Ids, NodesOf, ToSet
<1>4. /\ DOMAIN g.nodes["rules"] = DOMAIN order /\ DOMAIN g.nodes["obligations"] = DOMAIN order
      /\ DOMAIN g.nodes["citations"] = DOMAIN order
      /\ \A i \in DOMAIN order : /\ g.nodes["rules"][i].id = Named("rule", order[i])
                                 /\ g.nodes["obligations"][i].id = Named("ob", order[i])
                                 /\ g.nodes["citations"][i].id = Named("cite", order[i])
  BY <1>1, EmittedArrays
<1>5. \A x : x \in Ids(g, "rules") <=> \E r \in rules : x = Named("rule", r)
  BY <1>2, <1>3, <1>4
<1>6. \A x : x \in Ids(g, "obligations") <=> \E r \in rules : x = Named("ob", r)
  BY <1>2, <1>3, <1>4
<1>7. \A x : x \in Ids(g, "citations") <=> \E r \in rules : x = Named("cite", r)
  BY <1>2, <1>3, <1>4
<1>8. \A x : x \in Ids(g, "subjects") <=> \E r \in rules : x = SubjectName(r)
  <2>1. NodesOf(g, "subjects") = SubjectNodes(rules)
    BY EmittedArrays, SubjectNodesFacts, SetToSeqFacts DEF NodesOf
  <2> QED BY <2>1, SubjectNodesFacts DEF Ids
<1>9. Normal(p) \in Ids(g, "jurisdictions")
  <2>1. DOMAIN g.nodes["jurisdictions"] = 1..1 /\ g.nodes["jurisdictions"][1].id = Normal(p)
    BY EmittedArrays
  <2> QED BY <1>3, <2>1
<1> QED BY <1>5, <1>6, <1>7, <1>8, <1>9

\* An extracted graph that compiles has an obligation for each rule.
LEMMA ObligationPerRule ==
  ASSUME NEW rules, IsFiniteSet(rules), NEW p, NEW t, NEW g, g = Emit(rules, p, t), UniqueIds(g)
  PROVE  Cardinality({o.id : o \in NodesOf(g, "obligations")}) = Cardinality(rules)
<1> DEFINE ids == {o.id : o \in NodesOf(g, "obligations")}
           f == [r \in rules |-> Named("ob", r)]
<1>1. PICK order : order = SetToSeq(rules)
  OBVIOUS
<1>2. \A r \in rules : \E i \in DOMAIN order : order[i] = r
  BY <1>1, SetToSeqFacts DEF ToSet
<1>3. \A x : x \in ids <=> \E r \in rules : x = Named("ob", r)
  <2>1. ids = Ids(g, "obligations")
    BY DEF Ids
  <2>2. \A x : x \in Ids(g, "obligations") <=> \E r \in rules : x = Named("ob", r)
    BY EmittedIds
  <2> QED BY <2>1, <2>2
<1>4. \A i, j \in DOMAIN order : Named("ob", order[i]) = Named("ob", order[j]) => i = j
  <2>1. /\ DOMAIN g.nodes["obligations"] = DOMAIN order
        /\ \A i \in DOMAIN order : g.nodes["obligations"][i].id = Named("ob", order[i])
    BY <1>1, EmittedArrays
  <2>2. "obligations" \in ToSet(Kinds)
    BY KindsSet
  <2>3. \A i, j \in DOMAIN g.nodes["obligations"] :
          g.nodes["obligations"][i].id = g.nodes["obligations"][j].id => i = j
    BY <2>2 DEF UniqueIds
  <2> QED BY <2>1, <2>3
<1>5. \A r, s \in rules : Named("ob", r) = Named("ob", s) => r = s
  BY <1>2, <1>4
<1> HIDE DEF ids
<1>6. f \in Bijection(rules, ids)
  <2>1. f \in [rules -> ids]
    BY <1>3
  <2>2. IsInjective(f)
    BY <1>5 DEF IsInjective
  <2>3. \A x \in ids : \E r \in rules : f[r] = x
    BY <1>3
  <2> QED BY <2>1, <2>2, <2>3 DEF Bijection, Injection, Surjection
<1>7. ExistsBijection(rules, ids)
  BY <1>6 DEF ExistsBijection
<1>8. Cardinality(rules) = Cardinality(ids)
  BY <1>7, FS_Bijection
<1> QED BY <1>8 DEF ids

LEMMA PrefixFacts ==
  ASSUME NEW x, NEW S, NEW T, NEW a \in Seq(S), NEW b \in Seq(T)
  PROVE  /\ (<<x>> \o a)[1] = x
         /\ <<x>> \o a = <<x>> \o b => a = b
<1> DEFINE all == S \cup T \cup {x}
<1>1. a \in Seq(all) /\ b \in Seq(all)
  BY SeqMonotonic
<1>2. <<x>> \in Seq(all)
  OBVIOUS
<1>3. (<<x>> \o a)[1] = x
  BY <1>1, <1>2, ConcatProperties
<1> QED BY <1>1, <1>2, <1>3, ConcatSimplifications

\* Rules whose ids are made of their positions, as the extractor names what the
\* model left without an id.
OwnNames(rules) ==
  /\ \A r \in rules : /\ r.id \in Seq({"rejected", "rule"} \cup Nat)
                      /\ SubjectOf[r.triple] \in Seq(ToSet(SubjectOf[r.triple]))
  /\ \A r, s \in rules : r.id = s.id => r = s

LEMMA UnnamedAreDistinct ==
  ASSUME NEW answers, IsAnswer(answers),
         ~ \E a \in ToSet(answers) \ {None} : \E i \in ToSet(a) : i.id # None
  PROVE  OwnNames(Extracted(answers))
<1> DEFINE R == Extracted(answers)
<1>1. R \subseteq Stated(answers)
  BY DEF Extracted, Deduplicate, Stated
<1>2. ASSUME NEW r \in Stated(answers)
      PROVE  /\ r.id \in {<<"rejected", r.at[1], r.at[2]>>, <<"rule", r.at[1], r.at[2]>>}
             /\ SubjectOf[r.triple] \in Seq(ToSet(SubjectOf[r.triple]))
  <2>1. PICK c \in DOMAIN answers : /\ answers[c] # None
                                    /\ \E i \in DOMAIN answers[c] :
                                         Kept(answers[c][i]) /\ r = Made(answers[c][i], c, i)
    BY StatedItems
  <2>2. PICK i \in DOMAIN answers[c] : r = Made(answers[c][i], c, i)
    BY <2>1
  <2>3. PICK item : item = answers[c][i]
    OBVIOUS
  <2>4. answers[c] \in ToSet(answers) \ {None} /\ item \in ToSet(answers[c])
    BY <2>1, <2>2, <2>3 DEF ToSet
  <2>5. item.id = None
    BY <2>4
  <2>6. r.at[1] = c /\ r.at[2] = i /\ r.triple = item.triple
    BY <2>2, <2>3, MadeFields
  <2>7. r.id \in {<<"rejected", c, i>>, <<"rule", c, i>>}
    BY <2>2, <2>3, <2>5 DEF Made
  <2>8. SubjectOf[item.triple] \in Seq(ToSet(SubjectOf[item.triple]))
    BY <2>4 DEF IsAnswer
  <2> QED BY <2>6, <2>7, <2>8
<1>3. \A r \in Stated(answers) : r.at[1] \in Nat /\ r.at[2] \in Nat
  BY PositionsAreNumbers
<1>4. ASSUME NEW r \in R
      PROVE  /\ r.id \in Seq({"rejected", "rule"} \cup Nat)
             /\ SubjectOf[r.triple] \in Seq(ToSet(SubjectOf[r.triple]))
  <2> DEFINE parts == {"rejected", "rule"} \cup Nat
  <2>1. ASSUME NEW x \in parts, NEW c \in parts, NEW i \in parts PROVE <<x, c, i>> \in Seq(parts)
    <3> HIDE DEF parts
    <3> QED OBVIOUS
  <2>2. r.at[1] \in parts /\ r.at[2] \in parts /\ "rejected" \in parts /\ "rule" \in parts
    BY <1>1, <1>3
  <2> HIDE DEF parts
  <2>3. r.id \in Seq(parts)
    BY <1>1, <1>2, <2>1, <2>2
  <2> QED BY <1>1, <1>2, <2>3 DEF parts
<1>5. ASSUME NEW r \in R, NEW s \in R, r.id = s.id PROVE r = s
  <2>1. r.id[2] = r.at[1] /\ r.id[3] = r.at[2] /\ s.id[2] = s.at[1] /\ s.id[3] = s.at[2]
    BY <1>1, <1>2
  <2> QED BY <1>1, <1>5, <2>1, PositionsDiffer
<1> QED BY <1>4, <1>5 DEF OwnNames

\* Such rules give a graph in which no id stands twice.
LEMMA EmittedUnique ==
  ASSUME NEW rules, IsFiniteSet(rules), OwnNames(rules), NEW p \in Places, NEW t,
         NEW g, g = Emit(rules, p, t)
  PROVE  UniqueIds(g)
<1>1. PICK order : order = SetToSeq(rules)
  OBVIOUS
<1>2. /\ \A i \in DOMAIN order : order[i] \in rules
      /\ \A i, j \in DOMAIN order : order[i] = order[j] => i = j
  BY <1>1, SetToSeqFacts DEF ToSet
<1>3. PICK subjects : subjects = SetToSeq(SubjectNodes(rules))
  OBVIOUS
<1>4. /\ \A i \in DOMAIN subjects : subjects[i] \in SubjectNodes(rules)
      /\ \A i, j \in DOMAIN subjects : subjects[i] = subjects[j] => i = j
  BY <1>3, SubjectNodesFacts, SetToSeqFacts DEF ToSet
<1>5. /\ DOMAIN g.nodes["rules"] = DOMAIN order /\ DOMAIN g.nodes["obligations"] = DOMAIN order
      /\ DOMAIN g.nodes["citations"] = DOMAIN order
      /\ \A i \in DOMAIN order : /\ g.nodes["rules"][i].id = Named("rule", order[i])
                                 /\ g.nodes["obligations"][i].id = Named("ob", order[i])
                                 /\ g.nodes["citations"][i].id = Named("cite", order[i])
  BY <1>1, EmittedArrays
<1>6. /\ g.nodes["subjects"] = subjects
      /\ DOMAIN g.nodes["jurisdictions"] = 1..1 /\ g.nodes["jurisdictions"][1].id = Normal(p)
      /\ DOMAIN g.nodes["definitions"] = {} /\ DOMAIN g.nodes["exemptions"] = {}
      /\ DOMAIN g.nodes["precedents"] = {}
  BY <1>3, EmittedArrays
<1>7. \A x : \A r, s \in rules : /\ Named(x, r)[1] = x
                                 /\ Named(x, r) = Named(x, s) => r = s
  <2> SUFFICES ASSUME NEW x, NEW r \in rules, NEW s \in rules
               PROVE  /\ Named(x, r)[1] = x
                      /\ Named(x, r) = Named(x, s) => r = s
    OBVIOUS
  <2> DEFINE parts == {"rejected", "rule"} \cup Nat
  <2>1. r.id \in Seq(parts) /\ s.id \in Seq(parts) /\ (r.id = s.id => r = s)
    BY DEF OwnNames
  <2> HIDE DEF parts
  <2>2. (<<x>> \o r.id)[1] = x /\ (<<x>> \o r.id = <<x>> \o s.id => r.id = s.id)
    BY <2>1, PrefixFacts
  <2> QED BY <2>1, <2>2 DEF Named
<1>8. \A n \in SubjectNodes(rules) : n.id[1] = "subj"
  <2>1. \A r \in rules : SubjectName(r)[1] = "subj"
    BY PrefixFacts DEF SubjectName, OwnNames
  <2> QED BY <2>1, SubjectNodesFacts
\* The first part of an id tells its array, and the rest its place there.
<1>9. \A i \in DOMAIN g.nodes["rules"] : g.nodes["rules"][i].id[1] = "rule"
  BY <1>2, <1>5, <1>7
<1>10. \A i \in DOMAIN g.nodes["obligations"] : g.nodes["obligations"][i].id[1] = "ob"
  BY <1>2, <1>5, <1>7
<1>11. \A i \in DOMAIN g.nodes["citations"] : g.nodes["citations"][i].id[1] = "cite"
  BY <1>2, <1>5, <1>7
<1>12. \A i \in DOMAIN g.nodes["subjects"] : g.nodes["subjects"][i].id[1] = "subj"
  BY <1>4, <1>6, <1>8
<1>13. \A i \in DOMAIN g.nodes["jurisdictions"] :
         g.nodes["jurisdictions"][i].id[1] \notin {"subj", "rule", "ob", "cite"}
  BY <1>6, PlacesAssumption
<1>14. ASSUME NEW k \in {"rules", "obligations", "citations"},
              NEW i \in DOMAIN g.nodes[k], NEW j \in DOMAIN g.nodes[k],
              g.nodes[k][i].id = g.nodes[k][j].id
       PROVE  i = j
  BY <1>2, <1>5, <1>7, <1>14
<1>15. ASSUME NEW i \in DOMAIN g.nodes["subjects"], NEW j \in DOMAIN g.nodes["subjects"],
              g.nodes["subjects"][i].id = g.nodes["subjects"][j].id
       PROVE  i = j
  BY <1>4, <1>6, <1>15, SubjectNodesFacts
<1>16. \A i, j \in DOMAIN g.nodes["jurisdictions"] : i = j
  BY <1>6
<1> SUFFICES ASSUME NEW k \in ToSet(Kinds), NEW l \in ToSet(Kinds),
                    NEW i \in DOMAIN g.nodes[k], NEW j \in DOMAIN g.nodes[l],
                    g.nodes[k][i].id = g.nodes[l][j].id
             PROVE  k = l /\ i = j
  BY DEF UniqueIds
<1>17. /\ k \in {"subjects", "rules", "obligations", "jurisdictions", "citations"}
       /\ l \in {"subjects", "rules", "obligations", "jurisdictions", "citations"}
  BY <1>6, KindsSet
<1>18. k = l
  BY <1>9, <1>10, <1>11, <1>12, <1>13, <1>17
<1> QED BY <1>14, <1>15, <1>16, <1>17, <1>18

LEMMA KindOfId ==
  ASSUME NEW g, UniqueIds(g), NEW kind \in ToSet(Kinds), NEW id \in Ids(g, kind)
  PROVE  KindOf(g, id) = kind
<1>1. Len(Kinds) = 8 /\ DOMAIN Kinds = 1..8
  BY DEF Kinds
<1>2. \A k, l \in 1..8 : Kinds[k] = Kinds[l] => k = l
  BY DEF Kinds
<1>3. \A k \in 1..8 : Kinds[k] \in ToSet(Kinds)
  BY <1>1 DEF ToSet
<1>4. PICK k \in 1..8 : Kinds[k] = kind
  BY <1>1 DEF ToSet
<1>5. \A l \in 1..8 : id \in Ids(g, Kinds[l]) => Kinds[l] = kind
  <2>1. \A c : id \in Ids(g, c) => \E i \in DOMAIN g.nodes[c] : g.nodes[c][i].id = id
    BY DEF Ids, NodesOf, ToSet
  <2> QED BY <1>3, <2>1 DEF UniqueIds
<1> DEFINE P(m) == /\ id \in Ids(g, Kinds[m])
                   /\ \A l \in m+1..Len(Kinds) : id \notin Ids(g, Kinds[l])
<1>6. P(k)
  BY <1>1, <1>2, <1>4, <1>5
<1>7. \A m \in 1..8 : P(m) => Kinds[m] = kind
  BY <1>5
<1>8. KindOf(g, id) = Kinds[CHOOSE m \in 1..8 : P(m)]
  BY <1>1 DEF KindOf
<1> HIDE DEF P
<1>9. (CHOOSE m \in 1..8 : P(m)) \in 1..8 /\ P(CHOOSE m \in 1..8 : P(m))
  BY <1>6
<1> QED BY <1>7, <1>8, <1>9

\* An extracted graph with ids of its own compiles and is clean: emit_v3_kg makes
\* both ends of every edge, and each end is a node of the kind the edge needs.
LEMMA EmittedIsClean ==
  ASSUME NEW rules, IsFiniteSet(rules), rules # {}, OwnNames(rules), NEW p \in Places, NEW t,
         NEW g, g = Emit(rules, p, t)
  PROVE  ~ CompileRaises(g) /\ IsClean(g, FALSE)
<1>1. UniqueIds(g)
  BY EmittedUnique
<1>2. /\ \A x : x \in Ids(g, "rules") <=> \E r \in rules : x = Named("rule", r)
      /\ \A x : x \in Ids(g, "obligations") <=> \E r \in rules : x = Named("ob", r)
      /\ \A x : x \in Ids(g, "citations") <=> \E r \in rules : x = Named("cite", r)
      /\ \A x : x \in Ids(g, "subjects") <=> \E r \in rules : x = SubjectName(r)
      /\ Normal(p) \in Ids(g, "jurisdictions")
  BY EmittedIds
<1>3. \A e : e \in g.edges <=>
        \E r \in rules : \/ e = Link("applies_to", Named("rule", r), SubjectName(r))
                         \/ e = Link("consists_of", Named("rule", r), Named("ob", r))
                         \/ e = Link("scoped_to", Named("ob", r), Normal(p))
                         \/ e = Link("cited_by", Named("ob", r), Named("cite", r))
  BY EmittedEdges
<1>4. /\ "rules" \in ToSet(Kinds) /\ "obligations" \in ToSet(Kinds) /\ "citations" \in ToSet(Kinds)
      /\ "subjects" \in ToSet(Kinds) /\ "jurisdictions" \in ToSet(Kinds)
  BY KindsSet
<1>5. \A k \in ToSet(Kinds) : Ids(g, k) \subseteq AllIds(g)
  BY DEF AllIds
<1>6. /\ TargetKind["applies_to"] = "subjects" /\ TargetKind["consists_of"] = "obligations"
      /\ TargetKind["scoped_to"] = "jurisdictions" /\ TargetKind["cited_by"] = "citations"
  BY DEF TargetKind
<1>7. ASSUME NEW e \in g.edges
      PROVE  /\ e.from \in AllIds(g) /\ e.to \in AllIds(g)
             /\ KindOf(g, e.to) = TargetKind[e.type]
  <2>1. PICK r \in rules : \/ e = Link("applies_to", Named("rule", r), SubjectName(r))
                           \/ e = Link("consists_of", Named("rule", r), Named("ob", r))
                           \/ e = Link("scoped_to", Named("ob", r), Normal(p))
                           \/ e = Link("cited_by", Named("ob", r), Named("cite", r))
    BY <1>3
  <2>2. Named("rule", r) \in Ids(g, "rules") /\ Named("ob", r) \in Ids(g, "obligations")
    BY <1>2
  <2>3. Named("rule", r) \in AllIds(g) /\ Named("ob", r) \in AllIds(g)
    BY <1>4, <1>5, <2>2
  <2>4. CASE e = Link("applies_to", Named("rule", r), SubjectName(r))
    <3>1. SubjectName(r) \in Ids(g, "subjects")
      BY <1>2
    <3>2. KindOf(g, SubjectName(r)) = "subjects" /\ SubjectName(r) \in AllIds(g)
      BY <1>1, <1>4, <1>5, <3>1, KindOfId
    <3> QED BY <1>6, <2>3, <2>4, <3>2, LinkFields
  <2>5. CASE e = Link("consists_of", Named("rule", r), Named("ob", r))
    <3>1. KindOf(g, Named("ob", r)) = "obligations"
      BY <1>1, <1>4, <2>2, KindOfId
    <3> QED BY <1>6, <2>3, <2>5, <3>1, LinkFields
  <2>6. CASE e = Link("scoped_to", Named("ob", r), Normal(p))
    <3>1. KindOf(g, Normal(p)) = "jurisdictions" /\ Normal(p) \in AllIds(g)
      BY <1>1, <1>2, <1>4, <1>5, KindOfId
    <3> QED BY <1>6, <2>3, <2>6, <3>1, LinkFields
  <2>7. CASE e = Link("cited_by", Named("ob", r), Named("cite", r))
    <3>1. Named("cite", r) \in Ids(g, "citations")
      BY <1>2
    <3>2. KindOf(g, Named("cite", r)) = "citations" /\ Named("cite", r) \in AllIds(g)
      BY <1>1, <1>4, <1>5, <3>1, KindOfId
    <3> QED BY <1>6, <2>3, <2>7, <3>2, LinkFields
  <2> QED BY <2>1, <2>4, <2>5, <2>6, <2>7
<1>8. DanglingEdges(g) = {} /\ MistypedEdges(g) = {}
  BY <1>7 DEF DanglingEdges, MistypedEdges
<1>9. ASSUME NEW x \in Ids(g, "rules")
      PROVE  Targets(g, "consists_of", x) \cap Ids(g, "obligations") # {}
  <2>1. PICK r \in rules : x = Named("rule", r)
    BY <1>2
  <2>2. Link("consists_of", Named("rule", r), Named("ob", r)) \in EdgesOf(g, "consists_of")
    BY <1>3, LinkFields DEF EdgesOf
  <2>3. Named("ob", r) \in Targets(g, "consists_of", x)
    BY <2>1, <2>2, LinkFields, TargetsOfEdges
  <2>4. Named("ob", r) \in Ids(g, "obligations")
    BY <1>2
  <2> QED BY <2>3, <2>4
<1>10. RulesWithoutObligation(g) = {}
  BY <1>9 DEF RulesWithoutObligation
<1>11. DuplicateIds(g) = {}
  BY <1>1 DEF DuplicateIds, UniqueIds
<1>12. g.nodes["obligations"] # <<>>
  <2>1. Ids(g, "obligations") # {}
    BY <1>2
  <2>2. DOMAIN g.nodes["obligations"] # {}
    BY <2>1 DEF Ids, NodesOf, ToSet
  <2> QED BY <2>2
<1> QED BY <1>1, <1>8, <1>9, <1>10, <1>11, <1>12 DEF CompileRaises, IsClean

\* A file the extractor wrote and nobody edited is the graph of its answers.
ExtractedInv ==
  /\ edits \in Nat
  /\ source = [by |-> source.by, answers |-> source.answers]
  /\ file # None /\ source.by = "extracted" /\ edits = 0 =>
       /\ file = [shape |-> file.shape, kg |-> file.kg, sig |-> file.sig]
       /\ file.shape = "graph"
       /\ source.answers \in Answers
       /\ \E p \in Places : file.kg = Emit(Extracted(source.answers), p, Now)

LEMMA ExtractedStep ==
  ASSUME ExtractedInv, [Next]_vars
  PROVE  ExtractedInv'
<1> USE DEF ExtractedInv
<1>1. ASSUME NEW d \in Drafts, Write(d) PROVE ExtractedInv'
  <2>1. source' = [source EXCEPT !.by = d.shape] /\ edits' = edits
    BY <1>1 DEF Write
  <2>2. d.shape \in {"graph", "flat"}
    BY PipelineAssumption
  <2>3. source' = [by |-> d.shape, answers |-> source.answers]
    BY <2>1
  <2> QED BY <2>1, <2>2, <2>3
<1>2. ASSUME NEW a \in Answers, NEW p \in Places, Extract(a, p) PROVE ExtractedInv'
  <2>1. file' = [shape |-> "graph", kg |-> Emit(Extracted(a), p, Now), sig |-> None]
    BY <1>2 DEF Extract, Unsigned
  <2>2. source' = [by |-> "extracted", answers |-> a] /\ edits' = edits
    BY <1>2 DEF Extract
  <2>3. file'.shape = "graph" /\ file'.sig = None /\ file'.kg = Emit(Extracted(a), p, Now)
    BY <2>1
  <2>4. source'.answers = a /\ source'.by = "extracted"
    BY <2>2
  <2> QED BY <2>1, <2>2, <2>3, <2>4 DEF Now
<1>3. ASSUME edits' = edits + 1, source' = source PROVE ExtractedInv'
  BY <1>3
<1>4. ASSUME Convert PROVE ExtractedInv'
  <2>1. file # None /\ file.shape = "flat" /\ source' = source /\ edits' = edits
    BY <1>4 DEF Convert
  <2> QED BY <2>1
<1>5. ASSUME NEW key \in Keys, SignKG(key) PROVE ExtractedInv'
  <2>1. /\ file' = [file EXCEPT !.sig = [key |-> key, over |-> Content(file)]]
        /\ file # None /\ source' = source /\ edits' = edits
    BY <1>5 DEF SignKG
  <2>2. CASE source.by = "extracted" /\ edits = 0
    <3>1. file' = [shape |-> file.shape, kg |-> file.kg, sig |-> [key |-> key, over |-> Content(file)]]
      BY <2>1, <2>2
    <3>2. file'.shape = file.shape /\ file'.kg = file.kg /\ file'.sig = [key |-> key, over |-> Content(file)]
      BY <3>1
    <3> QED BY <2>1, <2>2, <3>1, <3>2 DEF Now
  <2>3. CASE ~ (source.by = "extracted" /\ edits = 0)
    BY <2>1, <2>3
  <2> QED BY <2>2, <2>3
<1>6. ASSUME UNCHANGED <<file, source, edits>> PROVE ExtractedInv'
  BY <1>6 DEF Now
<1>7. Next => \/ \E d \in Drafts : Write(d)
              \/ \E a \in Answers, p \in Places : Extract(a, p)
              \/ edits' = edits + 1 /\ source' = source
              \/ Convert
              \/ \E key \in Keys : SignKG(key)
              \/ UNCHANGED <<file, source, edits>>
  BY DEF Next, EditNode, EditEdge, Validate, LoadKnowledgeGraph, LoadKG
<1> USE DEF vars
<1> HIDE DEF ExtractedInv
<1> QED BY <1>1, <1>2, <1>3, <1>4, <1>5, <1>6, <1>7

\* ExtractionIsWhole of every reachable state: for any answers of the model the
\* extracted graph has one obligation for each statement found, beyond them at
\* most one for each IMPLIED item, and it compiles and is clean when the model
\* gave no ids.
THEOREM ExtractionIsAlwaysWhole == Spec => []ExtractionIsWhole
<1>1. Init => ExtractedInv
  BY DEF Init, ExtractedInv
<1>2. ExtractedInv /\ [Next]_vars => ExtractedInv'
  BY ExtractedStep
<1>3. ExtractedInv => ExtractionIsWhole
  <2> SUFFICES ASSUME ExtractedInv, Unedited PROVE ExtractionIsWhole
    BY DEF ExtractionIsWhole
  <2>1. PICK answers \in Answers, p \in Places :
          source.answers = answers /\ file.kg = Emit(Extracted(answers), p, Now)
    BY DEF ExtractedInv, Unedited
  <2>2. PICK g : g = file.kg
    OBVIOUS
  <2>3. PICK t : t = Now
    OBVIOUS
  <2>4. PICK rules : rules = Extracted(answers)
    OBVIOUS
  <2>5. g = Emit(rules, p, t)
    BY <2>1, <2>2, <2>3, <2>4
  <2>6. IsAnswer(answers)
    BY PipelineAssumption
  <2>7. IsFiniteSet(rules) /\ Cardinality(rules) = Cardinality(Triples(answers))
        /\ IsFiniteSet(Triples(answers))
    BY <2>4, <2>6, OneRulePerTriple
  <2>8. ~ CompileRaises(g) => ObligationCount(g) = Cardinality(Triples(answers))
    <3>1. ~ CompileRaises(g) => UniqueIds(g)
      BY DEF CompileRaises
    <3> QED BY <2>5, <2>7, <3>1, ObligationPerRule DEF ObligationCount
  <2>9. /\ Cardinality(FoundTriples(answers)) \in Nat /\ Cardinality(Triples(answers)) \in Nat
        /\ Cardinality(FoundTriples(answers)) <= Cardinality(Triples(answers))
    <3>1. FoundTriples(answers) \in SUBSET Triples(answers)
      BY DEF Triples
    <3> QED BY <2>7, <3>1, FS_Subset, FS_CardinalityType
  <2>10. ASSUME FoundTriples(answers) # {}, ~ \E i \in Items(answers) : i.id # None
        PROVE  ~ CompileRaises(g) /\ IsClean(g, FALSE)
    <3>1. OwnNames(rules)
      BY <2>4, <2>6, <2>10, UnnamedAreDistinct DEF Items
    <3>2. rules # {}
      BY <2>4, <2>6, <2>10, OneRulePerTriple DEF Triples
    <3> QED BY <2>5, <2>7, <3>1, <3>2, EmittedIsClean
  <2>11. ~ CompileRaises(g) =>
           ObligationCount(g) \in Cardinality(FoundTriples(answers))..Cardinality(Triples(answers))
    BY <2>8, <2>9
  <2>12. /\ ~ CompileRaises(file.kg) =>
              ObligationCount(file.kg) \in
                Cardinality(FoundTriples(source.answers))
                  ..Cardinality(FoundTriples(source.answers) \cup ImpliedTriples(source.answers))
         /\ FoundTriples(source.answers) # {} /\ ~ (\E i \in Items(source.answers) : i.id # None)
              => ~ CompileRaises(file.kg) /\ IsClean(file.kg, FALSE)
    BY <2>1, <2>2, <2>10, <2>11 DEF Triples
  <2> QED BY <2>12 DEF ExtractionIsWhole
<1> QED BY <1>1, <1>2, <1>3, PTL DEF Spec
=============================================================================
