-------------------------- MODULE KnowledgeGraphs --------------------------
(***************************************************************************)
(* What a Knowledge Graph file means: the typed graph of spec section 3,   *)
(* the checks kg-validator makes of it, the obligations the runtime        *)
(* compiles from it, the slice of them one measurement is judged by and    *)
(* the tier that governs the slice, the conversion of the older flat       *)
(* shape, and the graph kg-extractor emits for a document.                 *)
(*                                                                         *)
(* A graph is a record with an array (sequence) of nodes per kind and a    *)
(* set of edges (an edge listed twice counts once for every reader).  The  *)
(* data of a node is what its kind adds: a tier for a rule, a parent for a *)
(* jurisdiction, a type and two dates for an obligation.  An id is the     *)
(* sequence of its dotted parts: <<"rule", "a">> is rule.a.  None stands   *)
(* for a key that is absent, or a date that does not parse.  The sets of   *)
(* jurisdictions and of subjects a rule is restricted to are never empty   *)
(* where the key is present, and the empty set stands for an absent key.   *)
(***************************************************************************)
EXTENDS Integers, SequencesExt

CONSTANTS
  None,
  Lower,          \* a function: the lower-case form of a name, where it has one
  Checkable,      \* the obligation types with a check function
  GuessType,      \* a function: the obligation type of an extracted triple
  SubjectOf,      \* a function: the subject of an extracted triple
  Blank           \* triples with an empty part

\* A lower-case form has none of its own; the names of the tiers and the
\* universal jurisdictions are lower case, and an absent tier is no tier.
ASSUME NamesAssumption ==
  /\ \A n \in DOMAIN Lower : Lower[n] \notin DOMAIN Lower
  /\ {"high", "medium", "low", "global", "*", ""} \cap DOMAIN Lower = {}
  /\ None \notin {"high", "medium", "low"}

Kinds == <<"subjects", "rules", "obligations", "definitions", "exemptions",
           "precedents", "jurisdictions", "citations">>

TargetKind == [applies_to     |-> "subjects",     consists_of |-> "obligations",
               defined_by     |-> "definitions",  exempted_by |-> "exemptions",
               amended_by     |-> "obligations",  interpreted_by |-> "precedents",
               scoped_to      |-> "jurisdictions", cited_by   |-> "citations"]

Universal == {<<"global">>, <<"*">>, <<"">>}

LowerCase(name) == IF name \in DOMAIN Lower THEN Lower[name] ELSE name
Normal(id) == [i \in 1..Len(id) |-> LowerCase(id[i])]

NodesOf(g, kind) == ToSet(g.nodes[kind])
Ids(g, kind) == {n.id : n \in NodesOf(g, kind)}
AllIds(g) == UNION {Ids(g, k) : k \in ToSet(Kinds)}
\* No id stands twice, in one array or in two.
UniqueIds(g) ==
  \A k, l \in ToSet(Kinds) : \A i \in DOMAIN g.nodes[k], j \in DOMAIN g.nodes[l] :
    g.nodes[k][i].id = g.nodes[l][j].id => k = l /\ i = j
EdgesOf(g, type) == {e \in g.edges : e.type = type}
\* The targets of the edges of a type from a node.
Targets(g, type, id) == {e.to : e \in {f \in EdgesOf(g, type) : f.from = id}}

-----------------------------------------------------------------------------
\* kg-validator.  The pydantic models: an effective date is required of an
\* obligation, a tier is one of three or left to its default, medium.
SchemaAccepts(g) ==
  /\ \A o \in NodesOf(g, "obligations") : o.data.from # None
  /\ \A r \in NodesOf(g, "rules") : r.data \in {None, "high", "medium", "low"}

\* all_node_ids: a dict, so of two arrays with one id the later gives the kind.
KindOf(g, id) ==
  Kinds[CHOOSE k \in 1..Len(Kinds) :
          /\ id \in Ids(g, Kinds[k])
          /\ \A l \in k+1..Len(Kinds) : id \notin Ids(g, Kinds[l])]

DuplicateIds(g) ==
  {id \in AllIds(g) :
     \E k \in ToSet(Kinds) : \E i, j \in DOMAIN g.nodes[k] :
        i # j /\ g.nodes[k][i].id = id /\ g.nodes[k][j].id = id}

DanglingEdges(g) == {e \in g.edges : {e.from, e.to} \ AllIds(g) # {}}

MistypedEdges(g) == {e \in g.edges : /\ e.to \in AllIds(g)
                                     /\ KindOf(g, e.to) # TargetKind[e.type]}

RulesWithoutObligation(g) == {r \in Ids(g, "rules") : Targets(g, "consists_of", r) = {}}

\* Mutant: only the default tier is looked for.
UnderTieredByDefault(g) ==
  {r \in NodesOf(g, "rules") :
     /\ r.data \in {None, "medium"}
     /\ \E o \in NodesOf(g, "obligations") :
          o.id \in Targets(g, "consists_of", r.id) /\ o.data.type \notin Checkable}

\* The rules tiered medium or low over an obligation nothing can check.
UnderTieredQualitative(g) ==
  {r \in NodesOf(g, "rules") :
     /\ r.data # "high"
     /\ \E o \in NodesOf(g, "obligations") :
          o.id \in Targets(g, "consists_of", r.id) /\ o.data.type \notin Checkable}

\* run and is_clean: no issue of severity CRITICAL or HIGH.
IsClean(g, strict) ==
  /\ DuplicateIds(g) = {}
  /\ DanglingEdges(g) = {}
  /\ MistypedEdges(g) = {}
  /\ RulesWithoutObligation(g) = {}
  /\ strict => UnderTieredQualitative(g) = {}

-----------------------------------------------------------------------------
\* The runtime's compile_graph.
Owners(g, o) == {r \in Ids(g, "rules") : o \in Targets(g, "consists_of", r)}
Scopes(g, id) == Targets(g, "scoped_to", id) \cap Ids(g, "jurisdictions")
Subjects(g, r) == Targets(g, "applies_to", r) \cap Ids(g, "subjects")

\* Mutant: the states of a country, not what lies below them.
WithChildren(g, roots) ==
  roots \cup {n.id : n \in {m \in NodesOf(g, "jurisdictions") : m.data \in roots}}

\* The least set with the roots (jurisdictions all) and the children of its members.
WithDescendants(g, roots) ==
  LET all    == Ids(g, "jurisdictions")
      closed == {S \in SUBSET all :
                   /\ roots \subseteq S
                   /\ \A n \in NodesOf(g, "jurisdictions") :
                        n.data # None /\ n.data \in S => n.id \in S}
  IN  {j \in all : \A S \in closed : j \in S}

\* The graph is refused: an id that is not unique over all arrays, an edge end
\* that is no node, a rule with no obligation, no obligation at all.
CompileRaises(g) ==
  \/ ~ UniqueIds(g)
  \/ DanglingEdges(g) # {}
  \/ \E r \in Ids(g, "rules") : Targets(g, "consists_of", r) \cap Ids(g, "obligations") = {}
  \/ g.nodes["obligations"] = <<>>

Tiers == <<"high", "medium", "low">>

\* The strictest declared tier among the owning rules.
CompiledTier(g, o) ==
  LET declared == {r.data : r \in {s \in NodesOf(g, "rules") : s.id \in Owners(g, o)}}
      ranks    == {k \in 1..3 : Tiers[k] \in declared}
  IN  IF ranks = {} THEN None ELSE Tiers[Min(ranks)]

\* Absent when some owning rule, or the lack of one, leaves the subject open.
CompiledSubjects(g, o) ==
  IF Owners(g, o) # {} /\ \A r \in Owners(g, o) : Subjects(g, r) # {}
  THEN UNION {Subjects(g, r) : r \in Owners(g, o)}
  ELSE {}

\* Absent when neither the obligation nor an owning rule is scoped.
Roots(g, o) == UNION {Scopes(g, id) : id \in {o} \cup Owners(g, o)}
CompiledJurisdiction(g, o) == IF Roots(g, o) = {} THEN {} ELSE WithDescendants(g, Roots(g, o))

CompiledRule(g, o) ==
  [id |-> o.id, type |-> o.data.type, from |-> o.data.from, until |-> o.data.until,
   jurisdiction |-> CompiledJurisdiction(g, o.id),
   tier         |-> CompiledTier(g, o.id),
   subjects     |-> CompiledSubjects(g, o.id)]

Compile(g) == {CompiledRule(g, o) : o \in NodesOf(g, "obligations")}

-----------------------------------------------------------------------------
\* scope_to: the obligations a measurement is judged by.
InForce(rule, asOf) ==
  /\ rule.from # None => rule.from <= asOf
  /\ rule.until # None => rule.until >= asOf

\* A measurement that names no jurisdiction is not restricted.
InJurisdiction(rule, jurisdiction) ==
  \/ jurisdiction = None
  \/ rule.jurisdiction = {}
  \/ \E j \in rule.jurisdiction : Normal(j) \in Universal \cup {Normal(jurisdiction)}

ScopeTo(rules, jurisdiction, asOf, subject) ==
  {r \in rules : /\ InForce(r, asOf)
                 /\ InJurisdiction(r, jurisdiction)
                 /\ subject = None \/ r.subjects = {} \/ subject \in r.subjects}

\* RiskTierGovernor: what is not a known alias is tier 1.
Canonicalise(tier) ==
  CASE tier # None /\ LowerCase(tier) \in {"tier-2", "tier2", "standard", "default", "medium"} -> 2
    [] tier # None /\ LowerCase(tier) \in {"tier-3", "tier3", "low", "low-risk"} -> 3
    [] OTHER -> 1

TierForSnapshot(rules) == Min({Canonicalise(r.tier) : r \in rules} \cup
                              (IF rules = {} THEN {1} ELSE {}))

-----------------------------------------------------------------------------
\* flat_to_graph.  A flat rule is [id, type, tier, jurisdiction, from, until],
\* its jurisdiction a set of names; the registry routes subjects.
IsFlat(flat) ==
  /\ IsFiniteSet(DOMAIN flat.rules) /\ IsFiniteSet(DOMAIN flat.registry)
  /\ \A r \in ToSet(flat.rules) : r.id \in Seq(ToSet(r.id)) /\ IsFiniteSet(r.jurisdiction)
FlatRaises(flat) == \E s \in DOMAIN flat.registry :
                       flat.registry[s] \notin {r.id : r \in ToSet(flat.rules)}

\* Mutant: a tier outside the table becomes the schema's default.
ConvertedTierDefaulted(tier) ==
  IF tier = None THEN None
  ELSE CASE LowerCase(tier) \in {"tier-1", "tier1", "high", "high-risk"} -> "high"
         [] LowerCase(tier) \in {"tier-3", "tier3", "low", "low-risk"} -> "low"
         [] OTHER -> "medium"

ConvertedTier(tier) ==
  IF tier = None THEN None
  ELSE CASE LowerCase(tier) \in {"tier-1", "tier1", "high", "high-risk"} -> "high"
         [] LowerCase(tier) \in {"tier-2", "tier2", "standard", "default", "medium"} -> "medium"
         [] LowerCase(tier) \in {"tier-3", "tier3", "low", "low-risk"} -> "low"
         [] OTHER -> None

\* The name of the rule node of a flat rule.
RuleId(id) == <<"rule">> \o id

FlatToGraph(flat, defaultDate) ==
  LET flatRules == ToSet(flat.rules)
      scope(r)  == r.jurisdiction \ Universal
      array(f(_)) == [i \in DOMAIN flat.rules |-> f(flat.rules[i])]
      rule(r)   == [id |-> RuleId(r.id), data |-> ConvertedTier(r.tier)]
      obligation(r) == [id |-> r.id,
                        data |-> [type  |-> r.type,
                                  from  |-> IF r.from = None THEN defaultDate ELSE r.from,
                                  until |-> r.until]]
      nodes(ids) == SetToSeq({[id |-> id, data |-> None] : id \in ids})
  IN  [nodes |-> [k \in ToSet(Kinds) |->
                    CASE k = "rules" -> array(rule)
                      [] k = "obligations" -> array(obligation)
                      [] k = "jurisdictions" -> nodes(UNION {scope(r) : r \in flatRules})
                      [] k = "subjects" -> nodes(DOMAIN flat.registry)
                      [] OTHER -> <<>>],
       edges |->   {[type |-> "consists_of", from |-> RuleId(r.id), to |-> r.id] : r \in flatRules}
              \cup {[type |-> "applies_to", from |-> RuleId(flat.registry[s]), to |-> s] :
                             s \in DOMAIN flat.registry}
              \cup UNION {{[type |-> "scoped_to", from |-> r.id, to |-> j] : j \in scope(r)} :
                             r \in flatRules}]

-----------------------------------------------------------------------------
\* kg-extractor.  The model answers a chunk with a sequence of items
\* [id, triple, quality, from, until], or the call or its JSON fails (None).
IsAnswer(answers) ==
  /\ IsFiniteSet(DOMAIN answers) /\ DOMAIN answers \subseteq Nat
  /\ \A a \in ToSet(answers) \ {None} :
       /\ IsFiniteSet(DOMAIN a) /\ DOMAIN a \subseteq Nat
       /\ \A item \in ToSet(a) : SubjectOf[item.triple] \in Seq(ToSet(SubjectOf[item.triple]))

\* _extract_from_chunk.  The id of item i of chunk c is the model's, else made of
\* the positions; an IMPLIED item is rejected by name and kept, without its dates
\* and without the check for empty parts.
ChunkRules(answer, c) ==
  LET kept == {i \in DOMAIN answer : \/ answer[i].quality = "IMPLIED"
                                     \/ answer[i].quality # "unknown" /\ answer[i].triple \notin Blank}
  IN  IF answer = None THEN {}
      ELSE {[at |-> <<c, i>>, triple |-> answer[i].triple,
             id |-> IF answer[i].quality = "IMPLIED" THEN <<"rejected", c, i>>
                    ELSE IF answer[i].id = None THEN <<"rule", c, i>>
                    ELSE Normal(answer[i].id),
             from  |-> IF answer[i].quality = "IMPLIED" THEN None ELSE answer[i].from,
             until |-> IF answer[i].quality = "IMPLIED" THEN None ELSE answer[i].until] : i \in kept}

\* In the order of the document.
Before(r, s) == r.at[1] < s.at[1] \/ (r.at[1] = s.at[1] /\ r.at[2] < s.at[2])

\* Mutant: duplicates are recognised by their exact spelling.
DeduplicateExact(rules) == {r \in rules : ~ \E s \in rules : s.triple = r.triple /\ Before(s, r)}

\* The first rule of each triple, upper and lower case alike.
Deduplicate(rules) ==
  {r \in rules : ~ \E s \in rules : LowerCase(s.triple) = LowerCase(r.triple) /\ Before(s, r)}

Extracted(answers) == Deduplicate(UNION {ChunkRules(answers[c], c) : c \in DOMAIN answers})

\* emit_v3_kg: a rule, an obligation and a citation of every extracted rule,
\* its subject, and the jurisdiction of the run.  A rule without a date is in
\* force from the time of the run, now.  The order of the nodes in an array is
\* left open.
Emit(rules, jurisdiction, now) ==
  LET place == Normal(jurisdiction)
      subject(r) == <<"subj">> \o SubjectOf[r.triple]
      order == SetToSeq(rules)
      array(prefix, data(_)) == [i \in DOMAIN order |->
                                   [id |-> <<prefix>> \o order[i].id, data |-> data(order[i])]]
      none(r) == None
      medium(r) == "medium"
      typed(r) == [type |-> GuessType[r.triple],
                   from |-> IF r.from = None THEN now ELSE r.from, until |-> r.until]
      edge(type, from, to) == [type |-> type, from |-> from, to |-> to]
  IN  [nodes |-> [k \in ToSet(Kinds) |->
                    CASE k = "rules" -> array("rule", medium)
                      [] k = "obligations" -> array("ob", typed)
                      [] k = "citations" -> array("cite", none)
                      [] k = "subjects" -> SetToSeq({[id |-> subject(r), data |-> None] : r \in rules})
                      [] k = "jurisdictions" -> <<[id |-> place, data |-> None]>>
                      [] OTHER -> <<>>],
       edges |-> UNION {{edge("applies_to", <<"rule">> \o r.id, subject(r)),
                         edge("consists_of", <<"rule">> \o r.id, <<"ob">> \o r.id),
                         edge("scoped_to", <<"ob">> \o r.id, place),
                         edge("cited_by", <<"ob">> \o r.id, <<"cite">> \o r.id)} : r \in rules}]
=============================================================================
