----------------------------- MODULE KGPipeline -----------------------------
(***************************************************************************)
(* A Knowledge Graph file from its author or the extractor to the runtime. *)
(* Every tool reads the file as it is when the tool runs: people edit it   *)
(* between kg-validator, ski-model-deploy sign, load-kg and the load of    *)
(* the runtime, and the signature block stays in the file when they do.    *)
(*                                                                         *)
(* A content is a shape and a graph (or flat document) of that shape; a    *)
(* file is a content with a signature block or none.                       *)
(***************************************************************************)
EXTENDS KnowledgeGraphs

CONSTANTS
  Drafts,         \* the contents an author starts from
  Answers,        \* what the extraction model may answer for a document
  Places,         \* the jurisdictions of extraction runs and of measurements
  MeasuredSubjects,
  Times,          \* measurement times; the extraction runs at the first
  NodeEdits,      \* <<kind, node>> pairs an author may add or remove
  EdgeEdits,
  Keys,
  Anchors,        \* the keys in the operator's trust-anchor bundle
  AllowFlat,
  MaxEdits,       \* a function: edits of a file that began as "graph", "flat" or "extracted"
  MaxSigned       \* bound: signatures ever made

ASSUME PipelineAssumption ==
  /\ Anchors \subseteq Keys
  /\ Times \subseteq Int /\ Times # {}
  /\ AllowFlat \in BOOLEAN
  /\ MaxEdits \in [{"graph", "flat", "extracted"} -> Nat]
  /\ MaxSigned \in Nat
  /\ \A d \in Drafts : d.shape \in {"graph", "flat"} /\ (d.shape = "flat" => IsFlat(d.kg))
  /\ \A a \in Answers : IsAnswer(a)
\* No place is named like a node that the extractor emits.
ASSUME PlacesAssumption ==
  \A p \in Places : Normal(p)[1] \notin {"subj", "rule", "ob", "cite"}

VARIABLES
  file,           \* the file on disk, None before there is one
  source,         \* what the file began as, with the answers it was extracted from
  edits,
  passed,         \* the contents that passed `kg-validator validate --strict`
  signed,         \* the <<key, content>> pairs that were ever signed
  registered,     \* the deployment configuration names the file as verified
  runtime         \* the graph the runtime has loaded

vars == <<file, source, edits, passed, signed, registered, runtime>>

Now == Min(Times)
Content(f) == [shape |-> f.shape, kg |-> f.kg]
GraphOf(content) == IF content.shape = "graph" THEN content.kg ELSE FlatToGraph(content.kg, None)

\* Mutant: the key in the signature block is trusted as it stands.
VerifiesEmbedded(f) == f.sig # None /\ f.sig.over = Content(f)

\* _verify_signature with anchors configured: the embedded key picks the anchor.
Verifies(f) == f.sig # None /\ f.sig.key \in Anchors /\ f.sig.over = Content(f)

\* from_dict, signature required: the graph compiles and its signature verifies.
FromDictAccepts(f) ==
  /\ f.shape = "flat" => f.kg.rules # <<>> /\ ~ FlatRaises(f.kg)
  /\ ~ CompileRaises(GraphOf(Content(f)))
  /\ Verifies(f)

Init ==
  /\ file = None /\ source = [by |-> None, answers |-> <<>>] /\ edits = 0
  /\ passed = {} /\ signed = {}
  /\ registered = FALSE /\ runtime = None

Unsigned(content) == [shape |-> content.shape, kg |-> content.kg, sig |-> None]

Write(content) ==
  /\ file = None
  /\ file' = Unsigned(content)
  /\ source' = [source EXCEPT !.by = content.shape]
  /\ UNCHANGED <<edits, passed, signed, registered, runtime>>

\* kg-extractor extract --output.
Extract(answers, place) ==
  /\ file = None
  /\ file' = Unsigned([shape |-> "graph", kg |-> Emit(Extracted(answers), place, Now)])
  /\ source' = [by |-> "extracted", answers |-> answers]
  /\ UNCHANGED <<edits, passed, signed, registered, runtime>>

\* Somebody changes one node or one edge of a graph file.
EditNode(kind, node) ==
  LET array == file.kg.nodes[kind]
  IN  /\ file # None /\ file.shape = "graph"
      /\ edits < MaxEdits[source.by]
      /\ file' = [file EXCEPT !.kg.nodes[kind] = IF node \in ToSet(array) THEN RemoveFirst(array, node)
                                                 ELSE Append(array, node)]
      /\ edits' = edits + 1
      /\ UNCHANGED <<source, passed, signed, registered, runtime>>

EditEdge(edge) ==
  /\ file # None /\ file.shape = "graph"
  /\ edits < MaxEdits[source.by]
  /\ file' = [file EXCEPT !.kg.edges = IF edge \in @ THEN @ \ {edge} ELSE @ \cup {edge}]
  /\ edits' = edits + 1
  /\ UNCHANGED <<source, passed, signed, registered, runtime>>

\* scripts/flat-kg-to-graph.py with a default effective date.
Convert ==
  /\ file # None /\ file.shape = "flat" /\ ~ FlatRaises(file.kg)
  /\ file' = Unsigned([shape |-> "graph", kg |-> FlatToGraph(file.kg, Now)])
  /\ UNCHANGED <<source, edits, passed, signed, registered, runtime>>

\* kg-validator validate --strict exits 0.
Validate ==
  /\ file # None /\ file.shape = "graph"
  /\ SchemaAccepts(file.kg) /\ IsClean(file.kg, TRUE)
  /\ passed' = passed \cup {Content(file)}
  /\ UNCHANGED <<file, source, edits, signed, registered, runtime>>

\* ski-model-deploy sign: any earlier signature is replaced.
SignKG(key) ==
  /\ file # None
  /\ Cardinality(signed) < MaxSigned
  /\ file' = [file EXCEPT !.sig = [key |-> key, over |-> Content(file)]]
  /\ signed' = signed \cup {<<key, Content(file)>>}
  /\ UNCHANGED <<source, edits, passed, registered, runtime>>

\* ski-model-deploy load-kg --trust-anchors: verify, and note the path of the
\* file, its version and that it was verified.  The content is not kept.
LoadKnowledgeGraph ==
  /\ file # None /\ FromDictAccepts(file)
  /\ registered' = TRUE
  /\ UNCHANGED <<file, source, edits, passed, signed, runtime>>

\* The runtime loads the file, at start or by POST /api/kg/load.
LoadKG ==
  /\ file # None /\ FromDictAccepts(file)
  /\ file.shape = "flat" => AllowFlat
  /\ runtime' = [content |-> Content(file), rules |-> Compile(GraphOf(Content(file)))]
  /\ UNCHANGED <<file, source, edits, passed, signed, registered>>

Next ==
  \/ \E d \in Drafts : Write(d)
  \/ \E a \in Answers, p \in Places : Extract(a, p)
  \/ \E e \in NodeEdits : EditNode(e[1], e[2])
  \/ \E e \in EdgeEdits : EditEdge(e)
  \/ Convert
  \/ Validate
  \/ \E k \in Keys : SignKG(k)
  \/ LoadKnowledgeGraph
  \/ LoadKG

Spec == Init /\ [][Next]_vars
-----------------------------------------------------------------------------
\* What the runtime judges by was signed as it is by the holder of an anchored
\* key, however the file was edited, signed again or converted, before or after
\* load-kg noted it as verified (ski_model/kg_loader.py _verify_signature).
RunsWhatWasSigned ==
  runtime # None => \E k \in Anchors : <<k, runtime.content>> \in signed

Requests == [place : Places \cup {None}, time : Times, subject : MeasuredSubjects \cup {None}]
Slice(rules, q) == ScopeTo(rules, q.place, q.time, q.subject)

\* Once a graph passed the strict validation, a slice with an obligation that
\* nothing can check mechanically is governed at tier 1, where the risk policy
\* forces a human to decide (kg_validator/validator.py
\* _check_under_tiered_qualitative_obligations; registry.py tier_for_snapshot).
QualitativeAtTierOne ==
  runtime # None /\ runtime.content \in passed =>
    \A q \in Requests :
      (\E r \in Slice(runtime.rules, q) : r.type \notin Checkable)
        => TierForSnapshot(Slice(runtime.rules, q)) = 1

\* The jurisdictions on the way from one up to its root.
Ancestors(g, j) ==
  LET all    == Ids(g, "jurisdictions")
      closed == {S \in SUBSET all :
                   /\ j \in S
                   /\ \A n \in NodesOf(g, "jurisdictions") :
                        n.id \in S /\ n.data \in all \ {None} => n.data \in S}
  IN  {a \in all : \A S \in closed : a \in S}

\* An obligation that a rule owns judges a measurement iff it is in force, a
\* jurisdiction it (or a rule it belongs to) is scoped to lies on the way up
\* from a jurisdiction of the measurement's name, or none is named, and one of
\* its rules speaks of the subject, or of no subject (ski_model/kg_graph.py
\* compile_graph and kg_loader.py scope_to, against the edges as an author reads
\* them).  An obligation no rule owns is left out: compile_graph applies it to
\* every subject, kg-validator calls it unreachable from the runtime.
AppliesWhereWritten ==
  runtime # None =>
    LET g == GraphOf(runtime.content)
        owned == {o \in NodesOf(g, "obligations") : Owners(g, o.id) # {}}
        scopes(o) == UNION {Scopes(g, id) : id \in {o.id} \cup Owners(g, o.id)}
        placed(o, p) == \/ p = None \/ scopes(o) = {}
                        \/ \E j \in Ids(g, "jurisdictions") :
                             /\ Normal(j) \in {Normal(p)} \cup Universal
                             /\ Ancestors(g, j) \cap scopes(o) # {}
        spoken(o, s) == \/ s = None
                        \/ \E r \in Owners(g, o.id) : Subjects(g, r) \in {{}} \/ s \in Subjects(g, r)
    IN  \A q \in Requests :
          {r.id : r \in Slice(runtime.rules, q)} \cap {o.id : o \in owned} =
            {o.id : o \in {n \in owned :
                             InForce(n.data, q.time) /\ placed(n, q.place) /\ spoken(n, q.subject)}}

\* A flat rule read on its own, as the flat runtime did.
FlatSlice(flat, q) ==
  {r \in ToSet(flat.rules) :
     /\ InForce(r, q.time)
     /\ InJurisdiction(r, q.place)
     /\ LET routed == {s \in DOMAIN flat.registry : flat.registry[s] = r.id}
        IN  q.subject = None \/ routed = {} \/ q.subject \in routed}

\* A flat document that loads judges every measurement by the same rules and at
\* the same tier as its rules read one by one, unless a rule names a universal
\* jurisdiction beside another one (ski_schemas/kg_graph.py flat_to_graph).
ConversionKeepsRules ==
  runtime # None /\ runtime.content.shape = "flat" =>
    LET flat  == runtime.content.kg
        mixed == \E r \in ToSet(flat.rules) :
                   r.jurisdiction \cap Universal # {} /\ r.jurisdiction \ Universal # {}
    IN  \/ mixed
        \/ \A q \in Requests :
             /\ {r.id : r \in Slice(runtime.rules, q)} = {r.id : r \in FlatSlice(flat, q)}
             /\ TierForSnapshot(Slice(runtime.rules, q)) = TierForSnapshot(FlatSlice(flat, q))

\* The items of the chunks that were answered, and the triples, case ignored,
\* of those the model found in the text and of those it marked IMPLIED.
Items(answers) == UNION {ToSet(a) : a \in ToSet(answers) \ {None}}
FoundTriples(answers) ==
  {LowerCase(i.triple) :
     i \in {j \in Items(answers) : j.quality \notin {"IMPLIED", "unknown"} /\ j.triple \notin Blank}}
ImpliedTriples(answers) ==
  {LowerCase(i.triple) : i \in {j \in Items(answers) : j.quality = "IMPLIED"}}

Unedited == file # None /\ source.by = "extracted" /\ edits = 0
ObligationCount(g) == Cardinality({o.id : o \in NodesOf(g, "obligations")})

\* An extracted graph that loads unedited has one obligation for each statement
\* the model found in the chunks it answered, none lost to an id given twice and
\* none repeated where chunks overlap; there are more only where items were
\* IMPLIED, at most one for each of them.  Unless the model gave ids of its own
\* a graph with any statement loads (kg_extractor/extractor.py
\* _extract_from_chunk and _deduplicate, v3_emitter.py emit_v3_kg).
ExtractionIsWhole ==
  Unedited =>
    LET found == FoundTriples(source.answers)
        most  == found \cup ImpliedTriples(source.answers)
        named == \E i \in Items(source.answers) : i.id # None
    IN  /\ ~ CompileRaises(file.kg) =>
             ObligationCount(file.kg) \in Cardinality(found)..Cardinality(most)
        /\ found # {} /\ ~ named => ~ CompileRaises(file.kg) /\ IsClean(file.kg, FALSE)

\* "Refuses to emit rules with `confidence: "IMPLIED"`", "the parser drops any
\* that slip through" (extractor.py): an extracted graph has no more obligations
\* than there are statements which are not IMPLIED.
ImpliedIsDropped ==
  Unedited => ObligationCount(file.kg) <= Cardinality(FoundTriples(source.answers))
=============================================================================
