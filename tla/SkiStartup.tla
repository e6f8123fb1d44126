----------------------------- MODULE SkiStartup -----------------------------
(***************************************************************************)
(* How the SKI Model service comes up: the stages of lifespan with the     *)
(* sovereignty checks that refuse between them, the trust policy for       *)
(* Knowledge Graphs, and the life of the transcript signing key, over any  *)
(* number of starts, refusals, crashes and key losses.                     *)
(*                                                                         *)
(* There is one process per ledger.  What a stage finds outside the        *)
(* process (a file, a served model, a database role) is a free choice at   *)
(* the moment the stage looks.                                             *)
(***************************************************************************)
EXTENDS FiniteSets

CONSTANTS
  Keys,      \* Ed25519 keys, by key_id
  Generated, \* those the runtime generates; the operator makes the others
  NoKey,     \* no file, or no signer
  Torn,      \* a key file that was created and not written
  Envs,      \* the environments the operator may start the process with
  NoEnv

\* The environment variables lifespan looks at.
Environments ==
  [mode : {"strict", "advisory", "other"},
   anchors : {"none", "pinned", "bad"},            \* SKI_KG_TRUST_ANCHORS
   unanchored : BOOLEAN,                           \* SKI_KG_ALLOW_UNANCHORED
   requireSignature : BOOLEAN, allowFlat : BOOLEAN,
   backend : {"fake", "ollama", "vllm", "ambiguous"}, fakeAllowed : BOOLEAN,
   pin : {"unset", "set", "malformed"},            \* SKI_MODEL_FILE_SHA256
   weightsFile : BOOLEAN,                          \* SKI_MODEL_FILE_PATH
   modelSignature : BOOLEAN,                       \* SKI_MODEL_SIGNATURE
   outside : SUBSET {"ledger", "model", "tsa"},    \* hosts that are not local
   tls : BOOLEAN, oneWorker : BOOLEAN,
   hotLoad : {"off", "on", "unusable"},
   automigrate : BOOLEAN, keyGeneration : BOOLEAN]

ASSUME EnvAssumption == Envs \subseteq Environments /\ NoEnv \notin Envs
ASSUME KeyAssumption ==
  Generated \subseteq Keys /\ NoKey \notin Keys /\ Torn \notin Keys /\ NoKey # Torn

Graphs ==
  [signedBy : {"nobody", "anchor", "other", "forged"},
   shape : {"graph", "flat", "malformed"}]
NoGraph == [signedBy |-> "absent", shape |-> "absent"]

Sources ==
  {"none", "verified-backend-digest", "verified-file-digest", "backend-digest",
   "file-digest", "operator-asserted", "name-commitment"}

VARIABLES
  stage,      \* where lifespan is
  env,        \* the environment of this process
  failed,     \* ids of the failed checks so far
  contacted,  \* what this process has called: "model", "ledger"
  kgTrust,    \* state.knowledge_graph.kg_trust, or "none" without a graph
  source,     \* model_hash_source
  role,       \* of the ledger connection: "writer" is least-privilege
  signer,     \* state.transcript_signer
  format5,    \* state.ledger.format5
  keyFile,    \* SKI_TRANSCRIPT_KEY_PATH
  pubFile,    \* the .pub next to it
  schema5,    \* the ledger has the format-5 columns and tables
  ring,       \* ledger_signing_keys
  rows        \* the keys ledger_entries names, row by row

processVars == <<env, failed, contacted, kgTrust, source, role, signer, format5>>
durableVars == <<keyFile, pubFile, schema5, ring, rows>>
vars == <<stage, processVars, durableVars>>

Stages ==
  {"down", "config", "kg", "backend", "ledger", "role", "key", "keyLost", "firstBoot",
   "create", "write", "public", "register", "serving"}

Row == [transcript : Keys \cup {NoKey}, verdict : Keys \cup {NoKey}]

Init ==
  /\ stage = "down"
  /\ env = NoEnv /\ failed = {} /\ contacted = {} /\ kgTrust = "none"
  /\ source = "none" /\ role = "none" /\ signer = NoKey /\ format5 = FALSE
  /\ keyFile = NoKey /\ pubFile = NoKey
  /\ schema5 \in BOOLEAN /\ ring = {} /\ rows = {}

\* The process is gone: lifespan raised, was stopped, or crashed.
Exit ==
  /\ stage' = "down"
  /\ env' = NoEnv /\ failed' = {} /\ contacted' = {} /\ kgTrust' = "none"
  /\ source' = "none" /\ role' = "none" /\ signer' = NoKey /\ format5' = FALSE

\* The ids of the checks that do not hold.
Failing(checks) == {id \in DOMAIN checks : ~checks[id]}

\* refuse_if_failed: in strict mode the next stage is not entered.
RefuseIfFailed(failures) == env.mode = "strict" /\ failures # {}

-----------------------------------------------------------------------------
Boot(e) ==
  /\ stage = "down"
  /\ stage' = "config"
  /\ env' = e
  /\ UNCHANGED <<failed, contacted, kgTrust, source, role, signer, format5, durableVars>>

\* An anchor bundle that cannot be read or parsed never degrades to none.
TrustPolicyRaises(e) == e.anchors = "bad"

\* The selector and its alias disagree.
BackendNameRaises(e) == e.backend = "ambiguous"

\* What lifespan raises on from the environment alone, in any mode.
ConfigRaises(e) ==
  \/ TrustPolicyRaises(e)
  \/ e.mode = "other"
  \/ BackendNameRaises(e)
  \/ e.hotLoad = "unusable"

\* The destinations of the evaluation path that are not local.
OutsideHosts(e) == e.outside \ (IF e.backend = "fake" THEN {"model"} ELSE {})

ConfigChecks(e) ==
  [sovereign_backend |-> e.backend \in {"ollama", "vllm"},
   kg_trust_anchor |-> e.anchors = "pinned",
   ledger_local |-> "ledger" \notin e.outside,
   egress_allowlist_local |-> OutsideHosts(e) = {},
   tls_enabled |-> e.tls,
   single_worker |-> e.oneWorker]

Configure ==
  LET failures == Failing(ConfigChecks(env)) IN
  /\ stage = "config"
  /\ IF ConfigRaises(env) \/ RefuseIfFailed(failures)
     THEN Exit
     ELSE /\ stage' = "kg"
          /\ failed' = failures
          /\ UNCHANGED <<env, contacted, kgTrust, source, role, signer, format5>>
  /\ UNCHANGED durableVars

-----------------------------------------------------------------------------
\* Mutant: the dev switch is honoured although anchors are configured.
VerifySignatureUnanchored(g, e) ==
  IF e.anchors = "pinned" /\ g.signedBy = "anchor" THEN "anchored"
  ELSE IF e.unanchored /\ g.signedBy # "forged" THEN "unanchored" ELSE "refused"

\* A signature counts only under an anchor, or under the graph's own key when
\* there are no anchors and the operator allowed it.
VerifySignature(g, e) ==
  IF e.anchors = "pinned"
  THEN IF g.signedBy = "anchor" THEN "anchored" ELSE "refused"
  ELSE IF e.unanchored /\ g.signedBy # "forged" THEN "unanchored" ELSE "refused"

\* KnowledgeGraph.from_dict under the policy of KGTrustPolicy.from_env.
Trust(g, e, requireSignature) ==
  IF g.signedBy # "nobody" THEN VerifySignature(g, e)
  ELSE IF requireSignature \/ e.anchors = "pinned" THEN "refused"
  ELSE "unsigned"

\* The kg_trust g is loaded with, or "refused".
Loaded(g, e, requireSignature) ==
  IF g.shape = "malformed" \/ (g.shape = "flat" /\ ~e.allowFlat)
  THEN "refused"
  ELSE Trust(g, e, requireSignature)

\* KG_PATH is read; after that the backend is built, which calls the model.
LoadSignedKG(g) ==
  LET trust == IF g = NoGraph THEN "none" ELSE Loaded(g, env, env.requireSignature)
      failures == failed \cup Failing([kg_anchored |-> trust = "anchored"])
  IN
  /\ stage = "kg"
  /\ IF trust = "refused" \/ RefuseIfFailed(failures)
     THEN Exit
     ELSE /\ stage' = "backend"
          /\ failed' = failures
          /\ kgTrust' = trust
          /\ contacted' = IF env.backend = "fake" THEN contacted ELSE contacted \cup {"model"}
          /\ UNCHANGED <<env, source, role, signer, format5>>
  /\ UNCHANGED durableVars

-----------------------------------------------------------------------------
\* What the runtime can observe of the weights: their digest ("same" as the
\* pin, when there is one), that there is none, or nothing at all.
Weights == {"same", "differ", "noDigest", "remote", "unreadable"}

\* The model_hash_source a backend resolves, or "refused".
OllamaSource(e, w) ==
  CASE w = "remote" -> "refused"
    [] w # "remote" /\ e.pin = "set" ->
         IF w = "same" THEN "verified-backend-digest" ELSE "refused"
    [] w \in {"noDigest", "unreadable"} /\ e.pin # "set" -> "name-commitment"
    [] w \in {"same", "differ"} /\ e.pin # "set" -> "backend-digest"

VLLMSource(e, w) ==
  CASE e.weightsFile /\ w \notin {"same", "differ"} -> "refused"
    [] e.weightsFile /\ w \in {"same", "differ"} ->
         IF e.pin # "set" THEN "file-digest"
         ELSE IF w = "same" THEN "verified-file-digest" ELSE "refused"
    [] ~e.weightsFile -> IF e.pin = "set" THEN "operator-asserted" ELSE "name-commitment"

ModelHashSource(e, w) ==
  IF e.pin = "malformed" THEN "refused"
  ELSE IF e.backend = "ollama" THEN OllamaSource(e, w)
  ELSE IF e.backend = "vllm" THEN VLLMSource(e, w)
  ELSE IF e.fakeAllowed /\ e.pin = "unset" THEN "none" ELSE "refused"

ModelChecks(s) ==
  [model_weight_registered |->
     s \in {"verified-backend-digest", "verified-file-digest", "operator-asserted"},
   model_weight_verified |-> s \in {"verified-backend-digest", "verified-file-digest"}]

\* A configured OpenSSF model signature that does not verify raises.
ModelSignatureRaises(e, verifies) == e.modelSignature /\ ~verifies

\* The backend is up and a configured model signature verified;
\* after that the ledger is called.
BuildBackend(w, signatureVerifies) ==
  LET s == ModelHashSource(env, w)
      failures == failed \cup Failing(ModelChecks(s))
  IN
  /\ stage = "backend"
  /\ IF s = "refused" \/ ModelSignatureRaises(env, signatureVerifies) \/ RefuseIfFailed(failures)
     THEN Exit
     ELSE /\ stage' = "ledger"
          /\ failed' = failures
          /\ source' = s
          /\ contacted' = contacted \cup {"ledger"}
          /\ UNCHANGED <<env, kgTrust, role, signer, format5>>
  /\ UNCHANGED durableVars

-----------------------------------------------------------------------------
\* ensure_v5_ledger_schema: a least-privilege role cannot migrate, another may
\* fail to, and a process keeps the format it started with.
OpenLedger(r, migrates) ==
  /\ stage = "ledger"
  /\ stage' = "role"
  /\ role' = r
  /\ schema5' = (schema5 \/ (env.automigrate /\ r = "elevated" /\ migrates))
  /\ format5' = schema5'
  /\ UNCHANGED <<env, failed, contacted, kgTrust, source, signer, keyFile, pubFile, ring, rows>>

\* ledger_role_check: a role that cannot be inspected fails it.
CheckRole(inspected) ==
  LET failures == failed \cup
        Failing([ledger_least_privilege |-> inspected /\ role = "writer"])
  IN
  /\ stage = "role"
  /\ IF RefuseIfFailed(failures)
     THEN Exit
     ELSE /\ stage' = "key"
          /\ failed' = failures
          /\ UNCHANGED <<env, contacted, kgTrust, source, role, signer, format5>>
  /\ UNCHANGED durableVars

HasSignedTranscripts == \E row \in rows : row.transcript # NoKey

KnownToLedger(k) == k \in ring \/ \E row \in rows : k \in {row.transcript, row.verdict}

\* Mutant: a ledger that cannot answer counts as empty.
AskLedgerUnanswered(answers) ==
  /\ stage = "key" /\ keyFile = NoKey
  /\ stage' = IF answers /\ HasSignedTranscripts THEN "keyLost" ELSE "firstBoot"
  /\ UNCHANGED <<processVars, durableVars>>

\* Without a key file the ledger is asked whether this is a first boot.
AskLedger(answers) ==
  /\ stage = "key" /\ keyFile = NoKey
  /\ IF ~answers
     THEN Exit
     ELSE /\ stage' = IF HasSignedTranscripts THEN "keyLost" ELSE "firstBoot"
          /\ UNCHANGED processVars
  /\ UNCHANGED durableVars

\* Mutant: a key that was not generated here is not registered.
LoadKeyServes ==
  /\ stage \in {"key", "keyLost", "firstBoot"} /\ keyFile # NoKey
  /\ IF keyFile = Torn
     THEN Exit
     ELSE /\ stage' = "serving"
          /\ signer' = keyFile
          /\ UNCHANGED <<env, failed, contacted, kgTrust, source, role, format5>>
  /\ UNCHANGED durableVars

\* auto_provision with a key file, which may have come while the ledger was
\* asked: 32 bytes are a key, anything else raises.
LoadKey ==
  /\ stage \in {"key", "keyLost", "firstBoot"} /\ keyFile # NoKey
  /\ IF keyFile = Torn
     THEN Exit
     ELSE /\ stage' = "register"
          /\ signer' = keyFile
          /\ UNCHANGED <<env, failed, contacted, kgTrust, source, role, format5>>
  /\ UNCHANGED durableVars

\* auto_provision without one.
DecideToGenerate ==
  /\ stage \in {"keyLost", "firstBoot"} /\ keyFile = NoKey
  /\ IF stage = "keyLost" \/ ~env.keyGeneration
     THEN Exit
     ELSE /\ stage' = "create"
          /\ UNCHANGED processVars
  /\ UNCHANGED durableVars

\* os.open creates or truncates the file, os.write fills it, and the public
\* key follows: three steps a crash can fall between.
CreateKeyFile ==
  /\ stage = "create"
  /\ stage' = "write"
  /\ keyFile' = Torn
  /\ UNCHANGED <<processVars, pubFile, schema5, ring, rows>>

\* Ed25519PrivateKey.generate: a key that has signed nothing.
WriteKey(k) ==
  /\ stage = "write"
  /\ ~KnownToLedger(k)
  /\ stage' = "public"
  /\ keyFile' = k
  /\ signer' = k
  /\ UNCHANGED <<env, failed, contacted, kgTrust, source, role, format5>>
  /\ UNCHANGED <<pubFile, schema5, ring, rows>>

WritePublic ==
  /\ stage = "public"
  /\ stage' = "register"
  /\ pubFile' = signer
  /\ UNCHANGED <<processVars, keyFile, schema5, ring, rows>>

\* register_signing_key, in format 5; then the rest of lifespan, up to arming
\* the egress guard.
Register ==
  /\ stage = "register"
  /\ stage' = "serving"
  /\ ring' = IF format5 THEN ring \cup {signer} ELSE ring
  /\ UNCHANGED <<processVars, keyFile, pubFile, schema5, rows>>

-----------------------------------------------------------------------------
\* append_v3 with a transcript, or without (a clock-skew verdict): the
\* transcript carries the signer's key id, and so does a format-5 row.
Append(withTranscript) ==
  /\ stage = "serving" /\ kgTrust # "none"
  /\ rows' = rows \cup {[transcript |-> IF withTranscript THEN signer ELSE NoKey,
                         verdict |-> IF format5 THEN signer ELSE NoKey]}
  /\ UNCHANGED <<stage, processVars, keyFile, pubFile, schema5, ring>>

\* POST /api/kg/load; a graph that is refused changes nothing.
HotLoad(g) ==
  /\ stage = "serving" /\ env.hotLoad = "on"
  /\ Loaded(g, env, TRUE) # "refused"
  /\ kgTrust' = Loaded(g, env, TRUE)
  /\ UNCHANGED <<stage, env, failed, contacted, source, role, signer, format5, durableVars>>

\* The process is stopped, crashes, or a call of lifespan raises.
Stop ==
  /\ stage # "down"
  /\ Exit
  /\ UNCHANGED durableVars

\* The key volume is lost, or the path points elsewhere.
LoseKey ==
  /\ keyFile' = NoKey /\ pubFile' = NoKey
  /\ UNCHANGED <<stage, processVars, schema5, ring, rows>>

\* The operator puts a private key of his own at the path.
ProvisionKey(k) ==
  /\ keyFile' = k
  /\ UNCHANGED <<stage, processVars, pubFile, schema5, ring, rows>>

\* The operator restores the key volume from a backup.
RestoreKey(k) ==
  /\ KnownToLedger(k)
  /\ keyFile' = k /\ pubFile' = k
  /\ UNCHANGED <<stage, processVars, schema5, ring, rows>>

\* The schema owner applies 0003_ledger_v5.sql.
OwnerMigrates ==
  /\ schema5' = TRUE
  /\ UNCHANGED <<stage, processVars, keyFile, pubFile, ring, rows>>

\* The auditor has the key that signed a format-5 row.
VerdictSignatureValid(row) == row.verdict \in ring

-----------------------------------------------------------------------------
Next ==
  \/ \E e \in Envs : Boot(e)
  \/ Configure
  \/ \E g \in Graphs \cup {NoGraph} : LoadSignedKG(g)
  \/ \E w \in Weights, signatureVerifies \in BOOLEAN : BuildBackend(w, signatureVerifies)
  \/ \E r \in {"writer", "elevated"}, migrates \in BOOLEAN : OpenLedger(r, migrates)
  \/ \E inspected \in BOOLEAN : CheckRole(inspected)
  \/ LoadKey
  \/ \E answers \in BOOLEAN : AskLedger(answers)
  \/ DecideToGenerate
  \/ CreateKeyFile
  \/ \E k \in Generated : WriteKey(k)
  \/ WritePublic
  \/ Register
  \/ \E withTranscript \in BOOLEAN : Append(withTranscript)
  \/ \E g \in Graphs : HotLoad(g)
  \/ Stop
  \/ LoseKey
  \/ \E k \in Keys \ Generated : ProvisionKey(k)
  \/ \E k \in Generated : RestoreKey(k)
  \/ OwnerMigrates

Spec == Init /\ [][Next]_vars

-----------------------------------------------------------------------------
\* Type correctness of start-up.
TypeOK ==
  /\ stage \in Stages
  /\ env \in Envs \cup {NoEnv} /\ (env = NoEnv <=> stage = "down")
  /\ failed \subseteq {"sovereign_backend", "kg_trust_anchor", "ledger_local",
       "egress_allowlist_local", "tls_enabled", "single_worker", "kg_anchored",
       "model_weight_registered", "model_weight_verified", "ledger_least_privilege"}
  /\ contacted \subseteq {"model", "ledger"}
  /\ kgTrust \in {"none", "anchored", "unanchored", "unsigned"}
  /\ source \in Sources
  /\ role \in {"none", "writer", "elevated"}
  /\ signer \in Keys \cup {NoKey}
  /\ format5 \in BOOLEAN /\ schema5 \in BOOLEAN
  /\ keyFile \in Keys \cup {NoKey, Torn} /\ pubFile \in Keys \cup {NoKey}
  /\ ring \subseteq Keys
  /\ rows \subseteq Row

\* "strict mode never calls out to a destination it is about to reject"
\* (comment in lifespan): in strict mode the model is called only from a
\* sovereign configuration with an anchored graph, the ledger only with
\* verified weights, a verdict is served only over a least-privilege role, and
\* no hot-load changes that.
StrictIsSovereign ==
  stage # "down" /\ env.mode = "strict" =>
    /\ contacted # {} =>
         /\ env.backend # "fake" /\ env.outside = {} /\ env.tls /\ env.oneWorker
         /\ kgTrust = "anchored"
    /\ "ledger" \in contacted => source \in {"verified-backend-digest", "verified-file-digest"}
    /\ stage = "serving" => "ledger" \in contacted /\ role = "writer"

\* The auditor finds the key of every signed verdict in ledger_signing_keys,
\* whatever became of the key files and whenever the process died.
SignaturesVerify == \A row \in rows : row.verdict # NoKey => VerdictSignatureValid(row)

\* "A missing key while the audit ledger already holds signed transcripts is
\* ALWAYS a refusal" (signing.py): a key is generated only over a ledger
\* without one.
NoSilentIdentity == [][stage = "write" /\ stage' = "public" => ~HasSignedTranscripts]_vars

-----------------------------------------------------------------------------
\* The inductive invariant.

\* In strict mode each stage rests on the checks of those before it.
StrictStages ==
  stage # "down" /\ env.mode = "strict" =>
    /\ stage # "config" =>
         /\ env.backend \in {"ollama", "vllm"} /\ env.anchors = "pinned"
         /\ env.outside = {} /\ env.tls /\ env.oneWorker
    /\ stage \notin {"config", "kg"} => kgTrust = "anchored"
    /\ stage \notin {"config", "kg", "backend"} =>
         /\ source \in {"verified-backend-digest", "verified-file-digest"}
         /\ "ledger" \in contacted
    /\ stage \notin {"config", "kg", "backend", "ledger", "role"} => role = "writer"

\* What is called, and when there is a signer.
StagesInOrder ==
  /\ stage \in {"down", "config", "kg"} => contacted = {}
  /\ stage \in {"down", "config", "kg", "backend"} => "ledger" \notin contacted
  /\ stage \in {"public", "register", "serving"} => signer # NoKey

\* A key is made only over a ledger without signed transcripts, and signs
\* format-5 rows only once it is registered.
KeysInOrder ==
  /\ stage \in {"firstBoot", "create", "write"} => ~HasSignedTranscripts
  /\ stage = "serving" /\ format5 => signer \in ring

StartupInv ==
  /\ TypeOK
  /\ StrictStages
  /\ StagesInOrder
  /\ KeysInOrder
  /\ SignaturesVerify
=============================================================================
