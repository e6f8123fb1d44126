-------------------------- MODULE SkiStartupProofs --------------------------
(***************************************************************************)
(* Proofs about SkiStartup, for any set of keys and of environments.       *)
(***************************************************************************)
EXTENDS SkiStartup, TLAPS

\* A check that does not fail holds (refuse_if_failed).
LEMMA NothingFails ==
  ASSUME NEW checks, NEW id \in DOMAIN checks, Failing(checks) = {}
  PROVE  checks[id]
BY DEF Failing

\* Only checks that were made can fail.
LEMMA FailingIds ==
  ASSUME NEW checks
  PROVE  Failing(checks) \subseteq DOMAIN checks
BY DEF Failing

\* What a configuration without a failed check is (config_checks,
\* runtime_checks).
LEMMA ConfigPasses ==
  ASSUME Failing(ConfigChecks(env)) = {}
  PROVE  /\ env.backend \in {"ollama", "vllm"} /\ env.anchors = "pinned"
         /\ env.tls /\ env.oneWorker /\ env.outside = {}
<1>1. DOMAIN ConfigChecks(env) =
        {"sovereign_backend", "kg_trust_anchor", "ledger_local",
         "egress_allowlist_local", "tls_enabled", "single_worker"}
  BY DEF ConfigChecks
<1>2. ConfigChecks(env)["sovereign_backend"] /\ ConfigChecks(env)["kg_trust_anchor"]
  BY <1>1, NothingFails
<1>3. ConfigChecks(env)["tls_enabled"] /\ ConfigChecks(env)["single_worker"]
  BY <1>1, NothingFails
<1>4. ConfigChecks(env)["egress_allowlist_local"]
  BY <1>1, NothingFails
<1>5. env.backend \in {"ollama", "vllm"} /\ env.anchors = "pinned"
  BY <1>2 DEF ConfigChecks
<1>6. env.tls /\ env.oneWorker
  BY <1>3 DEF ConfigChecks
<1>7. env.outside \ (IF env.backend = "fake" THEN {"model"} ELSE {}) = {}
  BY <1>4 DEF ConfigChecks, OutsideHosts
<1> QED
  BY <1>5, <1>6, <1>7

\* A process that is gone satisfies the invariant whenever the durable state
\* is left alone (the raise of any stage of lifespan).
LEMMA ExitKeepsInv ==
  ASSUME StartupInv, Exit, UNCHANGED durableVars
  PROVE  StartupInv'
<1>1. TypeOK'
  BY DEF StartupInv, TypeOK, Exit, durableVars, Stages, Sources
<1>2. StrictStages' /\ StagesInOrder' /\ KeysInOrder'
  BY DEF Exit, StrictStages, StagesInOrder, KeysInOrder
<1>3. SignaturesVerify'
  BY DEF StartupInv, SignaturesVerify, VerdictSignatureValid, durableVars
<1> QED
  BY <1>1, <1>2, <1>3 DEF StartupInv

\* The stages that contact nothing durable: configuration, graph and model.
LEMMA CheckStages ==
  ASSUME StartupInv,
         \/ \E e \in Envs : Boot(e)
         \/ Configure
         \/ \E g \in Graphs \cup {NoGraph} : LoadSignedKG(g)
         \/ \E w \in Weights, v \in BOOLEAN : BuildBackend(w, v)
         \/ \E inspected \in BOOLEAN : CheckRole(inspected)
  PROVE  StartupInv'
<1> USE EnvAssumption
<1>1. CASE Exit /\ UNCHANGED durableVars
  BY <1>1, ExitKeepsInv
<1>2. CASE ~(Exit /\ UNCHANGED durableVars)
  <2>1. SignaturesVerify'
    BY <1>2 DEF StartupInv, SignaturesVerify, VerdictSignatureValid, Boot, Configure, LoadSignedKG, BuildBackend,
      CheckRole, durableVars
  <2>2. ASSUME NEW e \in Envs, Boot(e) PROVE StartupInv'
    <3>1. TypeOK'
      BY <2>2 DEF StartupInv, TypeOK, Boot, Stages, durableVars
    <3>2. StrictStages' /\ StagesInOrder' /\ KeysInOrder'
      BY <2>2 DEF StartupInv, Boot, StrictStages, StagesInOrder, KeysInOrder
    <3> QED BY <2>1, <3>1, <3>2 DEF StartupInv
  <2>3. CASE Configure
    <3> DEFINE failures == Failing(ConfigChecks(env))
    <3>1. /\ stage = "config" /\ stage' = "kg" /\ failed' = failures
          /\ ~RefuseIfFailed(failures)
          /\ UNCHANGED <<env, contacted, kgTrust, source, role, signer, format5, durableVars>>
      BY <1>2, <2>3 DEF Configure
    <3>2. failures \subseteq {"sovereign_backend", "kg_trust_anchor", "ledger_local",
            "egress_allowlist_local", "tls_enabled", "single_worker"}
      BY FailingIds DEF ConfigChecks
    <3>3. failures = {} =>
            /\ env.backend \in {"ollama", "vllm"} /\ env.anchors = "pinned"
            /\ env.tls /\ env.oneWorker /\ env.outside = {}
      BY ConfigPasses
    <3> HIDE DEF failures
    <3>4. TypeOK'
      BY <3>1, <3>2 DEF StartupInv, TypeOK, Stages, durableVars
    <3>5. StrictStages'
      BY <3>1, <3>3 DEF RefuseIfFailed, StrictStages
    <3>6. StagesInOrder' /\ KeysInOrder'
      BY <3>1 DEF StartupInv, StagesInOrder, KeysInOrder
    <3> QED BY <2>1, <3>4, <3>5, <3>6 DEF StartupInv
  <2>4. ASSUME NEW g \in Graphs \cup {NoGraph}, LoadSignedKG(g) PROVE StartupInv'
    <3> DEFINE trust == IF g = NoGraph THEN "none" ELSE Loaded(g, env, env.requireSignature)
    <3> DEFINE failures == failed \cup Failing([kg_anchored |-> trust = "anchored"])
    <3>1. /\ stage = "kg" /\ stage' = "backend" /\ failed' = failures /\ kgTrust' = trust
          /\ trust # "refused" /\ ~RefuseIfFailed(failures)
          /\ contacted' = IF env.backend = "fake" THEN contacted ELSE contacted \cup {"model"}
          /\ UNCHANGED <<env, source, role, signer, format5, durableVars>>
      BY <1>2, <2>4 DEF LoadSignedKG
    <3>2. trust \in {"none", "anchored", "unanchored", "unsigned"}
      BY <3>1 DEF Loaded, Trust, VerifySignature
    <3> HIDE DEF trust
    <3>3. failures \subseteq failed \cup {"kg_anchored"} /\ (failures = {} => trust = "anchored")
      <4>1. failures = {} => [kg_anchored |-> trust = "anchored"]["kg_anchored"]
        BY NothingFails
      <4>2. failures = {} => trust = "anchored"
        BY <4>1
      <4>3. failures \subseteq failed \cup {"kg_anchored"}
        BY FailingIds
      <4> QED BY <4>2, <4>3
    <3> HIDE DEF failures
    <3>4. TypeOK'
      BY <3>1, <3>2, <3>3 DEF StartupInv, TypeOK, Stages, durableVars
    <3>5. StrictStages'
      BY <3>1, <3>3 DEF StartupInv, RefuseIfFailed, StrictStages
    <3>6. StagesInOrder' /\ KeysInOrder'
      BY <3>1 DEF StartupInv, StagesInOrder, KeysInOrder
    <3> QED BY <2>1, <3>4, <3>5, <3>6 DEF StartupInv
  <2>5. ASSUME NEW w \in Weights, NEW v \in BOOLEAN, BuildBackend(w, v) PROVE StartupInv'
    <3> DEFINE s == ModelHashSource(env, w)
    <3> DEFINE failures == failed \cup Failing(ModelChecks(s))
    <3>1. /\ stage = "backend" /\ stage' = "ledger" /\ failed' = failures /\ source' = s
          /\ s # "refused" /\ ~RefuseIfFailed(failures)
          /\ contacted' = contacted \cup {"ledger"}
          /\ UNCHANGED <<env, kgTrust, role, signer, format5, durableVars>>
      BY <1>2, <2>5 DEF BuildBackend
    <3>2. s \in Sources
      BY <3>1 DEF ModelHashSource, OllamaSource, VLLMSource, Weights, Sources
    <3> HIDE DEF s
    <3>3. /\ failures \subseteq failed \cup {"model_weight_registered", "model_weight_verified"}
          /\ failures = {} => s \in {"verified-backend-digest", "verified-file-digest"}
      <4>1. DOMAIN ModelChecks(s) = {"model_weight_registered", "model_weight_verified"}
        BY DEF ModelChecks
      <4>2. failures = {} => ModelChecks(s)["model_weight_verified"]
        BY <4>1, NothingFails
      <4>3. failures = {} => s \in {"verified-backend-digest", "verified-file-digest"}
        BY <4>2 DEF ModelChecks
      <4> QED BY <4>1, <4>3, FailingIds
    <3> HIDE DEF failures
    <3>4. TypeOK'
      BY <3>1, <3>2, <3>3 DEF StartupInv, TypeOK, Stages, durableVars
    <3>5. StrictStages'
      BY <3>1, <3>3 DEF StartupInv, RefuseIfFailed, StrictStages
    <3>6. StagesInOrder' /\ KeysInOrder'
      BY <3>1 DEF StartupInv, StagesInOrder, KeysInOrder
    <3> QED BY <2>1, <3>4, <3>5, <3>6 DEF StartupInv
  <2>6. ASSUME NEW inspected \in BOOLEAN, CheckRole(inspected) PROVE StartupInv'
    <3> DEFINE passes == inspected /\ role = "writer"
    <3> DEFINE failures == failed \cup Failing([ledger_least_privilege |-> passes])
    <3>1. /\ stage = "role" /\ stage' = "key" /\ failed' = failures
          /\ ~RefuseIfFailed(failures)
          /\ UNCHANGED <<env, contacted, kgTrust, source, role, signer, format5, durableVars>>
      BY <1>2, <2>6 DEF CheckRole
    <3> HIDE DEF passes
    <3>2. /\ failures \subseteq failed \cup {"ledger_least_privilege"}
          /\ failures = {} => role = "writer"
      <4>1. failures = {} => [ledger_least_privilege |-> passes]["ledger_least_privilege"]
        BY NothingFails
      <4>2. failures = {} => role = "writer"
        BY <4>1 DEF passes
      <4>3. failures \subseteq failed \cup {"ledger_least_privilege"}
        BY FailingIds
      <4> QED BY <4>2, <4>3
    <3> HIDE DEF failures
    <3>4. TypeOK'
      BY <3>1, <3>2 DEF StartupInv, TypeOK, Stages, durableVars
    <3>5. StrictStages'
      BY <3>1, <3>2 DEF StartupInv, RefuseIfFailed, StrictStages
    <3>6. StagesInOrder' /\ KeysInOrder'
      BY <3>1 DEF StartupInv, StagesInOrder, KeysInOrder
    <3> QED BY <2>1, <3>4, <3>5, <3>6 DEF StartupInv
  <2> QED BY <2>2, <2>3, <2>4, <2>5, <2>6
<1> QED BY <1>1, <1>2

\* The stages that touch the ledger's schema and key table or the key files.
LEMMA KeyStages ==
  ASSUME StartupInv,
         \/ \E r \in {"writer", "elevated"}, migrates \in BOOLEAN : OpenLedger(r, migrates)
         \/ LoadKey
         \/ \E answers \in BOOLEAN : AskLedger(answers)
         \/ DecideToGenerate
         \/ CreateKeyFile
         \/ \E k \in Generated : WriteKey(k)
         \/ WritePublic
         \/ Register
  PROVE  StartupInv'
<1> USE KeyAssumption
<1>1. CASE Exit /\ UNCHANGED durableVars
  BY <1>1, ExitKeepsInv
<1>2. CASE ~(Exit /\ UNCHANGED durableVars)
  <2>1. ASSUME NEW r \in {"writer", "elevated"}, NEW migrates \in BOOLEAN, OpenLedger(r, migrates)
        PROVE  StartupInv'
    <3>1. TypeOK'
      BY <2>1 DEF StartupInv, TypeOK, OpenLedger, Stages
    <3>2. StrictStages' /\ StagesInOrder' /\ KeysInOrder' /\ SignaturesVerify'
      BY <2>1 DEF StartupInv, OpenLedger, StrictStages, StagesInOrder, KeysInOrder, SignaturesVerify, VerdictSignatureValid
    <3> QED BY <3>1, <3>2 DEF StartupInv
  <2>2. CASE LoadKey
    <3>1. /\ stage \in {"key", "keyLost", "firstBoot"} /\ stage' = "register" /\ keyFile \notin {NoKey, Torn} /\ signer' = keyFile
          /\ UNCHANGED <<env, failed, contacted, kgTrust, source, role, format5, durableVars>>
      BY <1>2, <2>2 DEF LoadKey
    <3>2. TypeOK'
      BY <3>1 DEF StartupInv, TypeOK, Stages, durableVars
    <3>3. StrictStages' /\ StagesInOrder' /\ KeysInOrder' /\ SignaturesVerify'
      BY <3>1 DEF StartupInv, StrictStages, StagesInOrder, KeysInOrder, SignaturesVerify, VerdictSignatureValid, durableVars
    <3> QED BY <3>2, <3>3 DEF StartupInv
  <2>3. ASSUME NEW answers \in BOOLEAN, AskLedger(answers) PROVE StartupInv'
    <3>1. /\ stage = "key" /\ stage' = IF HasSignedTranscripts THEN "keyLost" ELSE "firstBoot"
          /\ UNCHANGED <<processVars, durableVars>>
      BY <1>2, <2>3 DEF AskLedger
    <3>2. TypeOK'
      BY <3>1 DEF StartupInv, TypeOK, Stages, processVars, durableVars
    <3>3. StrictStages' /\ StagesInOrder' /\ KeysInOrder' /\ SignaturesVerify'
      BY <3>1 DEF StartupInv, StrictStages, StagesInOrder, KeysInOrder, SignaturesVerify,
        VerdictSignatureValid, HasSignedTranscripts, processVars, durableVars
    <3> QED BY <3>2, <3>3 DEF StartupInv
  <2>4. CASE CreateKeyFile
    <3>1. TypeOK'
      BY <2>4 DEF StartupInv, TypeOK, CreateKeyFile, Stages, processVars
    <3>2. StrictStages' /\ StagesInOrder' /\ KeysInOrder' /\ SignaturesVerify'
      BY <2>4 DEF StartupInv, CreateKeyFile, StrictStages, StagesInOrder, KeysInOrder,
        SignaturesVerify, VerdictSignatureValid, HasSignedTranscripts, processVars
    <3> QED BY <3>1, <3>2 DEF StartupInv
  <2>5. ASSUME NEW k \in Generated, WriteKey(k) PROVE StartupInv'
    <3>1. TypeOK'
      BY <2>5 DEF StartupInv, TypeOK, WriteKey, Stages
    <3>2. StrictStages' /\ StagesInOrder' /\ KeysInOrder' /\ SignaturesVerify'
      BY <2>5 DEF StartupInv, WriteKey, StrictStages, StagesInOrder, KeysInOrder, SignaturesVerify, VerdictSignatureValid
    <3> QED BY <3>1, <3>2 DEF StartupInv
  <2>6. CASE WritePublic
    <3>1. TypeOK'
      BY <2>6 DEF StartupInv, TypeOK, WritePublic, Stages, processVars
    <3>2. StrictStages' /\ StagesInOrder' /\ KeysInOrder' /\ SignaturesVerify'
      BY <2>6 DEF StartupInv, WritePublic, StrictStages, StagesInOrder, KeysInOrder,
        SignaturesVerify, VerdictSignatureValid, processVars
    <3> QED BY <3>1, <3>2 DEF StartupInv
  <2>7. CASE Register
    <3>1. TypeOK'
      BY <2>7 DEF StartupInv, TypeOK, StagesInOrder, Register, Stages, processVars
    <3>2. StrictStages' /\ StagesInOrder' /\ KeysInOrder' /\ SignaturesVerify'
      BY <2>7 DEF StartupInv, Register, StrictStages, StagesInOrder, KeysInOrder,
        SignaturesVerify, VerdictSignatureValid, processVars
    <3> QED BY <3>1, <3>2 DEF StartupInv
  <2>8. CASE DecideToGenerate
    <3>1. /\ stage = "firstBoot" /\ stage' = "create"
          /\ UNCHANGED <<processVars, durableVars>>
      BY <1>2, <2>8 DEF DecideToGenerate
    <3>2. TypeOK'
      BY <3>1 DEF StartupInv, TypeOK, Stages, processVars, durableVars
    <3>3. StrictStages' /\ StagesInOrder' /\ KeysInOrder' /\ SignaturesVerify'
      BY <3>1 DEF StartupInv, StrictStages, StagesInOrder, KeysInOrder, SignaturesVerify,
        VerdictSignatureValid, HasSignedTranscripts, processVars, durableVars
    <3> QED BY <3>2, <3>3 DEF StartupInv
  <2> QED BY <2>1, <2>2, <2>3, <2>4, <2>5, <2>6, <2>7, <2>8
<1> QED BY <1>1, <1>2

\* A serving process, and what the operator does around it.
LEMMA ServingSteps ==
  ASSUME StartupInv,
         \/ \E t \in BOOLEAN : Append(t)
         \/ \E g \in Graphs : HotLoad(g)
         \/ Stop
         \/ LoseKey
         \/ \E k \in Keys \ Generated : ProvisionKey(k)
         \/ \E k \in Generated : RestoreKey(k)
         \/ OwnerMigrates
  PROVE  StartupInv'
<1> USE KeyAssumption
<1>1. ASSUME NEW t \in BOOLEAN, Append(t) PROVE StartupInv'
  <2> DEFINE row == [transcript |-> IF t THEN signer ELSE NoKey,
                     verdict |-> IF format5 THEN signer ELSE NoKey]
  <2>1. /\ stage = "serving" /\ rows' = rows \cup {row}
        /\ UNCHANGED <<stage, processVars, keyFile, pubFile, schema5, ring>>
    BY <1>1 DEF Append
  <2>2. row \in Row /\ (row.verdict # NoKey => row.verdict \in ring)
    BY <2>1 DEF StartupInv, TypeOK, KeysInOrder, Row
  <2> HIDE DEF row
  <2>3. TypeOK'
    BY <2>1, <2>2 DEF StartupInv, TypeOK, processVars
  <2>4. StrictStages' /\ StagesInOrder' /\ KeysInOrder' /\ SignaturesVerify'
    BY <2>1, <2>2 DEF StartupInv, StrictStages, StagesInOrder, KeysInOrder, SignaturesVerify, VerdictSignatureValid, processVars
  <2> QED BY <2>3, <2>4 DEF StartupInv
<1>2. ASSUME NEW g \in Graphs, HotLoad(g) PROVE StartupInv'
  <2>1. kgTrust' \in {"anchored", "unanchored", "unsigned"}
    BY <1>2 DEF HotLoad, Loaded, Trust, VerifySignature
  <2>2. env.anchors = "pinned" => kgTrust' = "anchored"
    BY <1>2 DEF HotLoad, Loaded, Trust, VerifySignature
  <2>3. TypeOK'
    BY <1>2, <2>1 DEF StartupInv, TypeOK, HotLoad, durableVars
  <2>4. StrictStages'
    BY <1>2, <2>2 DEF StartupInv, StrictStages, HotLoad
  <2>5. StagesInOrder' /\ KeysInOrder' /\ SignaturesVerify'
    BY <1>2 DEF StartupInv, StagesInOrder, KeysInOrder, SignaturesVerify, VerdictSignatureValid, HotLoad, durableVars
  <2> QED BY <2>3, <2>4, <2>5 DEF StartupInv
<1>3. CASE Stop
  BY <1>3, ExitKeepsInv DEF Stop
<1>4. ASSUME \/ LoseKey
             \/ \E k \in Keys \ Generated : ProvisionKey(k)
             \/ \E k \in Generated : RestoreKey(k)
             \/ OwnerMigrates
      PROVE  StartupInv'
  <2>1. /\ UNCHANGED <<stage, processVars, ring, rows>>
        /\ keyFile' \in Keys \cup {keyFile, NoKey} /\ pubFile' \in Keys \cup {pubFile, NoKey}
        /\ schema5' \in {TRUE, schema5}
    BY <1>4 DEF LoseKey, ProvisionKey, RestoreKey, OwnerMigrates
  <2>2. TypeOK'
    BY <2>1 DEF StartupInv, TypeOK, processVars
  <2>3. StrictStages' /\ StagesInOrder' /\ KeysInOrder' /\ SignaturesVerify'
    BY <2>1 DEF StartupInv, StrictStages, StagesInOrder, KeysInOrder, SignaturesVerify,
      VerdictSignatureValid, HasSignedTranscripts, processVars
  <2> QED BY <2>2, <2>3 DEF StartupInv
<1> QED BY <1>1, <1>2, <1>3, <1>4

\* The invariant is inductive over every start, refusal, crash and key loss.
THEOREM StartupInvariant == Spec => []StartupInv
<1>1. Init => StartupInv
  BY EnvAssumption, KeyAssumption DEF Init, StartupInv, TypeOK, StrictStages, StagesInOrder,
    KeysInOrder, SignaturesVerify, VerdictSignatureValid, Stages, Sources, Row
<1>2. StartupInv /\ [Next]_vars => StartupInv'
  <2> SUFFICES ASSUME StartupInv, [Next]_vars PROVE StartupInv'
    OBVIOUS
  <2>1. CASE Next
    BY <2>1, CheckStages, KeyStages, ServingSteps DEF Next
  <2>2. CASE UNCHANGED vars
    BY <2>2 DEF StartupInv, TypeOK, StrictStages, StagesInOrder, KeysInOrder, SignaturesVerify,
      VerdictSignatureValid, HasSignedTranscripts, vars, processVars, durableVars
  <2> QED BY <2>1, <2>2
<1> QED BY <1>1, <1>2, PTL DEF Spec

\* Strict mode: whatever has been called was checked before (lifespan).
THEOREM StrictAlwaysSovereign == Spec => []StrictIsSovereign
<1>1. StartupInv => StrictIsSovereign
  BY DEF StartupInv, TypeOK, StrictStages, StagesInOrder, StrictIsSovereign, Stages
<1> QED BY <1>1, StartupInvariant, PTL

\* Every signed verdict verifies with the ledger's own key table (KeyRing).
THEOREM SignaturesAlwaysVerify == Spec => []SignaturesVerify
<1>1. StartupInv => SignaturesVerify
  BY DEF StartupInv
<1> QED BY <1>1, StartupInvariant, PTL

\* A new identity is generated only over a ledger without signed transcripts
\* (auto_provision).
THEOREM IdentityIsNeverSilent == Spec => NoSilentIdentity
<1>1. StartupInv => (stage = "write" /\ stage' = "public" => ~HasSignedTranscripts)
  BY DEF StartupInv, KeysInOrder
<1> QED BY <1>1, StartupInvariant, PTL DEF NoSilentIdentity
=============================================================================
