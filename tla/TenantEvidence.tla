---------------------------- MODULE TenantEvidence -----------------------------
(***************************************************************************)
(* Tenant-bound encrypted evidence (hardening.py, encrypt_ and             *)
(* decrypt_governance_evidence, assert_encrypted_evidence_current) over    *)
(* the key registry of KeyLifecycle and the isolation registry of          *)
(* TenantIsolation, which change independently of each other and of the    *)
(* envelopes made.  Decryption changes nothing: it is a predicate.  The    *)
(* encryptor and the decryptor are the caller's; AES-GCM with the          *)
(* authenticated metadata is modelled by its effect, that an envelope is   *)
(* opened exactly as it was made or not at all.                            *)
(***************************************************************************)
EXTENDS KeyLifecycle, TenantIsolation, FiniteSets

CONSTANTS
  Subjects,     \* digests of the artefacts whose evidence is encrypted
  MaxEnvelopes  \* a bound on the envelopes made

VARIABLE envelopes  \* EncryptedGovernanceEvidence

evidenceVars == <<lifecycleVars, isolationVars, envelopes>>

EvidenceInit == LifecycleInit /\ IsolationInit /\ envelopes = {}

EvidenceKey(k) == k \in keys /\ k.purpose = "evidence_encryption"

\* encrypt_governance_evidence, with artifact_time = encrypted_at = now.
Encrypt(subject, f, k, at) ==
  /\ ProfileCurrent(f)
  /\ EvidenceKey(k)
  /\ k.tenant = f.tenant
  /\ IsCurrent(k, at)
  /\ Cardinality(envelopes) < MaxEnvelopes
  /\ envelopes' = envelopes \cup {[tenant |-> f.tenant, subject |-> subject, profile |-> f,
                                   key |-> k, encryptedAt |-> at]}
  /\ UNCHANGED <<lifecycleVars, isolationVars>>

\* The key was valid and active when the envelope was made, as recorded now.
KeyGoodAtEncryption(e) ==
  /\ e.key.notBefore =< e.encryptedAt
  /\ e.encryptedAt < e.key.notAfter
  /\ StatusAt(e.key, e.encryptedAt, "active")

\* A mutant of the decryption: the isolation profile must still be current.
DecryptableWhileCurrent(e, now) ==
  /\ e.encryptedAt =< now
  /\ ProfileCurrent(e.profile)
  /\ EvidenceKey(e.key)
  /\ KeyGoodAtEncryption(e)
  /\ ~ StatusAt(e.key, now, "disabled")

\* decrypt_governance_evidence of an envelope, as it was made, succeeds.
Decryptable(e, now) ==
  /\ e.encryptedAt =< now
  /\ e.profile \in profiles /\ e.profile.policies \subseteq policies
  /\ EvidenceKey(e.key)
  /\ KeyGoodAtEncryption(e)
  /\ ~ StatusAt(e.key, now, "disabled")

\* A mutant of the currency check: the key's state at encryption is not checked.
CurrentByProfile(e, now) ==
  /\ e.encryptedAt =< now
  /\ ProfileCurrent(e.profile)
  /\ e.key \in keys
  /\ ~ StatusAt(e.key, now, "disabled")

\* assert_encrypted_evidence_current.
EvidenceCurrent(e, now) ==
  /\ e.encryptedAt =< now
  /\ ProfileCurrent(e.profile)
  /\ e.key \in keys
  /\ KeyGoodAtEncryption(e)
  /\ ~ StatusAt(e.key, now, "disabled")

EvidenceNext ==
  \/ LifecycleNext /\ UNCHANGED <<isolationVars, envelopes>>
  \/ IsolationNext /\ UNCHANGED <<lifecycleVars, envelopes>>
  \/ \E subject \in Subjects, f \in profiles, k \in keys, at \in Times :
        Encrypt(subject, f, k, at)

EvidenceSpec == EvidenceInit /\ [][EvidenceNext]_evidenceVars

--------------------------------------------------------------------------------
\* The two checks agree: what may be used as current evidence can be opened.  They
\* repeat the conditions on the key separately, and the currency check looks
\* neither at the key's purpose nor at the profile's own registration.
CurrentEvidenceOpens ==
  \A e \in envelopes, t \in Times : EvidenceCurrent(e, t) => Decryptable(e, t)

\* docs/TENANT_CRYPTO_HARDENING.md: "Isolation drift must not destroy audit
\* history".  No step of the isolation registry closes an envelope that opens.
DriftKeepsHistory ==
  [][UNCHANGED lifecycleVars =>
       \A e \in envelopes, t \in Times : Decryptable(e, t) => Decryptable(e, t)']_evidenceVars

\* Evidence that is not current at a time, by drift or by its key, is not current
\* after any later step at that time or later.
CurrencyIsLostForGood ==
  [][\A e \in envelopes : \A t \in e.encryptedAt .. MaxTime : \A u \in t .. MaxTime :
       EvidenceCurrent(e, u)' => EvidenceCurrent(e, t)]_evidenceVars
================================================================================
