---------------------------- MODULE Certificates ----------------------------
(***************************************************************************)
(* The signing identity of a team (modstaller/provisioning.py:             *)
(* ensure_certificate; signing/csr.py): a private key that never leaves    *)
(* this computer, Apple's certificate for it, and the PKCS#12 file zsign   *)
(* opens, with its password and the certificate beside it.                 *)
(*                                                                         *)
(* Apple grants few certificates and a key that is lost makes one          *)
(* worthless.  A job may be killed anywhere, also in the middle of a       *)
(* write; answers get lost; Apple may issue a certificate without its      *)
(* content; other tools and the person revoke and request certificates.    *)
(***************************************************************************)
EXTENDS Naturals, FiniteSets

CONSTANTS
  CertJobs,    \* installations that may be under way at once
  Room,        \* certificates Apple grants at a time
  MaxKeys,     \* bound: key pairs generated
  MaxIssued    \* bound: certificates issued, other tools' included

ASSUME CertificatesAssumption ==
  /\ CertJobs # {} /\ Room \in Nat \ {0} /\ MaxKeys \in Nat \ {0} /\ MaxIssued \in Nat \ {0}

VARIABLES
  keyPem,      \* key.pem: its key (0: no file) and whether it is readable
  p12,         \* identity.p12: its certificate (0: unusable), and who wrote it
  opens,       \* identity.pass is the password of identity.p12
  certDer,     \* cert.der: the certificate (0: unusable)
  listed,      \* the team's certificates at Apple
  expired,     \* certificates that have run out
  certJob,     \* [CertJobs -> where ensure_certificate is]
  keys, issued,\* how many so far
  jobsMet,     \* history: two jobs were in ensure_certificate at once
  late         \* history: a certificate was listed without its content

identityFiles == <<keyPem, p12, opens, certDer>>
atApple == <<listed, expired, issued, late>>
certificateVars == <<identityFiles, atApple, certJob, keys, jobsMet>>

Numbers == 1 .. MaxIssued
Keys == 1 .. MaxKeys
CertPcs == {"idle", "key", "new", "look", "revoke", "submit", "fetch", "p12", "pass", "cert"}

CertificatesTypeOK ==
  /\ keyPem \in [key : {0} \cup Keys, whole : BOOLEAN]
  /\ p12 \in [cert : {0} \cup Numbers, by : CertJobs] /\ opens \in BOOLEAN
  /\ certDer \in {0} \cup Numbers
  /\ listed \subseteq [n : Numbers, key : {0} \cup Keys, content : BOOLEAN]
  /\ expired \subseteq Numbers
  /\ certJob \in [CertJobs -> [pc : CertPcs, key : {0} \cup Keys, cert : {0} \cup Numbers, revoke : BOOLEAN]]
  /\ keys \in {0} \cup Keys /\ issued \in {0} \cup Numbers
  /\ {jobsMet, late} \subseteq BOOLEAN

NoCertJob == [pc |-> "idle", key |-> 0, cert |-> 0, revoke |-> FALSE]

CertificatesInit ==
  /\ keyPem = [key |-> 0, whole |-> TRUE]
  /\ p12 = [cert |-> 0, by |-> CHOOSE j \in CertJobs : TRUE] /\ opens = FALSE /\ certDer = 0
  /\ listed = {} /\ expired = {}
  /\ certJob = [j \in CertJobs |-> NoCertJob]
  /\ keys = 0 /\ issued = 0 /\ jobsMet = FALSE /\ late = FALSE

At(j, pc) == certJob[j].pc = pc
To(j, pc) == certJob' = [certJob EXCEPT ![j].pc = pc]
Fails(j) == certJob' = [certJob EXCEPT ![j] = NoCertJob]

-----------------------------------------------------------------------------
(* ensure_certificate                                                      *)

\* load_p12, certificate_expiry: complete, openable and not expired.
LocalIdentity == p12.cert # 0 /\ opens /\ certDer \notin {0} \cup expired

\* Step 1: such an identity is used as it is, Apple is not asked.
EnsureBegins(j) ==
  /\ At(j, "idle") /\ ~LocalIdentity
  /\ \E conflicting \in BOOLEAN :
       certJob' = [certJob EXCEPT ![j] = [NoCertJob EXCEPT !.pc = "key", !.revoke = conflicting]]
  /\ jobsMet' = (jobsMet \/ \E k \in CertJobs \ {j} : ~At(k, "idle"))
  /\ UNCHANGED <<identityFiles, atApple, keys>>

\* load_keypair: a damaged key is named, never replaced.
LoadKeypair(j) ==
  /\ At(j, "key")
  /\ IF ~keyPem.whole THEN Fails(j)
     ELSE IF keyPem.key = 0 THEN To(j, "new")
     ELSE certJob' = [certJob EXCEPT ![j].pc = "look", ![j].key = keyPem.key]
  /\ UNCHANGED <<identityFiles, atApple, keys, jobsMet>>

\* Where a job goes that needs a new certificate.
Requests(j) == IF certJob[j].revoke THEN "revoke" ELSE "submit"

Generated(j) ==
  /\ At(j, "new") /\ keys < MaxKeys /\ keys' = keys + 1
  /\ certJob' = [certJob EXCEPT ![j].pc = Requests(j), ![j].key = keys']

\* MUTANT: the key is only kept in memory until its certificate is there.
NewKeyUnsaved(j) ==
  /\ Generated(j)
  /\ UNCHANGED <<identityFiles, atApple, jobsMet>>

\* A key is generated and saved, before Apple hears of it.
NewKey(j) ==
  /\ Generated(j)
  /\ keyPem' = [key |-> keys', whole |-> TRUE]
  /\ UNCHANGED <<p12, opens, certDer, atApple, jobsMet>>

\* _fetch_own_certificate
OwnCertificates(j) == {c \in listed : c.content /\ c.key = certJob[j].key}

\* Step 2, and after a certificate was issued without its content; the call
\* may fail.
LookForOwn(j) ==
  /\ At(j, "look") \/ At(j, "fetch")
  /\ \/ \E c \in OwnCertificates(j) : certJob' = [certJob EXCEPT ![j].pc = "p12", ![j].cert = c.n]
     \/ OwnCertificates(j) = {} /\ At(j, "look") /\ To(j, Requests(j))
     \/ OwnCertificates(j) = {} /\ At(j, "fetch") /\ Fails(j)
     \/ Fails(j)
  /\ UNCHANGED <<identityFiles, atApple, keys, jobsMet>>

\* _revoke_foreign_certificates: all but our own; a refusal is passed over.
RevokeForeign(j) ==
  /\ At(j, "revoke")
  /\ \E refused \in SUBSET (listed \ OwnCertificates(j)) :
       listed' = OwnCertificates(j) \cup refused
  /\ To(j, "submit")
  /\ UNCHANGED <<identityFiles, expired, issued, late, keys, jobsMet>>

\* Apple issues a certificate, whose content may come to the list later.
Issued(key, there) ==
  /\ Cardinality(listed) < Room /\ issued < MaxIssued /\ issued' = issued + 1
  /\ listed' = listed \cup {[n |-> issued', key |-> key, content |-> there]}
  /\ late' = (late \/ ~there)

\* Step 3, submit_csr: refused; or issued, and the answer has the content,
\* has it not, or is lost.
SubmitCsr(j) ==
  /\ At(j, "submit")
  /\ \/ Fails(j) /\ UNCHANGED <<listed, issued, late>>
     \/ /\ \E there \in BOOLEAN : Issued(certJob[j].key, there)
        /\ \/ certJob' = [certJob EXCEPT ![j].pc = "p12", ![j].cert = issued']
           \/ To(j, "fetch")
           \/ Fails(j)
  /\ UNCHANGED <<identityFiles, expired, keys, jobsMet>>

\* build_p12: three files, one after the other; each build has a password of
\* its own.
WriteP12(j) ==
  /\ At(j, "p12")
  /\ p12' = [cert |-> certJob[j].cert, by |-> j] /\ opens' = FALSE
  /\ To(j, "pass")
  /\ UNCHANGED <<keyPem, certDer, atApple, keys, jobsMet>>

WritePass(j) ==
  /\ At(j, "pass")
  /\ opens' = (p12.cert # 0 /\ p12.by = j)
  /\ To(j, "cert")
  /\ UNCHANGED <<keyPem, p12, certDer, atApple, keys, jobsMet>>

WriteCert(j) ==
  /\ At(j, "cert")
  /\ certDer' = certJob[j].cert
  /\ certJob' = [certJob EXCEPT ![j] = NoCertJob]
  /\ UNCHANGED <<keyPem, p12, opens, atApple, keys, jobsMet>>

-----------------------------------------------------------------------------
(* The world around.                                                       *)

\* The process is killed; a file that was being written is empty.
CertificateJobsKilled ==
  LET torn(pc) == IF \E j \in CertJobs : At(j, pc) THEN BOOLEAN ELSE {FALSE} IN
  /\ \E j \in CertJobs : ~At(j, "idle")
  /\ certJob' = [j \in CertJobs |-> NoCertJob]
  /\ \E key \in torn("new") : keyPem' = IF key THEN [keyPem EXCEPT !.whole = FALSE] ELSE keyPem
  /\ \E file \in torn("p12") : p12' = IF file THEN [p12 EXCEPT !.cert = 0] ELSE p12
  /\ \E file \in torn("pass") : opens' = (opens /\ ~file)
  /\ \E file \in torn("cert") : certDer' = IF file THEN 0 ELSE certDer
  /\ UNCHANGED <<atApple, keys, jobsMet>>

\* The person follows the message about the damaged key.
FolderDeleted ==
  /\ ~keyPem.whole
  /\ keyPem' = [key |-> 0, whole |-> TRUE]
  /\ p12' = [p12 EXCEPT !.cert = 0] /\ opens' = FALSE /\ certDer' = 0
  /\ UNCHANGED <<atApple, certJob, keys, jobsMet>>

\* certs.revoke, or another tool.
Revoked(c) ==
  /\ listed' = listed \ {c}
  /\ UNCHANGED <<identityFiles, expired, issued, late, certJob, keys, jobsMet>>

\* (For another tool's certificate this is Revoked.)
Expires(c) ==
  /\ c.key # 0
  /\ listed' = listed \ {c} /\ expired' = expired \cup {c.n}
  /\ UNCHANGED <<identityFiles, issued, late, certJob, keys, jobsMet>>

ContentArrives(c) ==
  /\ ~c.content
  /\ listed' = (listed \ {c}) \cup {[c EXCEPT !.content = TRUE]}
  /\ UNCHANGED <<identityFiles, expired, issued, late, certJob, keys, jobsMet>>

\* Another tool requests one.
IssuedElsewhere ==
  /\ Issued(0, TRUE)
  /\ UNCHANGED <<identityFiles, expired, certJob, keys, jobsMet>>

CertificatesNext ==
  \/ CertificateJobsKilled \/ FolderDeleted \/ IssuedElsewhere
  \/ \E c \in listed : Revoked(c) \/ Expires(c) \/ ContentArrives(c)
  \/ \E j \in CertJobs :
       \/ EnsureBegins(j) \/ LoadKeypair(j) \/ NewKey(j) \/ LookForOwn(j) \/ RevokeForeign(j)
       \/ SubmitCsr(j) \/ WriteP12(j) \/ WritePass(j) \/ WriteCert(j)

CertificatesSpec == CertificatesInit /\ [][CertificatesNext]_certificateVars

-----------------------------------------------------------------------------

Ours == {c \in listed : c.key # 0}

\* ensure_certificate wastes none of Apple's few certificates: through kills,
\* torn files, lost answers and missing content, each certificate issued to
\* us belongs to the key on disk, so that a later run can use it, and there
\* is no second one as long as Apple lists their content at once.  Jobs that
\* overlap are excepted: the key file is read and written without a lock.
OneCertificate ==
  ~jobsMet =>
    /\ \A c \in Ours : keyPem.whole /\ c.key = keyPem.key
    /\ late \/ Cardinality(Ours) <= 1
=============================================================================
