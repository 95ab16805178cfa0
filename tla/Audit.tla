-------------------------------- MODULE Audit --------------------------------
(***************************************************************************)
(* An examiner audits a volume with audit_findings and then tries to       *)
(* unlock it.  Both go through read_metadata, whose steps are those of     *)
(* Unlock; the auditor never decrypts.                                     *)
(* A name with a suffix, as in OfVmks_KnownOnly, is a plausible mistake in *)
(* the operator before the underscore.                                     *)
(***************************************************************************)
EXTENDS Unlock

VARIABLES
    phase,     \* "audit", then "unlock"
    to_go,     \* whether the header the auditor read is that of BitLocker To Go
    findings,  \* what the audit reported
    audited    \* how the audit ended: "pending", "Ok" or an error

auditVars == <<phase, to_go, findings, audited>>
examVars == <<unlockVars, auditVars>>

\* An AnomalyKind, with the raw value it carries.
Protector(t) == [kind |-> "Protector", value |-> t]
ClearKeyPresent == [kind |-> "ClearKeyPresent", value |-> 0]
WeakCipher(m) == [kind |-> "WeakCipher", value |-> m]
ToGo == [kind |-> "ToGo", value |-> 0]

severity(a) ==
    CASE a.kind = "ClearKeyPresent" -> "High"
      [] a.kind = "WeakCipher" -> "Low"
      [] a.kind \in {"Protector", "ToGo"} -> "Info"

code(a) ==
    CASE a.kind = "ClearKeyPresent" -> "BDE-CLEAR-KEY-PRESENT"
      [] a.kind = "Protector" -> "BDE-PROTECTOR-INVENTORY"
      [] a.kind = "WeakCipher" -> "BDE-WEAK-CIPHER"
      [] a.kind = "ToGo" -> "BDE-TO-GO"

category(a) ==
    CASE a.kind \in {"ClearKeyPresent", "WeakCipher"} -> "Integrity"
      [] a.kind = "Protector" -> "Provenance"
      [] a.kind = "ToGo" -> "Structure"

\* Four hexadecimal digits of a u16.
Hex4(v) == <<v \div 4096, (v \div 256) % 16, (v \div 16) % 16, v % 16>>

evidence(a) ==
    CASE a.kind = "Protector" -> <<"protector_type", Hex4(a.value)>>
      [] a.kind = "WeakCipher" -> <<"encryption_method", Hex4(a.value)>>
      [] OTHER -> <<>>

\* Anomaly::new and to_finding: what is published of an anomaly, its wording
\* and the source, which is the same for all of an audit, aside.
Finding(a) == [severity |-> severity(a), code |-> code(a), category |-> category(a),
               evidence |-> evidence(a)]

\* The auditor's own constant for the type of a clear key.
PROT_CLEAR_KEY == 0

OfProtector(t) ==
    IF t = PROT_CLEAR_KEY THEN <<ClearKeyPresent, Protector(t)>> ELSE <<Protector(t)>>

AnomaliesOf(types) == Flatten([i \in DOMAIN types |-> OfProtector(types[i])])

OfVmks_KnownOnly(m) ==
    AnomaliesOf(SelectSeq(protector_types(m),
        LAMBDA t : t \in {PROT_CLEAR_KEY, PROTECTION_RECOVERY, PROTECTION_PASSWORD}))

\* One anomaly per protector, and one more for a clear key, in metadata order.
OfVmks(m) == AnomaliesOf(protector_types(m))

audit(m, is_to_go) ==
    (IF is_to_go THEN <<ToGo>> ELSE <<>>)
    \o (IF is_aes_xts(m.encryption_method) THEN <<>> ELSE <<WeakCipher(m.encryption_method)>>)
    \o OfVmks(m)

audit_findings(m, is_to_go) ==
    [i \in DOMAIN audit(m, is_to_go) |-> Finding(audit(m, is_to_go)[i])]

AuditRequest == Request("audit", "", TRUE, <<>>)

ExamInit == /\ image \in Images
            /\ Attempt(AuditRequest)
            /\ phase = "audit" /\ to_go = FALSE /\ findings = <<>> /\ audited = "pending"

AuditHeader_RejectsToGo ==
    /\ phase = "audit" /\ pc = "call"
    /\ IF volume_header.variant \in {"none", "BitLockerToGo"}
       THEN Fail("NotBitLocker", "") /\ UNCHANGED auditVars
       ELSE /\ Go("header")
            /\ UNCHANGED <<copy, meta, kind, vmk, key, auditVars>>

\* audit_reader reads the header for itself, for the variant, and rejects what
\* read_metadata would.
AuditHeader ==
    /\ phase = "audit" /\ pc = "call"
    /\ IF volume_header.variant = "none" THEN Fail("NotBitLocker", "") /\ UNCHANGED auditVars
       ELSE /\ to_go' = (volume_header.variant = "BitLockerToGo")
            /\ Go("header")
            /\ UNCHANGED <<copy, meta, kind, vmk, key, phase, findings, audited>>

\* The read fails, or read_exact finds less than a sector.
AuditHeaderFails ==
    /\ phase = "audit" /\ pc = "call"
    /\ Fail("Io", "") /\ UNCHANGED auditVars

\* read_metadata, for the auditor.
AuditReads ==
    /\ phase = "audit"
    /\ ReadHeader \/ SkipCopy \/ ReadCopy \/ NoCopyLeft \/ ReaderFails
    /\ UNCHANGED auditVars

\* The findings are those of the metadata read, once it has been read whole.
Report ==
    /\ phase = "audit" /\ pc = "gate"
    /\ findings' = audit_findings(meta, to_go)
    /\ audited' = "Ok"
    /\ pc' = "done" /\ result' = [Pending EXCEPT !.tag = "Audited"]
    /\ UNCHANGED <<image, request, copy, meta, kind, vmk, key, phase, to_go>>

\* The examiner goes on to unlock, whatever the audit said.
TryUnlock ==
    /\ phase = "audit" /\ pc = "done"
    /\ phase' = "unlock"
    /\ audited' = IF audited = "Ok" THEN "Ok" ELSE result.tag
    /\ \E r \in Requests : Begin(r)
    /\ UNCHANGED <<image, to_go, findings>>

UnlockStep == phase = "unlock" /\ Step /\ UNCHANGED auditVars

ExamNext == \/ AuditHeader \/ AuditHeaderFails \/ AuditReads \/ Report
            \/ TryUnlock \/ UnlockStep

ExamSpec == ExamInit /\ [][ExamNext]_examVars

-----------------------------------------------------------------------------
Unlocked(tag) == phase = "unlock" /\ result.tag = tag

Published(c) == \E f \in Range(findings) : f.code = c
Listed(t) == \E f \in Range(findings) : /\ f.code = "BDE-PROTECTOR-INVENTORY"
                                        /\ f.evidence = <<"protector_type", Hex4(t)>>

\* The protector types published, and the VMK entries of the first signed copy.
Inventory == {f.evidence[2] : f \in {x \in Range(findings) : x.code = "BDE-PROTECTOR-INVENTORY"}}
FirstVmks == {e \in Range(FirstSigned.entries) : is_vmk(e)}

\* What is published is what the evidence holds: every protector of the first
\* signed copy and nothing else, a clear key exactly if one of them is of that
\* type, and the layout of the header.  A first copy that is cut short and has
\* lost its entries is reported as it is, not made up for from a later one.
FindingsDescribeFirstCopy ==
    audited = "Ok" =>
        /\ SignedCopies # {}
        /\ Inventory = {Hex4(protection_type(e)) : e \in FirstVmks}
        /\ Published("BDE-CLEAR-KEY-PRESENT") <=> \E e \in FirstVmks : protection_type(e) = 0
        /\ Published("BDE-TO-GO") <=> volume_header.variant = "BitLockerToGo"

\* The inventory is what unlocking goes by: unlock reports a missing protector
\* exactly if the audit of the same volume published none of that type.
InventoryMatchesUnlock ==
    phase = "unlock" /\ audited = "Ok" =>
        LET listed == Listed(ProtectorType(request))
        IN  /\ Unlocked("NoUnlockProtector") => ~listed
            /\ pc \in {"unwrap", "vmk", "fvek", "end"} \/ Unlocked("Ok") => listed

\* The grades are borne out by unlocking: a volume that opens without a
\* credential was graded High, and one that opens at all was flagged as weak
\* exactly if its sectors are not decrypted with XTS.  The auditor classifies
\* methods and protectors with tables of its own.
GradesMatchUnlock ==
    audited = "Ok" /\ Unlocked("Ok") =>
        /\ request.call = "clear" => \E f \in Range(findings) : f.severity = "High"
        /\ Published("BDE-WEAK-CIPHER") <=> result.cipher.kind \notin {"Xts128", "Xts256"}

\* Auditing and unlocking read the same evidence: what one of them rejects, the
\* other does not accept, unless a read failed.
SameEvidence ==
    /\ audited \in {"NotBitLocker", "NoValidMetadata"} /\ phase = "unlock" /\ pc = "done"
    => result.tag \in {audited, "Io", "InvalidRecoveryPassword", "MissingKeyMaterial",
                       "MalformedKeyContainer"}

-----------------------------------------------------------------------------
(***************************************************************************)
(* What the repository says of the findings and the code does not do.      *)
(***************************************************************************)
\* forensic/src/lib.rs:104-105, the note of ClearKeyPresent: "the volume can be
\* decrypted with no credential".  A VMK too short to have a protection type
\* reads as type 0, a clear key, but holds none.
ClearKeyUnlocks ==
    /\ Published("BDE-CLEAR-KEY-PRESENT")
    /\ phase = "unlock" /\ request.call = "clear" /\ pc = "done"
    => result.tag \in {"Ok", "Io", "UnsupportedEncryptionMethod", "UnvalidatedEncryptionMethod"}
=============================================================================
