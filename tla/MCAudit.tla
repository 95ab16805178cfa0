------------------------------ MODULE MCAudit ------------------------------
(* The volumes and calls of MCUnlock, audited first. *)
EXTENDS Audit, MCUnlock

\* A volume without a clear key, whose password VMK is too short for its type.
MCShortVmk ==
    {Same(Holding(32770, [Whole EXCEPT
        ![3] = Entry(ENTRY_TYPE_VMK, VALUE_TYPE_VMK, 20, PROTECTION_PASSWORD, <<>>, <<>>),
        ![5] = Other]))}
=============================================================================
