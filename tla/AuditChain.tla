----------------------------- MODULE AuditChain -----------------------------
(***************************************************************************)
(* The hash chain of InMemoryAuditStore (python/governance/audit.py), and  *)
(* what verify_integrity can say of a copy of it.  An event stands for all *)
(* fields of a record that are not links of the chain.  The digest is      *)
(* taken to have no collisions: it is the payload itself, so that a hash   *)
(* is a triple and GENESIS, which is no hash, the empty tuple.             *)
(***************************************************************************)
EXTENDS Naturals, Sequences

CONSTANTS
    ChainEvents,    \* events whose fields pass the checks of append
    MaxRecords,     \* bound: records in the store
    MaxAlterations  \* bound: alterations of the copy

ASSUME ChainAssumption == {MaxRecords, MaxAlterations} \subseteq Nat

VARIABLES
    records,        \* _records
    copy,           \* a copy that was exported with snapshot
    alterations     \* alterations of the copy so far

chainVars == <<records, copy, alterations>>

GENESIS == <<>>

Link(event, sequence, previous, hash) ==
    [event |-> event, sequence |-> sequence, previous |-> previous, hash |-> hash]

\* The hash of _record_payload.
Digest(record) == <<record.event, record.sequence, record.previous>>

LinkTypeOK(record) ==
    /\ record.event \in ChainEvents
    /\ record.sequence \in 1 .. MaxRecords
    /\ Len(record.previous) \in {0, 3} /\ Len(record.hash) = 3

ChainTypeOK ==
    /\ \A i \in DOMAIN records : LinkTypeOK(records[i])
    /\ \A i \in DOMAIN copy : LinkTypeOK(copy[i])
    /\ alterations \in 0 .. MaxAlterations

ChainInit == records = <<>> /\ copy = <<>> /\ alterations = 0

\* Mutant: the draft is stored in place of the record with its hash.
AppendDraft(event) ==
    /\ Len(records) < MaxRecords
    /\ records' = Append(records,
           Link(event, Len(records) + 1,
                IF records = <<>> THEN GENESIS ELSE records[Len(records)].hash, GENESIS))
    /\ UNCHANGED <<copy, alterations>>

\* append, when no check raises.
AppendRecord(event) ==
    /\ Len(records) < MaxRecords
    /\ LET sequence == Len(records) + 1
           previous == IF records = <<>> THEN GENESIS ELSE records[Len(records)].hash
           draft == Link(event, sequence, previous, GENESIS)
       IN  records' = Append(records, [draft EXCEPT !.hash = Digest(draft)])
    /\ UNCHANGED <<copy, alterations>>

\* snapshot.
Export ==
    /\ copy' = records
    /\ alterations' = 0
    /\ UNCHANGED records

\* Mutant: the links between the records are not followed.
IntactUnlinked(candidate) ==
    \A i \in DOMAIN candidate :
        /\ candidate[i].sequence = i
        /\ candidate[i].hash = Digest(candidate[i])

\* verify_integrity.
Intact(candidate) ==
    \A i \in DOMAIN candidate :
        /\ candidate[i].sequence = i
        /\ candidate[i].previous = IF i = 1 THEN GENESIS ELSE candidate[i - 1].hash
        /\ candidate[i].hash = Digest(candidate[i])

-----------------------------------------------------------------------------
(* What may become of a copy outside the store, which the code has no say  *)
(* in: records are edited with and without new hashes, lost, and reordered. *)

Without(s, i) == SubSeq(s, 1, i - 1) \o SubSeq(s, i + 1, Len(s))

Alter ==
    /\ alterations < MaxAlterations
    /\ alterations' = alterations + 1
    /\ UNCHANGED records
    /\ \E i \in DOMAIN copy :
        \/ \E event \in ChainEvents : copy' = [copy EXCEPT ![i].event = event]
        \/ \E previous \in {copy[j].hash : j \in DOMAIN copy} \cup {GENESIS} :
               copy' = [copy EXCEPT ![i].previous = previous]
        \/ \E sequence \in DOMAIN copy : copy' = [copy EXCEPT ![i].sequence = sequence]
        \/ copy' = [copy EXCEPT ![i].hash = Digest(copy[i])]
        \/ copy' = Without(copy, i)
        \/ \E j \in DOMAIN copy : copy' = [copy EXCEPT ![i] = copy[j], ![j] = copy[i]]

ChainNext ==
    \/ \E event \in ChainEvents : AppendRecord(event)
    \/ Export
    \/ Alter

ChainSpec == ChainInit /\ [][ChainNext]_chainVars

\* The store's chain is intact at all times, and a copy that verify_integrity
\* accepts and that ends with the hash of one of the store's records holds
\* everything up to that record, unchanged and in order, whatever was done to it
\* and its hashes: to keep the last hash is to keep the evidence.
ChainsWithOneEndAgree ==
    /\ Intact(records)
    /\ Intact(copy) /\ copy # <<>> =>
           \A n \in DOMAIN records :
               copy[Len(copy)].hash = records[n].hash => copy = SubSeq(records, 1, n)
=============================================================================
