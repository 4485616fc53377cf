------------------------ MODULE SharedMemorySegment ------------------------
(***************************************************************************)
(* SharedMemorySegment (python/governance/delegation.py): memory that the  *)
(* agents of one workflow share, gated by the phases of the segment and by *)
(* those of each entry.  The gates are outside the lock, and they look at  *)
(* the entry they were given or found, which cannot change; so a call is   *)
(* one action, at its access to the dictionary.                            *)
(***************************************************************************)
EXTENDS Naturals

CONSTANTS
    Workflows,      \* correlation ids
    Workflow,       \* the segment's own
    MemoryKeys,
    MemoryValues,
    WorkflowPhases,
    WritePhases, ReadPhases,    \* of the segment
    NoEntry

Entry == [value : MemoryValues, written : WorkflowPhases, readable : SUBSET WorkflowPhases]

ASSUME SegmentAssumption ==
    /\ Workflow \in Workflows
    /\ WritePhases \cup ReadPhases \subseteq WorkflowPhases
    /\ NoEntry \notin Entry

VARIABLES
    entries,
    owners,     \* history: the workflow that wrote each entry
    delivered   \* history: the last entry read, by which workflow and in which phase

memoryVars == <<entries, owners, delivered>>

MemoryTypeOK ==
    /\ entries \in [MemoryKeys -> Entry \cup {NoEntry}]
    /\ owners \in [MemoryKeys -> Workflows]
    /\ delivered \subseteq [entry : Entry, owner : Workflows,
                            reader : Workflows, phase : WorkflowPhases]

MemoryInit ==
    /\ entries = [k \in MemoryKeys |-> NoEntry]
    /\ owners = [k \in MemoryKeys |-> Workflow]
    /\ delivered = {}

\* write, when it does not raise; it replaces whatever the key held.
Write(key, entry, phase, workflow) ==
    /\ workflow = Workflow
    /\ phase \in WritePhases
    /\ entry.written = phase
    /\ entries' = [entries EXCEPT ![key] = entry]
    /\ owners' = [owners EXCEPT ![key] = workflow]
    /\ UNCHANGED delivered

\* Mutant: the segment's gate is thought to be enough.
ReadableInSegment(entry, phase) == phase \in ReadPhases

Readable(entry, phase) == phase \in ReadPhases /\ phase \in entry.readable

\* read, when it finds an entry and does not raise.
Read(key, phase, workflow) ==
    /\ workflow = Workflow
    /\ entries[key] # NoEntry
    /\ Readable(entries[key], phase)
    /\ delivered' = {[entry |-> entries[key], owner |-> owners[key],
                      reader |-> workflow, phase |-> phase]}
    /\ UNCHANGED <<entries, owners>>

MemoryNext ==
    \E key \in MemoryKeys, phase \in WorkflowPhases, workflow \in Workflows :
        \/ \E entry \in Entry : Write(key, entry, phase, workflow)
        \/ Read(key, phase, workflow)

MemorySpec == MemoryInit /\ [][MemoryNext]_memoryVars

\* "Segment rules control phases that may read and write; entry rules can be
\* narrower" (docs/CHAPTER-6.md): whatever is overwritten in between, a reader
\* gets only what its own workflow wrote in a phase that may write, for the
\* phase in which it is read.
PhaseGated ==
    \A d \in delivered :
        /\ d.reader = d.owner
        /\ d.entry.written \in WritePhases
        /\ d.phase \in ReadPhases \cap d.entry.readable
=============================================================================
