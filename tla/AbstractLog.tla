---------------------------- MODULE AbstractLog ----------------------------
(***************************************************************************)
(* What the log promises to its callers, the record log of a node to its   *)
(* clients (internal/server, interface CommitLog) and raft's own log to    *)
(* raft (raft.LogStore): a window of records with consecutive offsets.     *)
(* Append puts a record at the next offset, Truncate drops records from    *)
(* the old end and spares the newest ones; where it may spare none, a log  *)
(* that it emptied starts at the first offset again.  Nothing else changes *)
(* the window: not a roll to a new segment, not a read, not a restart.     *)
(***************************************************************************)
EXTENDS Naturals

CONSTANTS
    Records,        \* the record values
    InitialOffset,  \* a natural number, the offset of the first append
    TrailingLogs    \* a natural number of newest records that Drop spares

VARIABLES
    records,  \* offset -> record
    next      \* the offset of the next append

vars == <<records, next>>

Init == records = <<>> /\ next = InitialOffset

Append(r) ==
    /\ records' = [off \in DOMAIN records \cup {next} |->
                      IF off = next THEN r ELSE records[off]]
    /\ next' = next + 1

(* first is the lowest offset that is left.                                *)
Drop(first) ==
    /\ first + TrailingLogs <= next
    /\ records' = [off \in {o \in DOMAIN records : first <= o} |-> records[off]]
    /\ UNCHANGED next

(* No file is left that says where the log was.                            *)
Forget ==
    /\ TrailingLogs = 0
    /\ records' = <<>> /\ next' = InitialOffset

Next ==
    \/ \E r \in Records : Append(r)
    \/ \E first \in 0 .. next : Drop(first)
    \/ Forget

Spec == Init /\ [][Next]_vars

TypeOK ==
    /\ next \in Nat
    /\ DOMAIN records \subseteq Nat
    /\ \A off \in DOMAIN records : records[off] \in Records

(* The offsets are consecutive and end just below the next one, so a       *)
(* reader that walks up from the lowest offset misses no record.           *)
Contiguous ==
    \A off \in DOMAIN records : off < next /\ off .. next - 1 \subseteq DOMAIN records
=============================================================================
