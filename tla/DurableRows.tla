------------------------------ MODULE DurableRows ------------------------------
(***************************************************************************)
(* What an operator may rely on of the database.  The rows change by a     *)
(* transaction, or all at once by a restore, which only replaces rows that *)
(* were kept beforehand.  A crash changes nothing.                         *)
(***************************************************************************)
EXTENDS Naturals

CONSTANTS
    Contents,  \* rows of the current schema
    Others     \* no database, or one of another schema

VARIABLES
    rows,     \* what the next command reads
    kept,     \* the contents that pre-restore snapshots hold
    restores  \* how many times the database was replaced

rvars == <<rows, kept, restores>>

Init == rows \in Contents \cup Others /\ kept = {} /\ restores = 0

\* A transaction, or the initialization of an empty database.
Write ==
    /\ rows' \in Contents
    /\ UNCHANGED <<kept, restores>>

Keep ==
    /\ kept' = kept \cup {rows}
    /\ UNCHANGED <<rows, restores>>

Restore ==
    /\ rows \in kept
    /\ rows' \in Contents
    /\ restores' = restores + 1
    /\ UNCHANGED kept

Next == Write \/ Keep \/ Restore

Spec == Init /\ [][Next]_rvars

===============================================================================
