--------------------------- MODULE SavingsOutbox ---------------------------
(***************************************************************************)
(* What the savings path promises, with no worker, handler, lease or timer *)
(* in sight (the header comments of durable-task-queue.ts and of           *)
(* persistConfirmedSavings): an entry is accepted durably before anything  *)
(* else happens to it; an accepted entry is written to the ledger at most  *)
(* once (rewriting the same row changes nothing) and is never forgotten;   *)
(* it leaves the retry loop only by being written, or as a dead letter     *)
(* that stays inspectable.                                                 *)
(***************************************************************************)
CONSTANT Entries

VARIABLES
    accepted,   \* entries with a durable record
    written,    \* entries that have their row in the ledger
    retired,    \* entries the retry loop is done with because they are saved
    dead        \* entries given up on, kept for diagnostics

vars == <<accepted, written, retired, dead>>

Init == accepted = {} /\ written = {} /\ retired = {} /\ dead = {}

Accept(e) ==
    /\ e \notin accepted
    /\ accepted' = accepted \cup {e}
    /\ UNCHANGED <<written, retired, dead>>

Write(e) ==
    /\ e \in accepted
    /\ written' = written \cup {e}
    /\ UNCHANGED <<accepted, retired, dead>>

Retire(e) ==
    /\ e \in written
    /\ retired' = retired \cup {e}
    /\ dead' = dead \ {e}
    /\ UNCHANGED <<accepted, written>>

GiveUp(e) ==
    /\ e \in accepted
    /\ dead' = dead \cup {e}
    /\ retired' = retired \ {e}
    /\ UNCHANGED <<accepted, written>>

Next == \E e \in Entries : Accept(e) \/ Write(e) \/ Retire(e) \/ GiveUp(e)

Spec == Init /\ [][Next]_vars
=============================================================================
