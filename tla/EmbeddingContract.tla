------------------------- MODULE EmbeddingContract -------------------------
(***************************************************************************)
(* What the embedding pipeline promises, without leases, claims, retries   *)
(* or reads that grow old: memories come and go, one model revision is     *)
(* active at a time, and a job is either open, settled or absent.          *)
(*                                                                         *)
(*  - Vectors are stored only by settling an open job, of a memory that is *)
(*    eligible and under the revision that is active at that moment.       *)
(*  - A job is settled without vectors only when its memory is gone or its *)
(*    revision is not the active one.                                      *)
(*  - A settled job is never opened again; a dead letter may be.           *)
(*  - The vectors of a memory go with the memory, or with their revision   *)
(*    when it is inactive and every eligible memory has newer ones.        *)
(***************************************************************************)
EXTENDS Naturals

CONSTANTS Memories, Revisions

VARIABLES
    eligible,   \* the memories that may be embedded
    active,     \* the active revision, 0 for none
    job,        \* "none", "open", "settled" or "dead", of each job
    embedded    \* the jobs whose vectors are stored

contractVars == <<eligible, active, job, embedded>>

ContractJobs == Memories \X Revisions
OfMemory(m) == {j \in ContractJobs : j[1] = m}

ContractInit ==
    /\ eligible = {} /\ active = 0 /\ embedded = {}
    /\ job = [j \in ContractJobs |-> "none"]

\* A memory enters, with a job under the active revision, or becomes
\* eligible later and has its dead letters opened again.
Enter(m) ==
    /\ m \notin eligible
    /\ eligible' \in {eligible, eligible \cup {m}}
    /\ job' \in {[j \in ContractJobs |-> IF j \in S THEN "open" ELSE job[j]] :
                    S \in SUBSET {j \in OfMemory(m) : job[j] \in {"none", "dead"}}}
    /\ UNCHANGED <<active, embedded>>

\* A memory is erased with its jobs and vectors.
Leave(m) ==
    /\ eligible' = eligible \ {m}
    /\ job' = [j \in ContractJobs |-> IF j[1] = m THEN "none" ELSE job[j]]
    /\ embedded' = embedded \ OfMemory(m)
    /\ UNCHANGED active

Switch ==
    /\ active' \in Revisions \cup {0}
    /\ UNCHANGED <<eligible, job, embedded>>

\* A re-embedding pass opens jobs of eligible memories.
Reembed ==
    /\ job' \in {[j \in ContractJobs |-> IF j \in S THEN "open" ELSE job[j]] :
                    S \in SUBSET {j \in ContractJobs : /\ job[j] = "none" /\ j[2] = active
                                                       /\ j[1] \in eligible}}
    /\ UNCHANGED <<eligible, active, embedded>>

SettleWithVectors(j) ==
    /\ job[j] = "open" /\ j[1] \in eligible /\ j[2] = active
    /\ job' = [job EXCEPT ![j] = "settled"]
    /\ embedded' = embedded \cup {j}
    /\ UNCHANGED <<eligible, active>>

SettleEmpty(j) ==
    /\ job[j] = "open" /\ (j[1] \notin eligible \/ j[2] # active)
    /\ job' = [job EXCEPT ![j] = "settled"]
    /\ UNCHANGED <<eligible, active, embedded>>

GiveUp(j) ==
    /\ job[j] = "open"
    /\ job' = [job EXCEPT ![j] = "dead"]
    /\ UNCHANGED <<eligible, active, embedded>>

Drop(r) ==
    /\ r # active
    /\ \A m \in eligible : <<m, active>> \in embedded
    /\ embedded' = {j \in embedded : j[2] # r}
    /\ UNCHANGED <<eligible, active, job>>

ContractNext ==
    \/ Switch
    \/ \E j \in ContractJobs : SettleWithVectors(j) \/ SettleEmpty(j) \/ GiveUp(j)
    \/ \E r \in Revisions : Drop(r)
    \/ \E m \in Memories : Enter(m) \/ Leave(m)
    \/ Reembed

ContractSpec == ContractInit /\ [][ContractNext]_contractVars

=============================================================================
