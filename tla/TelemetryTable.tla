--------------------------- MODULE TelemetryTable ---------------------------
(***************************************************************************)
(* What the telemetry repository promises about the rows it stores, with   *)
(* no batches, files or merges: one table that queries read while the      *)
(* store serves.  Each element of Raw is the rows of one commit.  Merging, *)
(* deletion and recovery of a merge are not steps of this specification;   *)
(* only commits, retention and restarts change what a query reads.         *)
(***************************************************************************)
EXTENDS Naturals

CONSTANT Raw    \* commits

VARIABLES
    serving,    \* the store answers queries
    copies,     \* how many times a query would read each commit's rows
    acked,      \* commits reported successful
    expiring,   \* rows retention has chosen
    hidden      \* rows retention has removed

tableVars == <<serving, copies, acked, expiring, hidden>>

NoRows == [r \in Raw |-> 0]

TableInit ==
    /\ serving = FALSE
    /\ copies = NoRows
    /\ acked = {} /\ expiring = {} /\ hidden = {}

\* Rows become readable once, all together.
Publish(r) ==
    /\ serving
    /\ copies[r] = 0
    /\ r \notin hidden
    /\ copies' = [copies EXCEPT ![r] = 1]
    /\ UNCHANGED <<serving, acked, expiring, hidden>>

\* Success is reported only for rows that can be read, or that were removed
\* by retention since.
Acknowledge(r) ==
    /\ serving
    /\ copies[r] = 1 \/ r \in hidden
    /\ acked' = acked \cup {r}
    /\ UNCHANGED <<serving, copies, expiring, hidden>>

Choose(S) ==
    /\ serving
    /\ \A r \in S : copies[r] = 1
    /\ expiring' = expiring \cup S
    /\ UNCHANGED <<serving, copies, acked, hidden>>

Expire(S) ==
    /\ serving
    /\ S \subseteq expiring
    /\ copies' = [r \in Raw |-> IF r \in S THEN 0 ELSE copies[r]]
    /\ hidden' = hidden \cup S
    /\ UNCHANGED <<serving, acked, expiring>>

Stop ==
    /\ serving' = FALSE
    /\ copies' = NoRows
    /\ UNCHANGED <<acked, expiring, hidden>>

\* A restart keeps every acknowledged row retention has not chosen, brings
\* back nothing it removed, and may keep rows whose commit was in doubt.
Restart ==
    /\ ~serving
    /\ serving' = TRUE
    /\ \E kept \in SUBSET (Raw \ hidden) :
          /\ acked \ expiring \subseteq kept
          /\ copies' = [r \in Raw |-> IF r \in kept THEN 1 ELSE 0]
    /\ UNCHANGED <<acked, expiring, hidden>>

TableNext ==
    \/ \E r \in Raw : Publish(r) \/ Acknowledge(r)
    \/ \E S \in SUBSET Raw : Choose(S) \/ Expire(S)
    \/ Stop \/ Restart

TableSpec == TableInit /\ [][TableNext]_tableVars

=============================================================================
