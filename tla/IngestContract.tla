---------------------------- MODULE IngestContract ----------------------------
(***************************************************************************)
(* What remote-write ingestion promises, without caches, locks, lookups,   *)
(* processes or failures: series get registered, rows may be stored only   *)
(* when their series are (or become) registered, and a batch may be        *)
(* acknowledged only when everything it carries is stored. Nothing         *)
(* registered or stored is taken back. RemoteWrite implements this         *)
(* specification in both schema layouts, where in the PostHog layout only  *)
(* sample rows refer to series.                                            *)
(***************************************************************************)
CONSTANTS
    Keys,         \* what a series is identified by: <<team, id>>
    Requests,
    RowTables     \* the tables rows are stored in

VARIABLES
    carries,      \* the tables each request has rows for
    rowKeys,      \* the keys that a request's rows of a table refer to
    registered,   \* the keys that have a series row
    data,         \* pairs <<request, table>> whose rows are stored
    acked         \* requests whose client holds an acknowledgement

cvars == <<carries, rowKeys, registered, data, acked>>

Init ==
    /\ carries \in [Requests -> SUBSET RowTables]
    /\ rowKeys \in [Requests -> [RowTables -> SUBSET Keys]]
    /\ registered = {}
    /\ data = {}
    /\ acked = {}

Grow == registered \subseteq registered' /\ registered' \subseteq Keys

(* Some series become registered.                                           *)
Register ==
    /\ Grow
    /\ UNCHANGED <<carries, rowKeys, data, acked>>

(* The rows of one table become visible, never before their series. The     *)
(* last table may bring the acknowledgement with it.                       *)
Store(r, t) ==
    /\ Grow
    /\ rowKeys[r][t] \subseteq registered'
    /\ data' = data \cup {<<r, t>>}
    /\ \/ acked' = acked
       \/ /\ \A u \in carries[r] : <<r, u>> \in data'
          /\ acked' = acked \cup {r}
    /\ UNCHANGED <<carries, rowKeys>>

(* The acknowledgement: only of a batch that is stored completely.          *)
Ack(r) ==
    /\ \A t \in carries[r] : <<r, t>> \in data
    /\ acked' = acked \cup {r}
    /\ UNCHANGED <<carries, rowKeys, registered, data>>

(* The acknowledgement is lost on its way to the client.                    *)
Lose(r) ==
    /\ acked' = acked \ {r}
    /\ UNCHANGED <<carries, rowKeys, registered, data>>

Next ==
    \/ Register
    \/ \E r \in Requests : \/ Ack(r)
                           \/ Lose(r)
                           \/ \E t \in RowTables : Store(r, t)

Spec == Init /\ [][Next]_cvars
=============================================================================
