----------------------------- MODULE RecordSink ----------------------------
(***************************************************************************)
(* What the controller promises, seen from its clients and its database:   *)
(* records are offered to it; some of them become rows of table aplog; a   *)
(* row is made of a record that was offered; no two rows                   *)
(* have the same primary key, so a record that is offered again (a retried *)
(* frame, a frame heard by two access points) leaves the first row alone.  *)
(* It does not promise that an offered record is ever stored.              *)
(***************************************************************************)
EXTENDS Integers

CONSTANTS
    Records,      \* [mac, ts, seq, ...], what tcpclient is given to send
    Row(_)        \* what the INSERT makes of a record; the key stays the same

VARIABLES
    offered,      \* the records written to the controller
    aplog         \* the rows of the table

sinkVars == <<offered, aplog>>

\* PRIMARY KEY(client_mac_addr, data_cli_utc_timestamp, frame_seq_number,
\* ie_index); ie_index is 1 in everything the access points send.
Key(rec) == <<rec.mac, rec.ts, rec.seq>>

Init == offered = {} /\ aplog = {}

Offer(rec) ==
    /\ offered' = offered \cup {rec}
    /\ UNCHANGED aplog

\* The INSERT, which sqlite refuses if the key is taken.
Insert(rec) ==
    /\ rec \in offered
    /\ \A row \in aplog : Key(row) # Key(rec)
    /\ aplog' = aplog \cup {Row(rec)}
    /\ UNCHANGED offered

Next == \E rec \in Records : Offer(rec) \/ Insert(rec)

Spec == Init /\ [][Next]_sinkVars

\* One row per key.
UniqueKeys == \A r1, r2 \in aplog : Key(r1) = Key(r2) => r1 = r2

\* Every row is made of an offered record.
NoInvention == aplog \subseteq {Row(rec) : rec \in offered}
=============================================================================
