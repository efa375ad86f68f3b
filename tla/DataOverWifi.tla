---------------------------- MODULE DataOverWifi ---------------------------
(***************************************************************************)
(* The whole path of a message: clients (ProbeStuffing), access points     *)
(* (HostapdProbe), the controller as the sink of records (RecordSink), and *)
(* what lies between them: the air, the queue of an access point that is   *)
(* busy in system(), and the scan cache of each client's kernel, from      *)
(* which get_ack reads.                                                    *)
(*                                                                         *)
(* A probe request is heard by some access points and not by others; a     *)
(* response may be lost.  An access point that is busy finds the requests  *)
(* it missed in its socket, in order.  The cache keeps one entry for an    *)
(* access point, the last response received from it, until the kernel      *)
(* drops it; a scan does not flush it.                                     *)
(***************************************************************************)
EXTENDS Integers, Sequences, FiniteSets

CONSTANTS
    Clients, LineLens, UninitLens, FragMax, ScanRetries, AckRetries, MaxMsgs,
    APs, NoData, MaxRelays,
    Stations,     \* hosts that send ordinary probe requests
    FailingAPs,   \* access points where running tcpclient may fail
    CsvRoom,      \* bytes of data that fit the csv of 500, 425 as built
    MaxAir        \* bound: requests waiting at an access point

\* Lines have a greatest length (199 as built).
ASSUME LensAssumption ==
    /\ LineLens \subseteq Nat /\ UninitLens \subseteq Nat
    /\ \E n \in LineLens \cup UninitLens :
          \A m \in LineLens \cup UninitLens : m <= n
ASSUME FragAssumption == FragMax \in Nat \ {0}
ASSUME RetriesAssumption ==
    ScanRetries \in Nat \ {0} /\ AckRetries \in Nat \ {0}
ASSUME BoundsAssumption == MaxMsgs \in Nat /\ MaxRelays \in Nat
ASSUME APsAssumption == IsFiniteSet(APs)
ASSUME FailingAssumption == FailingAPs \subseteq APs
ASSUME CsvAssumption == CsvRoom \in Nat
ASSUME MaxAirAssumption == MaxAir \in Nat \ {0}

VARIABLES
    pc, effort, data_to_stuff, data_origin_ts, len_data_to_stuff,
    len_data_already_stuffed, seq_num, ack_seq_num, scan_retries_left,
    ack_retries_left, frame, sockets, log, attempts, heard, giveups,
    hapd_pc, mgmt, probe_resp_ack_ie, template, relayed, relays, acks_sent,
    responses,
    offered, aplog,
    air,          \* access point -> the requests it has yet to read
    bss           \* client, access point -> ack number in the cached response,
                  \* -1 if it has none

\* The frames of a message are numbered below this.
MaxFrames == (CHOOSE n \in LineLens \cup UninitLens :
                 \A m \in LineLens \cup UninitLens : m <= n) \div FragMax + 1

\* The ack numbers of a dump: of some access points, in some order.
Dumps == UNION {[1 .. k -> 0 .. MaxFrames] : k \in 0 .. Cardinality(APs)}

C == INSTANCE ProbeStuffing

Requests == [sa : Clients \cup Stations, stuffed : C!Frames \cup {NoData}]

H == INSTANCE HostapdProbe WITH Offloading <- {}

RecordOfCut(a, f) ==   \* mutant: the length that is sent is that of the cut data
    [mac |-> f.sa, ts |-> f.ts, ap |-> a, seq |-> f.seq, mfb |-> f.mfb,
     start |-> f.start, data_length |-> C!Least(f.len, CsvRoom),
     kept |-> C!Least(f.len, CsvRoom)]

\* The csv line access point a makes of a frame: snprintf into 500 bytes keeps
\* what fits.  (ap is for ap_timestamp_str, where two access points differ.)
RecordOf(a, f) ==
    [mac |-> f.sa, ts |-> f.ts, ap |-> a, seq |-> f.seq, mfb |-> f.mfb,
     start |-> f.start, data_length |-> f.len, kept |-> C!Least(f.len, CsvRoom)]

Records == [mac : Clients, ts : Nat, ap : APs, seq : Nat, mfb : {0, 1},
            start : Nat, data_length : Nat, kept : Nat]

Row(rec) == rec

Sink == INSTANCE RecordSink

clientVars == <<pc, effort, data_to_stuff, data_origin_ts, len_data_to_stuff,
                len_data_already_stuffed, seq_num, ack_seq_num, scan_retries_left,
                ack_retries_left, frame, sockets, log, attempts, heard, giveups>>
apVars == <<hapd_pc, mgmt, probe_resp_ack_ie, template, relayed, relays,
            acks_sent, responses>>
vars == <<clientVars, apVars, offered, aplog, air, bss>>

Init ==
    /\ C!Init
    /\ H!Init
    /\ Sink!Init
    /\ air = [a \in APs |-> <<>>]
    /\ bss = [c \in Clients |-> [a \in APs |-> -1]]

-----------------------------------------------------------------------------
(* The client's side. *)

\* main() up to the scan, and the return of do_probe_stuffing.
ClientStep(c) ==
    /\ \/ C!Start(c) \/ C!Prompt(c) \/ C!BuildFrame(c) \/ C!EndMessage(c)
       \/ C!ScanFailed(c) \/ C!ScanDone(c)
    /\ UNCHANGED <<apVars, offered, aplog, air, bss>>

\* A request reaches the access points in to, if their queues have room.
Broadcast(r, to) ==
    /\ \A a \in to : Len(air[a]) < MaxAir
    /\ air' = [a \in APs |-> IF a \in to THEN Append(air[a], r) ELSE air[a]]

\* The scan sends the stuffed probe request.
SendStuffed(c, to) ==
    /\ C!TriggerScan(c)
    /\ Broadcast([sa |-> c, stuffed |-> frame[c]], to)
    /\ UNCHANGED <<apVars, offered, aplog, bss>>

\* Any host, a client's included, sends an ordinary probe request.
SendPlain(s, to) ==
    /\ Broadcast([sa |-> s, stuffed |-> NoData], to)
    /\ UNCHANGED <<clientVars, apVars, offered, aplog, bss>>

AckedAll(c) == APs   \* mutant: a response without an ack IE counts as -1

\* NL80211_CMD_GET_SCAN lists the cached entries in the kernel's order; only
\* those with an ack IE matter to get_ack.
Acked(c) == {a \in APs : bss[c][a] # -1}

DumpsOf(c) ==
    {[i \in DOMAIN order |-> bss[c][order[i]]] :
        order \in {o \in [1 .. Cardinality(Acked(c)) -> Acked(c)] :
                      \A i, j \in DOMAIN o : o[i] = o[j] => i = j}}

ReadAcks(c) ==
    /\ \E d \in DumpsOf(c) :
          C!AckAccepted(c, d) \/ \E ok \in BOOLEAN : C!AckMissed(c, d, ok)
    /\ UNCHANGED <<apVars, offered, aplog, air, bss>>

\* The kernel drops an old entry.
ExpireBss(c, a) ==
    /\ bss[c][a] # -1
    /\ bss' = [bss EXCEPT ![c][a] = -1]
    /\ UNCHANGED <<clientVars, apVars, offered, aplog, air>>

-----------------------------------------------------------------------------
(* The access point's side. *)

\* The event loop reads the next request.
Receive(a) ==
    /\ air[a] # <<>>
    /\ LET r == Head(air[a]) IN H!Ignore(a, r) \/ H!Stuffed(a, r) \/ H!Plain(a, r)
    /\ air' = [air EXCEPT ![a] = Tail(@)]
    /\ UNCHANGED <<clientVars, offered, aplog, bss>>

\* tcpclient has written the record, or failed and nobody noticed.
RelayDone(a) ==
    /\ H!RelayDone(a)
    /\ \/ Sink!Offer(RecordOf(a, mgmt[a].stuffed))
       \/ a \in FailingAPs /\ UNCHANGED <<offered, aplog>>
    /\ UNCHANGED <<clientVars, air, bss>>

NoReply(a) ==
    /\ H!NoReply(a)
    /\ UNCHANGED <<clientVars, offered, aplog, air, bss>>

AckNumberNext(a) ==   \* mutant: the AP acknowledges the number it expects next
    IF probe_resp_ack_ie[a] = NoData THEN -1 ELSE probe_resp_ack_ie[a].seq + 1

\* The ack IE as get_ack reads it out of the response: "%d" and atoi.
AckNumber(a) == IF probe_resp_ack_ie[a] = NoData THEN -1 ELSE probe_resp_ack_ie[a].seq

\* A response that is received replaces the cached one, whether or not the
\* client still waits for it: main() may be back at its prompt, since the queue
\* and system() delay an answer without limit and another program's scan ends
\* do_probe_stuffing early, and the host then hears it in a later scan.
Cached(a) ==
    IF mgmt[a].sa \in Clients THEN [bss EXCEPT ![mgmt[a].sa][a] = AckNumber(a)]
    ELSE bss

\* The response is sent and received, or it is not.
Reply(a, sent) ==
    /\ H!Reply(a, sent)
    /\ bss' = IF sent THEN Cached(a) ELSE bss
    /\ UNCHANGED <<clientVars, offered, aplog, air>>

\* The controller saves a record.
Save(rec) ==
    /\ Sink!Insert(rec)
    /\ UNCHANGED <<clientVars, apVars, air, bss>>

-----------------------------------------------------------------------------

Next ==
    \/ \E c \in Clients :
          \/ ClientStep(c)
          \/ \E to \in SUBSET APs : SendStuffed(c, to)
          \/ ReadAcks(c)
          \/ \E a \in APs : ExpireBss(c, a)
    \/ \E s \in Stations, to \in SUBSET APs \ {{}} : SendPlain(s, to)
    \/ \E a \in APs :
          \/ Receive(a)
          \/ RelayDone(a)
          \/ NoReply(a)
          \/ \E sent \in BOOLEAN : Reply(a, sent)
    \/ \E rec \in offered : Save(rec)

Spec == Init /\ [][Next]_vars

-----------------------------------------------------------------------------
(* Properties. *)

\* The records an access point was given to relay, and did relay.
RelayedSeqs == {f.seq : f \in UNION {relayed[a] : a \in APs}}

\* An ack number a client hears is the number of some frame that an access
\* point has taken through system(): of which client and which message the
\* number does not say.  (beacon.c:811-837, utils.c:167.)
AckHasSource ==
    \A c \in Clients :
        /\ heard[c] \subseteq RelayedSeqs
        /\ \A a \in APs : bss[c][a] # -1 => bss[c][a] \in RelayedSeqs

\* The rows of a message fit together, whatever was retried, reordered or heard
\* twice: each is a slice that starts where its number says; a row that another
\* one follows is full and says mfb = 1, and so is every row that says mfb = 1;
\* no two rows overlap; and of the message that the client is sending exactly
\* the row that reaches its end says mfb = 0.  A reader of the table can thus
\* tell which rows are missing and when it has them all.  (main.c:136-160,
\* beacon.c:811-849, controller.cpp:104-145.)
RowsFitTogether ==
    /\ \A r \in aplog :
          /\ r.ts <= data_origin_ts[r.mac]
          /\ r.start = r.seq * FragMax
          /\ r.data_length \in 1 .. FragMax
          /\ r.mfb = 1 => r.data_length = FragMax
          /\ r.ts = data_origin_ts[r.mac] =>
                (r.mfb = 0 <=> r.start + r.data_length = len_data_to_stuff[r.mac])
    /\ \A r1, r2 \in aplog :
          (r1.mac = r2.mac /\ r1.ts = r2.ts) =>
              /\ r1.seq = r2.seq => r1 = r2
              /\ r1.seq < r2.seq =>
                    /\ r1.mfb = 1 /\ r1.data_length = FragMax
                    /\ r1.start + r1.data_length <= r2.start

\* "Guaranteed delivery" (main.c:21, README.md): when a client with effort 2
\* moves on, every frame it left behind was given to the controller.
GuaranteedDelivery ==
    \A c \in Clients :
        (effort[c] = 2 /\ pc[c] \in {"build", "send", "scanning", "dump"}) =>
            \A k \in 0 .. seq_num[c] - 1 :
                \E r \in offered :
                    r.mac = c /\ r.ts = data_origin_ts[c] /\ r.seq = k

\* Within the system the client meets only what ProbeStuffing expects of its
\* environment, so what is proved of the client holds of it here.
ClientRefined == C!Spec
=============================================================================
