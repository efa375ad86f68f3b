---------------------------- MODULE HostapdProbe ---------------------------
(***************************************************************************)
(* The access point: handle_probe_req of hostapd's beacon.c as changed for *)
(* probe stuffing.  A stuffed probe request leaves an ack IE in            *)
(* hapd->conf, is handed to the controller by running tcpclient and        *)
(* waiting for it, and is answered, like any other probe request, unless   *)
(* one of hostapd's reasons for silence applies.  hostapd_gen_probe_resp   *)
(* puts the pending ack IE into the next response it builds, whoever that  *)
(* response is for.                                                        *)
(*                                                                         *)
(* hostapd runs one event loop, so an access point handles one request at  *)
(* a time; the three places where others can act in between are the start  *)
(* of the handler, system() and the answer.                                *)
(***************************************************************************)
EXTENDS Integers, FiniteSets

CONSTANTS
    APs,          \* the access points
    Offloading,   \* those whose driver answers probe requests by itself,
                  \* from a template (WPA_DRIVER_FLAGS_PROBE_RESP_OFFLOAD)
    Requests,     \* probe requests [sa, stuffed]: the sender and its stuffed
                  \* frame, or NoData for an ordinary probe request
    NoData,
    MaxRelays     \* bound: stuffed requests an access point accepts

ASSUME OffloadingAssumption == Offloading \subseteq APs
ASSUME MaxRelaysAssumption == MaxRelays \in Nat

VARIABLES
    hapd_pc,            \* "idle", "relay" (in system()) or "answer"
    mgmt,               \* the request being handled
    probe_resp_ack_ie,  \* hapd->conf->probe_resp_ack_ie: NoData or the frame
                        \* whose number it holds
    template,           \* the ack IE in the driver's response template
    relayed,            \* history: frames whose system() has returned
    relays,             \* history: ack IEs created
    acks_sent,          \* history: responses hostapd put an ack IE into
    responses           \* history: [da, ack] of the responses with an ack IE

vars == <<hapd_pc, mgmt, probe_resp_ack_ie, template, relayed, relays,
          acks_sent, responses>>

Init ==
    /\ hapd_pc = [a \in APs |-> "idle"]
    /\ mgmt = [a \in APs |-> NoData]
    /\ probe_resp_ack_ie = [a \in APs |-> NoData]
    /\ template = [a \in APs |-> NoData]
    /\ relayed = [a \in APs |-> {}]
    /\ relays = [a \in APs |-> 0]
    /\ acks_sent = [a \in APs |-> 0]
    /\ responses = [a \in APs |-> {}]

\* Too short a frame, a probereq_cb that takes it, send_probe_response off, or
\* elements that do not parse: the request is gone and nothing has changed.
Ignore(a, r) ==
    /\ hapd_pc[a] = "idle"
    /\ r \in Requests
    /\ UNCHANGED vars

StuffedNoCopy(a, r) ==   \* mutant: works on the previous request
    /\ hapd_pc[a] = "idle"
    /\ r.stuffed # NoData
    /\ relays[a] < MaxRelays
    /\ probe_resp_ack_ie' = [probe_resp_ack_ie EXCEPT ![a] = r.stuffed]
    /\ relays' = [relays EXCEPT ![a] = @ + 1]
    /\ hapd_pc' = [hapd_pc EXCEPT ![a] = "relay"]
    /\ UNCHANGED <<mgmt, template, relayed, acks_sent, responses>>

\* A request with stuffed IEs (n_stuffed_ies > 0): the ack IE replaces any
\* that is still pending, and system() runs tcpclient.
Stuffed(a, r) ==
    /\ hapd_pc[a] = "idle"
    /\ r.stuffed # NoData
    /\ relays[a] < MaxRelays
    /\ mgmt' = [mgmt EXCEPT ![a] = r]
    /\ probe_resp_ack_ie' = [probe_resp_ack_ie EXCEPT ![a] = r.stuffed]
    /\ relays' = [relays EXCEPT ![a] = @ + 1]
    /\ hapd_pc' = [hapd_pc EXCEPT ![a] = "relay"]
    /\ UNCHANGED <<template, relayed, acks_sent, responses>>

\* A request without: on to the answer.
Plain(a, r) ==
    /\ hapd_pc[a] = "idle"
    /\ r.stuffed = NoData
    /\ mgmt' = [mgmt EXCEPT ![a] = r]
    /\ hapd_pc' = [hapd_pc EXCEPT ![a] = "answer"]
    /\ UNCHANGED <<probe_resp_ack_ie, template, relayed, relays,
                   acks_sent, responses>>

\* system() returns.  tcpclient tries to connect for ever, so it does not while
\* the controller is down; whether it wrote the record, its exit status, is
\* not looked at.
RelayDone(a) ==
    /\ hapd_pc[a] = "relay"
    /\ relayed' = [relayed EXCEPT ![a] = @ \cup {mgmt[a].stuffed}]
    /\ hapd_pc' = [hapd_pc EXCEPT ![a] = "answer"]
    /\ UNCHANGED <<mgmt, probe_resp_ack_ie, template, relays, acks_sent,
                   responses>>

\* One of the returns between the relay and the response: no SSID or rates,
\* another channel or SSID, the station was seen elsewhere, no room for a
\* station, no memory.  The ack IE stays pending.
NoReply(a) ==
    /\ hapd_pc[a] = "answer"
    /\ hapd_pc' = [hapd_pc EXCEPT ![a] = "idle"]
    /\ UNCHANGED <<mgmt, probe_resp_ack_ie, template, relayed, relays,
                   acks_sent, responses>>

TakeAckKeeps(a) ==   \* mutant: the pointer is not cleared
    UNCHANGED probe_resp_ack_ie

\* The end of hostapd_gen_probe_resp: the pending ack IE goes into this
\* response and is freed.
TakeAck(a) == probe_resp_ack_ie' = [probe_resp_ack_ie EXCEPT ![a] = NoData]

\* The response to the request in hand; sent says whether the driver took it.
Reply(a, sent) ==
    /\ hapd_pc[a] = "answer"
    /\ TakeAck(a)
    /\ acks_sent' = [acks_sent EXCEPT ![a] =
          IF probe_resp_ack_ie[a] # NoData THEN @ + 1 ELSE @]
    /\ responses' = [responses EXCEPT ![a] =
          IF sent /\ probe_resp_ack_ie[a] # NoData
          THEN @ \cup {[da |-> mgmt[a].sa, ack |-> probe_resp_ack_ie[a]]} ELSE @]
    /\ hapd_pc' = [hapd_pc EXCEPT ![a] = "idle"]
    /\ UNCHANGED <<mgmt, template, relayed, relays>>

BuildTemplateAnyTime(a) ==   \* mutant: not in the event loop's thread
    /\ a \in Offloading
    /\ template' = [template EXCEPT ![a] = probe_resp_ack_ie[a]]
    /\ TakeAck(a)
    /\ UNCHANGED <<hapd_pc, mgmt, relayed, relays, acks_sent, responses>>

\* ieee802_11_build_ap_params builds the driver's template with the same
\* function, so a pending ack IE ends up in the template.
BuildTemplate(a) ==
    /\ a \in Offloading
    /\ hapd_pc[a] = "idle"
    /\ template' = [template EXCEPT ![a] = probe_resp_ack_ie[a]]
    /\ TakeAck(a)
    /\ UNCHANGED <<hapd_pc, mgmt, relayed, relays, acks_sent, responses>>

\* An offloading driver answers from its template at any time.
DriverReply(a, sa) ==
    /\ a \in Offloading
    /\ template[a] # NoData
    /\ responses' = [responses EXCEPT ![a] =
          @ \cup {[da |-> sa, ack |-> template[a]]}]
    /\ UNCHANGED <<hapd_pc, mgmt, probe_resp_ack_ie, template, relayed, relays,
                   acks_sent>>

Receive(a) == \E r \in Requests : Ignore(a, r) \/ Stuffed(a, r) \/ Plain(a, r)

Answer(a) == NoReply(a) \/ \E sent \in BOOLEAN : Reply(a, sent)

Next ==
    \E a \in APs :
        \/ Receive(a)
        \/ RelayDone(a)
        \/ Answer(a)
        \/ BuildTemplate(a)
        \/ \E r \in Requests : DriverReply(a, r.sa)

Spec == Init /\ [][Next]_vars

-----------------------------------------------------------------------------
(* Properties. *)

Data == {r.stuffed : r \in Requests} \ {NoData}
Acks == [da : {r.sa : r \in Requests}, ack : Data]

\* The variables have their types, and a request is in hand whenever the
\* handler is past its first returns.
TypeOK ==
    /\ hapd_pc \in [APs -> {"idle", "relay", "answer"}]
    /\ mgmt \in [APs -> Requests \cup {NoData}]
    /\ \A a \in APs : hapd_pc[a] # "idle" => mgmt[a] \in Requests
    /\ probe_resp_ack_ie \in [APs -> Data \cup {NoData}]
    /\ template \in [APs -> Data \cup {NoData}]
    /\ relayed \in [APs -> SUBSET Data]
    /\ relays \in [APs -> 0 .. MaxRelays]
    /\ acks_sent \in [APs -> Nat]
    /\ responses \in [APs -> SUBSET Acks]

\* An acknowledgement, in a response, in the driver's template or still
\* pending, is for a frame tcpclient is done with: the AP acknowledges only
\* what it has tried to hand on, however requests, silences and template
\* rebuilds interleave.  (beacon.c:836 sets the IE before the system() of
\* line 849, and only the lack of a second thread keeps it inside.)
AckAfterRelay ==
    \A a \in APs :
        /\ \A m \in responses[a] : m.ack \in relayed[a]
        /\ template[a] # NoData => template[a] \in relayed[a]
        /\ probe_resp_ack_ie[a] # NoData =>
              \/ probe_resp_ack_ie[a] \in relayed[a]
              \/ hapd_pc[a] = "relay" /\ probe_resp_ack_ie[a] = mgmt[a].stuffed
        /\ hapd_pc[a] = "relay" => probe_resp_ack_ie[a] = mgmt[a].stuffed
                                   /\ mgmt[a].stuffed # NoData

\* hostapd itself answers with at most one ack for each stuffed request it
\* accepted, the pending one included: an ack IE may be overwritten or lost,
\* never multiplied.  (beacon.c:541-546 frees and clears it.)  The template of
\* an offloading driver is another matter: see DriverReply.
AckConservation ==
    \A a \in APs :
        acks_sent[a] + (IF probe_resp_ack_ie[a] = NoData THEN 0 ELSE 1) <= relays[a]
=============================================================================
