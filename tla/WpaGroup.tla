------------------------------ MODULE WpaGroup ------------------------------
(***************************************************************************)
(* The WPA2 authenticator of hostapd, ap/wpa_auth.c, with the stations     *)
(* that answer it, rsn_supp/wpa.c: the 4-way handshake that gives a        *)
(* station its pairwise and group keys, and the group key handshake that   *)
(* replaces the group key at all of them.                                  *)
(*                                                                         *)
(* A handler of the authenticator is one action: it runs wpa_sm_step,      *)
(* whose loop over the two state machines of the station and the one of    *)
(* the group ends when none of them moves.  Frames between the access      *)
(* point and a station keep their order and may be lost.  All stations     *)
(* know the PSK, and an SNonce stands for the PTK that is derived from it. *)
(* Stations do not change the SNonce within a handshake, so the            *)
(* workaround with alt_SNonce is not reached.                              *)
(***************************************************************************)
EXTENDS Integers, FiniteSets, Sequences

CONSTANTS
    Stations,
    PairwiseCount,  \* dot11RSNAConfigPairwiseUpdateCount
    GroupCount,     \* dot11RSNAConfigGroupUpdateCount
    MaxAir,         \* frames on the air between two ends, one direction
    Budgets,        \* bounds, of which a behaviour keeps to one: how often each
                    \* station associates (joins) and leaves of itself (gone),
                    \* and the number of rekeys of a PTK or of the GTK (rekeys),
                    \* by timer or by request
    DriverMayFail   \* may the driver refuse a group key?

ASSUME StationsAssumption == IsFiniteSet(Stations)
ASSUME CountAssumption ==
    {PairwiseCount, GroupCount, MaxAir} \subseteq Nat \ {0}
ASSUME BoundAssumption ==
    /\ Budgets \subseteq
          [joins : [Stations -> Nat], gone : [Stations -> Nat], rekeys : Nat]
    /\ DriverMayFail \in BOOLEAN

VARIABLES
    sms,        \* struct wpa_state_machine of each station the AP knows
    group,      \* struct wpa_group, and the group key of the driver
    sup,        \* struct wpa_sm of each station
    down, up,   \* EAPOL-Key and deauthentication frames on the air
    left        \* events that may still happen

vars == <<sms, group, sup, down, up, left>>

-----------------------------------------------------------------------------
\* State.

PtkStates == {"INITIALIZE", "DISCONNECT", "DISCONNECTED", "AUTHENTICATION2",
              "PTKSTART", "PTKCALCNEGOTIATING", "PTKINITNEGOTIATING", "PTKINITDONE"}
GroupStates == {"IDLE", "REKEYNEGOTIATING", "REKEYESTABLISHED", "KEYERROR"}

\* PTK 0 is no key.  timers counts the timeouts of wpa_send_eapol_timeout that
\* are registered, of which there may be several; ptk_rekey is the timeout of
\* wpa_rekey_ptk.  assoc is WLAN_STA_ASSOC.
NewSm == [ptk |-> "INITIALIZE", grp |-> "IDLE", PTK |-> 0, PTK_valid |-> FALSE,
          GUpdateStationKeys |-> FALSE, Disconnect |-> FALSE, TimeoutCtr |-> 0,
          GTimeoutCtr |-> 0, timers |-> 0, ptk_rekey |-> FALSE, assoc |-> TRUE]
NoSm == [NewSm EXCEPT !.assoc = FALSE, !.ptk = "none"]
Known(s) == sms[s].ptk # "none"

\* Group keys are numbered.  early: this rekey began before the last one ended.
Init ==
    /\ sms = [s \in Stations |-> NoSm]
    /\ group = [state |-> "SETKEYSDONE", GN |-> 1, GTK |-> <<1, 0>>, Counter |-> 1,
                GKeyDoneStations |-> 0, driver |-> 1, early |-> FALSE]
    /\ sup = [s \in Stations |->
                [on |-> FALSE, snonce |-> 0, renew |-> TRUE, tptk |-> 0, ptk |-> 0,
                 msg_3_of_4_ok |-> FALSE, gtk |-> <<0, 0>>]]
    /\ down = [s \in Stations |-> <<>>]
    /\ up = [s \in Stations |-> <<>>]
    /\ left \in Budgets

\* A frame carries the key of its MIC and a group key with its index.  It is
\* fresh while its replay counter, or that of the frame it answers, is valid.
Frame(type, mic, idx, gtk) ==
    [type |-> type, mic |-> mic, idx |-> idx, gtk |-> gtk, fresh |-> TRUE]
Reply(m, type, mic) == [m EXCEPT !.type = type, !.mic = mic, !.idx = 0, !.gtk = 0]

\* Frames over the bound are lost like others.
Air(q, frames) == LET all == q \o frames
                  IN  SubSeq(all, 1, IF Len(all) > MaxAir THEN MaxAir ELSE Len(all))

\* wpa_replay_counter_mark_invalid for all pending counters.
MarkInvalid(q) == SubSeq([i \in DOMAIN q |-> [q[i] EXCEPT !.fresh = FALSE]], 1, Len(q))

-----------------------------------------------------------------------------
\* The state machines work on a record of a station's sm, the group, the
\* request flags and TimeoutEvt (ev), the kind of the frame received (rx) with
\* its SNonce, whether the driver takes a group key (ok), and frames to send.
\* The flags are used up before the loop ends, except TimeoutEvt, which the
\* states that look at it clear when they are entered.

Work(sm, g, ev, ok) ==
    [sm |-> sm, group |-> g, ev |-> ev, rx |-> "none", snonce |-> 0, ok |-> ok,
     out |-> <<>>]

\* A frame with a MIC is not sent without a PTK, but its timeout is registered.
wpa_send_eapol(x, type, idx) ==
    LET gtk  == IF idx = 0 THEN 0 ELSE x.group.GTK[idx]
        sent == type = "1/4" \/ x.sm.PTK_valid
    IN  [x EXCEPT !.sm.timers = @ + 1,
                  !.out = IF sent THEN Append(@, Frame(type, x.sm.PTK, idx, gtk)) ELSE @]

wpa_remove_ptk(x) ==
    [x EXCEPT !.sm.PTK_valid = FALSE, !.sm.PTK = 0, !.sm.ptk_rekey = FALSE]

\* Mutant: counted down for a station that was not counted.
GroupDoneAlways(x) ==
    [x EXCEPT !.group.GKeyDoneStations = @ - 1, !.sm.GUpdateStationKeys = FALSE]

\* The station no longer counts as one that the group waits for.
GroupDone(x) ==
    [x EXCEPT !.group.GKeyDoneStations =
                    IF x.sm.GUpdateStationKeys THEN @ - 1 ELSE @,
              !.sm.GUpdateStationKeys = FALSE]

\* wpa_sta_disconnect sends a deauthentication, clears WLAN_STA_ASSOC and
\* comes back with the event WPA_DEAUTH.
DISCONNECT(x) ==
    LET y == wpa_remove_ptk(x)
    IN  [y EXCEPT !.sm.ptk = "DISCONNECT", !.sm.Disconnect = FALSE, !.sm.assoc = FALSE,
                  !.ev = @ \cup {"DeauthenticationRequest"},
                  !.out = Append(@, Frame("deauth", 0, 0, 0))]

DISCONNECTED(x) ==
    [x EXCEPT !.sm.ptk = "DISCONNECTED", !.ev = @ \ {"DeauthenticationRequest"}]

\* Mutant: the station still counts as one with keys to update.
InitializeKeepsCount(x) ==
    LET y == wpa_remove_ptk(x)
    IN  [y EXCEPT !.sm.ptk = "INITIALIZE", !.sm.TimeoutCtr = 0,
                  !.sm.GUpdateStationKeys = FALSE]

INITIALIZE(x) ==
    LET y == GroupDone(wpa_remove_ptk(x))
    IN  [y EXCEPT !.sm.ptk = "INITIALIZE", !.sm.TimeoutCtr = 0]

AUTHENTICATION2(x) ==
    [x EXCEPT !.sm.ptk = "AUTHENTICATION2", !.sm.TimeoutCtr = 0,
              !.ev = @ \ {"ReAuthenticationRequest"}]

PTKSTART(x) ==
    LET y == [x EXCEPT !.sm.ptk = "PTKSTART", !.sm.TimeoutCtr = @ + 1,
                       !.ev = @ \ {"PTKRequest", "TimeoutEvt"}]
    IN  IF y.sm.TimeoutCtr > PairwiseCount THEN y ELSE wpa_send_eapol(y, "1/4", 0)

\* With PTKCALCNEGOTIATING2, which follows at once.
PTKCALCNEGOTIATING(x) ==
    [x EXCEPT !.sm.ptk = "PTKCALCNEGOTIATING", !.sm.PTK = x.snonce, !.sm.PTK_valid = TRUE,
              !.sm.timers = 0, !.sm.TimeoutCtr = 0, !.rx = "none"]

PTKINITNEGOTIATING(x) ==
    LET y == [x EXCEPT !.sm.ptk = "PTKINITNEGOTIATING", !.sm.TimeoutCtr = @ + 1,
                       !.ev = @ \ {"TimeoutEvt"}]
    IN  IF y.sm.TimeoutCtr > PairwiseCount THEN y
        ELSE wpa_send_eapol(y, "3/4", y.group.GN)

PTKINITDONE(x) ==
    [x EXCEPT !.sm.ptk = "PTKINITDONE", !.sm.ptk_rekey = TRUE, !.rx = "none"]

\* SM_STEP(WPA_PTK): the requests go before the state.
Negotiate(x, received, again) ==
    IF x.rx = "pairwise" THEN received
    ELSE IF x.sm.TimeoutCtr > PairwiseCount THEN DISCONNECT(x)
    ELSE IF "TimeoutEvt" \in x.ev THEN again
    ELSE x

PtkStep(x) ==
    IF x.sm.Disconnect THEN DISCONNECT(x)
    ELSE IF "DeauthenticationRequest" \in x.ev THEN DISCONNECTED(x)
    ELSE IF "ReAuthenticationRequest" \in x.ev THEN AUTHENTICATION2(x)
    ELSE IF "PTKRequest" \in x.ev THEN PTKSTART(x)
    ELSE CASE x.sm.ptk = "DISCONNECT"         -> DISCONNECTED(x)
           [] x.sm.ptk = "DISCONNECTED"       -> INITIALIZE(x)
           [] x.sm.ptk = "AUTHENTICATION2"    -> PTKSTART(x)
           [] x.sm.ptk = "PTKSTART"           -> Negotiate(x, PTKCALCNEGOTIATING(x), PTKSTART(x))
           [] x.sm.ptk = "PTKCALCNEGOTIATING" -> PTKINITNEGOTIATING(x)
           [] x.sm.ptk = "PTKINITNEGOTIATING" -> Negotiate(x, PTKINITDONE(x), PTKINITNEGOTIATING(x))
           [] OTHER                           -> x

IDLE(x) == [x EXCEPT !.sm.grp = "IDLE", !.sm.GTimeoutCtr = 0, !.ev = @ \ {"PtkGroupInit"}]

\* Mutant: attempts are not counted.
RekeyUncounted(x) ==
    wpa_send_eapol([x EXCEPT !.sm.grp = "REKEYNEGOTIATING", !.ev = @ \ {"TimeoutEvt"}],
                   "1/2", x.group.GN)

REKEYNEGOTIATING(x) ==
    LET y == [x EXCEPT !.sm.grp = "REKEYNEGOTIATING", !.sm.GTimeoutCtr = @ + 1]
    IN  IF y.sm.GTimeoutCtr > GroupCount THEN y
        ELSE wpa_send_eapol([y EXCEPT !.ev = @ \ {"TimeoutEvt"}], "1/2", y.group.GN)

REKEYESTABLISHED(x) ==
    LET y == GroupDone(x)
    IN  [y EXCEPT !.sm.grp = "REKEYESTABLISHED", !.sm.GTimeoutCtr = 0, !.rx = "none"]

KEYERROR(x) ==
    LET y == GroupDone(x)
    IN  [y EXCEPT !.sm.grp = "KEYERROR", !.sm.Disconnect = TRUE]

\* SM_STEP(WPA_PTK_GROUP).
GroupStep(x) ==
    IF "PtkGroupInit" \in x.ev THEN IDLE(x)
    ELSE CASE x.sm.grp = "IDLE" ->
                IF x.sm.GUpdateStationKeys THEN REKEYNEGOTIATING(x) ELSE x
           [] x.sm.grp = "REKEYNEGOTIATING" ->
                IF x.rx = "group" THEN REKEYESTABLISHED(x)
                ELSE IF x.sm.GTimeoutCtr > GroupCount THEN KEYERROR(x)
                ELSE IF "TimeoutEvt" \in x.ev THEN REKEYNEGOTIATING(x)
                ELSE x
           [] OTHER -> IDLE(x)

\* Install the new group key, or fail for good.
wpa_group_setkeysdone(g, ok) ==
    IF ok THEN [g EXCEPT !.state = "SETKEYSDONE", !.driver = g.GTK[g.GN]]
          ELSE [g EXCEPT !.state = "FATAL_FAILURE"]

Waits(g) == g.state = "SETKEYS" /\ g.GKeyDoneStations > 0
Waited(g) == g.state = "SETKEYS" /\ g.GKeyDoneStations = 0

\* wpa_group_sm_step in the loop of a station: GTKReKey is only set while
\* wpa_rekey_gtk runs.
GsmStep(x) ==
    IF Waited(x.group)
    THEN [x EXCEPT !.group = wpa_group_setkeysdone(@, x.ok), !.sm.Disconnect = @ \/ ~x.ok]
    ELSE x

\* One turn of the loop for each of the records in S.
Turn(S) == {GsmStep(x) : x \in {GroupStep(y) : y \in {PtkStep(z) : z \in S}}}

\* The outcome of the loop of wpa_sm_step, as a set of one.  Nine turns are more
\* than it ever takes; a turn in which nothing changes leaves all as it is.
ThreeTurns(S) == Turn(Turn(Turn(S)))
wpa_sm_step(x) == ThreeTurns(ThreeTurns(ThreeTurns({x})))

\* wpa_group_disconnect_cb: the stations are marked, and step later.
Marked(ms) ==
    [s \in Stations |->
        IF ms[s].ptk = "none" THEN ms[s] ELSE [ms[s] EXCEPT !.Disconnect = TRUE]]

Failed(g) == g.state = "FATAL_FAILURE"

wpa_group_setkeys(g, n) ==
    [g EXCEPT !.state = "SETKEYS", !.GN = 3 - @, !.Counter = @ + 1,
              !.GTK[3 - g.GN] = g.Counter + 1, !.GKeyDoneStations = n, !.early = Waits(g)]

\* A station with a handshake on its way does not move when it is marked again.
wpa_group_update_sta(sm, g, ok) ==
    LET x == Work([sm EXCEPT !.GUpdateStationKeys = sm.ptk = "PTKINITDONE"], g, {}, ok)
    IN  IF x.sm.GUpdateStationKeys /\ sm.grp = "IDLE" THEN REKEYNEGOTIATING(x) ELSE x

\* A rekey that waited for nobody any more is finished first; one that still
\* waits is replaced.
wpa_rekey_gtk(ms, g, dn, ok) ==
    LET g0   == IF Waited(g) THEN wpa_group_setkeysdone(g, ok) ELSE g
        hit  == {s \in Stations : ms[s].ptk = "PTKINITDONE"}
        g1   == wpa_group_setkeys(g0, Cardinality(hit))
        x    == [s \in Stations |-> wpa_group_update_sta(ms[s], g1, ok)]
        g2   == IF hit = {} THEN wpa_group_setkeysdone(g1, ok) ELSE g1
        moved == [s \in Stations |-> x[s].sm]
    IN  CASE Failed(g)  -> [sms |-> ms, group |-> g, down |-> dn]
          [] Failed(g0) /\ ~Failed(g) -> [sms |-> Marked(ms), group |-> g0, down |-> dn]
          [] ~Failed(g0) -> [sms |-> IF Failed(g2) THEN Marked(moved) ELSE moved, group |-> g2,
                             down |-> [s \in Stations |-> Air(dn[s], x[s].out)]]

-----------------------------------------------------------------------------
\* Handlers of the access point.

Oks == IF DriverMayFail THEN BOOLEAN ELSE {TRUE}

\* The outcome x of a step of station s; a fatal failure marks the others too.
Commit(s, ms, x) ==
    /\ sms' = [(IF Failed(x.group) /\ ~Failed(group) THEN Marked(ms) ELSE ms)
                  EXCEPT ![s] = x.sm]
    /\ group' = x.group

\* wpa_send_eapol_timeout.
Timeout(s) ==
    /\ sms[s].timers > 0
    /\ UNCHANGED <<sup, up, left>>
    /\ \E ok \in Oks :
         \E x \in wpa_sm_step(Work([sms[s] EXCEPT !.timers = @ - 1], group,
                                    {"TimeoutEvt"}, ok)) :
            /\ Commit(s, sms, x)
            /\ down' = [down EXCEPT ![s] = Air(@, x.out)]

\* The timeouts wpa_rekey_gtk and wpa_rekey_ptk.
RekeyGtk ==
    /\ left.rekeys > 0
    /\ left' = [left EXCEPT !.rekeys = @ - 1]
    /\ UNCHANGED <<sup, up>>
    /\ \E ok \in Oks : \E r \in {wpa_rekey_gtk(sms, group, down, ok)} :
            sms' = r.sms /\ group' = r.group /\ down' = r.down

RekeyPtk(s) ==
    /\ sms[s].ptk_rekey /\ left.rekeys > 0
    /\ left' = [left EXCEPT !.rekeys = @ - 1]
    /\ UNCHANGED <<sup, up>>
    /\ \E ok \in Oks :
         \E x \in wpa_sm_step(Work([sms[s] EXCEPT !.ptk_rekey = FALSE, !.PTK_valid = FALSE],
                                    group, {"PTKRequest"}, ok)) :
            /\ Commit(s, sms, x)
            /\ down' = [down EXCEPT ![s] = Air(@, x.out)]

\* wpa_receive: what becomes of a frame m from station s.
Answers == {"2/4", "4/4", "2/2"}
Requests == {"new PTK", "new GTK"}

MicOk(s, m) == sms[s].PTK_valid /\ m.mic = sms[s].PTK

\* Mutant: the replay counter of a 2/2 is not looked at.
AcceptedLate(s, m) ==
    /\ sms[s].assoc
    /\ \/ m.type \in Requests /\ MicOk(s, m)
       \/ m.type = "2/4" /\ m.fresh /\ sms[s].ptk = "PTKSTART"
       \/ m.type = "4/4" /\ m.fresh /\ sms[s].ptk = "PTKINITNEGOTIATING" /\ MicOk(s, m)
       \/ m.type = "2/2" /\ sms[s].grp = "REKEYNEGOTIATING" /\ MicOk(s, m)

Accepted(s, m) ==
    /\ sms[s].assoc
    /\ \/ m.type \in Requests /\ MicOk(s, m)
       \/ m.type = "2/4" /\ m.fresh /\ sms[s].ptk = "PTKSTART"
       \/ m.type = "4/4" /\ m.fresh /\ sms[s].ptk = "PTKINITNEGOTIATING" /\ MicOk(s, m)
       \/ m.type = "2/2" /\ m.fresh /\ sms[s].grp = "REKEYNEGOTIATING" /\ MicOk(s, m)

\* An answer ends the validity of all replay counters on their way.  With the
\* MIC verified all timeouts of the station are cancelled.
ReceiveAnswer(s) ==
    /\ up[s] # <<>> /\ Head(up[s]).type \in Answers /\ Accepted(s, Head(up[s]))
    /\ up' = [up EXCEPT ![s] = MarkInvalid(Tail(up[s]))]
    /\ UNCHANGED <<sup, left>>
    /\ \E ok \in Oks :
         LET m == Head(up[s])
             w == Work(IF m.type = "2/4" THEN sms[s] ELSE [sms[s] EXCEPT !.timers = 0],
                       group, {}, ok)
         IN  \E x \in wpa_sm_step([w EXCEPT !.snonce = m.mic,
                          !.rx = IF m.type = "2/2" THEN "group" ELSE "pairwise"]) :
                /\ Commit(s, sms, x)
                /\ down' = [down EXCEPT ![s] = Air(MarkInvalid(down[s]), x.out)]

ReceivePtkRequest(s) ==
    /\ up[s] # <<>> /\ Head(up[s]).type = "new PTK" /\ Accepted(s, Head(up[s]))
    /\ up' = [up EXCEPT ![s] = Tail(@)]
    /\ UNCHANGED <<sup, left>>
    /\ \E ok \in Oks :
         \E x \in wpa_sm_step(Work([sms[s] EXCEPT !.timers = 0, !.PTK_valid = FALSE],
                                    group, {"PTKRequest"}, ok)) :
            /\ Commit(s, sms, x)
            /\ down' = [down EXCEPT ![s] = Air(@, x.out)]

ReceiveGtkRequest(s) ==
    /\ up[s] # <<>> /\ Head(up[s]).type = "new GTK" /\ Accepted(s, Head(up[s]))
    /\ up' = [up EXCEPT ![s] = Tail(@)]
    /\ UNCHANGED <<sup, left>>
    /\ \E ok \in Oks :
         \E r \in {wpa_rekey_gtk([sms EXCEPT ![s].timers = 0], group, down, ok)} :
           \E x \in wpa_sm_step(Work(r.sms[s], r.group, {}, ok)) :
            /\ Commit(s, r.sms, x)
            /\ down' = [r.down EXCEPT ![s] = Air(@, x.out)]

\* Frames that are not accepted change nothing.
ReceiveDropped(s) ==
    /\ up[s] # <<>> /\ Head(up[s]).type \in Answers \cup Requests
    /\ ~Accepted(s, Head(up[s]))
    /\ up' = [up EXCEPT ![s] = Tail(@)]
    /\ UNCHANGED <<sms, group, sup, down, left>>

\* handle_deauth removes the station, handle_disassoc keeps its state machine.
ReceiveLeave(s) ==
    /\ up[s] # <<>> /\ Head(up[s]).type \in {"deauth", "disassoc"}
    /\ up' = [up EXCEPT ![s] = Tail(@)]
    /\ UNCHANGED <<sup, left>>
    /\ IF ~Known(s) THEN UNCHANGED <<sms, group, down>>
       ELSE \E ok \in Oks :
              \E x \in wpa_sm_step(wpa_remove_ptk(
                            Work([sms[s] EXCEPT !.assoc = FALSE], group,
                                 {"DeauthenticationRequest"}, ok))) :
                /\ Commit(s, sms, IF Head(up[s]).type = "disassoc" THEN x
                                  ELSE [GroupDone(x) EXCEPT !.sm = NoSm])
                /\ down' = [down EXCEPT ![s] = Air(@, x.out)]

\* ap_handle_timer finds a station inactive, which its state machine does not
\* learn, and removes stations that are no longer associated.
Inactive(s) ==
    /\ Known(s) /\ sms[s].assoc /\ ~sup[s].on
    /\ sms' = [sms EXCEPT ![s].assoc = FALSE]
    /\ UNCHANGED <<group, sup, down, up, left>>

\* wpa_auth_sta_deinit: the group does not step here.
Free(s) ==
    /\ Known(s) /\ ~sms[s].assoc
    /\ group' = GroupDone(Work(sms[s], group, {}, TRUE)).group
    /\ sms' = [sms EXCEPT ![s] = NoSm]
    /\ UNCHANGED <<sup, down, up, left>>

\* Mutant: a station that is known goes on as it is.
ReauthNewOnly(x, known) ==
    IF known THEN GroupDone(x) ELSE [x EXCEPT !.ev = @ \cup {"ReAuthenticationRequest"}]

\* handle_assoc_cb: the event WPA_ASSOC, then WPA_REAUTH for a station that was
\* associated, else wpa_auth_sta_associated.  Frames of the time before the
\* association do not outlast it.
Reauth(x, known) ==
    LET y == IF known /\ x.sm.GUpdateStationKeys
             THEN [GroupDone(x) EXCEPT !.ev = @ \cup {"PtkGroupInit"}] ELSE x
    IN  [y EXCEPT !.ev = @ \cup {"ReAuthenticationRequest"}]

Associate(s) ==
    /\ left.joins[s] > 0 /\ (Known(s) \/ ~Failed(group))
    /\ left' = [left EXCEPT !.joins[s] = @ - 1]
    /\ sup' = [sup EXCEPT ![s].on = TRUE, ![s].tptk = 0, ![s].ptk = 0,
                          ![s].renew = TRUE, ![s].gtk = <<0, 0>>]
    /\ up' = [up EXCEPT ![s] = <<>>]
    /\ \E ok \in Oks :
         LET sm == IF Known(s) THEN [sms[s] EXCEPT !.assoc = TRUE] ELSE NewSm
         IN  \E w \in wpa_sm_step(wpa_remove_ptk(Work(sm, group, {}, ok))) :
               \E x \in wpa_sm_step(Reauth(w, sms[s].assoc)) :
                /\ Commit(s, sms, x)
                /\ down' = [down EXCEPT ![s] = Air(<<>>, x.out)]

-----------------------------------------------------------------------------
\* The station.

wpa_sm_notify_disassoc(u) ==
    [u EXCEPT !.on = FALSE, !.tptk = 0, !.ptk = 0, !.msg_3_of_4_ok = FALSE]

Take(s, u, frames) ==
    /\ sup' = [sup EXCEPT ![s] = u]
    /\ down' = [down EXCEPT ![s] = Tail(@)]
    /\ up' = [up EXCEPT ![s] = Air(@, frames)]
    /\ UNCHANGED <<sms, group, left>>

Process1of4(s, m) ==
    LET n == IF sup[s].renew THEN sup[s].snonce + 1 ELSE sup[s].snonce
    IN  Take(s, [sup[s] EXCEPT !.snonce = n, !.renew = FALSE, !.tptk = n],
             <<Reply(m, "2/4", n)>>)

\* wpa_supplicant_verify_eapol_key_mic: the temporary PTK first.
Verified(u, m) ==
    IF u.tptk # 0 /\ m.mic = u.tptk THEN [u EXCEPT !.ptk = u.tptk, !.tptk = 0] ELSE u

Process3of4(s, m) ==
    LET u == Verified(sup[s], m)
    IN  /\ u.ptk # 0 /\ m.mic = u.ptk
        /\ Take(s, [u EXCEPT !.renew = TRUE, !.msg_3_of_4_ok = TRUE, !.gtk[m.idx] = m.gtk],
                <<Reply(m, "4/4", u.ptk)>>)

Process1of2(s, m) ==
    LET u == Verified(sup[s], m)
    IN  /\ u.ptk # 0 /\ m.mic = u.ptk
        /\ IF u.msg_3_of_4_ok
           THEN Take(s, [u EXCEPT !.gtk[m.idx] = m.gtk], <<Reply(m, "2/2", u.ptk)>>)
           ELSE Take(s, wpa_sm_notify_disassoc(u), <<Reply(m, "deauth", 0)>>)

wpa_sm_rx_eapol(s) ==
    /\ down[s] # <<>> /\ sup[s].on
    /\ LET m == Head(down[s])
       IN  \/ m.type = "1/4" /\ Process1of4(s, m)
           \/ m.type = "3/4" /\ Process3of4(s, m)
           \/ m.type = "1/2" /\ Process1of2(s, m)
           \/ m.type = "deauth" /\ Take(s, wpa_sm_notify_disassoc(sup[s]), <<>>)

\* A frame is lost, or the station is away or cannot verify it.
LoseDown(s) ==
    /\ down[s] # <<>>
    /\ down' = [down EXCEPT ![s] = Tail(@)]
    /\ UNCHANGED <<sms, group, sup, up, left>>

LoseUp(s) ==
    /\ up[s] # <<>>
    /\ up' = [up EXCEPT ![s] = Tail(@)]
    /\ UNCHANGED <<sms, group, sup, down, left>>

\* wpa_sm_key_request, with a PTK: for a new PTK or for a new GTK.
KeyRequest(s) ==
    /\ sup[s].on /\ sup[s].ptk # 0 /\ left.rekeys > 0
    /\ left' = [left EXCEPT !.rekeys = @ - 1]
    /\ \E kind \in Requests :
         up' = [up EXCEPT ![s] = Air(@, <<Frame(kind, sup[s].ptk, 0, 0)>>)]
    /\ UNCHANGED <<sms, group, sup, down>>

Leave(s) ==
    /\ sup[s].on /\ left.gone[s] > 0
    /\ left' = [left EXCEPT !.gone[s] = @ - 1]
    /\ sup' = [sup EXCEPT ![s] = wpa_sm_notify_disassoc(@)]
    /\ \E how \in {"deauth", "disassoc"} :
         up' = [up EXCEPT ![s] = Air(@, <<Frame(how, 0, 0, 0)>>)]
    /\ UNCHANGED <<sms, group, down>>

Receive(s) ==
    \/ ReceiveAnswer(s) \/ ReceivePtkRequest(s) \/ ReceiveGtkRequest(s)
    \/ ReceiveDropped(s) \/ ReceiveLeave(s)

Next ==
    \/ RekeyGtk
    \/ \E s \in Stations :
         \/ Timeout(s) \/ RekeyPtk(s) \/ Receive(s) \/ Inactive(s) \/ Free(s)
         \/ Associate(s) \/ wpa_sm_rx_eapol(s) \/ LoseDown(s) \/ LoseUp(s)
         \/ KeyRequest(s) \/ Leave(s)

Spec == Init /\ [][Next]_vars

\* A timeout that is registered fires.
TimerSpec == Spec /\ \A s \in Stations : WF_vars(Timeout(s))

\* And no frame stays on the air.
FairSpec ==
    /\ TimerSpec
    /\ \A s \in Stations :
         /\ WF_vars(LoseUp(s) \/ Receive(s))
         /\ WF_vars(LoseDown(s) \/ wpa_sm_rx_eapol(s))

-----------------------------------------------------------------------------
\* Properties.

\* Between two handlers the machines of a station rest in one of four and two
\* states (the others are passed through), neither counter is past its limit,
\* and the group never counts fewer than no stations or more than there are.
TypeOK ==
    /\ \A s \in Stations :
         /\ sms[s].ptk \in {"none", "INITIALIZE", "PTKSTART", "PTKINITNEGOTIATING", "PTKINITDONE"}
         /\ sms[s].grp \in {"IDLE", "REKEYNEGOTIATING"}
         /\ sms[s].TimeoutCtr \in 0..PairwiseCount /\ sms[s].GTimeoutCtr \in 0..GroupCount
         /\ sms[s].timers \in Nat /\ sms[s].PTK \in 0..sup[s].snonce
         /\ Len(down[s]) <= MaxAir /\ Len(up[s]) <= MaxAir
    /\ group.state \in {"SETKEYS", "SETKEYSDONE", "FATAL_FAILURE"}
    /\ group.GN \in {1, 2} /\ group.GKeyDoneStations \in 0..Cardinality(Stations)

\* GKeyDoneStations, which six places count down and one resets, is always the
\* number of stations whose group keys are still to be updated.
CountExact ==
    group.GKeyDoneStations = Cardinality({s \in Stations : sms[s].GUpdateStationKeys})

\* While the port of an associated station is open the authenticator has the PTK
\* that the station itself uses, whatever was lost, repeated or begun again.
KeysAgree ==
    \A s \in Stations :
        sms[s].ptk = "PTKINITDONE" /\ sms[s].assoc /\ sup[s].on
            => sms[s].PTK_valid /\ sup[s].ptk = sms[s].PTK

\* A station that the group stops waiting for while it stays connected has the
\* new group key, unless the rekey replaced one that was not yet finished: the
\* second of two answers to a repeated 1/2, which may arrive when the next rekey
\* has begun, does not count for that one.  (wpa_auth.c:1026-1027, 1312-1335, 2742-2773.)
UpdatedHasGtk ==
    [][\A s \in Stations :
        (/\ sms[s].GUpdateStationKeys /\ ~sms'[s].GUpdateStationKeys
         /\ sms'[s].ptk = "PTKINITDONE" /\ ~group.early)
            => sup[s].gtk[group.GN] = group.GTK[group.GN]]_vars

\* A group rekey comes to its end, by answers or by giving stations up, unless
\* a station it waits for has lost its timeout, or the last one was removed.
RekeyEndsOrSilent ==
    group.state = "SETKEYS" ~>
        \/ group.state # "SETKEYS" \/ Waited(group)
        \/ \E s \in Stations : sms[s].GUpdateStationKeys /\ sms[s].timers = 0

\* hostapd.conf has the GTK replaced every wpa_group_rekey seconds, so each
\* rekey would end.  It does not: timeouts of the group key handshake are
\* cancelled with those of the 4-way handshake, and nobody asks again.
RekeyEnds == group.state = "SETKEYS" ~> group.state # "SETKEYS"
=============================================================================
