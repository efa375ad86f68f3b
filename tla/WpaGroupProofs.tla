--------------------------- MODULE WpaGroupProofs ---------------------------
(***************************************************************************)
(* The count of the stations that a group rekey waits for, for any number  *)
(* of stations, any limits of retries and a driver that may fail.          *)
(*                                                                         *)
(* Each state of the two state machines keeps the difference between       *)
(* GKeyDoneStations and the share of the station that steps, so the loop   *)
(* of wpa_sm_step keeps it, and the share of the others is the count of    *)
(* those that are still marked.  What has to be added is that a station    *)
(* the access point does not know has no share: it is never marked, has no *)
(* timeout and is not associated.                                          *)
(***************************************************************************)
EXTENDS WpaGroup, TLAPS, FiniteSetTheorems

\* The fields of the structures.  (What the other fields hold does not matter
\* to the count.)
SmFields == {"ptk", "grp", "PTK", "PTK_valid", "GUpdateStationKeys", "Disconnect",
             "TimeoutCtr", "GTimeoutCtr", "timers", "ptk_rekey", "assoc"}
GroupFields == {"state", "GN", "GTK", "Counter", "GKeyDoneStations", "driver", "early"}
WorkFields == {"sm", "group", "ev", "rx", "snonce", "ok", "out"}

\* An sm, known or not.
SmOk(m) ==
    /\ m = [f \in SmFields |-> m[f]]
    /\ m.ptk = "none" =>
          ~m.GUpdateStationKeys /\ ~m.assoc /\ ~m.ptk_rekey /\ m.timers = 0

GroupOk(g) ==
    /\ g = [f \in GroupFields |-> g[f]]
    /\ g.GKeyDoneStations \in Int

\* What the count is without the station of m.
Rest(m, g) ==
    IF m.GUpdateStationKeys THEN g.GKeyDoneStations - 1 ELSE g.GKeyDoneStations

\* A record the state machines work on, of a known station; the others of the
\* group count for n.
Ok(x, n) ==
    /\ x = [f \in WorkFields |-> x[f]]
    /\ x.sm = [f \in SmFields |-> x.sm[f]]
    /\ x.sm.ptk # "none"
    /\ GroupOk(x.group)
    /\ Rest(x.sm, x.group) = n

\* The stations of ms that are to be updated, and those of them other than s.
ToUpdate(ms) == {s \in Stations : ms[s].GUpdateStationKeys}
Others(ms, s) == Cardinality(ToUpdate(ms) \ {s})

SmsOk(ms) == DOMAIN ms = Stations /\ \A s \in Stations : SmOk(ms[s])

\* What a step keeps.
IInv == SmsOk(sms) /\ GroupOk(group) /\ CountExact

-----------------------------------------------------------------------------
(* The states of the two machines. *)

\* The helpers of the states keep the balance.
LEMMA Helpers ==
    ASSUME NEW n \in Int, NEW x, Ok(x, n)
    PROVE  /\ \A type, idx : Ok(wpa_send_eapol(x, type, idx), n)
           /\ Ok(wpa_remove_ptk(x), n)
           /\ Ok(GroupDone(x), n) /\ ~GroupDone(x).sm.GUpdateStationKeys
  <1> USE DEF Ok, GroupOk, Rest, SmFields, GroupFields, WorkFields
  <1>1. ASSUME NEW type, NEW idx PROVE Ok(wpa_send_eapol(x, type, idx), n)
    <2> DEFINE gtk == IF idx = 0 THEN 0 ELSE x.group.GTK[idx]
               o == IF type = "1/4" \/ x.sm.PTK_valid
                    THEN Append(x.out, Frame(type, x.sm.PTK, idx, gtk)) ELSE x.out
    <2>1. \A q : Ok([x EXCEPT !.sm.timers = @ + 1, !.out = q], n)
      OBVIOUS
    <2>2. wpa_send_eapol(x, type, idx) = [x EXCEPT !.sm.timers = @ + 1, !.out = o]
      BY DEF wpa_send_eapol
    <2> HIDE DEF Ok, o
    <2>3. QED
      BY <2>1, <2>2
  <1>2. Ok(wpa_remove_ptk(x), n)
    BY DEF wpa_remove_ptk
  <1>3. Ok(GroupDone(x), n) /\ ~GroupDone(x).sm.GUpdateStationKeys
    BY DEF GroupDone
  <1>4. QED
    BY <1>1, <1>2, <1>3

\* What the states do after a helper: they do not touch the count.
Disconnected(y) ==
    [y EXCEPT !.sm.ptk = "DISCONNECT", !.sm.Disconnect = FALSE, !.sm.assoc = FALSE,
              !.ev = @ \cup {"DeauthenticationRequest"},
              !.out = Append(@, Frame("deauth", 0, 0, 0))]
Initialized(y) == [y EXCEPT !.sm.ptk = "INITIALIZE", !.sm.TimeoutCtr = 0]
Established(y) ==
    [y EXCEPT !.sm.grp = "REKEYESTABLISHED", !.sm.GTimeoutCtr = 0, !.rx = "none"]
Erroneous(y) == [y EXCEPT !.sm.grp = "KEYERROR", !.sm.Disconnect = TRUE]

\* They keep the balance.
LEMMA Moves ==
    ASSUME NEW n \in Int, NEW x, Ok(x, n)
    PROVE  /\ Ok(Disconnected(x), n) /\ Ok(Initialized(x), n)
           /\ Ok(Established(x), n) /\ Ok(Erroneous(x), n)
  <1> USE DEF Ok, GroupOk, Rest, SmFields, GroupFields, WorkFields
  <1>1. Ok(Disconnected(x), n)
    BY DEF Disconnected
  <1>2. Ok(Initialized(x), n)
    BY DEF Initialized
  <1>3. Ok(Established(x), n)
    BY DEF Established
  <1>4. Ok(Erroneous(x), n)
    BY DEF Erroneous
  <1> HIDE DEF Ok
  <1>5. QED
    BY <1>1, <1>2, <1>3, <1>4

\* So do the states of the 4-way handshake.
LEMMA PtkStates4 ==
    ASSUME NEW n \in Int, NEW x, Ok(x, n)
    PROVE  /\ Ok(DISCONNECT(x), n) /\ Ok(DISCONNECTED(x), n) /\ Ok(INITIALIZE(x), n)
           /\ Ok(AUTHENTICATION2(x), n) /\ Ok(PTKSTART(x), n)
           /\ Ok(PTKCALCNEGOTIATING(x), n) /\ Ok(PTKINITNEGOTIATING(x), n)
           /\ Ok(PTKINITDONE(x), n)
  <1> USE DEF Ok, GroupOk, Rest, SmFields, GroupFields, WorkFields
  <1> DEFINE r == wpa_remove_ptk(x)
             d == GroupDone(r)
  <1>1. Ok(r, n) /\ Ok(d, n)
    <2> HIDE DEF Ok
    <2>1. Ok(r, n)
      BY Helpers
    <2>2. QED
      BY <2>1, Helpers
  <1> HIDE DEF r, d
  <1>2. Ok(DISCONNECT(x), n)
    <2>1. DISCONNECT(x) = Disconnected(r)
      BY DEF DISCONNECT, Disconnected, r
    <2> HIDE DEF Ok
    <2>2. QED
      BY <1>1, <2>1, Moves
  <1>3. Ok(DISCONNECTED(x), n)
    BY DEF DISCONNECTED
  <1>4. Ok(INITIALIZE(x), n)
    <2>1. INITIALIZE(x) = Initialized(d)
      BY DEF INITIALIZE, Initialized, d, r
    <2> HIDE DEF Ok
    <2>2. QED
      BY <1>1, <2>1, Moves
  <1>5. Ok(AUTHENTICATION2(x), n)
    BY DEF AUTHENTICATION2
  <1>6. Ok(PTKSTART(x), n)
    <2> DEFINE y == [x EXCEPT !.sm.ptk = "PTKSTART", !.sm.TimeoutCtr = @ + 1,
                              !.ev = @ \ {"PTKRequest", "TimeoutEvt"}]
    <2>1. Ok(y, n)
      OBVIOUS
    <2>2. PTKSTART(x) = y \/ PTKSTART(x) = wpa_send_eapol(y, "1/4", 0)
      BY DEF PTKSTART
    <2> HIDE DEF y, Ok
    <2>3. QED
      BY <2>1, <2>2, Helpers
  <1>7. Ok(PTKCALCNEGOTIATING(x), n)
    <2> DEFINE m == [x.sm EXCEPT !.ptk = "PTKCALCNEGOTIATING", !.PTK = x.snonce,
                                 !.PTK_valid = TRUE, !.timers = 0, !.TimeoutCtr = 0]
               y == PTKCALCNEGOTIATING(x)
    <2>1. /\ m = [f \in SmFields |-> m[f]] /\ m.ptk # "none"
          /\ m.GUpdateStationKeys = x.sm.GUpdateStationKeys
      OBVIOUS
    <2>2. y = [x EXCEPT !.sm = m, !.rx = "none"]
      BY DEF PTKCALCNEGOTIATING
    <2> HIDE DEF m, y
    <2>3. y = [f \in WorkFields |-> y[f]] /\ y.sm = m /\ y.group = x.group
      BY <2>2
    <2>4. Ok(y, n)
      BY <2>1, <2>3
    <2> USE DEF y
    <2>5. QED
      BY <2>4
  <1>8. Ok(PTKINITNEGOTIATING(x), n)
    <2> DEFINE y == [x EXCEPT !.sm.ptk = "PTKINITNEGOTIATING", !.sm.TimeoutCtr = @ + 1,
                              !.ev = @ \ {"TimeoutEvt"}]
    <2>1. Ok(y, n)
      OBVIOUS
    <2>2. \/ PTKINITNEGOTIATING(x) = y
          \/ PTKINITNEGOTIATING(x) = wpa_send_eapol(y, "3/4", y.group.GN)
      BY DEF PTKINITNEGOTIATING
    <2> HIDE DEF y, Ok
    <2>3. QED
      BY <2>1, <2>2, Helpers
  <1>9. Ok(PTKINITDONE(x), n)
    BY DEF PTKINITDONE
  <1>10. QED
    <2> HIDE DEF Ok
    <2>1. QED
      BY <1>2, <1>3, <1>4, <1>5, <1>6, <1>7, <1>8, <1>9

\* And those of the group key handshake.
LEMMA GroupStates2 ==
    ASSUME NEW n \in Int, NEW x, Ok(x, n)
    PROVE  /\ Ok(IDLE(x), n) /\ Ok(REKEYNEGOTIATING(x), n)
           /\ Ok(REKEYESTABLISHED(x), n) /\ Ok(KEYERROR(x), n)
  <1> USE DEF Ok, GroupOk, Rest, SmFields, GroupFields, WorkFields
  <1> DEFINE d == GroupDone(x)
  <1>1. Ok(d, n)
    <2> HIDE DEF Ok
    <2>1. QED
      BY Helpers
  <1> HIDE DEF d
  <1>2. Ok(IDLE(x), n)
    BY DEF IDLE
  <1>3. Ok(REKEYNEGOTIATING(x), n)
    <2> DEFINE y == [x EXCEPT !.sm.grp = "REKEYNEGOTIATING", !.sm.GTimeoutCtr = @ + 1]
               z == [y EXCEPT !.ev = @ \ {"TimeoutEvt"}]
    <2>1. Ok(y, n)
      OBVIOUS
    <2> HIDE DEF y
    <2>2. Ok(z, n)
      BY <2>1
    <2>3. \/ REKEYNEGOTIATING(x) = y
          \/ REKEYNEGOTIATING(x) = wpa_send_eapol(z, "1/2", y.group.GN)
      BY DEF REKEYNEGOTIATING, y
    <2> HIDE DEF z, Ok
    <2>4. QED
      BY <2>1, <2>2, <2>3, Helpers
  <1>4. Ok(REKEYESTABLISHED(x), n)
    <2>1. REKEYESTABLISHED(x) = Established(d)
      BY DEF REKEYESTABLISHED, Established, d
    <2> HIDE DEF Ok
    <2>2. QED
      BY <1>1, <2>1, Moves
  <1>5. Ok(KEYERROR(x), n)
    <2>1. KEYERROR(x) = Erroneous(d)
      BY DEF KEYERROR, Erroneous, d
    <2> HIDE DEF Ok
    <2>2. QED
      BY <1>1, <2>1, Moves
  <1>6. QED
    <2> HIDE DEF Ok
    <2>1. QED
      BY <1>2, <1>3, <1>4, <1>5

-----------------------------------------------------------------------------
(* The loop of wpa_sm_step. *)

\* SM_STEP(WPA_PTK) keeps the balance.
LEMMA PtkStepOk ==
    ASSUME NEW n \in Int, NEW x, Ok(x, n)
    PROVE  Ok(PtkStep(x), n)
  <1>1. /\ Ok(DISCONNECT(x), n) /\ Ok(DISCONNECTED(x), n) /\ Ok(INITIALIZE(x), n)
        /\ Ok(AUTHENTICATION2(x), n) /\ Ok(PTKSTART(x), n)
        /\ Ok(PTKCALCNEGOTIATING(x), n) /\ Ok(PTKINITNEGOTIATING(x), n)
        /\ Ok(PTKINITDONE(x), n)
    BY PtkStates4
  <1>2. ASSUME NEW y, NEW z, Ok(y, n), Ok(z, n) PROVE Ok(Negotiate(x, y, z), n)
    BY <1>1, <1>2 DEF Negotiate
  <1>3. /\ Ok(Negotiate(x, PTKCALCNEGOTIATING(x), PTKSTART(x)), n)
        /\ Ok(Negotiate(x, PTKINITDONE(x), PTKINITNEGOTIATING(x)), n)
    BY <1>1, <1>2
  <1>4. QED
    BY <1>1, <1>3 DEF PtkStep

\* SM_STEP(WPA_PTK_GROUP) does.
LEMMA GroupStepOk ==
    ASSUME NEW n \in Int, NEW x, Ok(x, n)
    PROVE  Ok(GroupStep(x), n)
  <1>1. /\ Ok(IDLE(x), n) /\ Ok(REKEYNEGOTIATING(x), n)
        /\ Ok(REKEYESTABLISHED(x), n) /\ Ok(KEYERROR(x), n)
    BY GroupStates2
  <1>2. QED
    BY <1>1 DEF GroupStep

\* Installing the group key does not touch the count.
LEMMA SetKeysDone ==
    ASSUME NEW g, GroupOk(g), NEW ok
    PROVE  /\ GroupOk(wpa_group_setkeysdone(g, ok))
           /\ wpa_group_setkeysdone(g, ok).GKeyDoneStations = g.GKeyDoneStations
  BY DEF GroupOk, GroupFields, wpa_group_setkeysdone

\* wpa_group_sm_step in the loop keeps the balance.
LEMMA GsmStepOk ==
    ASSUME NEW n \in Int, NEW x, Ok(x, n)
    PROVE  Ok(GsmStep(x), n)
  <1> DEFINE g == wpa_group_setkeysdone(x.group, x.ok)
  <1>1. GroupOk(g) /\ g.GKeyDoneStations = x.group.GKeyDoneStations
    BY SetKeysDone DEF Ok
  <1> HIDE DEF g
  <1>2. \A b : Ok([x EXCEPT !.group = g, !.sm.Disconnect = b], n)
    BY <1>1 DEF Ok, GroupOk, Rest, SmFields, GroupFields, WorkFields
  <1>3. \/ GsmStep(x) = x
        \/ GsmStep(x) = [x EXCEPT !.group = g, !.sm.Disconnect = x.sm.Disconnect \/ ~x.ok]
    BY DEF GsmStep, g, Ok, WorkFields
  <1>4. QED
    BY <1>2, <1>3

\* So does a turn of the loop, and the loop.
LEMMA LoopOk ==
    ASSUME NEW n \in Int, NEW x, Ok(x, n), NEW y \in wpa_sm_step(x)
    PROVE  Ok(y, n)
  <1>1. ASSUME NEW S, \A z \in S : Ok(z, n), NEW w \in Turn(S) PROVE Ok(w, n)
    <2>1. PICK z \in S : w = GsmStep(GroupStep(PtkStep(z)))
      BY <1>1 DEF Turn
    <2>2. Ok(z, n)
      BY <1>1
    <2>3. Ok(PtkStep(z), n)
      BY <2>2, PtkStepOk
    <2>4. Ok(GroupStep(PtkStep(z)), n)
      BY <2>3, GroupStepOk
    <2>5. QED
      BY <2>1, <2>4, GsmStepOk
  <1>2. ASSUME NEW S, \A z \in S : Ok(z, n), NEW w \in ThreeTurns(S) PROVE Ok(w, n)
    <2>1. \A z \in Turn(S) : Ok(z, n)
      BY <1>1, <1>2
    <2>2. \A z \in Turn(Turn(S)) : Ok(z, n)
      BY <1>1, <2>1
    <2>3. \A z \in Turn(Turn(Turn(S))) : Ok(z, n)
      BY <1>1, <2>2
    <2>4. QED
      BY <1>2, <2>3 DEF ThreeTurns
  <1>3. \A z \in {x} : Ok(z, n)
    OBVIOUS
  <1>4. \A z \in ThreeTurns({x}) : Ok(z, n)
    BY <1>2, <1>3
  <1>5. \A z \in ThreeTurns(ThreeTurns({x})) : Ok(z, n)
    BY <1>2, <1>4
  <1>6. \A z \in ThreeTurns(ThreeTurns(ThreeTurns({x}))) : Ok(z, n)
    BY <1>2, <1>5
  <1>7. QED
    BY <1>6 DEF wpa_sm_step

-----------------------------------------------------------------------------
(* Counting stations. *)

\* The count is that of the others and the station's own share.
LEMMA CountSplit ==
    ASSUME NEW ms, NEW s \in Stations
    PROVE  /\ IsFiniteSet(ToUpdate(ms)) /\ Cardinality(ToUpdate(ms)) \in Nat
           /\ Others(ms, s) \in Nat
           /\ Cardinality(ToUpdate(ms)) =
                 IF ms[s].GUpdateStationKeys THEN Others(ms, s) + 1 ELSE Others(ms, s)
  <1>1. IsFiniteSet(ToUpdate(ms))
    BY StationsAssumption, FS_Subset DEF ToUpdate
  <1>2. Cardinality(ToUpdate(ms)) \in Nat
    BY <1>1, FS_CardinalityType
  <1>3. /\ IsFiniteSet(ToUpdate(ms) \ {s})
        /\ Cardinality(ToUpdate(ms) \ {s}) =
              IF s \in ToUpdate(ms) THEN Cardinality(ToUpdate(ms)) - 1
              ELSE Cardinality(ToUpdate(ms))
    BY <1>1, FS_RemoveElement
  <1>4. Cardinality(ToUpdate(ms) \ {s}) \in Nat
    BY <1>3, FS_CardinalityType
  <1>5. s \in ToUpdate(ms) <=> ms[s].GUpdateStationKeys
    BY DEF ToUpdate
  <1>6. QED
    BY <1>1, <1>2, <1>3, <1>4, <1>5 DEF Others

\* Marking stations for disconnection does not touch what is counted.
LEMMA MarkedOk ==
    ASSUME NEW ms, SmsOk(ms)
    PROVE  /\ SmsOk(Marked(ms))
           /\ \A s \in Stations :
                 /\ (Marked(ms)[s].GUpdateStationKeys <=> ms[s].GUpdateStationKeys)
                 /\ Marked(ms)[s].ptk = ms[s].ptk
                 /\ (Marked(ms)[s].assoc <=> ms[s].assoc)
  <1>1. ASSUME NEW s \in Stations
        PROVE  /\ SmOk(Marked(ms)[s])
               /\ (Marked(ms)[s].GUpdateStationKeys <=> ms[s].GUpdateStationKeys)
               /\ Marked(ms)[s].ptk = ms[s].ptk
               /\ (Marked(ms)[s].assoc <=> ms[s].assoc)
    <2>1. CASE ms[s].ptk = "none"
      BY <2>1 DEF Marked, SmsOk
    <2>2. CASE ms[s].ptk # "none"
      <3>1. Marked(ms)[s] = [ms[s] EXCEPT !.Disconnect = TRUE]
        BY <2>2 DEF Marked
      <3> DEFINE m == ms[s]
      <3>2. SmOk(m) /\ m.ptk # "none"
        BY <2>2 DEF SmsOk
      <3> HIDE DEF m
      <3>3. /\ SmOk([m EXCEPT !.Disconnect = TRUE])
            /\ ([m EXCEPT !.Disconnect = TRUE].GUpdateStationKeys <=> m.GUpdateStationKeys)
            /\ [m EXCEPT !.Disconnect = TRUE].ptk = m.ptk
            /\ ([m EXCEPT !.Disconnect = TRUE].assoc <=> m.assoc)
        BY <3>2 DEF SmOk, SmFields
      <3>4. QED
        BY <3>1, <3>3 DEF m
    <2>3. QED
      BY <2>1, <2>2
  <1>2. DOMAIN Marked(ms) = Stations
    BY DEF Marked
  <1>3. QED
    BY <1>1, <1>2 DEF SmsOk

\* A handler that ends with a balanced record keeps the invariant.
LEMMA CommitOk ==
    ASSUME NEW ms, SmsOk(ms), NEW s \in Stations, NEW x,
           SmOk(x.sm), GroupOk(x.group), Rest(x.sm, x.group) = Others(ms, s),
           Commit(s, ms, x)
    PROVE  IInv'
  <1> DEFINE base == IF Failed(x.group) /\ ~Failed(group) THEN Marked(ms) ELSE ms
  <1>1. /\ SmsOk(base)
        /\ \A t \in Stations : base[t].GUpdateStationKeys <=> ms[t].GUpdateStationKeys
    BY MarkedOk
  <1>2. sms' = [base EXCEPT ![s] = x.sm] /\ group' = x.group
    BY DEF Commit
  <1> HIDE DEF base
  <1>3. /\ DOMAIN sms' = Stations /\ sms'[s] = x.sm
        /\ \A t \in Stations : t # s => sms'[t] = base[t]
    BY <1>1, <1>2 DEF SmsOk
  <1>4. \A t \in Stations : SmOk(sms'[t])
    BY <1>1, <1>3 DEF SmsOk
  <1>5. ToUpdate(sms') \ {s} = ToUpdate(ms) \ {s}
    BY <1>1, <1>3 DEF ToUpdate
  <1>6. Others(sms', s) = Others(ms, s)
    BY <1>5 DEF Others
  <1>7. Cardinality(ToUpdate(sms')) = group'.GKeyDoneStations
    <2>1. /\ Others(sms', s) \in Nat
          /\ Cardinality(ToUpdate(sms')) =
               IF sms'[s].GUpdateStationKeys THEN Others(sms', s) + 1 ELSE Others(sms', s)
      BY CountSplit
    <2>2. x.group.GKeyDoneStations \in Int
      BY DEF GroupOk
    <2>3. QED
      BY <1>2, <1>3, <1>6, <2>1, <2>2 DEF Rest
  <1>8. SmsOk(sms)'
    BY <1>3, <1>4 DEF SmsOk, SmOk, SmFields
  <1>9. GroupOk(group)'
    BY <1>2 DEF GroupOk, GroupFields
  <1>10. CountExact'
    BY <1>7 DEF CountExact, ToUpdate
  <1>11. QED
    BY <1>8, <1>9, <1>10 DEF IInv

\* A balanced record ends a handler.
LEMMA OkEnds ==
    ASSUME NEW n, NEW x, Ok(x, n)
    PROVE  SmOk(x.sm) /\ GroupOk(x.group) /\ Rest(x.sm, x.group) = n
  BY DEF Ok, SmOk

\* The record a handler starts from is balanced, whatever it changes of the
\* fields of the sm that are not counted.
LEMMA WorkOk ==
    ASSUME NEW m, m = [f \in SmFields |-> m[f]], m.ptk # "none", NEW g, GroupOk(g),
           NEW ev, NEW ok
    PROVE  Ok(Work(m, g, ev, ok), Rest(m, g))
  <1> DEFINE w == Work(m, g, ev, ok)
  <1>1. /\ w.sm = m /\ w.group = g /\ w = [f \in WorkFields |-> w[f]]
    BY DEF Work, WorkFields
  <1> HIDE DEF w
  <1>2. Ok(w, Rest(m, g))
    BY <1>1 DEF Ok
  <1>3. QED
    BY <1>2 DEF w

\* The share of the others before a step.
LEMMA RestIsOthers ==
    ASSUME NEW ms, NEW s \in Stations, NEW g, GroupOk(g),
           g.GKeyDoneStations = Cardinality(ToUpdate(ms))
    PROVE  Rest(ms[s], g) = Others(ms, s) /\ Others(ms, s) \in Int
  BY CountSplit DEF Rest, GroupOk

-----------------------------------------------------------------------------
(* A rekey of the group. *)

\* wpa_group_update_sta marks exactly the stations with an open port.
LEMMA UpdateSta ==
    ASSUME NEW m, SmOk(m), NEW g, GroupOk(g), NEW ok
    PROVE  LET u == wpa_group_update_sta(m, g, ok).sm
           IN  /\ SmOk(u)
               /\ (u.GUpdateStationKeys <=> m.ptk = "PTKINITDONE")
               /\ u.ptk = m.ptk /\ (u.assoc <=> m.assoc)
  <1> DEFINE b == m.ptk = "PTKINITDONE"
             n == [m EXCEPT !.GUpdateStationKeys = b]
             x == Work(n, g, {}, ok)
             u == wpa_group_update_sta(m, g, ok).sm
  <1>1. /\ SmOk(n) /\ n = [f \in SmFields |-> n[f]]
        /\ (n.GUpdateStationKeys <=> m.ptk = "PTKINITDONE")
        /\ n.ptk = m.ptk /\ (n.assoc <=> m.assoc)
    BY DEF SmOk, SmFields
  <1> HIDE DEF n
  <1>2. x = [f \in WorkFields |-> x[f]] /\ x.sm = n /\ x.group = g
    BY DEF Work, WorkFields
  <1> HIDE DEF x
  <1>3. wpa_group_update_sta(m, g, ok) =
           IF x.sm.GUpdateStationKeys /\ m.grp = "IDLE" THEN REKEYNEGOTIATING(x) ELSE x
    BY DEF wpa_group_update_sta, x, n
  <1>4. CASE wpa_group_update_sta(m, g, ok) = x
    BY <1>1, <1>2, <1>4
  <1>5. CASE x.sm.GUpdateStationKeys /\ wpa_group_update_sta(m, g, ok) = REKEYNEGOTIATING(x)
    <2>1. n.ptk # "none"
      BY <1>1, <1>2, <1>5
    <2> DEFINE v == REKEYNEGOTIATING(x)
    <2>2. /\ v.sm = [f \in SmFields |-> v.sm[f]] /\ v.sm.ptk = x.sm.ptk
          /\ (v.sm.assoc <=> x.sm.assoc)
          /\ (v.sm.GUpdateStationKeys <=> x.sm.GUpdateStationKeys)
      <3> DEFINE y == [x EXCEPT !.sm.grp = "REKEYNEGOTIATING", !.sm.GTimeoutCtr = @ + 1]
                 z == [y EXCEPT !.ev = @ \ {"TimeoutEvt"}]
                 o == Append(z.out, Frame("1/2", z.sm.PTK, y.group.GN,
                        IF y.group.GN = 0 THEN 0 ELSE z.group.GTK[y.group.GN]))
      <3>1. /\ y = [f \in WorkFields |-> y[f]]
            /\ y.sm = [f \in SmFields |-> y.sm[f]] /\ y.sm.ptk = x.sm.ptk
            /\ (y.sm.assoc <=> x.sm.assoc)
            /\ (y.sm.GUpdateStationKeys <=> x.sm.GUpdateStationKeys)
        BY <1>1, <1>2 DEF WorkFields, SmFields
      <3> HIDE DEF y
      <3>2. z = [f \in WorkFields |-> z[f]] /\ z.sm = y.sm
        BY <3>1 DEF WorkFields
      <3> HIDE DEF z
      <3>3. v = y \/ v = wpa_send_eapol(z, "1/2", y.group.GN)
        BY DEF REKEYNEGOTIATING, y, z
      <3>4. wpa_send_eapol(z, "1/2", y.group.GN).sm = [z.sm EXCEPT !.timers = @ + 1]
        BY <3>2 DEF wpa_send_eapol, WorkFields
      <3>5. LET w == [z.sm EXCEPT !.timers = @ + 1]
            IN  /\ w = [f \in SmFields |-> w[f]] /\ w.ptk = z.sm.ptk
                /\ (w.assoc <=> z.sm.assoc)
                /\ (w.GUpdateStationKeys <=> z.sm.GUpdateStationKeys)
        BY <3>1, <3>2 DEF SmFields
      <3> HIDE DEF v
      <3>6. CASE v = y
        BY <3>1, <3>6
      <3>7. CASE v.sm = [z.sm EXCEPT !.timers = @ + 1]
        BY <3>1, <3>2, <3>5, <3>7
      <3>8. QED
        BY <3>3, <3>4, <3>6, <3>7
    <2> HIDE DEF v
    <2>3. SmOk(v.sm)
      BY <1>1, <1>2, <2>1, <2>2 DEF SmOk
    <2>4. u = v.sm
      BY <1>5 DEF v
    <2>5. QED
      BY <1>1, <1>2, <2>2, <2>3, <2>4
  <1>6. QED
    BY <1>3, <1>4, <1>5

\* wpa_rekey_gtk counts the stations it marks.
LEMMA RekeyOk ==
    ASSUME NEW ms, SmsOk(ms), NEW g, GroupOk(g),
           g.GKeyDoneStations = Cardinality(ToUpdate(ms)), NEW dn, NEW ok
    PROVE  LET r == wpa_rekey_gtk(ms, g, dn, ok)
           IN  /\ SmsOk(r.sms) /\ GroupOk(r.group)
               /\ r.group.GKeyDoneStations = Cardinality(ToUpdate(r.sms))
               /\ \A s \in Stations : r.sms[s].ptk = ms[s].ptk
  <1> DEFINE g0    == IF Waited(g) THEN wpa_group_setkeysdone(g, ok) ELSE g
             hit   == {s \in Stations : ms[s].ptk = "PTKINITDONE"}
             g1    == wpa_group_setkeys(g0, Cardinality(hit))
             x     == [s \in Stations |-> wpa_group_update_sta(ms[s], g1, ok)]
             g2    == IF hit = {} THEN wpa_group_setkeysdone(g1, ok) ELSE g1
             moved == [s \in Stations |-> x[s].sm]
             r     == wpa_rekey_gtk(ms, g, dn, ok)
             Good(rs, rg) ==
                 /\ SmsOk(rs) /\ GroupOk(rg)
                 /\ rg.GKeyDoneStations = Cardinality(ToUpdate(rs))
                 /\ \A s \in Stations : rs[s].ptk = ms[s].ptk
  <1>0. /\ Failed(g) => r.sms = ms /\ r.group = g
        /\ Failed(g0) /\ ~Failed(g) => r.sms = Marked(ms) /\ r.group = g0
        /\ ~Failed(g0) => /\ r.sms = IF Failed(g2) THEN Marked(moved) ELSE moved
                          /\ r.group = g2
    <2>1. Failed(g) => g0 = g
      BY DEF Failed, Waited
    <2>2. Failed(g) => r = [sms |-> ms, group |-> g, down |-> dn]
      BY <2>1 DEF wpa_rekey_gtk
    <2>3. Failed(g0) /\ ~Failed(g) => r = [sms |-> Marked(ms), group |-> g0, down |-> dn]
      BY DEF wpa_rekey_gtk
    <2>4. ~Failed(g0) =>
             r = [sms |-> IF Failed(g2) THEN Marked(moved) ELSE moved, group |-> g2,
                  down |-> [s \in Stations |-> Air(dn[s], x[s].out)]]
      BY <2>1 DEF wpa_rekey_gtk
    <2> HIDE DEF r, g0, g2, moved, x
    <2>5. QED
      BY <2>2, <2>3, <2>4
  <1>1. GroupOk(g0) /\ g0.GKeyDoneStations = g.GKeyDoneStations
    BY SetKeysDone
  <1> HIDE DEF g0
  <1>2. IsFiniteSet(hit) /\ Cardinality(hit) \in Nat
    <2>1. IsFiniteSet(hit)
      BY StationsAssumption, FS_Subset
    <2>2. QED
      BY <2>1, FS_CardinalityType
  <1>3. \A n \in Int : GroupOk(wpa_group_setkeys(g0, n))
                       /\ wpa_group_setkeys(g0, n).GKeyDoneStations = n
    BY <1>1 DEF wpa_group_setkeys, GroupOk, GroupFields
  <1>4. GroupOk(g1) /\ g1.GKeyDoneStations = Cardinality(hit)
    BY <1>2, <1>3
  <1> HIDE DEF g1
  <1>5. GroupOk(g2) /\ g2.GKeyDoneStations = Cardinality(hit)
    BY <1>4, SetKeysDone
  <1>6. ASSUME NEW s \in Stations
        PROVE  /\ SmOk(moved[s]) /\ moved[s].ptk = ms[s].ptk
               /\ (moved[s].GUpdateStationKeys <=> s \in hit)
    <2>1. SmOk(ms[s])
      BY DEF SmsOk
    <2>2. moved[s] = wpa_group_update_sta(ms[s], g1, ok).sm
      OBVIOUS
    <2>3. QED
      BY <1>4, <2>1, <2>2, UpdateSta
  <1>7. DOMAIN moved = Stations
    OBVIOUS
  <1> HIDE DEF g2, moved, x, r
  <1>8. Good(moved, g2)
    <2>1. ToUpdate(moved) = hit
      BY <1>6 DEF ToUpdate
    <2>2. SmsOk(moved)
      BY <1>6, <1>7 DEF SmsOk
    <2>3. QED
      BY <1>5, <1>6, <2>1, <2>2
  <1>9. ASSUME NEW rs, NEW rg, Good(rs, rg) PROVE Good(Marked(rs), rg)
    <2>1. ToUpdate(Marked(rs)) = ToUpdate(rs)
      BY <1>9, MarkedOk DEF ToUpdate
    <2>2. QED
      BY <1>9, <2>1, MarkedOk
  <1>10. Good(ms, g) /\ Good(ms, g0)
    BY <1>1
  <1> HIDE DEF Good
  <1>11. Good(r.sms, r.group)
    BY <1>0, <1>8, <1>9, <1>10
  <1>12. QED
    BY <1>11 DEF Good, r

-----------------------------------------------------------------------------
(* The handlers. *)

\* A handler that changes the sm of a station in fields that are not counted,
\* and then runs the state machines.
LEMMA StepOk ==
    ASSUME NEW ms, SmsOk(ms), NEW g, GroupOk(g),
           g.GKeyDoneStations = Cardinality(ToUpdate(ms)),
           NEW s \in Stations, NEW m, m = [f \in SmFields |-> m[f]], m.ptk # "none",
           m.GUpdateStationKeys <=> ms[s].GUpdateStationKeys,
           NEW ev, NEW ok, NEW w, w \in {Work(m, g, ev, ok), wpa_remove_ptk(Work(m, g, ev, ok))}
    PROVE  Ok(w, Others(ms, s)) /\ Others(ms, s) \in Int
  <1>1. Rest(ms[s], g) = Others(ms, s) /\ Others(ms, s) \in Int
    BY RestIsOthers
  <1>2. Rest(m, g) = Rest(ms[s], g)
    BY DEF Rest
  <1>3. Ok(Work(m, g, ev, ok), Others(ms, s))
    BY <1>1, <1>2, WorkOk
  <1>4. QED
    BY <1>1, <1>3, Helpers

\* The outcome of the state machines is committed.
LEMMA HandlerOk ==
    ASSUME NEW ms, SmsOk(ms), NEW s \in Stations, Others(ms, s) \in Int,
           NEW w, Ok(w, Others(ms, s)), NEW x \in wpa_sm_step(w), Commit(s, ms, x)
    PROVE  IInv'
  <1>1. Ok(x, Others(ms, s))
    BY LoopOk
  <1>2. QED
    BY <1>1, OkEnds, CommitOk

\* The station that a handler steps.
LEMMA SmFacts ==
    ASSUME IInv, NEW s \in Stations
    PROVE  /\ SmOk(sms[s]) /\ sms[s] = [f \in SmFields |-> sms[s][f]]
           /\ GroupOk(group) /\ group.GKeyDoneStations = Cardinality(ToUpdate(sms))
           /\ SmsOk(sms) /\ DOMAIN sms = Stations
  BY DEF IInv, SmsOk, SmOk, CountExact, ToUpdate

\* The handlers that only step the machines of a station.
LEMMA TimeoutOk ==
    ASSUME IInv, NEW s \in Stations,
           Timeout(s) \/ RekeyPtk(s) \/ ReceiveAnswer(s) \/ ReceivePtkRequest(s)
    PROVE  IInv'
  <1> DEFINE q == sms[s]
  <1>1. /\ SmOk(q) /\ q = [f \in SmFields |-> q[f]]
        /\ GroupOk(group) /\ group.GKeyDoneStations = Cardinality(ToUpdate(sms))
        /\ SmsOk(sms)
    BY SmFacts
  <1>2. q.ptk # "none"
    <2>1. Timeout(s) => sms[s].timers > 0
      BY DEF Timeout
    <2>2. RekeyPtk(s) => sms[s].ptk_rekey
      BY DEF RekeyPtk
    <2>3. ReceiveAnswer(s) \/ ReceivePtkRequest(s) => sms[s].assoc
      BY DEF ReceiveAnswer, ReceivePtkRequest, Accepted
    <2>4. q.timers > 0 \/ q.ptk_rekey \/ q.assoc
      BY <2>1, <2>2, <2>3
    <2> HIDE DEF q
    <2>5. QED
      BY <1>1, <2>4 DEF SmOk
  <1> HIDE DEF q
  <1>3. ASSUME NEW m, NEW ev, NEW ok,
               m = [f \in SmFields |-> m[f]], m.ptk # "none",
               m.GUpdateStationKeys <=> q.GUpdateStationKeys,
               \E x \in wpa_sm_step(Work(m, group, ev, ok)) : Commit(s, sms, x)
        PROVE  IInv'
    <2>1. Ok(Work(m, group, ev, ok), Others(sms, s)) /\ Others(sms, s) \in Int
      BY <1>1, <1>3, StepOk DEF q
    <2>2. QED
      BY <1>1, <1>3, <2>1, HandlerOk
  <1>4. CASE Timeout(s)
    <2> DEFINE m == [q EXCEPT !.timers = @ - 1]
    <2>1. /\ m = [f \in SmFields |-> m[f]] /\ m.ptk # "none"
          /\ (m.GUpdateStationKeys <=> q.GUpdateStationKeys)
      BY <1>1, <1>2 DEF SmFields
    <2>2. PICK ok \in Oks :
             \E x \in wpa_sm_step(Work(m, group, {"TimeoutEvt"}, ok)) : Commit(s, sms, x)
      BY <1>4 DEF Timeout, q
    <2> HIDE DEF m
    <2>3. QED
      BY <1>3, <2>1, <2>2
  <1>5. CASE RekeyPtk(s)
    <2> DEFINE m == [q EXCEPT !.ptk_rekey = FALSE, !.PTK_valid = FALSE]
    <2>1. /\ m = [f \in SmFields |-> m[f]] /\ m.ptk # "none"
          /\ (m.GUpdateStationKeys <=> q.GUpdateStationKeys)
      BY <1>1, <1>2 DEF SmFields
    <2>2. PICK ok \in Oks :
             \E x \in wpa_sm_step(Work(m, group, {"PTKRequest"}, ok)) : Commit(s, sms, x)
      BY <1>5 DEF RekeyPtk, q
    <2> HIDE DEF m
    <2>3. QED
      BY <1>3, <2>1, <2>2
  <1>6. CASE ReceivePtkRequest(s)
    <2> DEFINE m == [q EXCEPT !.timers = 0, !.PTK_valid = FALSE]
    <2>1. /\ m = [f \in SmFields |-> m[f]] /\ m.ptk # "none"
          /\ (m.GUpdateStationKeys <=> q.GUpdateStationKeys)
      BY <1>1, <1>2 DEF SmFields
    <2>2. PICK ok \in Oks :
             \E x \in wpa_sm_step(Work(m, group, {"PTKRequest"}, ok)) : Commit(s, sms, x)
      BY <1>6 DEF ReceivePtkRequest, q
    <2> HIDE DEF m
    <2>3. QED
      BY <1>3, <2>1, <2>2
  <1>7. CASE ReceiveAnswer(s)
    <2> DEFINE a == Head(up[s])
               m == IF a.type = "2/4" THEN q ELSE [q EXCEPT !.timers = 0]
    <2>1. /\ m = [f \in SmFields |-> m[f]] /\ m.ptk # "none"
          /\ (m.GUpdateStationKeys <=> q.GUpdateStationKeys)
      BY <1>1, <1>2 DEF SmFields
    <2>2. PICK ok \in Oks :
             \E x \in wpa_sm_step([Work(m, group, {}, ok) EXCEPT !.snonce = a.mic,
                             !.rx = IF a.type = "2/2" THEN "group" ELSE "pairwise"]) :
                Commit(s, sms, x)
      BY <1>7 DEF ReceiveAnswer, q
    <2> HIDE DEF m, a
    <2> DEFINE w == Work(m, group, {}, ok)
               v == [w EXCEPT !.snonce = a.mic,
                              !.rx = IF a.type = "2/2" THEN "group" ELSE "pairwise"]
    <2>3. Ok(w, Others(sms, s)) /\ Others(sms, s) \in Int
      BY <1>1, <2>1, StepOk DEF q
    <2>4. PICK x \in wpa_sm_step(v) : Commit(s, sms, x)
      BY <2>2
    <2> HIDE DEF w
    <2>5. Ok(v, Others(sms, s))
      BY <2>3 DEF Ok, WorkFields
    <2> HIDE DEF v
    <2>6. QED
      BY <1>1, <2>3, <2>4, <2>5, HandlerOk
  <1>8. QED
    BY <1>4, <1>5, <1>6, <1>7

\* The handlers that rekey the group.
LEMMA RekeysOk ==
    ASSUME IInv, RekeyGtk \/ \E s \in Stations : ReceiveGtkRequest(s)
    PROVE  IInv'
  <1>1. /\ SmsOk(sms) /\ GroupOk(group)
        /\ group.GKeyDoneStations = Cardinality(ToUpdate(sms))
    BY DEF IInv, CountExact, ToUpdate
  <1>2. CASE RekeyGtk
    <2>1. PICK ok \in Oks : LET r == wpa_rekey_gtk(sms, group, down, ok)
                            IN  sms' = r.sms /\ group' = r.group
      BY <1>2 DEF RekeyGtk
    <2> DEFINE r == wpa_rekey_gtk(sms, group, down, ok)
    <2>2. /\ SmsOk(r.sms) /\ GroupOk(r.group)
          /\ r.group.GKeyDoneStations = Cardinality(ToUpdate(r.sms))
      BY <1>1, RekeyOk
    <2>3. sms' = r.sms /\ group' = r.group
      BY <2>1
    <2> HIDE DEF r
    <2>4. QED
      BY <2>2, <2>3 DEF IInv, SmsOk, SmOk, SmFields, GroupOk, GroupFields, CountExact, ToUpdate
  <1>3. ASSUME NEW s \in Stations, ReceiveGtkRequest(s) PROVE IInv'
    <2> DEFINE ms == [sms EXCEPT ![s].timers = 0]
    <2>1. /\ SmsOk(ms) /\ ToUpdate(ms) = ToUpdate(sms)
          /\ ms[s].ptk = sms[s].ptk
      <3> DEFINE q == sms[s]
                 m == [q EXCEPT !.timers = 0]
      <3>1. SmOk(q)
        BY <1>1 DEF SmsOk
      <3>2. ms[s] = m /\ DOMAIN ms = Stations /\ \A t \in Stations : t # s => ms[t] = sms[t]
        BY <1>1 DEF SmsOk
      <3> HIDE DEF q, ms
      <3>3. SmOk(m) /\ (m.GUpdateStationKeys <=> q.GUpdateStationKeys) /\ m.ptk = q.ptk
        BY <3>1 DEF SmOk, SmFields
      <3> HIDE DEF m
      <3>4. SmsOk(ms)
        BY <1>1, <3>2, <3>3 DEF SmsOk
      <3>5. ToUpdate(ms) = ToUpdate(sms)
        BY <3>2, <3>3 DEF ToUpdate, q
      <3>6. QED
        BY <3>2, <3>3, <3>4, <3>5 DEF q
    <2>2. PICK ok \in Oks : LET r == wpa_rekey_gtk(ms, group, down, ok)
                            IN  \E x \in wpa_sm_step(Work(r.sms[s], r.group, {}, ok)) :
                                   Commit(s, r.sms, x)
      BY <1>3 DEF ReceiveGtkRequest
    <2> HIDE DEF ms
    <2> DEFINE r == wpa_rekey_gtk(ms, group, down, ok)
               m == r.sms[s]
    <2>3. /\ SmsOk(r.sms) /\ GroupOk(r.group)
          /\ r.group.GKeyDoneStations = Cardinality(ToUpdate(r.sms))
          /\ m.ptk = sms[s].ptk
      BY <1>1, <2>1, RekeyOk
    <2>4. PICK x \in wpa_sm_step(Work(m, r.group, {}, ok)) : Commit(s, r.sms, x)
      BY <2>2
    <2> HIDE DEF r
    <2>5. sms[s].ptk # "none"
      BY <1>1, <1>3 DEF SmsOk, SmOk, ReceiveGtkRequest, Accepted
    <2>6. m = [f \in SmFields |-> m[f]]
      BY <2>3 DEF SmsOk, SmOk
    <2>7. Ok(Work(m, r.group, {}, ok), Others(r.sms, s)) /\ Others(r.sms, s) \in Int
      BY <2>3, <2>5, <2>6, StepOk
    <2>8. QED
      BY <2>3, <2>4, <2>7, HandlerOk
  <1>4. QED
    BY <1>2, <1>3

\* A removed station has no share left.
LEMMA RemovedOk ==
    ASSUME NEW n \in Int, NEW x, Ok(x, n)
    PROVE  LET y == [GroupDone(x) EXCEPT !.sm = NoSm]
           IN  SmOk(y.sm) /\ GroupOk(y.group) /\ Rest(y.sm, y.group) = n
               /\ y.group.state = x.group.state
  <1> DEFINE d == GroupDone(x)
             y == [d EXCEPT !.sm = NoSm]
  <1>1. Ok(d, n) /\ ~d.sm.GUpdateStationKeys
    BY Helpers
  <1>2. d.group.state = x.group.state
    BY DEF GroupDone, Ok, GroupOk, WorkFields, GroupFields
  <1> HIDE DEF d
  <1>3. y.sm = NoSm /\ y.group = d.group
    BY <1>1 DEF Ok, WorkFields
  <1>4. SmOk(NoSm) /\ ~NoSm.GUpdateStationKeys
    BY DEF SmOk, SmFields, NoSm, NewSm
  <1>5. GroupOk(d.group) /\ d.group.GKeyDoneStations = n
    BY <1>1 DEF Ok, Rest
  <1>6. SmOk(y.sm) /\ GroupOk(y.group) /\ Rest(y.sm, y.group) = n
        /\ y.group.state = x.group.state
    BY <1>2, <1>3, <1>4, <1>5 DEF Rest
  <1>7. QED
    BY <1>6 DEF d

\* A station takes its leave.
LEMMA LeaveOk ==
    ASSUME IInv, NEW s \in Stations, ReceiveLeave(s)
    PROVE  IInv'
  <1>1. /\ SmOk(sms[s]) /\ sms[s] = [f \in SmFields |-> sms[s][f]]
        /\ GroupOk(group) /\ group.GKeyDoneStations = Cardinality(ToUpdate(sms))
        /\ SmsOk(sms)
    BY SmFacts
  <1>2. CASE UNCHANGED <<sms, group>>
    BY <1>2 DEF IInv, SmsOk, SmOk, SmFields, GroupOk, GroupFields, CountExact
  <1>3. CASE Known(s)
    <2> DEFINE q == sms[s]
               m == [q EXCEPT !.assoc = FALSE]
    <2>1. q = [f \in SmFields |-> q[f]] /\ q.ptk # "none"
      BY <1>1, <1>3 DEF Known
    <2>2. PICK ok \in Oks :
             \E x \in wpa_sm_step(wpa_remove_ptk(Work(m, group,
                                     {"DeauthenticationRequest"}, ok))) :
                Commit(s, sms, IF Head(up[s]).type = "disassoc" THEN x
                               ELSE [GroupDone(x) EXCEPT !.sm = NoSm])
      BY <1>3 DEF ReceiveLeave
    <2> HIDE DEF q
    <2>3. /\ m = [f \in SmFields |-> m[f]] /\ m.ptk # "none"
          /\ (m.GUpdateStationKeys <=> q.GUpdateStationKeys)
      BY <2>1 DEF SmFields
    <2> HIDE DEF m
    <2> DEFINE w == wpa_remove_ptk(Work(m, group, {"DeauthenticationRequest"}, ok))
    <2>4. PICK x \in wpa_sm_step(w) :
             Commit(s, sms, IF Head(up[s]).type = "disassoc" THEN x
                            ELSE [GroupDone(x) EXCEPT !.sm = NoSm])
      BY <2>2
    <2>5. Ok(w, Others(sms, s)) /\ Others(sms, s) \in Int
      BY <1>1, <2>3, StepOk DEF q
    <2> HIDE DEF w
    <2>6. Ok(x, Others(sms, s))
      BY <2>5, LoopOk
    <2>7. CASE Commit(s, sms, x)
      BY <1>1, <2>6, <2>7, OkEnds, CommitOk
    <2>8. CASE Commit(s, sms, [GroupDone(x) EXCEPT !.sm = NoSm])
      <3> DEFINE y == [GroupDone(x) EXCEPT !.sm = NoSm]
      <3>1. SmOk(y.sm) /\ GroupOk(y.group) /\ Rest(y.sm, y.group) = Others(sms, s)
        BY <2>5, <2>6, RemovedOk
      <3>2. Commit(s, sms, y)
        BY <2>8
      <3> HIDE DEF y
      <3>3. QED
        BY <1>1, <3>1, <3>2, CommitOk
    <2>9. QED
      BY <2>4, <2>7, <2>8
  <1>4. QED
    BY <1>2, <1>3 DEF ReceiveLeave

\* The access point forgets a station.
LEMMA FreeOk ==
    ASSUME IInv, NEW s \in Stations, Free(s)
    PROVE  IInv'
  <1>1. /\ SmOk(sms[s]) /\ sms[s] = [f \in SmFields |-> sms[s][f]]
        /\ GroupOk(group) /\ group.GKeyDoneStations = Cardinality(ToUpdate(sms))
        /\ SmsOk(sms) /\ DOMAIN sms = Stations
    BY SmFacts
  <1> DEFINE x == Work(sms[s], group, {}, TRUE)
             y == [GroupDone(x) EXCEPT !.sm = NoSm]
  <1>2. Ok(x, Others(sms, s)) /\ Others(sms, s) \in Int
    BY <1>1, StepOk DEF Free, Known
  <1>3. x.group = group
    BY DEF Work
  <1>4. group' = GroupDone(x).group /\ sms' = [sms EXCEPT ![s] = NoSm]
    BY DEF Free
  <1>5. Ok(GroupDone(x), Others(sms, s))
    BY <1>2, Helpers
  <1> HIDE DEF x
  <1>6. /\ SmOk(y.sm) /\ GroupOk(y.group) /\ Rest(y.sm, y.group) = Others(sms, s)
        /\ y.group.state = group.state
    BY <1>2, <1>3, RemovedOk
  <1>7. y.sm = NoSm /\ y.group = GroupDone(x).group
    BY <1>5 DEF Ok, WorkFields
  <1> HIDE DEF y
  <1>8. Commit(s, sms, y)
    BY <1>4, <1>6, <1>7 DEF Commit, Failed
  <1>9. QED
    BY <1>1, <1>6, <1>8, CommitOk

\* handle_assoc_cb: a new handshake takes the station out of the rekey.
LEMMA AssociateOk ==
    ASSUME IInv, NEW s \in Stations, Associate(s)
    PROVE  IInv'
  <1>1. /\ SmOk(sms[s]) /\ sms[s] = [f \in SmFields |-> sms[s][f]]
        /\ GroupOk(group) /\ group.GKeyDoneStations = Cardinality(ToUpdate(sms))
        /\ SmsOk(sms)
    BY SmFacts
  <1> DEFINE q == sms[s]
             m == IF Known(s) THEN [q EXCEPT !.assoc = TRUE] ELSE NewSm
             n == Others(sms, s)
  <1>2. PICK ok \in Oks :
           \E w \in wpa_sm_step(wpa_remove_ptk(Work(m, group, {}, ok))) :
              \E x \in wpa_sm_step(Reauth(w, q.assoc)) : Commit(s, sms, x)
    BY DEF Associate
  <1>3. /\ m = [f \in SmFields |-> m[f]] /\ m.ptk # "none"
        /\ (m.GUpdateStationKeys <=> q.GUpdateStationKeys)
    <2>1. CASE Known(s)
      <3>1. m = [q EXCEPT !.assoc = TRUE]
        BY <2>1
      <3>2. SmOk(q) /\ q.ptk # "none"
        BY <1>1, <2>1 DEF Known
      <3> HIDE DEF q, m
      <3>3. LET k == [q EXCEPT !.assoc = TRUE]
            IN  /\ k = [f \in SmFields |-> k[f]] /\ k.ptk # "none"
                /\ (k.GUpdateStationKeys <=> q.GUpdateStationKeys)
        BY <3>2 DEF SmOk, SmFields
      <3>4. QED
        BY <3>1, <3>3
    <2>2. CASE ~Known(s)
      <3>1. m = NewSm
        BY <2>2
      <3>2. ~q.GUpdateStationKeys
        BY <1>1, <2>2 DEF Known, SmOk
      <3> HIDE DEF q, m
      <3>3. /\ NewSm = [f \in SmFields |-> NewSm[f]] /\ NewSm.ptk # "none"
            /\ ~NewSm.GUpdateStationKeys
        BY DEF NewSm, SmFields
      <3>4. QED
        BY <3>1, <3>2, <3>3
    <2>3. QED
      BY <2>1, <2>2
  <1> HIDE DEF m
  <1> DEFINE v == wpa_remove_ptk(Work(m, group, {}, ok))
  <1>4. Ok(v, n) /\ n \in Int
    BY <1>1, <1>3, StepOk
  <1>5. PICK w \in wpa_sm_step(v) : \E x \in wpa_sm_step(Reauth(w, q.assoc)) : Commit(s, sms, x)
    BY <1>2
  <1> HIDE DEF v
  <1>6. Ok(w, n)
    BY <1>4, LoopOk
  <1> HIDE DEF n, q
  <1>7. Ok(Reauth(w, q.assoc), n)
    <2>1. ASSUME NEW z, Ok(z, n), NEW e PROVE Ok([z EXCEPT !.ev = e], n)
      BY <2>1 DEF Ok, WorkFields
    <2> DEFINE d == GroupDone(w)
               y == IF q.assoc /\ w.sm.GUpdateStationKeys
                    THEN [d EXCEPT !.ev = @ \cup {"PtkGroupInit"}] ELSE w
    <2>2. Ok(d, n)
      BY <1>4, <1>6, Helpers
    <2>3. Ok(y, n)
      BY <1>6, <2>1, <2>2
    <2>4. Reauth(w, q.assoc) = [y EXCEPT !.ev = @ \cup {"ReAuthenticationRequest"}]
      BY DEF Reauth
    <2> HIDE DEF y
    <2>5. QED
      BY <2>1, <2>3, <2>4
  <1>8. PICK x \in wpa_sm_step(Reauth(w, q.assoc)) : Commit(s, sms, x)
    BY <1>5
  <1>9. QED
    BY <1>1, <1>4, <1>7, <1>8, HandlerOk DEF n

\* ap_handle_timer finds a station inactive.
LEMMA InactiveOk ==
    ASSUME IInv, NEW s \in Stations, Inactive(s)
    PROVE  IInv'
  <1>1. /\ SmOk(sms[s]) /\ GroupOk(group) /\ SmsOk(sms) /\ DOMAIN sms = Stations
        /\ group.GKeyDoneStations = Cardinality(ToUpdate(sms))
    BY SmFacts
  <1> DEFINE q == sms[s]
             m == [q EXCEPT !.assoc = FALSE]
  <1>2. /\ DOMAIN sms' = Stations /\ sms'[s] = m /\ group' = group
        /\ \A t \in Stations : t # s => sms'[t] = sms[t]
    BY <1>1 DEF Inactive
  <1>3. SmOk(q)
    BY <1>1
  <1> HIDE DEF q
  <1>4. SmOk(m) /\ (m.GUpdateStationKeys <=> q.GUpdateStationKeys)
    BY <1>3 DEF SmOk, SmFields
  <1> HIDE DEF m
  <1>5. \A t \in Stations : SmOk(sms'[t])
    BY <1>1, <1>2, <1>4 DEF SmsOk
  <1>6. ToUpdate(sms') = ToUpdate(sms)
    BY <1>2, <1>4 DEF ToUpdate, q
  <1>7. SmsOk(sms)'
    BY <1>2, <1>5 DEF SmsOk, SmOk, SmFields
  <1>8. GroupOk(group)'
    BY <1>1, <1>2 DEF GroupOk, GroupFields
  <1>9. CountExact'
    BY <1>1, <1>2, <1>6 DEF CountExact, ToUpdate
  <1>10. QED
    BY <1>7, <1>8, <1>9 DEF IInv

-----------------------------------------------------------------------------
(* The theorems. *)

\* Every step keeps the invariant.
LEMMA StepKeeps == IInv /\ [Next]_vars => IInv'
  <1> SUFFICES ASSUME IInv, [Next]_vars PROVE IInv'
    OBVIOUS
  <1>1. CASE UNCHANGED <<sms, group>>
    BY <1>1 DEF IInv, SmsOk, SmOk, SmFields, GroupOk, GroupFields, CountExact
  <1>2. ASSUME NEW s \in Stations,
               \/ wpa_sm_rx_eapol(s) \/ LoseDown(s) \/ LoseUp(s) \/ KeyRequest(s) \/ Leave(s)
               \/ ReceiveDropped(s)
        PROVE  UNCHANGED <<sms, group>>
    BY <1>2 DEF wpa_sm_rx_eapol, Process1of4, Process3of4, Process1of2, Take, LoseDown, LoseUp,
                KeyRequest, Leave, ReceiveDropped
  <1>3. QED
    BY <1>1, <1>2, TimeoutOk, RekeysOk, LeaveOk, FreeOk, AssociateOk, InactiveOk
       DEF Next, Receive, vars

\* At first no station is known and none is counted.
LEMMA InitCount == Init => IInv
  <1> SUFFICES ASSUME Init PROVE IInv
    OBVIOUS
  <1>1. SmOk(NoSm) /\ ~NoSm.GUpdateStationKeys
    BY DEF SmOk, SmFields, NoSm, NewSm
  <1>2. DOMAIN sms = Stations /\ \A s \in Stations : sms[s] = NoSm
    BY DEF Init
  <1>3. SmsOk(sms)
    BY <1>1, <1>2 DEF SmsOk
  <1>4. GroupOk(group) /\ group.GKeyDoneStations = 0
    BY DEF Init, GroupOk, GroupFields
  <1>5. {s \in Stations : sms[s].GUpdateStationKeys} = {}
    BY <1>1, <1>2
  <1>6. CountExact
    BY <1>4, <1>5, FS_EmptySet DEF CountExact
  <1>7. QED
    BY <1>3, <1>4, <1>6 DEF IInv

\* The count and what it rests on hold in every state.
THEOREM Invariance == Spec => []IInv
  BY StepKeeps, InitCount, PTL DEF Spec

\* GKeyDoneStations is the number of stations still to be updated, through
\* answers, timeouts, rekeys that replace one another, stations that leave, are
\* forgotten or come again, and a driver that refuses the key, for any number of
\* stations and any limits (wpa_auth.c counts it down in six places).
THEOREM CountIsExact == Spec => []CountExact
  <1>1. IInv => CountExact
    BY DEF IInv
  <1>2. QED
    BY <1>1, Invariance, PTL

\* So the counter, an int that wpa_group_sm_step compares with 0, neither drops
\* below zero nor passes the number of stations.
THEOREM CountInRange == Spec => [](group.GKeyDoneStations \in 0 .. Cardinality(Stations))
  <1>1. ASSUME IInv PROVE group.GKeyDoneStations \in 0 .. Cardinality(Stations)
    <2> DEFINE S == {s \in Stations : sms[s].GUpdateStationKeys}
    <2>1. IsFiniteSet(S) /\ Cardinality(S) <= Cardinality(Stations)
      BY StationsAssumption, FS_Subset
    <2>2. Cardinality(S) \in Nat /\ Cardinality(Stations) \in Nat
      BY <2>1, StationsAssumption, FS_CardinalityType
    <2>3. QED
      BY <1>1, <2>1, <2>2 DEF IInv, CountExact
  <1>2. QED
    BY <1>1, Invariance, PTL

=============================================================================
