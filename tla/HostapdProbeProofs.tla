------------------------- MODULE HostapdProbeProofs -------------------------
(***************************************************************************)
(* Proofs about the access point: types, acks that follow their relay, and *)
(* acks that are not multiplied, for any access points and any requests.   *)
(* The types hold only together with AckAfterRelay, which says that what   *)
(* is relayed is a frame.                                                  *)
(***************************************************************************)
EXTENDS HostapdProbe, TLAPS

\* What a step keeps: types and the order of relay and ack.
IInv == TypeOK /\ AckAfterRelay

-----------------------------------------------------------------------------

\* A stuffed request carries one of the frames.
LEMMA StuffedIsData ==
    ASSUME NEW r \in Requests, r.stuffed # NoData
    PROVE  r.stuffed \in Data
  BY DEF Data

\* A response with an ack is of the type of the responses.
LEMMA AckIsTyped ==
    ASSUME NEW r \in Requests, NEW d \in Data
    PROVE  [da |-> r.sa, ack |-> d] \in Acks
  <1>1. r.sa \in {q.sa : q \in Requests}  OBVIOUS
  <1>2. QED  BY <1>1 DEF Acks

\* The initial state satisfies everything.
LEMMA InitHolds == Init => IInv /\ AckConservation
  BY MaxRelaysAssumption DEF Init, IInv, TypeOK, AckAfterRelay, AckConservation

-----------------------------------------------------------------------------
(* Types *)

\* The pending ack has its type after it was taken.
LEMMA TakeTyped ==
    ASSUME TypeOK, NEW a \in APs, TakeAck(a)
    PROVE  probe_resp_ack_ie' \in [APs -> Data \cup {NoData}]
  BY DEF TypeOK, TakeAck

\* Every step keeps the types.
LEMMA TypeStep == IInv /\ [Next]_vars => TypeOK'
  <1> SUFFICES ASSUME TypeOK, AckAfterRelay, [Next]_vars PROVE TypeOK'
    BY DEF IInv
  <1>1. CASE UNCHANGED vars
    BY <1>1 DEF TypeOK, vars
  <1>2. CASE Next
    <2>1. PICK a \in APs :
             \/ Receive(a) \/ RelayDone(a) \/ Answer(a) \/ BuildTemplate(a)
             \/ \E r \in Requests : DriverReply(a, r.sa)
      BY <1>2 DEF Next
    <2>2. ASSUME NEW r \in Requests, Ignore(a, r) PROVE TypeOK'
      BY <2>2 DEF Ignore, TypeOK, vars
    <2>3. ASSUME NEW r \in Requests, Stuffed(a, r) PROVE TypeOK'
      <3>1. r.stuffed \in Data
        BY <2>3, StuffedIsData DEF Stuffed
      <3>2. relays' \in [APs -> 0 .. MaxRelays]
        BY <2>3, MaxRelaysAssumption DEF Stuffed, TypeOK
      <3>3. probe_resp_ack_ie' \in [APs -> Data \cup {NoData}]
        BY <2>3, <3>1 DEF Stuffed, TypeOK
      <3>4. mgmt' \in [APs -> Requests \cup {NoData}] /\ mgmt'[a] = r
        BY <2>3 DEF Stuffed, TypeOK
      <3>5. \A b \in APs : hapd_pc'[b] # "idle" => mgmt'[b] \in Requests
        BY <2>3 DEF Stuffed, TypeOK
      <3>6. QED
        BY <2>3, <3>2, <3>3, <3>4, <3>5 DEF Stuffed, TypeOK
    <2>4. ASSUME NEW r \in Requests, Plain(a, r) PROVE TypeOK'
      <3>1. \A b \in APs : hapd_pc'[b] # "idle" => mgmt'[b] \in Requests
        BY <2>4 DEF Plain, TypeOK
      <3>2. QED
        BY <2>4, <3>1 DEF Plain, TypeOK
    <2>5. CASE NoReply(a)
      BY <2>5 DEF NoReply, TypeOK
    <2>6. ASSUME NEW sent \in BOOLEAN, Reply(a, sent) PROVE TypeOK'
      <3>1. mgmt[a] \in Requests /\ hapd_pc[a] = "answer"
        BY <2>6 DEF Reply, TypeOK
      <3>2. ASSUME probe_resp_ack_ie[a] # NoData
            PROVE  [da |-> mgmt[a].sa, ack |-> probe_resp_ack_ie[a]] \in Acks
        <4>1. probe_resp_ack_ie[a] \in Data
          BY <3>2 DEF TypeOK
        <4>2. QED
          BY <3>1, <4>1, AckIsTyped
      <3>3. responses' \in [APs -> SUBSET Acks]
        BY <2>6, <3>2 DEF Reply, TypeOK
      <3>4. acks_sent' \in [APs -> Nat]
        BY <2>6 DEF Reply, TypeOK
      <3>5. probe_resp_ack_ie' \in [APs -> Data \cup {NoData}]
        BY <2>6, TakeTyped DEF Reply
      <3>6. QED
        BY <2>6, <3>3, <3>4, <3>5 DEF Reply, TypeOK
    <2>7. CASE RelayDone(a)
      <3>1. mgmt[a] \in Requests /\ mgmt[a].stuffed # NoData
        BY <2>7 DEF RelayDone, TypeOK, AckAfterRelay
      <3>2. mgmt[a].stuffed \in Data
        BY <3>1, StuffedIsData
      <3>3. relayed' \in [APs -> SUBSET Data]
        BY <2>7, <3>2 DEF RelayDone, TypeOK
      <3>4. \A b \in APs : hapd_pc'[b] # "idle" => mgmt'[b] \in Requests
        BY <2>7, <3>1 DEF RelayDone, TypeOK
      <3>5. QED
        BY <2>7, <3>3, <3>4 DEF RelayDone, TypeOK
    <2>8. CASE BuildTemplate(a)
      <3>1. template' \in [APs -> Data \cup {NoData}]
        BY <2>8 DEF BuildTemplate, TypeOK
      <3>2. probe_resp_ack_ie' \in [APs -> Data \cup {NoData}]
        BY <2>8, TakeTyped DEF BuildTemplate
      <3>3. QED
        BY <2>8, <3>1, <3>2 DEF BuildTemplate, TypeOK
    <2>9. ASSUME NEW r \in Requests, DriverReply(a, r.sa) PROVE TypeOK'
      <3>1. template[a] \in Data
        BY <2>9 DEF DriverReply, TypeOK
      <3>2. [da |-> r.sa, ack |-> template[a]] \in Acks
        BY <3>1, AckIsTyped
      <3>3. QED
        BY <2>9, <3>2 DEF DriverReply, TypeOK
    <2>10. QED
      BY <2>1, <2>2, <2>3, <2>4, <2>5, <2>6, <2>7, <2>8, <2>9
      DEF Receive, Answer
  <1>3. QED
    BY <1>1, <1>2

-----------------------------------------------------------------------------
(* The order of relay and ack *)

\* What AckAfterRelay says of one access point.
Ordered(a) ==
    /\ \A m \in responses[a] : m.ack \in relayed[a]
    /\ template[a] # NoData => template[a] \in relayed[a]
    /\ probe_resp_ack_ie[a] # NoData =>
          \/ probe_resp_ack_ie[a] \in relayed[a]
          \/ hapd_pc[a] = "relay" /\ probe_resp_ack_ie[a] = mgmt[a].stuffed
    /\ hapd_pc[a] = "relay" => probe_resp_ack_ie[a] = mgmt[a].stuffed
                               /\ mgmt[a].stuffed # NoData

\* A step of one access point leaves the others as they are.
LEMMA OthersUnchanged ==
    ASSUME TypeOK, NEW a \in APs, NEW b \in APs, a # b,
           \/ Receive(a) \/ RelayDone(a) \/ Answer(a) \/ BuildTemplate(a)
           \/ \E r \in Requests : DriverReply(a, r.sa)
    PROVE  /\ hapd_pc'[b] = hapd_pc[b] /\ mgmt'[b] = mgmt[b]
           /\ probe_resp_ack_ie'[b] = probe_resp_ack_ie[b]
           /\ template'[b] = template[b] /\ relayed'[b] = relayed[b]
           /\ relays'[b] = relays[b] /\ acks_sent'[b] = acks_sent[b]
           /\ responses'[b] = responses[b]
  <1>1. ASSUME NEW r \in Requests, Ignore(a, r) \/ Stuffed(a, r) \/ Plain(a, r)
        PROVE  UNCHANGED <<hapd_pc[b], mgmt[b], probe_resp_ack_ie[b], template[b],
                           relayed[b], relays[b], acks_sent[b], responses[b]>>
    BY <1>1 DEF Ignore, Stuffed, Plain, TypeOK, vars
  <1>2. ASSUME RelayDone(a) \/ NoReply(a) \/ BuildTemplate(a)
        PROVE  UNCHANGED <<hapd_pc[b], mgmt[b], probe_resp_ack_ie[b], template[b],
                           relayed[b], relays[b], acks_sent[b], responses[b]>>
    BY <1>2 DEF RelayDone, NoReply, BuildTemplate, TakeAck, TypeOK
  <1>3. ASSUME NEW sent \in BOOLEAN, Reply(a, sent)
        PROVE  UNCHANGED <<hapd_pc[b], mgmt[b], probe_resp_ack_ie[b], template[b],
                           relayed[b], relays[b], acks_sent[b], responses[b]>>
    BY <1>3 DEF Reply, TakeAck, TypeOK
  <1>4. ASSUME NEW r \in Requests, DriverReply(a, r.sa)
        PROVE  UNCHANGED <<hapd_pc[b], mgmt[b], probe_resp_ack_ie[b], template[b],
                           relayed[b], relays[b], acks_sent[b], responses[b]>>
    BY <1>4 DEF DriverReply, TypeOK
  <1>5. QED
    BY <1>1, <1>2, <1>3, <1>4 DEF Receive, Answer

\* Every step keeps the order: an ack leaves hostapd only after system() has
\* returned for its frame.
LEMMA OrderStep == IInv /\ [Next]_vars => AckAfterRelay'
  <1> SUFFICES ASSUME TypeOK, \A b \in APs : Ordered(b), [Next]_vars
               PROVE  \A b \in APs : Ordered(b)'
    BY DEF IInv, AckAfterRelay, Ordered
  <1>1. CASE UNCHANGED vars
    BY <1>1 DEF Ordered, vars
  <1>2. CASE Next
    <2>1. PICK a \in APs :
             \/ Receive(a) \/ RelayDone(a) \/ Answer(a) \/ BuildTemplate(a)
             \/ \E r \in Requests : DriverReply(a, r.sa)
      BY <1>2 DEF Next
    <2>2. ASSUME NEW b \in APs, b # a PROVE Ordered(b)'
      BY <2>1, <2>2, OthersUnchanged DEF Ordered
    <2>3. Ordered(a)'
      <3>1. ASSUME NEW r \in Requests, Ignore(a, r) PROVE Ordered(a)'
        BY <3>1 DEF Ignore, Ordered, vars
      <3>2. ASSUME NEW r \in Requests, Stuffed(a, r) PROVE Ordered(a)'
        BY <3>2 DEF Stuffed, Ordered, TypeOK
      <3>3. ASSUME NEW r \in Requests, Plain(a, r) PROVE Ordered(a)'
        BY <3>3 DEF Plain, Ordered, TypeOK
      <3>4. CASE RelayDone(a)
        BY <3>4 DEF RelayDone, Ordered, TypeOK
      <3>5. CASE NoReply(a)
        BY <3>5 DEF NoReply, Ordered, TypeOK
      <3>6. ASSUME NEW sent \in BOOLEAN, Reply(a, sent) PROVE Ordered(a)'
        <4>1. probe_resp_ack_ie'[a] = NoData /\ hapd_pc'[a] = "idle"
          BY <3>6 DEF Reply, TakeAck, TypeOK
        <4>2. \A m \in responses'[a] :
                 \/ m \in responses[a]
                 \/ /\ probe_resp_ack_ie[a] # NoData
                    /\ m = [da |-> mgmt[a].sa, ack |-> probe_resp_ack_ie[a]]
          BY <3>6 DEF Reply, TypeOK
        <4>3. probe_resp_ack_ie[a] # NoData => probe_resp_ack_ie[a] \in relayed[a]
          BY <3>6 DEF Reply, Ordered
        <4>4. template' = template /\ relayed' = relayed
          BY <3>6 DEF Reply
        <4>5. QED
          BY <4>1, <4>2, <4>3, <4>4 DEF Ordered
      <3>7. CASE BuildTemplate(a)
        BY <3>7 DEF BuildTemplate, TakeAck, Ordered, TypeOK
      <3>8. ASSUME NEW r \in Requests, DriverReply(a, r.sa) PROVE Ordered(a)'
        BY <3>8 DEF DriverReply, Ordered, TypeOK
      <3>9. QED
        BY <2>1, <3>1, <3>2, <3>3, <3>4, <3>5, <3>6, <3>7, <3>8
        DEF Receive, Answer
    <2>4. QED
      BY <2>2, <2>3
  <1>3. QED
    BY <1>1, <1>2

-----------------------------------------------------------------------------
(* Acks are not multiplied *)

\* What AckConservation says of one access point.
Conserved(a) ==
    acks_sent[a] + (IF probe_resp_ack_ie[a] = NoData THEN 0 ELSE 1) <= relays[a]

\* Every step keeps the count of acks below the count of stuffed requests.
LEMMA ConservationStep ==
    TypeOK /\ AckConservation /\ [Next]_vars => AckConservation'
  <1> SUFFICES ASSUME TypeOK, \A b \in APs : Conserved(b), [Next]_vars
               PROVE  \A b \in APs : Conserved(b)'
    BY DEF AckConservation, Conserved
  <1>1. CASE UNCHANGED vars
    BY <1>1 DEF Conserved, vars
  <1>2. CASE Next
    <2>1. PICK a \in APs :
             \/ Receive(a) \/ RelayDone(a) \/ Answer(a) \/ BuildTemplate(a)
             \/ \E r \in Requests : DriverReply(a, r.sa)
      BY <1>2 DEF Next
    <2>2. ASSUME NEW b \in APs, b # a PROVE Conserved(b)'
      BY <2>1, <2>2, OthersUnchanged DEF Conserved
    <2>3. acks_sent[a] \in Nat /\ relays[a] \in Nat
      BY DEF TypeOK
    <2>4. Conserved(a)'
      <3>1. ASSUME NEW r \in Requests, Ignore(a, r) \/ Plain(a, r)
            PROVE  Conserved(a)'
        BY <3>1 DEF Ignore, Plain, Conserved, vars
      <3>2. ASSUME NEW r \in Requests, Stuffed(a, r) PROVE Conserved(a)'
        <4>1. relays'[a] = relays[a] + 1 /\ acks_sent'[a] = acks_sent[a]
          BY <3>2 DEF Stuffed, TypeOK
        <4>2. QED
          BY <2>3, <4>1 DEF Conserved
      <3>3. CASE RelayDone(a) \/ NoReply(a)
        BY <3>3 DEF RelayDone, NoReply, Conserved
      <3>4. ASSUME NEW sent \in BOOLEAN, Reply(a, sent) PROVE Conserved(a)'
        <4>1. probe_resp_ack_ie'[a] = NoData /\ relays'[a] = relays[a]
          BY <3>4 DEF Reply, TakeAck, TypeOK
        <4>2. acks_sent'[a] = IF probe_resp_ack_ie[a] # NoData
                              THEN acks_sent[a] + 1 ELSE acks_sent[a]
          BY <3>4 DEF Reply, TypeOK
        <4>3. QED
          BY <2>3, <4>1, <4>2 DEF Conserved
      <3>5. CASE BuildTemplate(a)
        <4>1. probe_resp_ack_ie'[a] = NoData
          BY <3>5 DEF BuildTemplate, TakeAck, TypeOK
        <4>2. relays'[a] = relays[a] /\ acks_sent'[a] = acks_sent[a]
          BY <3>5 DEF BuildTemplate
        <4>3. QED
          BY <2>3, <4>1, <4>2 DEF Conserved
      <3>6. ASSUME NEW r \in Requests, DriverReply(a, r.sa) PROVE Conserved(a)'
        BY <3>6 DEF DriverReply, Conserved
      <3>7. QED
        BY <2>1, <3>1, <3>2, <3>3, <3>4, <3>5, <3>6 DEF Receive, Answer
    <2>5. QED
      BY <2>2, <2>4
  <1>3. QED
    BY <1>1, <1>2

-----------------------------------------------------------------------------

\* The inductive invariant holds in every state of every behaviour.
THEOREM Invariance == Spec => []IInv
  <1>1. IInv /\ [Next]_vars => IInv'
    BY TypeStep, OrderStep DEF IInv
  <1>2. Init => IInv
    BY InitHolds
  <1>3. QED
    BY <1>1, <1>2, PTL DEF Spec

\* The access point's state keeps its types; what it relays are frames.
THEOREM TypeCorrect == Spec => []TypeOK
  <1>1. IInv => TypeOK  BY DEF IInv
  <1>2. QED  BY Invariance, <1>1, PTL

\* hostapd acknowledges a frame, by a response of its own or through the
\* driver's template, only after the system() that hands it to the controller
\* has returned, whatever requests of others come in between.
THEOREM AcksFollowRelays == Spec => []AckAfterRelay
  <1>1. IInv => AckAfterRelay  BY DEF IInv
  <1>2. QED  BY Invariance, <1>1, PTL

\* hostapd builds no more responses with an ack than stuffed requests came.
THEOREM AcksConserved == Spec => []AckConservation
  <1>1. TypeOK /\ AckConservation /\ [Next]_vars => AckConservation'
    BY ConservationStep
  <1>2. Init => AckConservation
    BY InitHolds
  <1>3. QED
    BY <1>1, <1>2, TypeCorrect, PTL DEF Spec
=============================================================================
