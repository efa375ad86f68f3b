------------------------- MODULE DataOverWifiProofs -------------------------
(***************************************************************************)
(* Proofs about the whole path, for any number of clients, access points   *)
(* and stations, every length of line and every fragment size: within it   *)
(* clients and access points behave as they do on their own, so that what  *)
(* is proved of them (ProbeStuffingProofs, HostapdProbeProofs) holds here; *)
(* an ack number comes from a relayed frame; and the rows of a message fit *)
(* together.                                                               *)
(***************************************************************************)
EXTENDS DataOverWifi, TLAPS, FiniteSetTheorems, SequenceTheorems

CP == INSTANCE ProbeStuffingProofs
HP == INSTANCE HostapdProbeProofs WITH Offloading <- {}

-----------------------------------------------------------------------------
(* Clients and access points as parts. *)

\* The dumps are sequences of numbers.
LEMMA DumpsAreSeqs == Dumps \subseteq Seq(Nat)
  <1> SUFFICES ASSUME NEW d \in Dumps PROVE d \in Seq(Nat)
    OBVIOUS
  <1>1. IsFiniteSet(APs) => Cardinality(APs) \in Nat
    BY FS_CardinalityType
  <1>2. PICK k \in 0 .. Cardinality(APs) : d \in [1 .. k -> 0 .. MaxFrames]
    BY DEF Dumps
  <1>3. k \in Nat
    BY <1>1, <1>2, APsAssumption
  <1>4. d \in [1 .. k -> Nat]
    BY <1>2, <1>3
  <1>5. QED
    BY <1>3, <1>4

\* What ProbeStuffing and HostapdProbe assume of their constants.
LEMMA PartsAssumptions ==
    /\ CP!LensAssumption /\ CP!FragAssumption /\ CP!RetriesAssumption
    /\ CP!DumpsAssumption /\ CP!MaxMsgsAssumption
    /\ HP!OffloadingAssumption /\ HP!MaxRelaysAssumption
  BY LensAssumption, FragAssumption, RetriesAssumption, BoundsAssumption, DumpsAreSeqs
     DEF CP!LensAssumption, CP!FragAssumption, CP!RetriesAssumption,
         CP!DumpsAssumption, CP!MaxMsgsAssumption,
         HP!OffloadingAssumption, HP!MaxRelaysAssumption

\* A step of main() here is one of the client on its own.
LEMMA ClientStepBridge ==
    ASSUME NEW c \in Clients, ClientStep(c)
    PROVE  \/ CP!Start(c) \/ CP!Prompt(c) \/ CP!BuildFrame(c) \/ CP!EndMessage(c)
           \/ CP!ScanFailed(c) \/ CP!ScanDone(c)
  <1> USE DEF C!argVars, C!msgVars, C!fragVars, C!seqVars, C!tryVars, C!histVars,
              CP!argVars, CP!msgVars, CP!fragVars, CP!seqVars, CP!tryVars, CP!histVars
  <1>1. C!Start(c) => CP!Start(c)
    BY DEF C!Start, CP!Start, C!ParseArgs, CP!ParseArgs
  <1>2. C!Prompt(c) => CP!Prompt(c)
    BY DEF C!Prompt, CP!Prompt, C!ReadLine, CP!ReadLine, C!ReadEOF, CP!ReadEOF,
           C!StartMessage, CP!StartMessage
  <1>3. C!BuildFrame(c) => CP!BuildFrame(c)
    BY DEF C!BuildFrame, CP!BuildFrame, C!Frame, CP!Frame, C!NextLen, CP!NextLen,
           C!NextMfb, CP!NextMfb, C!Least, CP!Least
  <1>4. C!EndMessage(c) => CP!EndMessage(c)
    BY DEF C!EndMessage, CP!EndMessage
  <1>5. C!ScanFailed(c) => CP!ScanFailed(c)
    BY DEF C!ScanFailed, CP!ScanFailed, C!RetryOrGiveUp, CP!RetryOrGiveUp
  <1>6. C!ScanDone(c) => CP!ScanDone(c)
    BY DEF C!ScanDone, CP!ScanDone
  <1>7. QED
    BY <1>1, <1>2, <1>3, <1>4, <1>5, <1>6 DEF ClientStep

\* So is sending a stuffed request.
LEMMA ScanBridge ==
    ASSUME NEW c \in Clients, C!TriggerScan(c)
    PROVE  CP!TriggerScan(c)
  BY DEF C!TriggerScan, CP!TriggerScan,
         C!argVars, C!msgVars, C!fragVars, C!seqVars, C!tryVars, C!histVars,
         CP!argVars, CP!msgVars, CP!fragVars, CP!seqVars, CP!tryVars, CP!histVars

\* Reading the dump is the client's own step when the dump is one it expects.
LEMMA AcksBridge ==
    ASSUME NEW c \in Clients, NEW d \in Dumps,
           C!AckAccepted(c, d) \/ \E ok \in BOOLEAN : C!AckMissed(c, d, ok)
    PROVE  CP!ReadAcks(c)
  <1> USE DEF C!argVars, C!msgVars, C!fragVars, C!seqVars, C!tryVars, C!histVars,
              CP!argVars, CP!msgVars, CP!fragVars, CP!seqVars, CP!tryVars, CP!histVars
  <1> USE DEF C!IsAck, CP!IsAck, C!get_ack, CP!get_ack, C!Hear, CP!Hear, C!log_info,
              CP!log_info, C!LogEntry, CP!LogEntry, C!NextFrame, CP!NextFrame
  <1>1. C!AckAccepted(c, d) => CP!AckAccepted(c, d)
    BY DEF C!AckAccepted, CP!AckAccepted
  <1>2. ASSUME NEW ok \in BOOLEAN, C!AckMissed(c, d, ok) PROVE CP!AckMissed(c, d, ok)
    BY <1>2 DEF C!AckMissed, CP!AckMissed, C!RetryOrGiveUp, CP!RetryOrGiveUp
  <1>3. QED
    BY <1>1, <1>2 DEF CP!ReadAcks

\* The access point's steps are those of the access point on its own.
LEMMA ApBridge ==
    ASSUME NEW a \in APs
    PROVE  /\ \A r \in Requests : H!Ignore(a, r) \/ H!Stuffed(a, r) \/ H!Plain(a, r)
                  => HP!Receive(a)
           /\ H!RelayDone(a) => HP!RelayDone(a)
           /\ H!NoReply(a) => HP!Answer(a)
           /\ \A sent \in BOOLEAN : H!Reply(a, sent) => HP!Answer(a)
  <1>1. ASSUME NEW r \in Requests, H!Ignore(a, r) \/ H!Stuffed(a, r) \/ H!Plain(a, r)
        PROVE  HP!Receive(a)
    BY <1>1 DEF H!Ignore, HP!Ignore, H!Stuffed, HP!Stuffed, H!Plain, HP!Plain,
                HP!Receive, H!vars, HP!vars
  <1>2. H!RelayDone(a) => HP!RelayDone(a)
    BY DEF H!RelayDone, HP!RelayDone
  <1>3. H!NoReply(a) => HP!Answer(a)
    BY DEF H!NoReply, HP!NoReply, HP!Answer
  <1>4. ASSUME NEW sent \in BOOLEAN, H!Reply(a, sent) PROVE HP!Answer(a)
    BY <1>4 DEF H!Reply, HP!Reply, H!TakeAck, HP!TakeAck, HP!Answer
  <1>5. QED
    BY <1>1, <1>2, <1>3, <1>4

-----------------------------------------------------------------------------
(* The invariant. *)

\* The length of the longest line, from which MaxFrames is computed.
MaxLen == CHOOSE n \in LineLens \cup UninitLens :
              \A m \in LineLens \cup UninitLens : m <= n

InFlight == {"send", "scanning", "dump"}

\* The stuffed frames that wait at an access point, and the one it relays.
Waiting(a) == {air[a][k].stuffed : k \in DOMAIN air[a]} \ {NoData}
Handled(a) == IF hapd_pc[a] = "relay" THEN {mgmt[a].stuffed} ELSE {}

\* All the frames that can still become rows, or have.
Known ==
    {frame[c] : c \in {x \in Clients : pc[x] \in InFlight}}
        \cup UNION {Waiting(a) \cup Handled(a) \cup relayed[a] : a \in APs}

\* Frame f is cut out of a message of n bytes.
Slice(f, n) ==
    /\ f.start = f.seq * FragMax
    /\ f.start < n
    /\ f.len = C!Least(FragMax, n - f.start)
    /\ f.mfb = IF n - f.start > FragMax THEN 1 ELSE 0

\* Of two frames of a message the earlier is full, announces another and ends
\* before the later one starts.
Fits(f, g) ==
    f.seq < g.seq => f.mfb = 1 /\ f.len = FragMax /\ f.start + f.len <= g.start

\* What is in the air and in the caches has its type.
PathTypes ==
    /\ air \in [APs -> Seq(Requests)]
    /\ bss \in [Clients -> [APs -> Int]]
    /\ \A c \in Clients : len_data_to_stuff[c] <= MaxLen

\* Frames of the current message are slices of it; those of an earlier one,
\* whose length nobody has any more, still fit together.
KnownFrames ==
    /\ Known \subseteq C!Frames
    /\ \A f \in Known :
          /\ f.ts <= data_origin_ts[f.sa]
          /\ f.start = f.seq * FragMax
          /\ f.len \in 1 .. FragMax
          /\ f.start + f.len <= MaxLen
          /\ f.mfb = 1 => f.len = FragMax
          /\ f.ts = data_origin_ts[f.sa] => Slice(f, len_data_to_stuff[f.sa])
    /\ \A f, g \in Known : f.sa = g.sa /\ f.ts = g.ts => Fits(f, g)

\* A row was offered, what was offered was relayed, and the keys are unique.
Stored ==
    /\ aplog \subseteq offered
    /\ \A r \in offered : \E a \in APs : \E f \in relayed[a] : r = RecordOf(a, f)
    /\ Sink!UniqueKeys

\* What a step keeps.
IInv ==
    CP!IInv /\ HP!IInv /\ PathTypes /\ KnownFrames /\ Stored /\ AckHasSource

-----------------------------------------------------------------------------
(* Facts about frames and acks. *)

\* The longest line bounds every line.
LEMMA LongestLine ==
    /\ MaxLen \in Nat
    /\ \A n \in LineLens \cup UninitLens : n \in Nat /\ n <= MaxLen
    /\ MaxFrames = MaxLen \div FragMax + 1
  <1>1. \E n \in LineLens \cup UninitLens :
           \A m \in LineLens \cup UninitLens : m <= n
    BY LensAssumption
  <1>2. /\ MaxLen \in LineLens \cup UninitLens
        /\ \A m \in LineLens \cup UninitLens : m <= MaxLen
    BY <1>1 DEF MaxLen
  <1>3. QED
    BY <1>2, LensAssumption DEF MaxFrames, MaxLen

\* A frame within the longest line has a number below MaxFrames.
LEMMA SeqBound ==
    ASSUME NEW n \in Nat, NEW s \in Nat, s * FragMax < n, n <= MaxLen
    PROVE  s \in 0 .. MaxFrames
  <1> DEFINE q == MaxLen \div FragMax
  <1>1. MaxLen \in Nat /\ FragMax \in Nat /\ FragMax > 0 /\ MaxFrames = q + 1
    BY LongestLine, FragAssumption
  <1>2. q \in Nat /\ MaxLen < (q + 1) * FragMax
    <2> HIDE DEF MaxFrames
    <2>1. /\ q \in Int /\ MaxLen = FragMax * q + (MaxLen % FragMax)
          /\ MaxLen % FragMax \in 0 .. FragMax - 1
      BY <1>1, SMT
    <2>2. QED
      BY <1>1, <2>1, SMT
  <1>3. CASE s >= q + 1
    <2>1. s * FragMax >= (q + 1) * FragMax
      BY <1>1, <1>2, <1>3, SMT
    <2>2. QED
      BY <1>1, <1>2, <2>1
  <1>4. QED
    BY <1>1, <1>2, <1>3

\* An ack number that was relayed is the number of a known frame.
LEMMA RelayedBound ==
    ASSUME KnownFrames, NEW s \in RelayedSeqs
    PROVE  s \in 0 .. MaxFrames
  <1>1. PICK a \in APs : \E f \in relayed[a] : s = f.seq
    BY DEF RelayedSeqs
  <1>2. PICK f \in relayed[a] : s = f.seq
    BY <1>1
  <1>3. f \in Known
    BY DEF Known
  <1>4. f.seq \in Nat /\ f.start \in Nat /\ f.len \in Nat
    BY <1>3 DEF KnownFrames, C!Frames
  <1>5. f.start = f.seq * FragMax /\ f.len \in 1 .. FragMax /\ f.start + f.len <= MaxLen
    BY <1>3 DEF KnownFrames
  <1>6. f.seq * FragMax < f.start + f.len /\ f.start + f.len \in Nat
    BY <1>4, <1>5, FragAssumption
  <1>7. QED
    BY <1>2, <1>4, <1>5, <1>6, SeqBound

\* What a dump shows was relayed, and is a dump the client expects.
LEMMA DumpsExpected ==
    ASSUME KnownFrames, AckHasSource, NEW c \in Clients, NEW d \in DumpsOf(c)
    PROVE  d \in Dumps /\ \A i \in DOMAIN d : d[i] \in RelayedSeqs
  <1> DEFINE k == Cardinality(Acked(c))
  <1>1. PICK order \in [1 .. k -> Acked(c)] : d = [i \in DOMAIN order |-> bss[c][order[i]]]
    BY DEF DumpsOf
  <1>2. \A i \in 1 .. k : order[i] \in APs /\ bss[c][order[i]] # -1
    BY <1>1 DEF Acked
  <1>3. /\ DOMAIN d = 1 .. k
        /\ \A i \in 1 .. k : d[i] \in RelayedSeqs
    BY <1>1, <1>2 DEF AckHasSource
  <1>4. k \in 0 .. Cardinality(APs)
    <2>1. Acked(c) \subseteq APs
      BY DEF Acked
    <2>2. IsFiniteSet(Acked(c)) /\ k <= Cardinality(APs)
      BY <2>1, APsAssumption, FS_Subset
    <2>3. k \in Nat /\ Cardinality(APs) \in Nat
      BY <2>2, APsAssumption, FS_CardinalityType
    <2>4. QED
      BY <2>2, <2>3
  <1> HIDE DEF k
  <1>5. d \in [1 .. k -> 0 .. MaxFrames]
    BY <1>1, <1>3, RelayedBound
  <1>6. QED
    BY <1>3, <1>4, <1>5 DEF Dumps

\* What Next offers, by the part that acts.
LEMMA Actions ==
    ASSUME Next
    PROVE  \/ \E c \in Clients :
                 \/ ClientStep(c) \/ ReadAcks(c)
                 \/ \E to \in SUBSET APs : SendStuffed(c, to)
                 \/ \E a \in APs : ExpireBss(c, a)
           \/ \E s \in Stations, to \in SUBSET APs : SendPlain(s, to)
           \/ \E a \in APs : \/ Receive(a) \/ RelayDone(a) \/ NoReply(a)
                             \/ \E sent \in BOOLEAN : Reply(a, sent)
           \/ \E rec \in offered : Save(rec)
  BY DEF Next

\* The steps that are not a client's leave the clients alone.
LEMMA ClientsIdle ==
    ASSUME \/ \E s \in Stations, to \in SUBSET APs : SendPlain(s, to)
           \/ \E c \in Clients, a \in APs : ExpireBss(c, a)
           \/ \E a \in APs : \/ Receive(a) \/ RelayDone(a) \/ NoReply(a)
                             \/ \E sent \in BOOLEAN : Reply(a, sent)
           \/ \E rec \in offered : Save(rec)
           \/ UNCHANGED vars
    PROVE  UNCHANGED clientVars
  BY DEF SendPlain, ExpireBss, Receive, RelayDone, NoReply, Reply, Save, vars

\* Nor do the steps that are not an access point's touch them.
LEMMA ApsIdle ==
    ASSUME \/ \E s \in Stations, to \in SUBSET APs : SendPlain(s, to)
           \/ \E c \in Clients : \/ ClientStep(c) \/ ReadAcks(c)
                                 \/ \E to \in SUBSET APs : SendStuffed(c, to)
                                 \/ \E a \in APs : ExpireBss(c, a)
           \/ \E rec \in offered : Save(rec)
           \/ UNCHANGED vars
    PROVE  UNCHANGED apVars
  BY DEF SendPlain, ClientStep, ReadAcks, SendStuffed, ExpireBss, Save, vars

\* Every step is a step of a client, or the clients do not move.
LEMMA ClientActs ==
    ASSUME IInv, [Next]_vars
    PROVE  \/ \E c \in Clients : CP!Start(c) \/ CP!Prompt(c) \/ CP!Work(c)
           \/ UNCHANGED clientVars
  <1>1. ASSUME NEW c \in Clients, ClientStep(c)
        PROVE  CP!Start(c) \/ CP!Prompt(c) \/ CP!Work(c)
    BY <1>1, ClientStepBridge DEF CP!Work
  <1>2. ASSUME NEW c \in Clients, NEW to \in SUBSET APs, SendStuffed(c, to)
        PROVE  CP!Work(c)
    BY <1>2, ScanBridge DEF SendStuffed, CP!Work
  <1>3. ASSUME NEW c \in Clients, ReadAcks(c) PROVE CP!Work(c)
    <2>1. PICK d \in DumpsOf(c) :
             C!AckAccepted(c, d) \/ \E ok \in BOOLEAN : C!AckMissed(c, d, ok)
      BY <1>3 DEF ReadAcks
    <2>2. d \in Dumps
      BY DumpsExpected DEF IInv
    <2>3. QED
      BY <2>1, <2>2, AcksBridge DEF CP!Work
  <1>4. QED
    BY <1>1, <1>2, <1>3, Actions, ClientsIdle

\* So the clients' invariant is kept.
LEMMA ClientsStep ==
    ASSUME IInv, [Next]_vars
    PROVE  [CP!Next]_(CP!vars) /\ CP!IInv'
  <1>1. [CP!Next]_(CP!vars)
    <2>1. CASE UNCHANGED clientVars
      BY <2>1 DEF clientVars, CP!vars, CP!argVars, CP!msgVars, CP!fragVars, CP!seqVars,
                  CP!tryVars, CP!histVars
    <2>2. QED
      BY <2>1, ClientActs DEF CP!Next
  <1>2. CP!TypeOK /\ CP!RetryBudget /\ CP!Tiling /\ CP!SocketBalance /\ CP!FreshAck
    BY DEF IInv, CP!IInv
  <1>3. CP!TypeOK'
    BY <1>1, <1>2, PartsAssumptions, CP!TypeStep
  <1>4. CP!RetryBudget'
    BY <1>1, <1>2, PartsAssumptions, CP!BudgetStep
  <1>5. CP!Tiling'
    BY <1>1, <1>2, PartsAssumptions, CP!TilingStep
  <1>6. CP!SocketBalance'
    BY <1>1, <1>2, PartsAssumptions, CP!SocketStep
  <1>7. CP!FreshAck'
    BY <1>1, <1>2, PartsAssumptions, CP!FreshStep
  <1>8. QED
    BY <1>1, <1>3, <1>4, <1>5, <1>6, <1>7 DEF CP!IInv

\* The request an access point reads next.
LEMMA NextRequest ==
    ASSUME PathTypes, NEW a \in APs, Receive(a)
    PROVE  /\ Head(air[a]) \in Requests /\ Head(air[a]) = air[a][1]
           /\ 1 \in DOMAIN air[a]
           /\ air'[a] \in Seq(Requests)
           /\ \A k \in DOMAIN air'[a] : k + 1 \in DOMAIN air[a]
                                        /\ air'[a][k] = air[a][k + 1]
           /\ \A b \in APs : b # a => air'[b] = air[b]
           /\ DOMAIN air' = APs
  <1>1. air[a] \in Seq(Requests) /\ air[a] # <<>> /\ air'[a] = Tail(air[a])
        /\ \A b \in APs : b # a => air'[b] = air[b]
    BY DEF PathTypes, Receive
  <1>2. DOMAIN air' = APs
    BY DEF PathTypes, Receive
  <1>3. QED
    BY <1>1, <1>2

\* Every step is a step of an access point, or the access points do not move.
LEMMA ApsStep ==
    ASSUME IInv, [Next]_vars
    PROVE  [HP!Next]_(HP!vars) /\ HP!IInv'
  <1>1. ASSUME NEW a \in APs,
               \/ Receive(a) \/ RelayDone(a) \/ NoReply(a)
               \/ \E sent \in BOOLEAN : Reply(a, sent)
        PROVE  HP!Receive(a) \/ HP!RelayDone(a) \/ HP!Answer(a)
    <2>1. CASE Receive(a)
      <3>1. Head(air[a]) \in Requests
        BY <2>1, NextRequest DEF IInv
      <3>2. H!Ignore(a, Head(air[a])) \/ H!Stuffed(a, Head(air[a]))
              \/ H!Plain(a, Head(air[a]))
        BY <2>1 DEF Receive
      <3>3. QED
        BY <3>1, <3>2, ApBridge
    <2>2. QED
      BY <1>1, <2>1, ApBridge DEF RelayDone, NoReply, Reply
  <1>2. [HP!Next]_(HP!vars)
    <2>1. CASE UNCHANGED apVars
      BY <2>1 DEF apVars, HP!vars
    <2>2. QED
      BY <1>1, <2>1, Actions, ApsIdle DEF HP!Next
  <1>3. HP!IInv /\ [HP!Next]_(HP!vars) => HP!TypeOK'
    BY PartsAssumptions, HP!TypeStep
  <1>4. HP!IInv /\ [HP!Next]_(HP!vars) => HP!AckAfterRelay'
    BY PartsAssumptions, HP!OrderStep
  <1>5. QED
    BY <1>2, <1>3, <1>4 DEF IInv, HP!IInv

-----------------------------------------------------------------------------
(* The frames of a message. *)

\* Two slices of one message fit together.
LEMMA SlicesFit ==
    ASSUME NEW f \in C!Frames, NEW g \in C!Frames, NEW n \in Nat,
           Slice(f, n), Slice(g, n)
    PROVE  Fits(f, g)
  <1>1. SUFFICES ASSUME f.seq < g.seq
                 PROVE  f.mfb = 1 /\ f.len = FragMax /\ f.start + f.len <= g.start
    BY DEF Fits
  <1>2. f.seq \in Nat /\ g.seq \in Nat /\ FragMax \in Nat /\ FragMax > 0
    BY FragAssumption DEF C!Frames
  <1>3. f.start \in Nat /\ g.start \in Nat
    BY DEF C!Frames
  <1>4. f.start = f.seq * FragMax /\ g.start = g.seq * FragMax /\ g.start < n
    BY DEF Slice
  <1>5. (f.seq + 1) * FragMax <= g.seq * FragMax
    <2> DEFINE s == f.seq
               t == g.seq
               F == FragMax
    <2>1. s \in Nat /\ t \in Nat /\ F \in Nat /\ s + 1 <= t
      BY <1>1, <1>2
    <2> HIDE DEF s, t, F
    <2>2. (s + 1) * F <= t * F
      BY <2>1, SMT
    <2>3. QED
      BY <2>2 DEF s, t, F
  <1>6. (f.seq + 1) * FragMax = f.seq * FragMax + FragMax
    BY <1>2, CP!MulStep
  <1>7. f.start + FragMax <= g.start
    BY <1>3, <1>4, <1>5, <1>6, <1>2
  <1>8. n - f.start > FragMax
    BY <1>2, <1>3, <1>4, <1>7
  <1>9. f.mfb = 1 /\ f.len = FragMax
    BY <1>2, <1>3, <1>8 DEF Slice, C!Least
  <1>10. QED
    BY <1>7, <1>9

\* A slice is not empty, at most a fragment long, and within its message.
LEMMA SliceBounds ==
    ASSUME NEW f \in C!Frames, NEW n \in Nat, Slice(f, n)
    PROVE  f.len \in 1 .. FragMax /\ f.start + f.len <= n
  <1>1. f.start \in Nat /\ f.start < n /\ f.len = C!Least(FragMax, n - f.start)
    BY DEF Slice, C!Frames
  <1>2. QED
    BY <1>1, FragAssumption DEF C!Least

\* What BuildFrame puts into the probe request is the next slice.
LEMMA BuiltSlice ==
    ASSUME CP!TypeOK, CP!Tiling, NEW c \in Clients, CP!BuildFrame(c)
    PROVE  /\ frame'[c] \in C!Frames /\ frame'[c].sa = c
           /\ frame'[c].ts = data_origin_ts[c]
           /\ Slice(frame'[c], len_data_to_stuff[c])
           /\ UNCHANGED <<data_origin_ts, len_data_to_stuff>>
           /\ pc[c] = "build" /\ pc'[c] = "send"
  <1>1. frame'[c] = CP!Frame(c, data_origin_ts[c], seq_num[c], CP!NextMfb(c),
                             seq_num[c] * FragMax, CP!NextLen(c))
    BY DEF CP!BuildFrame, CP!TypeOK
  <1>2. /\ pc[c] = "build" /\ pc'[c] = "send"
        /\ len_data_already_stuffed[c] < len_data_to_stuff[c]
        /\ UNCHANGED <<data_origin_ts, len_data_to_stuff>>
    BY DEF CP!BuildFrame, CP!TypeOK, CP!msgVars
  <1>3. /\ len_data_to_stuff[c] \in Nat /\ len_data_already_stuffed[c] \in Nat
        /\ seq_num[c] \in Nat /\ data_origin_ts[c] \in Nat
    BY DEF CP!TypeOK
  <1>4. FragMax \in Nat /\ FragMax > 0 /\ seq_num[c] * FragMax \in Nat
    BY <1>3, FragAssumption, CP!MulNat
  <1>5. len_data_already_stuffed[c] = CP!Least(len_data_to_stuff[c], seq_num[c] * FragMax)
    BY <1>2 DEF CP!Tiling
  <1>6. len_data_already_stuffed[c] = seq_num[c] * FragMax
    BY <1>2, <1>3, <1>4, <1>5 DEF CP!Least
  <1>7. /\ CP!NextLen(c) = C!Least(FragMax, len_data_to_stuff[c] - seq_num[c] * FragMax)
        /\ CP!NextLen(c) \in Nat
        /\ CP!NextMfb(c) = IF len_data_to_stuff[c] - seq_num[c] * FragMax > FragMax
                           THEN 1 ELSE 0
    BY <1>2, <1>3, <1>4, <1>6 DEF CP!NextLen, CP!NextMfb, CP!Least, C!Least
  <1>8. /\ frame'[c].sa = c /\ frame'[c].ts = data_origin_ts[c]
        /\ frame'[c].seq = seq_num[c] /\ frame'[c].mfb = CP!NextMfb(c)
        /\ frame'[c].start = seq_num[c] * FragMax /\ frame'[c].len = CP!NextLen(c)
    BY <1>1 DEF CP!Frame
  <1>9. frame'[c] \in C!Frames
    <2>1. CP!NextMfb(c) \in {0, 1}
      BY <1>7
    <2>2. QED
      BY <1>1, <1>3, <1>4, <1>7, <2>1 DEF CP!Frame, C!Frames
  <1>10. Slice(frame'[c], len_data_to_stuff[c])
    BY <1>2, <1>6, <1>7, <1>8 DEF Slice
  <1>11. QED
    BY <1>2, <1>8, <1>9, <1>10

\* What a step does to a client's message and to its frame: nothing, a new
\* message, or the next slice.
LEMMA ClientEffect ==
    ASSUME IInv, [Next]_vars, NEW x \in Clients
    PROVE  /\ \/ /\ data_origin_ts'[x] = data_origin_ts[x]
                 /\ len_data_to_stuff'[x] = len_data_to_stuff[x]
              \/ /\ data_origin_ts'[x] = data_origin_ts[x] + 1
                 /\ len_data_to_stuff'[x] <= MaxLen
           /\ pc'[x] \in InFlight =>
                 \/ pc[x] \in InFlight /\ frame'[x] = frame[x]
                 \/ /\ frame'[x] \in C!Frames /\ frame'[x].sa = x
                    /\ frame'[x].ts = data_origin_ts[x]
                    /\ Slice(frame'[x], len_data_to_stuff[x])
                    /\ data_origin_ts'[x] = data_origin_ts[x]
                    /\ len_data_to_stuff'[x] = len_data_to_stuff[x]
  <1>0. CP!TypeOK /\ CP!Tiling
    BY DEF IInv, CP!IInv
  <1>1. CASE UNCHANGED clientVars
    BY <1>1 DEF clientVars
  <1>2. ASSUME NEW c \in Clients, CP!Start(c) \/ CP!Prompt(c) \/ CP!Work(c), c # x
        PROVE  /\ data_origin_ts'[x] = data_origin_ts[x]
               /\ len_data_to_stuff'[x] = len_data_to_stuff[x]
               /\ pc'[x] = pc[x] /\ frame'[x] = frame[x]
    BY <1>0, <1>2, CP!OthersUnchanged, PartsAssumptions
  <1>3. CASE CP!Start(x)
    <2>1. pc'[x] \notin InFlight
      BY <1>0, <1>3, CP!StartEffect, PartsAssumptions DEF InFlight
    <2>2. UNCHANGED <<data_origin_ts, len_data_to_stuff>>
      BY <1>3 DEF CP!Start, CP!ParseArgs, CP!msgVars
    <2>3. QED
      BY <2>1, <2>2
  <1>4. CASE CP!Prompt(x)
    <2>1. PICK src \in {"stdin", "uninit"}, n \in LineLens \cup UninitLens :
             CP!StartMessage(x, src, n)
      BY <1>4 DEF CP!Prompt, CP!ReadLine, CP!ReadEOF
    <2>2. /\ data_origin_ts'[x] = data_origin_ts[x] + 1
          /\ len_data_to_stuff'[x] = n /\ pc'[x] = "build"
      BY <1>0, <2>1 DEF CP!StartMessage, CP!TypeOK
    <2>3. QED
      BY <2>2, LongestLine DEF InFlight
  <1>5. CASE CP!BuildFrame(x)
    BY <1>0, <1>5, BuiltSlice
  <1>6. ASSUME CP!EndMessage(x) \/ CP!TriggerScan(x) \/ CP!ScanFailed(x)
               \/ CP!ScanDone(x) \/ CP!ReadAcks(x)
        PROVE  /\ UNCHANGED <<data_origin_ts, len_data_to_stuff, frame>>
               /\ pc'[x] \in InFlight => pc[x] \in InFlight
    <2>1. UNCHANGED <<data_origin_ts, len_data_to_stuff, frame>>
      BY <1>6 DEF CP!EndMessage, CP!TriggerScan, CP!ScanFailed, CP!ScanDone, CP!ReadAcks,
                  CP!AckAccepted, CP!AckMissed, CP!msgVars, CP!fragVars
    <2>2. CASE CP!EndMessage(x)
      BY <1>0, <2>1, <2>2 DEF CP!EndMessage, CP!TypeOK, InFlight
    <2>3. CASE CP!TriggerScan(x) \/ CP!ScanFailed(x) \/ CP!ScanDone(x) \/ CP!ReadAcks(x)
      <3>1. pc[x] \in InFlight
        BY <2>3 DEF CP!TriggerScan, CP!ScanFailed, CP!ScanDone, CP!ReadAcks,
                    CP!AckAccepted, CP!AckMissed, InFlight
      <3>2. QED
        BY <2>1, <3>1
    <2>4. QED
      BY <1>6, <2>2, <2>3
  <1>7. QED
    BY <1>1, <1>2, <1>3, <1>4, <1>5, <1>6, ClientActs DEF CP!Work

\* What a request in the air or at an access point carries is known.
LEMMA TypesOfPath ==
    ASSUME IInv
    PROVE  /\ air \in [APs -> Seq(Requests)]
           /\ hapd_pc \in [APs -> {"idle", "relay", "answer"}]
           /\ \A a \in APs : hapd_pc[a] # "idle" => mgmt[a] \in Requests
           /\ mgmt \in [APs -> Requests \cup {NoData}]
           /\ DOMAIN relayed = APs /\ DOMAIN probe_resp_ack_ie = APs
           /\ data_origin_ts \in [Clients -> Nat]
           /\ len_data_to_stuff \in [Clients -> Nat]
           /\ pc \in [Clients -> {"start", "exited", "prompt", "build"} \cup InFlight]
  BY DEF IInv, PathTypes, HP!IInv, HP!TypeOK, CP!IInv, CP!TypeOK, CP!InFlight, InFlight

\* Where a broadcast request arrives.
LEMMA Arrival ==
    ASSUME air \in [APs -> Seq(Requests)], NEW r \in Requests, NEW to \in SUBSET APs,
           Broadcast(r, to)
    PROVE  /\ air' \in [APs -> Seq(Requests)]
           /\ \A a \in APs : \A k \in DOMAIN air'[a] :
                 air'[a][k] = r \/ (k \in DOMAIN air[a] /\ air'[a][k] = air[a][k])
  <1>1. air' = [a \in APs |-> IF a \in to THEN Append(air[a], r) ELSE air[a]]
    BY DEF Broadcast
  <1>2. ASSUME NEW a \in APs
        PROVE  /\ air'[a] \in Seq(Requests)
               /\ \A k \in DOMAIN air'[a] :
                     air'[a][k] = r \/ (k \in DOMAIN air[a] /\ air'[a][k] = air[a][k])
    <2>1. air[a] \in Seq(Requests)
      OBVIOUS
    <2>2. CASE a \notin to
      BY <1>1, <2>1, <2>2
    <2>3. CASE a \in to
      <3>1. air'[a] = Append(air[a], r)
        BY <1>1, <2>3
      <3>2. /\ air'[a] \in Seq(Requests)
            /\ Len(air'[a]) = Len(air[a]) + 1
            /\ \A k \in 1 .. Len(air[a]) : air'[a][k] = air[a][k]
            /\ air'[a][Len(air[a]) + 1] = r
        BY <2>1, <3>1, AppendProperties
      <3>3. /\ Len(air[a]) \in Nat /\ DOMAIN air[a] = 1 .. Len(air[a])
            /\ DOMAIN air'[a] = 1 .. Len(air[a]) + 1
        BY <2>1, <3>2
      <3>4. ASSUME NEW k \in DOMAIN air'[a]
            PROVE  air'[a][k] = r \/ (k \in DOMAIN air[a] /\ air'[a][k] = air[a][k])
        <4>1. k = Len(air[a]) + 1 \/ k \in 1 .. Len(air[a])
          BY <3>3
        <4>2. QED
          BY <3>2, <3>3, <4>1
      <3>5. QED
        BY <3>2, <3>4
    <2>4. QED
      BY <2>2, <2>3
  <1>3. QED
    BY <1>1, <1>2

\* The steps that leave the air as it is.
LEMMA AirIdle ==
    ASSUME \/ \E c \in Clients : \/ ClientStep(c) \/ ReadAcks(c)
                                 \/ \E a \in APs : ExpireBss(c, a)
           \/ \E a \in APs : \/ RelayDone(a) \/ NoReply(a)
                             \/ \E sent \in BOOLEAN : Reply(a, sent)
           \/ \E rec \in offered : Save(rec)
           \/ UNCHANGED vars
    PROVE  UNCHANGED air
  BY DEF ClientStep, ReadAcks, ExpireBss, RelayDone, NoReply, Reply, Save, vars

\* A frame in flight is a known frame.
LEMMA SentIsKnown ==
    ASSUME IInv, NEW c \in Clients, pc[c] \in InFlight
    PROVE  frame[c] \in Known /\ frame[c] \in C!Frames
  <1>1. frame[c] \in Known
    BY DEF Known
  <1>2. QED
    BY <1>1 DEF IInv, KnownFrames

\* The requests in the air have their type, and carry frames that were known.
LEMMA AirStep ==
    ASSUME IInv, [Next]_vars
    PROVE  /\ air' \in [APs -> Seq(Requests)]
           /\ \A a \in APs : \A k \in DOMAIN air'[a] :
                 air'[a][k].stuffed = NoData \/ air'[a][k].stuffed \in Known
  <1>0. /\ air \in [APs -> Seq(Requests)]
        /\ \A a \in APs : \A k \in DOMAIN air[a] :
              air[a][k].stuffed = NoData \/ air[a][k].stuffed \in Known
    <2>1. \A a \in APs : \A k \in DOMAIN air[a] :
              air[a][k].stuffed = NoData \/ air[a][k].stuffed \in Waiting(a)
      BY DEF Waiting
    <2>2. \A a \in APs : Waiting(a) \subseteq Known
      BY DEF Known
    <2>3. QED
      BY <2>1, <2>2, TypesOfPath
  <1> DEFINE Carries(q) == \A k \in DOMAIN q : q[k].stuffed = NoData \/ q[k].stuffed \in Known
  <1>1. CASE UNCHANGED air
    BY <1>0, <1>1
  <1>2. ASSUME NEW r \in Requests, NEW to \in SUBSET APs, Broadcast(r, to),
               r.stuffed = NoData \/ r.stuffed \in Known
        PROVE  air' \in [APs -> Seq(Requests)] /\ \A a \in APs : Carries(air'[a])
    <2>1. /\ air' \in [APs -> Seq(Requests)]
          /\ \A a \in APs : \A k \in DOMAIN air'[a] :
                air'[a][k] = r \/ (k \in DOMAIN air[a] /\ air'[a][k] = air[a][k])
      BY <1>0, <1>2, Arrival
    <2>2. QED
      BY <1>0, <1>2, <2>1
  <1>3. ASSUME NEW c \in Clients, NEW to \in SUBSET APs, SendStuffed(c, to)
        PROVE  air' \in [APs -> Seq(Requests)] /\ \A a \in APs : Carries(air'[a])
    <2>1. pc[c] \in InFlight
      BY <1>3 DEF SendStuffed, C!TriggerScan, InFlight
    <2>2. [sa |-> c, stuffed |-> frame[c]] \in Requests
      BY <2>1, SentIsKnown DEF Requests
    <2>3. QED
      BY <1>2, <1>3, <2>1, <2>2, SentIsKnown DEF SendStuffed
  <1>4. ASSUME NEW s \in Stations, NEW to \in SUBSET APs, SendPlain(s, to)
        PROVE  air' \in [APs -> Seq(Requests)] /\ \A a \in APs : Carries(air'[a])
    <2>1. [sa |-> s, stuffed |-> NoData] \in Requests
      BY DEF Requests
    <2>2. QED
      BY <1>2, <1>4, <2>1 DEF SendPlain
  <1>5. ASSUME NEW a \in APs, Receive(a)
        PROVE  air' \in [APs -> Seq(Requests)] /\ \A b \in APs : Carries(air'[b])
    <2>1. /\ air'[a] \in Seq(Requests)
          /\ \A k \in DOMAIN air'[a] : k + 1 \in DOMAIN air[a]
                                       /\ air'[a][k] = air[a][k + 1]
          /\ \A b \in APs : b # a => air'[b] = air[b]
          /\ DOMAIN air' = APs
      BY <1>5, NextRequest DEF IInv
    <2>2. Carries(air'[a])
      BY <1>0, <2>1
    <2>3. \A b \in APs : air'[b] \in Seq(Requests) /\ Carries(air'[b])
      BY <1>0, <2>1, <2>2
    <2>4. air' = [b \in APs |-> air'[b]]
      BY <1>5, <1>0 DEF Receive
    <2>5. QED
      BY <2>3, <2>4
  <1>6. QED
    BY <1>1, <1>3, <1>4, <1>5, AirIdle, Actions

\* What an access point relays, and is busy relaying, was known.
LEMMA RelayEffect ==
    ASSUME IInv, [Next]_vars, NEW x \in APs
    PROVE  /\ relayed[x] \subseteq relayed'[x]
           /\ relayed'[x] \subseteq Known
           /\ hapd_pc'[x] = "relay" => mgmt'[x].stuffed \in Known
  <1>0. /\ relayed[x] \subseteq Known
        /\ hapd_pc[x] = "relay" => mgmt[x].stuffed \in Known
    BY DEF Known, Handled
  <1>1. ASSUME UNCHANGED <<relayed[x], hapd_pc[x], mgmt[x]>>
        PROVE  /\ relayed[x] \subseteq relayed'[x]
               /\ relayed'[x] \subseteq Known
               /\ hapd_pc'[x] = "relay" => mgmt'[x].stuffed \in Known
    BY <1>0, <1>1
  <1>2. CASE UNCHANGED apVars
    BY <1>1, <1>2 DEF apVars
  <1>3. ASSUME NEW a \in APs, a # x, \/ Receive(a) \/ RelayDone(a) \/ NoReply(a)
                                     \/ \E sent \in BOOLEAN : Reply(a, sent)
        PROVE  UNCHANGED <<relayed[x], hapd_pc[x], mgmt[x]>>
    BY <1>3, TypesOfPath
       DEF Receive, RelayDone, NoReply, Reply, H!Ignore, H!Stuffed, H!Plain, H!RelayDone,
           H!NoReply, H!Reply, H!vars
  <1>4. CASE Receive(x)
    <2> DEFINE r == Head(air[x])
    <2>1. /\ r = air[x][1] /\ 1 \in DOMAIN air[x]
      BY <1>4, NextRequest DEF IInv
    <2>2. r.stuffed = NoData \/ r.stuffed \in Known
      <3>1. r.stuffed = NoData \/ r.stuffed \in Waiting(x)
        BY <2>1 DEF Waiting
      <3>2. QED
        BY <3>1 DEF Known
    <2> HIDE DEF r
    <2>3. CASE H!Ignore(x, r)
      BY <1>1, <2>3 DEF H!Ignore, H!vars
    <2>4. CASE H!Stuffed(x, r)
      BY <1>0, <2>2, <2>4, TypesOfPath DEF H!Stuffed
    <2>5. CASE H!Plain(x, r)
      BY <1>0, <2>5, TypesOfPath DEF H!Plain
    <2>6. QED
      BY <1>4, <2>3, <2>4, <2>5 DEF Receive, r
  <1>5. CASE RelayDone(x)
    BY <1>0, <1>5, TypesOfPath DEF RelayDone, H!RelayDone
  <1>6. CASE NoReply(x) \/ \E sent \in BOOLEAN : Reply(x, sent)
    BY <1>0, <1>6, TypesOfPath DEF NoReply, Reply, H!NoReply, H!Reply
  <1>7. QED
    BY <1>1, <1>2, <1>3, <1>4, <1>5, <1>6, Actions, ApsIdle

\* Frame f is new: its client has just cut it out of its message.
New(f) ==
    /\ f \in C!Frames
    /\ f.ts = data_origin_ts[f.sa]
    /\ Slice(f, len_data_to_stuff[f.sa])
    /\ data_origin_ts'[f.sa] = data_origin_ts[f.sa]
    /\ len_data_to_stuff'[f.sa] = len_data_to_stuff[f.sa]

\* A step makes no frame known but the one that BuildFrame makes.
LEMMA Travel ==
    ASSUME IInv, [Next]_vars, NEW f \in Known'
    PROVE  f \in Known \/ New(f)
  <1>1. CASE \E c \in Clients : pc'[c] \in InFlight /\ f = frame'[c]
    <2>1. PICK c \in Clients : pc'[c] \in InFlight /\ f = frame'[c]
      BY <1>1
    <2>2. CASE pc[c] \in InFlight /\ frame'[c] = frame[c]
      BY <2>1, <2>2, SentIsKnown
    <2>3. QED
      BY <2>1, <2>2, ClientEffect DEF New
  <1>2. CASE \E a \in APs : f \in Waiting(a)'
    <2>1. PICK a \in APs : f \in Waiting(a)'
      BY <1>2
    <2>2. PICK k \in DOMAIN air'[a] : f = air'[a][k].stuffed /\ f # NoData
      BY <2>1 DEF Waiting
    <2>3. QED
      BY <2>2, AirStep
  <1>3. CASE \E a \in APs : f \in Handled(a)' \/ f \in relayed'[a]
    BY <1>3, RelayEffect DEF Handled
  <1>4. QED
    BY <1>1, <1>2, <1>3 DEF Known

\* Known frames stay what KnownFrames says of them.
LEMMA KnownStep ==
    ASSUME IInv, [Next]_vars
    PROVE  KnownFrames'
  <1> USE TypesOfPath
  <1>1. ASSUME NEW f \in Known'
        PROVE  /\ f \in C!Frames /\ f.sa \in Clients
               /\ f.ts <= data_origin_ts'[f.sa]
               /\ f.start = f.seq * FragMax
               /\ f.len \in 1 .. FragMax
               /\ f.start + f.len <= MaxLen
               /\ f.mfb = 1 => f.len = FragMax
               /\ f.ts = data_origin_ts'[f.sa] =>
                     /\ Slice(f, len_data_to_stuff'[f.sa])
                     /\ len_data_to_stuff'[f.sa] = len_data_to_stuff[f.sa]
                     /\ data_origin_ts'[f.sa] = data_origin_ts[f.sa]
    <2>1. CASE f \in Known
      <3>1. /\ f \in C!Frames
            /\ f.ts <= data_origin_ts[f.sa]
            /\ f.start = f.seq * FragMax
            /\ f.len \in 1 .. FragMax
            /\ f.start + f.len <= MaxLen
            /\ f.mfb = 1 => f.len = FragMax
            /\ f.ts = data_origin_ts[f.sa] => Slice(f, len_data_to_stuff[f.sa])
        BY <2>1 DEF IInv, KnownFrames
      <3>2. f.sa \in Clients /\ f.ts \in Nat
        BY <3>1 DEF C!Frames
      <3>3. data_origin_ts[f.sa] \in Nat
        BY <3>2
      <3>4. CASE /\ data_origin_ts'[f.sa] = data_origin_ts[f.sa]
                 /\ len_data_to_stuff'[f.sa] = len_data_to_stuff[f.sa]
        BY <3>1, <3>2, <3>4
      <3>5. CASE data_origin_ts'[f.sa] = data_origin_ts[f.sa] + 1
        BY <3>1, <3>2, <3>3, <3>5
      <3>6. QED
        BY <3>2, <3>4, <3>5, ClientEffect
    <2>2. CASE New(f)
      <3>1. f.sa \in Clients /\ f.ts \in Nat
        BY <2>2 DEF New, C!Frames
      <3>2. len_data_to_stuff[f.sa] \in Nat /\ len_data_to_stuff[f.sa] <= MaxLen
        BY <3>1 DEF IInv, PathTypes
      <3>3. f.len \in 1 .. FragMax /\ f.start + f.len <= len_data_to_stuff[f.sa]
        BY <2>2, <3>2, SliceBounds DEF New
      <3>4. f.start + f.len <= MaxLen
        <4>1. f.start \in Nat /\ f.len \in Nat /\ MaxLen \in Nat
          BY <2>2, LongestLine DEF New, C!Frames
        <4>2. QED
          BY <3>2, <3>3, <4>1
      <3>5. f.start = f.seq * FragMax
        BY <2>2 DEF New, Slice
      <3>6. f.mfb = 1 => f.len = FragMax
        <4>1. f.start \in Nat
          BY <2>2 DEF New, C!Frames
        <4>2. Slice(f, len_data_to_stuff[f.sa])
          BY <2>2 DEF New
        <4>3. QED
          BY <3>2, <4>1, <4>2, FragAssumption DEF Slice, C!Least
      <3>7. QED
        BY <2>2, <3>1, <3>3, <3>4, <3>5, <3>6 DEF New
    <2>3. QED
      BY <2>1, <2>2, Travel
  <1>2. ASSUME NEW f \in Known', NEW g \in Known', f.sa = g.sa, f.ts = g.ts
        PROVE  Fits(f, g)
    <2>1. CASE f \in Known /\ g \in Known
      BY <1>2, <2>1 DEF IInv, KnownFrames
    <2>2. CASE New(f) \/ New(g)
      <3>1. /\ f.ts = data_origin_ts'[f.sa] /\ g.ts = data_origin_ts'[g.sa]
        BY <1>2, <2>2 DEF New
      <3>2. /\ Slice(f, len_data_to_stuff[f.sa]) /\ Slice(g, len_data_to_stuff[f.sa])
            /\ f \in C!Frames /\ g \in C!Frames /\ f.sa \in Clients
        BY <1>1, <1>2, <3>1
      <3>3. len_data_to_stuff[f.sa] \in Nat
        BY <3>2
      <3>4. QED
        BY <3>2, <3>3, SlicesFit
    <2>3. QED
      BY <2>1, <2>2, Travel
  <1>3. QED
    BY <1>1, <1>2 DEF KnownFrames, Slice, Fits, C!Frames, C!Least

\* The cache of a client and the length of its message keep their types.
LEMMA PathStep ==
    ASSUME IInv, [Next]_vars
    PROVE  PathTypes'
  <1>0. bss \in [Clients -> [APs -> Int]]
    BY DEF IInv, PathTypes
  <1>1. \A c \in Clients : len_data_to_stuff'[c] <= MaxLen
    BY ClientEffect DEF IInv, PathTypes
  <1>2. ASSUME NEW c \in Clients, NEW a \in APs, ExpireBss(c, a)
        PROVE  bss' \in [Clients -> [APs -> Int]]
    BY <1>0, <1>2 DEF ExpireBss
  <1>3. ASSUME NEW a \in APs, NEW sent \in BOOLEAN, Reply(a, sent)
        PROVE  bss' \in [Clients -> [APs -> Int]]
    <2>1. AckNumber(a) \in Int
      <3>1. probe_resp_ack_ie[a] = NoData \/ probe_resp_ack_ie[a] \in C!Frames
        BY DEF IInv, HP!IInv, HP!TypeOK, HP!Data, Requests
      <3>2. CASE probe_resp_ack_ie[a] = NoData
        BY <3>2 DEF AckNumber
      <3>3. CASE probe_resp_ack_ie[a] # NoData
        BY <3>1, <3>3 DEF AckNumber, C!Frames
      <3>4. QED
        BY <3>2, <3>3
    <2>2. bss' = bss \/ \E c \in Clients : bss' = [bss EXCEPT ![c][a] = AckNumber(a)]
      BY <1>3 DEF Reply, Cached
    <2>3. QED
      BY <1>0, <2>1, <2>2
  <1>4. CASE \/ \E c \in Clients : \/ ClientStep(c) \/ ReadAcks(c)
                                   \/ \E to \in SUBSET APs : SendStuffed(c, to)
             \/ \E s \in Stations, to \in SUBSET APs : SendPlain(s, to)
             \/ \E a \in APs : Receive(a) \/ RelayDone(a) \/ NoReply(a)
             \/ \E rec \in offered : Save(rec)
             \/ UNCHANGED vars
    <2>1. UNCHANGED bss
      BY <1>4 DEF ClientStep, ReadAcks, SendStuffed, SendPlain, Receive, RelayDone, NoReply,
                  Save, vars
    <2>2. QED
      BY <1>0, <1>1, <2>1, AirStep DEF PathTypes
  <1>5. CASE bss' \in [Clients -> [APs -> Int]]
    BY <1>1, <1>5, AirStep DEF PathTypes
  <1>6. QED
    BY <1>2, <1>3, <1>4, <1>5, Actions

-----------------------------------------------------------------------------
(* Records, rows and acks. *)

\* Rows stay rows of relayed frames, with one row per key.
LEMMA StoredStep ==
    ASSUME IInv, [Next]_vars
    PROVE  Stored'
  <1>0. /\ aplog \subseteq offered
        /\ \A r \in offered : \E a \in APs : \E f \in relayed[a] : r = RecordOf(a, f)
        /\ Sink!UniqueKeys
    BY DEF IInv, Stored
  <1>1. \A r \in offered : \E a \in APs : \E f \in relayed'[a] : r = RecordOf(a, f)
    BY <1>0, RelayEffect
  <1>2. ASSUME UNCHANGED aplog PROVE Sink!UniqueKeys'
    BY <1>0, <1>2 DEF Sink!UniqueKeys, Sink!Key
  <1>3. CASE UNCHANGED <<offered, aplog>>
    <2>1. Sink!UniqueKeys'
      BY <1>2, <1>3
    <2>2. QED
      BY <1>0, <1>1, <1>3, <2>1 DEF Stored, RecordOf, C!Least
  <1>4. ASSUME NEW a \in APs, RelayDone(a) PROVE Stored'
    <2>1. CASE Sink!Offer(RecordOf(a, mgmt[a].stuffed))
      <3> DEFINE rec == RecordOf(a, mgmt[a].stuffed)
      <3>1. offered' = offered \cup {rec} /\ aplog' = aplog
        BY <2>1 DEF Sink!Offer
      <3>2. mgmt[a].stuffed \in relayed'[a]
        BY <1>4, TypesOfPath DEF RelayDone, H!RelayDone
      <3>3. \A r \in offered' : \E b \in APs : \E f \in relayed'[b] : r = RecordOf(b, f)
        BY <1>1, <3>1, <3>2
      <3>4. Sink!UniqueKeys'
        BY <1>2, <3>1
      <3>5. aplog' \subseteq offered'
        BY <1>0, <3>1
      <3>6. QED
        BY <3>3, <3>4, <3>5 DEF Stored, RecordOf, C!Least
    <2>2. QED
      BY <1>3, <1>4, <2>1 DEF RelayDone
  <1>5. ASSUME NEW rec \in offered, Save(rec) PROVE Stored'
    <2>1. /\ \A row \in aplog : Sink!Key(row) # Sink!Key(rec)
          /\ aplog' = aplog \cup {rec} /\ offered' = offered
      BY <1>5 DEF Save, Sink!Insert, Row
    <2>2. Sink!UniqueKeys'
      <3>1. ASSUME NEW r1 \in aplog', NEW r2 \in aplog', Sink!Key(r1) = Sink!Key(r2)
            PROVE  r1 = r2
        BY <1>0, <2>1, <3>1 DEF Sink!UniqueKeys
      <3>2. QED
        BY <3>1 DEF Sink!UniqueKeys, Sink!Key
    <2>3. QED
      BY <1>0, <1>1, <1>5, <2>1, <2>2 DEF Stored, RecordOf, C!Least
  <1>6. CASE \/ \E c \in Clients : \/ ClientStep(c) \/ ReadAcks(c)
                                   \/ \E to \in SUBSET APs : SendStuffed(c, to)
                                   \/ \E a \in APs : ExpireBss(c, a)
             \/ \E s \in Stations, to \in SUBSET APs : SendPlain(s, to)
             \/ \E a \in APs : \/ Receive(a) \/ NoReply(a)
                               \/ \E sent \in BOOLEAN : Reply(a, sent)
             \/ UNCHANGED vars
    <2>1. UNCHANGED <<offered, aplog>>
      BY <1>6 DEF ClientStep, ReadAcks, SendStuffed, ExpireBss, SendPlain, Receive, NoReply,
                  Reply, vars
    <2>2. QED
      BY <1>3, <2>1
  <1>7. QED
    BY <1>4, <1>5, <1>6, Actions

\* What was relayed stays relayed.
LEMMA RelayedGrows ==
    ASSUME IInv, [Next]_vars
    PROVE  RelayedSeqs \subseteq RelayedSeqs'
  <1> SUFFICES ASSUME NEW s \in RelayedSeqs PROVE s \in RelayedSeqs'
    OBVIOUS
  <1>1. PICK a \in APs : \E f \in relayed[a] : s = f.seq
    BY DEF RelayedSeqs
  <1>2. PICK f \in relayed[a] : s = f.seq
    BY <1>1
  <1>3. f \in relayed'[a]
    BY RelayEffect
  <1>4. QED
    BY <1>2, <1>3 DEF RelayedSeqs

\* What a client hears in a step it heard before, or is in its cache.
LEMMA HeardStep ==
    ASSUME IInv, [Next]_vars, NEW c \in Clients
    PROVE  heard'[c] \subseteq RelayedSeqs'
  <1>0. heard[c] \subseteq RelayedSeqs /\ RelayedSeqs \subseteq RelayedSeqs'
    BY RelayedGrows DEF IInv, AckHasSource
  <1>1. CASE heard'[c] \subseteq heard[c]
    BY <1>0, <1>1
  <1>2. CASE UNCHANGED clientVars
    BY <1>1, <1>2 DEF clientVars
  <1>3. heard \in [Clients -> SUBSET Nat]
    BY DEF IInv, CP!IInv, CP!TypeOK
  <1>4. ASSUME NEW x \in Clients, ClientStep(x) PROVE heard'[c] \subseteq heard[c]
    <2>1. CASE C!BuildFrame(x)
      BY <1>3, <2>1 DEF C!BuildFrame
    <2>2. QED
      BY <1>4, <2>1 DEF ClientStep, C!Start, C!ParseArgs, C!Prompt, C!ReadLine, C!ReadEOF,
         C!StartMessage, C!EndMessage, C!ScanFailed, C!ScanDone, C!histVars
  <1>5. ASSUME NEW x \in Clients, NEW to \in SUBSET APs, SendStuffed(x, to)
        PROVE  heard'[c] \subseteq heard[c]
    BY <1>5 DEF SendStuffed, C!TriggerScan
  <1>6. ASSUME NEW x \in Clients, ReadAcks(x) PROVE heard'[c] \subseteq RelayedSeqs'
    <2>1. PICK d \in DumpsOf(x) : C!Hear(x, d)
      BY <1>6 DEF ReadAcks, C!AckAccepted, C!AckMissed
    <2>2. \A i \in DOMAIN d : d[i] \in RelayedSeqs
      BY DumpsExpected DEF IInv
    <2>3. heard'[c] \subseteq heard[c] \cup {d[i] : i \in DOMAIN d}
      BY <1>3, <2>1 DEF C!Hear
    <2>4. QED
      BY <1>0, <2>2, <2>3
  <1>7. QED
    BY <1>1, <1>2, <1>4, <1>5, <1>6, Actions, ClientsIdle

\* An ack number in a cache or heard keeps its source.
LEMMA SourceStep ==
    ASSUME IInv, [Next]_vars
    PROVE  AckHasSource'
  <1>0. /\ \A c \in Clients, a \in APs : bss[c][a] # -1 => bss[c][a] \in RelayedSeqs
        /\ RelayedSeqs \subseteq RelayedSeqs'
        /\ bss \in [Clients -> [APs -> Int]]
    BY RelayedGrows DEF IInv, AckHasSource, PathTypes
  <1> DEFINE Sourced == \A c \in Clients, a \in APs :
                           bss'[c][a] # -1 => bss'[c][a] \in RelayedSeqs'
  <1>1. ASSUME UNCHANGED bss PROVE Sourced
    BY <1>0, <1>1
  <1>2. ASSUME NEW c \in Clients, NEW a \in APs, ExpireBss(c, a) PROVE Sourced
    BY <1>0, <1>2 DEF ExpireBss
  <1>3. ASSUME NEW a \in APs, NEW sent \in BOOLEAN, Reply(a, sent) PROVE Sourced
    <2>1. AckNumber(a) # -1 => AckNumber(a) \in RelayedSeqs
      <3>1. SUFFICES ASSUME probe_resp_ack_ie[a] # NoData
                     PROVE  probe_resp_ack_ie[a].seq \in RelayedSeqs
        BY DEF AckNumber
      <3>2. hapd_pc[a] # "relay"
        BY <1>3 DEF Reply, H!Reply
      <3>3. probe_resp_ack_ie[a] \in relayed[a]
        BY <3>1, <3>2 DEF IInv, HP!IInv, HP!AckAfterRelay
      <3>4. QED
        BY <3>3 DEF RelayedSeqs
    <2>2. CASE bss' = bss
      BY <1>0, <2>2
    <2>3. ASSUME NEW c \in Clients, bss' = [bss EXCEPT ![c][a] = AckNumber(a)]
          PROVE  Sourced
      BY <1>0, <2>1, <2>3
    <2>4. QED
      BY <1>3, <2>2, <2>3 DEF Reply, Cached
  <1>4. ASSUME \/ \E c \in Clients : \/ ClientStep(c) \/ ReadAcks(c)
                                     \/ \E to \in SUBSET APs : SendStuffed(c, to)
               \/ \E s \in Stations, to \in SUBSET APs : SendPlain(s, to)
               \/ \E a \in APs : Receive(a) \/ RelayDone(a) \/ NoReply(a)
               \/ \E rec \in offered : Save(rec)
               \/ UNCHANGED vars
        PROVE  Sourced
    <2>1. UNCHANGED bss
      BY <1>4 DEF ClientStep, ReadAcks, SendStuffed, SendPlain, Receive, RelayDone, NoReply,
                  Save, vars
    <2>2. QED
      BY <1>1, <2>1
  <1>5. Sourced
    BY <1>2, <1>3, <1>4, Actions
  <1>6. QED
    BY <1>5, HeardStep DEF AckHasSource

-----------------------------------------------------------------------------
(* The theorems. *)

\* Before anything has happened no frame is known and no ack cached.
LEMMA InitPath == Init => IInv
  <1> SUFFICES ASSUME Init PROVE IInv
    OBVIOUS
  <1>1. CP!IInv
    <2>1. CP!Init
      BY DEF Init, C!Init, CP!Init, C!NoFrame, CP!NoFrame
    <2>2. CP!Init => CP!IInv
      BY CP!InitIInv, PartsAssumptions
    <2>3. QED
      BY <2>1, <2>2
  <1>2. HP!IInv
    <2>1. HP!Init
      BY DEF Init, H!Init, HP!Init
    <2>2. HP!Init => HP!IInv
      BY HP!InitHolds, PartsAssumptions
    <2>3. QED
      BY <2>1, <2>2
  <1>3. PathTypes
    <2>1. air \in [APs -> Seq(Requests)]
      BY DEF Init
    <2>2. bss \in [Clients -> [APs -> Int]]
      BY DEF Init
    <2>3. \A c \in Clients : len_data_to_stuff[c] <= MaxLen
      BY LongestLine DEF Init, C!Init
    <2>4. QED
      BY <2>1, <2>2, <2>3 DEF PathTypes
  <1>4. Known = {}
    <2>1. \A c \in Clients : pc[c] \notin InFlight
      BY DEF Init, C!Init, InFlight
    <2>2. \A a \in APs : Handled(a) = {} /\ relayed[a] = {} /\ Waiting(a) = {}
      <3>1. \A a \in APs : hapd_pc[a] = "idle" /\ relayed[a] = {} /\ air[a] = <<>>
        BY DEF Init, H!Init
      <3>2. QED
        BY <3>1 DEF Handled, Waiting
    <2>3. QED
      BY <2>1, <2>2 DEF Known
  <1>5. KnownFrames
    BY <1>4 DEF KnownFrames
  <1>6. Stored
    BY DEF Init, Sink!Init, Stored, Sink!UniqueKeys
  <1>7. AckHasSource
    BY DEF Init, C!Init, AckHasSource
  <1>8. QED
    BY <1>1, <1>2, <1>3, <1>5, <1>6, <1>7 DEF IInv

\* The invariant holds of the whole path: what is proved of a client and of an
\* access point on its own, and what ties them together.
THEOREM Invariance == Spec => []IInv
  <1>1. IInv /\ [Next]_vars => IInv'
    BY ClientsStep, ApsStep, PathStep, KnownStep, StoredStep, SourceStep DEF IInv
  <1>2. QED
    BY <1>1, InitPath, PTL DEF Spec

\* An ack number that a client hears or has cached is the number of a frame
\* that some access point has taken through system(), however many clients
\* share the access points and however late the answers are.
THEOREM AcksHaveSource == Spec => []AckHasSource
  <1>1. IInv => AckHasSource
    BY DEF IInv
  <1>2. QED
    BY <1>1, Invariance, PTL

\* The rows of a message fit together, whatever was retried, reordered, heard
\* by several access points or sent again after a lost ack.
THEOREM RowsFit == Spec => []RowsFitTogether
  <1>1. ASSUME IInv PROVE RowsFitTogether
    <2>1. ASSUME NEW r \in aplog
          PROVE  \E f \in Known : /\ r.mac = f.sa /\ r.ts = f.ts /\ r.seq = f.seq
                                  /\ r.mfb = f.mfb /\ r.start = f.start
                                  /\ r.data_length = f.len
      <3>1. PICK a \in APs : \E f \in relayed[a] : r = RecordOf(a, f)
        BY <1>1 DEF IInv, Stored
      <3>2. PICK f \in relayed[a] : r = RecordOf(a, f)
        BY <3>1
      <3>3. f \in Known
        BY DEF Known
      <3>4. QED
        BY <3>2, <3>3 DEF RecordOf
    <2>2. ASSUME NEW r \in aplog
          PROVE  /\ r.ts <= data_origin_ts[r.mac]
                 /\ r.start = r.seq * FragMax
                 /\ r.data_length \in 1 .. FragMax
                 /\ r.mfb = 1 => r.data_length = FragMax
                 /\ r.ts = data_origin_ts[r.mac] =>
                       (r.mfb = 0 <=>
                           r.start + r.data_length = len_data_to_stuff[r.mac])
      <3>1. PICK f \in Known : /\ r.mac = f.sa /\ r.ts = f.ts /\ r.seq = f.seq
                               /\ r.mfb = f.mfb /\ r.start = f.start
                               /\ r.data_length = f.len
        BY <2>1
      <3>2. /\ f \in C!Frames
            /\ f.ts <= data_origin_ts[f.sa]
            /\ f.start = f.seq * FragMax
            /\ f.len \in 1 .. FragMax
            /\ f.mfb = 1 => f.len = FragMax
            /\ f.ts = data_origin_ts[f.sa] => Slice(f, len_data_to_stuff[f.sa])
        BY <1>1 DEF IInv, KnownFrames
      <3>3. f.start \in Nat /\ f.sa \in Clients /\ len_data_to_stuff[f.sa] \in Nat
        BY <1>1, <3>2, TypesOfPath DEF C!Frames
      <3>4. ASSUME Slice(f, len_data_to_stuff[f.sa])
            PROVE  f.mfb = 0 <=> f.start + f.len = len_data_to_stuff[f.sa]
        BY <3>3, <3>4, FragAssumption DEF Slice, C!Least
      <3>5. QED
        BY <3>1, <3>2, <3>4
    <2>3. ASSUME NEW r1 \in aplog, NEW r2 \in aplog, r1.mac = r2.mac, r1.ts = r2.ts
          PROVE  /\ r1.seq = r2.seq => r1 = r2
                 /\ r1.seq < r2.seq =>
                       /\ r1.mfb = 1 /\ r1.data_length = FragMax
                       /\ r1.start + r1.data_length <= r2.start
      <3>1. r1.seq = r2.seq => r1 = r2
        BY <1>1, <2>3 DEF IInv, Stored, Sink!UniqueKeys, Sink!Key
      <3>2. PICK f \in Known : /\ r1.mac = f.sa /\ r1.ts = f.ts /\ r1.seq = f.seq
                               /\ r1.mfb = f.mfb /\ r1.start = f.start
                               /\ r1.data_length = f.len
        BY <2>1
      <3>3. PICK g \in Known : /\ r2.mac = g.sa /\ r2.ts = g.ts /\ r2.seq = g.seq
                               /\ r2.mfb = g.mfb /\ r2.start = g.start
                               /\ r2.data_length = g.len
        BY <2>1
      <3>4. Fits(f, g)
        BY <1>1, <2>3, <3>2, <3>3 DEF IInv, KnownFrames
      <3>5. QED
        BY <3>1, <3>2, <3>3, <3>4 DEF Fits
    <2>4. QED
      BY <2>2, <2>3 DEF RowsFitTogether
  <1>2. QED
    BY <1>1, Invariance, PTL

\* Within the path a client behaves as ProbeStuffing says it does on its own:
\* the caches show it no dump it does not expect.
THEOREM ClientsRefined == Spec => ClientRefined
  <1>1. Init => C!Init
    BY DEF Init
  <1>2. ASSUME IInv, [Next]_vars PROVE [C!Next]_(C!vars)
    <2>1. CASE UNCHANGED clientVars
      BY <2>1 DEF clientVars, C!vars, C!argVars, C!msgVars, C!fragVars, C!seqVars,
                  C!tryVars, C!histVars
    <2>2. ASSUME NEW c \in Clients, ClientStep(c) PROVE C!Next
      BY <2>2 DEF ClientStep, C!Next, C!Work
    <2>3. ASSUME NEW c \in Clients, NEW to \in SUBSET APs, SendStuffed(c, to) PROVE C!Next
      BY <2>3 DEF SendStuffed, C!Next, C!Work
    <2>4. ASSUME NEW c \in Clients, ReadAcks(c) PROVE C!Next
      <3>1. PICK d \in DumpsOf(c) :
               C!AckAccepted(c, d) \/ \E ok \in BOOLEAN : C!AckMissed(c, d, ok)
        BY <2>4 DEF ReadAcks
      <3>2. d \in Dumps
        BY <1>2, DumpsExpected DEF IInv
      <3>3. C!ReadAcks(c)
        BY <3>1, <3>2 DEF C!ReadAcks
      <3>4. QED
        BY <3>3 DEF C!Next, C!Work
    <2>5. QED
      BY <1>2, <2>1, <2>2, <2>3, <2>4, Actions, ClientsIdle
  <1>3. QED
    BY <1>1, <1>2, Invariance, PTL DEF Spec, ClientRefined, C!Spec

\* A record is of the type the controller expects.
LEMMA RecordTyped ==
    ASSUME NEW a \in APs, NEW f \in C!Frames
    PROVE  RecordOf(a, f) \in Records
  <1>1. /\ f.sa \in Clients /\ f.ts \in Nat /\ f.seq \in Nat /\ f.mfb \in {0, 1}
        /\ f.start \in Nat /\ f.len \in Nat
    BY DEF C!Frames
  <1>2. C!Least(f.len, CsvRoom) \in Nat
    BY <1>1, CsvAssumption DEF C!Least
  <1>3. QED
    BY <1>1, <1>2 DEF RecordOf, Records

\* Within the path an access point behaves as HostapdProbe says, and the
\* controller is offered records and stores them as RecordSink promises.
THEOREM OthersRefined == Spec => H!Spec /\ Sink!Spec
  <1>1. Init => H!Init /\ Sink!Init
    BY DEF Init
  <1>2. ASSUME IInv, [Next]_vars PROVE [H!Next]_(H!vars)
    <2>1. CASE UNCHANGED apVars
      BY <2>1 DEF apVars, H!vars
    <2>2. ASSUME NEW a \in APs, Receive(a) PROVE H!Next
      <3>1. Head(air[a]) \in Requests
        BY <1>2, <2>2, NextRequest DEF IInv
      <3>2. H!Receive(a)
        BY <2>2, <3>1 DEF Receive, H!Receive
      <3>3. QED
        BY <3>2 DEF H!Next
    <2>3. ASSUME NEW a \in APs, RelayDone(a) PROVE H!Next
      BY <2>3 DEF RelayDone, H!Next
    <2>4. ASSUME NEW a \in APs, NoReply(a) \/ \E sent \in BOOLEAN : Reply(a, sent)
          PROVE  H!Next
      BY <2>4 DEF NoReply, Reply, H!Answer, H!Next
    <2>5. QED
      BY <1>2, <2>1, <2>2, <2>3, <2>4, Actions, ApsIdle
  <1>3. ASSUME IInv, [Next]_vars PROVE [Sink!Next]_(Sink!sinkVars)
    <2>0. \A a \in APs : \A f \in relayed[a] \cup Handled(a) : f \in C!Frames
      BY <1>3 DEF IInv, KnownFrames, Known
    <2>1. CASE UNCHANGED <<offered, aplog>>
      BY <2>1 DEF Sink!sinkVars
    <2>2. ASSUME NEW a \in APs, RelayDone(a) PROVE [Sink!Next]_(Sink!sinkVars)
      <3>1. mgmt[a].stuffed \in C!Frames
        BY <2>0, <2>2 DEF RelayDone, H!RelayDone, Handled
      <3>2. CASE Sink!Offer(RecordOf(a, mgmt[a].stuffed))
        BY <3>1, <3>2, RecordTyped DEF Sink!Next
      <3>3. QED
        BY <2>1, <2>2, <3>2 DEF RelayDone
    <2>3. ASSUME NEW rec \in offered, Save(rec) PROVE Sink!Next
      <3>1. PICK a \in APs : \E f \in relayed[a] : rec = RecordOf(a, f)
        BY <1>3 DEF IInv, Stored
      <3>2. rec \in Records
        BY <2>0, <3>1, RecordTyped
      <3>3. QED
        BY <2>3, <3>2 DEF Save, Sink!Next
    <2>4. CASE \/ \E c \in Clients : \/ ClientStep(c) \/ ReadAcks(c)
                                     \/ \E to \in SUBSET APs : SendStuffed(c, to)
                                     \/ \E a \in APs : ExpireBss(c, a)
               \/ \E s \in Stations, to \in SUBSET APs : SendPlain(s, to)
               \/ \E a \in APs : \/ Receive(a) \/ NoReply(a)
                                 \/ \E sent \in BOOLEAN : Reply(a, sent)
               \/ UNCHANGED vars
      BY <2>1, <2>4 DEF ClientStep, ReadAcks, SendStuffed, ExpireBss, SendPlain, Receive,
                        NoReply, Reply, vars
    <2>5. QED
      BY <1>3, <2>2, <2>3, <2>4, Actions
  <1>4. QED
    BY <1>1, <1>2, <1>3, Invariance, PTL DEF Spec, H!Spec, Sink!Spec

-----------------------------------------------------------------------------
(* Guaranteed delivery, and when it is guaranteed.                         *)

Busy == {"build"} \cup InFlight

\* Frames k below seq_num of the message in hand were given to the controller.
Given(c, k) ==
    \E r \in offered : r.mac = c /\ r.ts = data_origin_ts[c] /\ r.seq = k

\* Messages are numbered from 1 to MaxMsgs, and so are the messages of frames.
Dated ==
    /\ \A c \in Clients : data_origin_ts[c] <= MaxMsgs
    /\ \A c \in Clients : pc[c] \in Busy => data_origin_ts[c] >= 1
    /\ \A f \in Known : f.ts >= 1

\* What went through system() was given to the controller.
RelayedOffered == \A a \in APs : \A f \in relayed[a] : RecordOf(a, f) \in offered

\* The first message of a client that asks for guaranteed delivery: when a frame
\* is left behind it was given to the controller.  (main.c:299, 321-329.)
FirstDelivered ==
    \A c \in Clients :
        (effort[c] = 2 /\ pc[c] \in Busy /\ data_origin_ts[c] = 1) =>
            \A k \in 0 .. seq_num[c] - 1 : Given(c, k)

DeliveryInv == IInv /\ Dated /\ RelayedOffered /\ FirstDelivered

\* What a step does to a client's counters: they stay, a message begins, or
\* with guaranteed delivery a frame is left behind whose number was heard.
LEMMA DeliveryEffect ==
    ASSUME IInv, [Next]_vars, NEW x \in Clients
    PROVE  \/ pc'[x] \notin Busy /\ data_origin_ts'[x] = data_origin_ts[x]
           \/ /\ pc'[x] = "build" /\ seq_num'[x] = 0
              /\ data_origin_ts'[x] = data_origin_ts[x] + 1
              /\ data_origin_ts[x] < MaxMsgs
           \/ /\ pc[x] \in Busy /\ effort'[x] = effort[x]
              /\ data_origin_ts'[x] = data_origin_ts[x]
              /\ \/ seq_num'[x] = seq_num[x]
                 \/ /\ seq_num'[x] = seq_num[x] + 1
                    /\ effort[x] = 2 => seq_num[x] \in heard'[x]
  <1> DEFINE Goal ==
           \/ pc'[x] \notin Busy /\ data_origin_ts'[x] = data_origin_ts[x]
           \/ /\ pc'[x] = "build" /\ seq_num'[x] = 0
              /\ data_origin_ts'[x] = data_origin_ts[x] + 1
              /\ data_origin_ts[x] < MaxMsgs
           \/ /\ pc[x] \in Busy /\ effort'[x] = effort[x]
              /\ data_origin_ts'[x] = data_origin_ts[x]
              /\ \/ seq_num'[x] = seq_num[x]
                 \/ /\ seq_num'[x] = seq_num[x] + 1
                    /\ effort[x] = 2 => seq_num[x] \in heard'[x]
  <1>0. CP!TypeOK /\ CP!FreshAck
    BY DEF IInv, CP!IInv
  <1>1. ASSUME pc'[x] = pc[x], effort'[x] = effort[x], seq_num'[x] = seq_num[x],
               data_origin_ts'[x] = data_origin_ts[x]
        PROVE  Goal
    BY <1>1
  <1>2. CASE UNCHANGED clientVars
    BY <1>1, <1>2 DEF clientVars
  <1>3. ASSUME NEW c \in Clients, CP!Start(c) \/ CP!Prompt(c) \/ CP!Work(c), c # x
        PROVE  Goal
    BY <1>0, <1>1, <1>3, CP!OthersUnchanged, PartsAssumptions
  <1>4. CASE CP!Start(x)
    <2>1. pc'[x] \notin Busy
      BY <1>0, <1>4, CP!StartEffect, PartsAssumptions DEF InFlight, Busy
    <2>2. UNCHANGED data_origin_ts
      BY <1>4 DEF CP!Start, CP!ParseArgs, CP!msgVars
    <2>3. QED
      BY <2>1, <2>2
  <1>5. CASE CP!Prompt(x)
    <2>1. PICK src \in {"stdin", "uninit"}, n \in LineLens \cup UninitLens :
             CP!StartMessage(x, src, n)
      BY <1>5 DEF CP!Prompt, CP!ReadLine, CP!ReadEOF
    <2>2. QED
      BY <1>0, <2>1 DEF CP!StartMessage, CP!TypeOK
  <1>6. CASE CP!BuildFrame(x)
    BY <1>0, <1>6, CP!BuildEffect, PartsAssumptions DEF Busy
  <1>7. CASE CP!EndMessage(x)
    BY <1>0, <1>7 DEF CP!EndMessage, CP!TypeOK, CP!msgVars, Busy, InFlight
  <1>8. CASE CP!TriggerScan(x) \/ CP!ScanFailed(x) \/ CP!ScanDone(x)
    BY <1>8 DEF CP!TriggerScan, CP!ScanFailed, CP!ScanDone, CP!msgVars, CP!argVars,
                CP!seqVars, Busy, InFlight
  <1>9. CASE CP!ReadAcks(x)
    <2>1. /\ pc[x] = "dump"
          /\ ack_seq_num'[x] = ack_seq_num[x] \/ ack_seq_num'[x] \in heard'[x]
          /\ heard[x] \subseteq heard'[x]
          /\ \/ /\ seq_num'[x] = seq_num[x] + 1
                /\ effort[x] = 2 => ack_seq_num'[x] = seq_num[x]
             \/ UNCHANGED seq_num
          /\ UNCHANGED <<effort, data_origin_ts>>
      BY <1>0, <1>9, CP!ReadAcksEffect, PartsAssumptions
    <2>2. effort[x] = 2 /\ ack_seq_num[x] = seq_num[x] => seq_num[x] \in heard[x]
      BY <1>0, <2>1 DEF CP!FreshAck, CP!InFlight
    <2>3. QED
      BY <2>1, <2>2 DEF Busy, InFlight
  <1>10. QED
    BY <1>2, <1>3, <1>4, <1>5, <1>6, <1>7, <1>8, <1>9, ClientActs DEF CP!Work

\* The messages keep their numbers.
LEMMA DatedStep ==
    ASSUME IInv, Dated, [Next]_vars
    PROVE  Dated'
  <1>0. data_origin_ts \in [Clients -> Nat] /\ MaxMsgs \in Nat
    BY TypesOfPath, BoundsAssumption
  <1>1. ASSUME NEW c \in Clients
        PROVE  /\ data_origin_ts'[c] <= MaxMsgs
               /\ pc'[c] \in Busy => data_origin_ts'[c] >= 1
    <2>1. data_origin_ts[c] \in Nat
      BY <1>0
    <2>2. QED
      BY <1>0, <2>1, DeliveryEffect DEF Dated
  <1>2. ASSUME NEW f \in Known' PROVE f.ts >= 1
    <2>1. CASE f \in Known
      BY <2>1 DEF Dated
    <2>2. CASE \E c \in Clients : pc'[c] \in InFlight /\ f = frame'[c]
      <3>1. PICK c \in Clients : pc'[c] \in InFlight /\ f = frame'[c]
        BY <2>2
      <3>2. CP!Tiling'
        BY ClientsStep DEF CP!IInv
      <3>3. f.ts = data_origin_ts'[c]
        BY <3>1, <3>2 DEF CP!Tiling, CP!InFlight, InFlight
      <3>4. QED
        BY <1>1, <3>1, <3>3 DEF Busy
    <2>3. CASE \E a \in APs : f \in Waiting(a)'
      <3>1. PICK a \in APs : f \in Waiting(a)'
        BY <2>3
      <3>2. PICK k \in DOMAIN air'[a] : f = air'[a][k].stuffed /\ f # NoData
        BY <3>1 DEF Waiting
      <3>3. QED
        BY <2>1, <3>2, AirStep
    <2>4. CASE \E a \in APs : f \in Handled(a)' \/ f \in relayed'[a]
      BY <2>1, <2>4, RelayEffect DEF Handled
    <2>5. QED
      BY <2>2, <2>3, <2>4 DEF Known
  <1>3. QED
    BY <1>1, <1>2 DEF Dated

\* No record is taken back.
LEMMA OfferedGrows ==
    ASSUME [Next]_vars
    PROVE  offered \subseteq offered'
  <1>1. ASSUME NEW a \in APs, RelayDone(a) PROVE offered \subseteq offered'
    BY <1>1 DEF RelayDone, Sink!Offer
  <1>2. ASSUME NEW rec \in offered, Save(rec) PROVE offered \subseteq offered'
    BY <1>2 DEF Save, Sink!Insert
  <1>3. CASE \/ \E c \in Clients : \/ ClientStep(c) \/ ReadAcks(c)
                                   \/ \E to \in SUBSET APs : SendStuffed(c, to)
                                   \/ \E a \in APs : ExpireBss(c, a)
             \/ \E s \in Stations, to \in SUBSET APs : SendPlain(s, to)
             \/ \E a \in APs : \/ Receive(a) \/ NoReply(a)
                               \/ \E sent \in BOOLEAN : Reply(a, sent)
             \/ UNCHANGED vars
    <2>1. UNCHANGED offered
      BY <1>3 DEF ClientStep, ReadAcks, SendStuffed, ExpireBss, SendPlain, Receive, NoReply,
                  Reply, vars
    <2>2. QED
      BY <2>1
  <1>4. QED
    BY <1>1, <1>2, <1>3, Actions

\* Where tcpclient never fails, a frame through system() is with the controller.
LEMMA OfferedStep ==
    ASSUME FailingAPs = {}, IInv, RelayedOffered, [Next]_vars
    PROVE  RelayedOffered'
  <1>0. DOMAIN relayed = APs
    BY TypesOfPath
  <1> SUFFICES ASSUME NEW b \in APs, NEW f \in relayed'[b] PROVE RecordOf(b, f) \in offered'
    BY DEF RelayedOffered, RecordOf, C!Least
  <1>1. CASE f \in relayed[b]
    BY <1>1, OfferedGrows DEF RelayedOffered
  <1>2. ASSUME NEW a \in APs, RelayDone(a) PROVE f \in relayed[b] \/ RecordOf(b, f) \in offered'
    <2>1. offered' = offered \cup {RecordOf(a, mgmt[a].stuffed)}
      BY <1>2 DEF RelayDone, Sink!Offer
    <2>2. relayed' = [relayed EXCEPT ![a] = @ \cup {mgmt[a].stuffed}]
      BY <1>2 DEF RelayDone, H!RelayDone
    <2>3. CASE b = a
      <3>1. f \in relayed[a] \/ f = mgmt[a].stuffed
        BY <1>0, <2>2, <2>3
      <3>2. QED
        BY <2>1, <2>3, <3>1
    <2>4. CASE b # a
      BY <1>0, <2>2, <2>4
    <2>5. QED
      BY <2>3, <2>4
  <1>3. ASSUME UNCHANGED relayed PROVE f \in relayed[b]
    BY <1>3
  <1>4. ASSUME NEW a \in APs, \/ Receive(a) \/ NoReply(a)
                              \/ \E sent \in BOOLEAN : Reply(a, sent)
        PROVE  UNCHANGED relayed
    BY <1>4 DEF Receive, NoReply, Reply, H!Ignore, H!Stuffed, H!Plain, H!NoReply, H!Reply,
                H!vars
  <1>5. CASE UNCHANGED apVars
    BY <1>1, <1>3, <1>5 DEF apVars
  <1>6. QED
    BY <1>1, <1>2, <1>3, <1>4, <1>5, Actions, ApsIdle

\* There is one client, and tcpclient never fails.
Alone == FailingAPs = {} /\ \A c, d \in Clients : c = d

\* The number a client hears during its first message can only stand for a frame
\* of that message, so the frame it leaves behind was given.
LEMMA DeliveredStep ==
    ASSUME Alone, DeliveryInv, [Next]_vars, IInv', Dated', RelayedOffered'
    PROVE  FirstDelivered'
  <1> SUFFICES ASSUME NEW c \in Clients, effort'[c] = 2, pc'[c] \in Busy,
                      data_origin_ts'[c] = 1, NEW k \in 0 .. seq_num'[c] - 1
               PROVE  \E r \in offered' : r.mac = c /\ r.ts = 1 /\ r.seq = k
    BY DEF FirstDelivered, Given
  <1>0. seq_num[c] \in Nat
    BY DEF DeliveryInv, IInv, CP!IInv, CP!TypeOK
  <1>1. CASE seq_num'[c] = 0
    BY <1>1
  <1>2. ASSUME pc[c] \in Busy, effort[c] = 2, data_origin_ts[c] = 1, k \in 0 .. seq_num[c] - 1
        PROVE  \E r \in offered' : r.mac = c /\ r.ts = 1 /\ r.seq = k
    BY <1>2, OfferedGrows DEF DeliveryInv, FirstDelivered, Given
  <1>3. ASSUME k \in heard'[c]
        PROVE  \E r \in offered' : r.mac = c /\ r.ts = 1 /\ r.seq = k
    <2>1. k \in RelayedSeqs'
      BY <1>3 DEF IInv, AckHasSource
    <2>2. PICK a \in APs : \E f \in relayed'[a] : k = f.seq
      BY <2>1 DEF RelayedSeqs
    <2>3. PICK f \in relayed'[a] : k = f.seq
      BY <2>2
    <2>4. f \in Known'
      BY DEF Known
    <2>5. /\ f.sa \in Clients /\ f.ts \in Nat
          /\ f.ts >= 1 /\ f.ts <= data_origin_ts'[f.sa]
      BY <2>4 DEF IInv, KnownFrames, Dated, C!Frames
    <2>6. f.sa = c
      BY <2>5 DEF Alone
    <2>7. f.ts = 1
      BY <2>5, <2>6
    <2>8. RecordOf(a, f) \in offered'
      BY DEF RelayedOffered, RecordOf, C!Least
    <2>9. QED
      BY <2>3, <2>6, <2>7, <2>8 DEF RecordOf
  <1>4. QED
    <2>1. IInv
      BY DEF DeliveryInv
    <2>2. CASE /\ pc[c] \in Busy /\ effort'[c] = effort[c]
               /\ data_origin_ts'[c] = data_origin_ts[c]
               /\ \/ seq_num'[c] = seq_num[c]
                  \/ /\ seq_num'[c] = seq_num[c] + 1
                     /\ effort[c] = 2 => seq_num[c] \in heard'[c]
      <3>0. seq_num'[c] \in Nat /\ effort[c] = 2
        BY <1>0, <2>2
      <3>1. \/ k \in 0 .. seq_num[c] - 1
            \/ k = seq_num[c] /\ k \in heard'[c]
        <4>1. CASE seq_num'[c] = seq_num[c]
          BY <4>1
        <4>2. CASE seq_num'[c] = seq_num[c] + 1 /\ seq_num[c] \in heard'[c]
          <5>1. k \in 0 .. seq_num[c]
            BY <1>0, <4>2
          <5>2. k \in 0 .. seq_num[c] - 1 \/ k = seq_num[c]
            BY <1>0, <5>1
          <5>3. QED
            BY <4>2, <5>2
        <4>3. QED
          BY <2>2, <3>0, <4>1, <4>2
      <3>2. QED
        BY <1>2, <1>3, <2>2, <3>1
    <2>3. QED
      BY <1>1, <2>1, <2>2, DeliveryEffect

LEMMA InitDelivery == Init => Dated /\ RelayedOffered /\ FirstDelivered
  <1> SUFFICES ASSUME Init PROVE Dated /\ RelayedOffered /\ FirstDelivered
    OBVIOUS
  <1>1. \A c \in Clients : pc[c] \notin Busy /\ data_origin_ts[c] = 0
    BY DEF Init, C!Init, Busy, InFlight
  <1>2. \A a \in APs : hapd_pc[a] = "idle" /\ relayed[a] = {} /\ air[a] = <<>>
    BY DEF Init, H!Init
  <1>3. Known = {}
    BY <1>1, <1>2 DEF Known, Handled, Waiting, Busy
  <1>4. QED
    BY <1>1, <1>2, <1>3, BoundsAssumption DEF Dated, RelayedOffered, FirstDelivered

\* With one client and no failing tcpclient the invariant holds.
LEMMA DeliveryInvariance == Alone => (Spec => []DeliveryInv)
  <1> SUFFICES ASSUME Alone PROVE Spec => []DeliveryInv
    OBVIOUS
  <1>1. Init => DeliveryInv
    BY InitPath, InitDelivery DEF DeliveryInv
  <1>2. ASSUME DeliveryInv, [Next]_vars PROVE DeliveryInv'
    <2>1. IInv /\ Dated /\ RelayedOffered
      BY <1>2 DEF DeliveryInv
    <2>2. IInv'
      BY <1>2, <2>1, ClientsStep, ApsStep, PathStep, KnownStep, StoredStep, SourceStep
         DEF IInv
    <2>3. Dated' /\ RelayedOffered'
      BY <1>2, <2>1, DatedStep, OfferedStep DEF Alone
    <2>4. QED
      BY <1>2, <2>2, <2>3, DeliveredStep DEF DeliveryInv
  <1>3. QED
    BY <1>1, <1>2, PTL DEF Spec

\* One client, and access points where tcpclient does not fail: of its first
\* message no frame is left behind that the controller was not given, whatever
\* was lost, repeated, answered late or acknowledged to another host.
THEOREM FirstMessageDelivered == Alone => (Spec => []FirstDelivered)
  <1>1. DeliveryInv => FirstDelivered
    BY DEF DeliveryInv
  <1>2. QED
    BY <1>1, DeliveryInvariance, PTL

\* So a client that is alone and sends one message has the delivery that main.c
\* and the README promise.  (With a second message, a second client or a tcpclient
\* that fails it has not.)
THEOREM DeliveryGuaranteed ==
    Alone /\ MaxMsgs <= 1 => (Spec => []GuaranteedDelivery)
  <1> SUFFICES ASSUME Alone, MaxMsgs <= 1 PROVE Spec => []GuaranteedDelivery
    OBVIOUS
  <1>1. ASSUME DeliveryInv PROVE GuaranteedDelivery
    <2> SUFFICES ASSUME NEW c \in Clients, effort[c] = 2, pc[c] \in Busy,
                        NEW k \in 0 .. seq_num[c] - 1
                 PROVE  Given(c, k)
      BY DEF GuaranteedDelivery, Busy, InFlight, Given
    <2>1. data_origin_ts[c] \in Nat
      BY <1>1, TypesOfPath DEF DeliveryInv
    <2>2. data_origin_ts[c] = 1
      BY <1>1, <2>1, BoundsAssumption DEF DeliveryInv, Dated
    <2>3. QED
      BY <1>1, <2>2 DEF DeliveryInv, FirstDelivered
  <1>2. QED
    BY <1>1, DeliveryInvariance, PTL

=============================================================================
