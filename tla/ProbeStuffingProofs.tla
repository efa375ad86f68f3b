------------------------ MODULE ProbeStuffingProofs ------------------------
(***************************************************************************)
(* The client's invariants for every set of clients, every length of line, *)
(* every fragment size and every pair of retry limits.  The inductive      *)
(* invariant is the conjunction of five named invariants of ProbeStuffing: *)
(* TypeOK needs the positive retry counters of RetryBudget (an attempt is  *)
(* numbered at most AckRetries), Tiling, SocketBalance and FreshAck need   *)
(* TypeOK only.                                                            *)
(***************************************************************************)
EXTENDS ProbeStuffing, TLAPS, FiniteSetTheorems

\* What every step keeps.
IInv == TypeOK /\ RetryBudget /\ Tiling /\ SocketBalance /\ FreshAck

\* Distributing a fragment or a retry limit over one step of a counter.
LEMMA MulStep ==
    ASSUME NEW a \in Int, NEW b \in Int
    PROVE  /\ a * (b + 1) = a * b + a
           /\ (b + 1) * a = b * a + a
           /\ a * b \in Int /\ b * a \in Int
  BY SMT

\* A product of natural numbers is one.
LEMMA MulNat ==
    ASSUME NEW a \in Nat, NEW b \in Nat
    PROVE  a * b \in Nat
  BY SMT

\* One ack retry pays for S more scans, and the last one is within S * A.
LEMMA Pay ==
    ASSUME NEW S \in Nat, NEW A \in Nat, NEW a \in 1 .. A
    PROVE  /\ S * (A - a) \in Nat
           /\ S * (A - (a - 1)) = S * (A - a) + S
           /\ S * (A - a) + S <= S * A
  <1>1. S * (A - a) \in Nat
    BY MulNat
  <1>2. S * ((A - a) + 1) = S * (A - a) + S
    BY MulStep
  <1>3. A - (a - 1) = (A - a) + 1
    OBVIOUS
  <1>4. S * A = S * (A - a) + S + S * (a - 1)
    BY SMT
  <1>5. S * (a - 1) \in Nat
    BY MulNat
  <1>6. QED
    BY <1>1, <1>2, <1>3, <1>4, <1>5

\* What get_ack leaves in ack_seq_num is what was there or a number it read.
LEMMA GetAck ==
    ASSUME NEW d \in Seq(Nat), NEW cur \in Nat \cup {-1}
    PROVE  /\ get_ack(cur, d) \in Nat \cup {-1}
           /\ get_ack(cur, d) = cur \/ get_ack(cur, d) \in {d[i] : i \in DOMAIN d}
           /\ {d[i] : i \in DOMAIN d} \subseteq Nat
  BY DEF get_ack

\* The initial state satisfies the inductive invariant.
LEMMA InitIInv == Init => IInv
  <1> SUFFICES ASSUME Init PROVE IInv  OBVIOUS
  <1> USE RetriesAssumption DEF Init
  <1>1. TypeOK  BY DEF TypeOK, InFlight, Sources
  <1>2. RetryBudget  BY DEF RetryBudget, InFlight
  <1>3. Tiling  BY DEF Tiling, InFlight
  <1>4. SocketBalance  BY DEF SocketBalance, InFlight
  <1>5. FreshAck  BY DEF FreshAck, InFlight
  <1>6. QED  BY <1>1, <1>2, <1>3, <1>4, <1>5 DEF IInv

\* The types of pc and of a line of the log, as in TypeOK.
PCs == {"start", "exited", "prompt", "build"} \cup InFlight
LogLines == [attempt : 1 .. AckRetries, size : Nat, ts : Nat, status : {1, -1}]

\* Reading the dump keeps the types: an attempt that is logged has a number of
\* at most AckRetries because ack_retries_left is still positive.
LEMMA TypeReadAcks ==
    ASSUME TypeOK, RetryBudget, Tiling, SocketBalance,
           NEW c \in Clients, ReadAcks(c)
    PROVE  TypeOK'
  <1> USE RetriesAssumption
  <1> PICK d \in Dumps :
        AckAccepted(c, d) \/ \E ok \in BOOLEAN : AckMissed(c, d, ok)
    BY DEF ReadAcks
  <1>1. pc[c] = "dump" /\ Hear(c, d)
    BY DEF AckAccepted, AckMissed
  <1>2. ack_retries_left[c] \in 1 .. AckRetries
    BY <1>1 DEF RetryBudget, InFlight, TypeOK
  <1>3. ack_seq_num' \in [Clients -> Nat \cup {-1}]
    <2>1. get_ack(ack_seq_num[c], d) \in Nat \cup {-1}
      BY GetAck, DumpsAssumption DEF TypeOK
    <2>2. QED
      BY <1>1, <2>1 DEF Hear, TypeOK
  <1>4. heard' \in [Clients -> SUBSET Nat]
    <2>1. {d[i] : i \in DOMAIN d} \subseteq Nat
      BY DumpsAssumption
    <2>2. heard[c] \cup {d[i] : i \in DOMAIN d} \in SUBSET Nat
      BY <2>1 DEF TypeOK
    <2>3. QED
      BY <1>1, <2>2 DEF Hear, TypeOK
  <1>5. log' \in [Clients -> Seq(LogLines)]
    <2>1. PICK st \in {1, -1} : log_info(c, st)
      BY DEF AckAccepted, AckMissed
    <2>2. AckRetries + 1 - ack_retries_left[c] \in 1 .. AckRetries
      BY <1>2
    <2>3. frame[c].len \in Nat
      BY <1>1, FragAssumption DEF Tiling, InFlight
    <2>4. LogEntry(c, st) \in LogLines
      BY <2>2, <2>3 DEF LogEntry, LogLines, TypeOK
    <2>5. log[c] \in Seq(LogLines)
      BY DEF TypeOK, LogLines
    <2>6. Append(log[c], LogEntry(c, st)) \in Seq(LogLines)
      BY <2>4, <2>5
    <2>7. QED
      BY <2>1, <2>6 DEF log_info, TypeOK, LogLines
  <1>6. sockets' \in [Clients -> Nat]
    <2>1. sockets[c] - 1 \in Nat
      BY <1>1 DEF SocketBalance, InFlight, TypeOK
    <2>2. \/ UNCHANGED sockets
          \/ sockets' = [sockets EXCEPT ![c] = @ - 1]
      BY DEF AckAccepted, AckMissed, NextFrame, RetryOrGiveUp
    <2>3. sockets \in [Clients -> Nat]
      BY DEF TypeOK
    <2>4. QED
      BY <2>1, <2>2, <2>3
  <1>7. CASE AckAccepted(c, d)
    <2>1. pc' \in [Clients -> PCs] /\ UNCHANGED giveups
      BY <1>7 DEF AckAccepted, NextFrame, TypeOK, PCs
    <2>2. seq_num' \in [Clients -> Nat]
      BY SMTT(30), <1>7 DEF AckAccepted, NextFrame, TypeOK
    <2>3. ack_retries_left' \in [Clients -> 0 .. AckRetries]
      BY <1>7 DEF AckAccepted, TypeOK
    <2>4. UNCHANGED <<argVars, msgVars, fragVars, scan_retries_left, attempts>>
      BY <1>7 DEF AckAccepted
    <2>5. QED
      BY <1>3, <1>4, <1>5, <1>6, <2>1, <2>2, <2>3, <2>4
      DEF TypeOK, PCs, LogLines, argVars, msgVars, fragVars
  <1>8. ASSUME NEW ok \in BOOLEAN, AckMissed(c, d, ok) PROVE TypeOK'
    <2>1. UNCHANGED <<argVars, msgVars, fragVars, scan_retries_left, attempts>>
      BY <1>8 DEF AckMissed
    <2>2. ack_retries_left[c] - 1 \in 0 .. AckRetries
      BY <1>2
    <2>3. ack_retries_left' \in [Clients -> 0 .. AckRetries]
      BY <1>8, <2>2 DEF AckMissed, TypeOK
    <2>4. seq_num' \in [Clients -> Nat]
      <3>1. \/ UNCHANGED seq_num
            \/ seq_num' = [seq_num EXCEPT ![c] = @ + 1]
        BY <1>8 DEF AckMissed, NextFrame
      <3>2. seq_num \in [Clients -> Nat]
        BY DEF TypeOK
      <3>3. QED
        BY <3>1, <3>2
    <2>5. pc' \in [Clients -> PCs] /\ giveups' \in [Clients -> Nat]
      <3>1. \E l \in {"send", "prompt", "build"} : pc' = [pc EXCEPT ![c] = l]
        BY <1>8 DEF AckMissed, NextFrame, RetryOrGiveUp
      <3>2. \/ UNCHANGED giveups
            \/ giveups' = [giveups EXCEPT ![c] = @ + 1]
        BY <1>8 DEF AckMissed, NextFrame, RetryOrGiveUp
      <3>3. pc' \in [Clients -> PCs]
        BY <3>1 DEF TypeOK, PCs, InFlight
      <3>4. giveups \in [Clients -> Nat] /\ sockets \in [Clients -> Nat]
        BY DEF TypeOK
      <3>5. QED
        BY <3>2, <3>3, <3>4
    <2>6. QED
      BY <1>3, <1>4, <1>5, <1>6, <2>1, <2>3, <2>4, <2>5
      DEF TypeOK, PCs, LogLines, argVars, msgVars, fragVars
  <1>9. QED
    BY <1>7, <1>8

\* Every operation of main() keeps the types: the retry counters stay within
\* their limits because RetryBudget has them positive while a frame is sent.
LEMMA TypeStep ==
    ASSUME TypeOK, RetryBudget, Tiling, SocketBalance, [Next]_vars
    PROVE  TypeOK'
  <1> USE LensAssumption, FragAssumption, RetriesAssumption
  <1>1. ASSUME NEW c \in Clients, Start(c) PROVE TypeOK'
    <2>1. PICK opts \in SUBSET {"i", "d", "f", "e"}, e \in {1, 2},
               readable \in BOOLEAN : ParseArgs(c, opts, e, readable)
      BY <1>1 DEF Start
    <2>2. pc' \in [Clients -> PCs]
      BY <2>1 DEF ParseArgs, TypeOK, PCs
    <2>3. effort' \in [Clients -> {1, 2}]
      BY <2>1 DEF ParseArgs, TypeOK
    <2>4. data_to_stuff' \in [Clients -> Sources]
      BY <2>1 DEF ParseArgs, TypeOK, Sources
    <2>5. QED
      BY <2>1, <2>2, <2>3, <2>4 DEF ParseArgs, TypeOK, PCs, msgVars, fragVars,
         seqVars, tryVars, histVars
  <1>2. ASSUME NEW c \in Clients, Prompt(c) PROVE TypeOK'
    <2>1. PICK src \in {"stdin", "uninit"}, n \in Nat : StartMessage(c, src, n)
      BY <1>2 DEF Prompt, ReadLine, ReadEOF
    <2>2. pc' \in [Clients -> PCs] /\ data_to_stuff' \in [Clients -> Sources]
      BY <2>1 DEF StartMessage, TypeOK, PCs, Sources
    <2>3. /\ len_data_to_stuff' \in [Clients -> Nat]
          /\ len_data_already_stuffed' \in [Clients -> Nat]
          /\ data_origin_ts' \in [Clients -> Nat]
      <3>1. len_data_to_stuff' \in [Clients -> Nat]
        BY <2>1 DEF StartMessage, TypeOK
      <3>2. len_data_already_stuffed' \in [Clients -> Nat]
        BY <2>1 DEF StartMessage, TypeOK
      <3>3. data_origin_ts' \in [Clients -> Nat]
        BY SMTT(30), <2>1 DEF StartMessage, TypeOK
      <3>4. QED
        BY <3>1, <3>2, <3>3
    <2>4. /\ seq_num' \in [Clients -> Nat]
          /\ ack_seq_num' \in [Clients -> Nat \cup {-1}]
      BY <2>1 DEF StartMessage, TypeOK
    <2>5. /\ scan_retries_left' \in [Clients -> 0 .. ScanRetries]
          /\ ack_retries_left' \in [Clients -> 0 .. AckRetries]
      BY SMTT(30), <2>1 DEF StartMessage, TypeOK
    <2>6. QED
      BY <2>1, <2>2, <2>3, <2>4, <2>5 DEF StartMessage, TypeOK, PCs, histVars
  <1>3. ASSUME NEW c \in Clients, BuildFrame(c) PROVE TypeOK'
    <2>1. NextLen(c) \in Nat /\ NextMfb(c) \in {0, 1}
      BY SMTT(30), <1>3 DEF BuildFrame, NextLen, NextMfb, Least, TypeOK
    <2>2. seq_num[c] * FragMax \in Nat
      BY MulNat DEF TypeOK
    <2>3. Frame(c, data_origin_ts[c], seq_num[c], NextMfb(c),
                seq_num[c] * FragMax, NextLen(c)) \in Frames
      BY <2>1, <2>2 DEF Frame, Frames, TypeOK
    <2>4. frame' \in [Clients -> Frames \cup {NoFrame}]
      BY <1>3, <2>3 DEF BuildFrame, TypeOK
    <2>5. len_data_already_stuffed' \in [Clients -> Nat]
      BY SMTT(30), <1>3, <2>1 DEF BuildFrame, TypeOK
    <2>6. pc' \in [Clients -> PCs] /\ sockets' \in [Clients -> Nat]
      BY SMTT(30), <1>3 DEF BuildFrame, TypeOK, PCs, InFlight
    <2>7. attempts' \in [Clients -> Nat] /\ heard' \in [Clients -> SUBSET Nat]
      BY <1>3 DEF BuildFrame, TypeOK
    <2>8. QED
      BY <1>3, <2>4, <2>5, <2>6, <2>7 DEF BuildFrame, TypeOK, PCs, argVars,
         msgVars, seqVars, tryVars
  <1>4. ASSUME NEW c \in Clients, EndMessage(c) PROVE TypeOK'
    <2>1. pc' \in [Clients -> PCs]
      BY <1>4 DEF EndMessage, TypeOK, PCs
    <2>2. QED
      BY <1>4, <2>1 DEF EndMessage, TypeOK, PCs, argVars, msgVars, fragVars,
         seqVars, tryVars, histVars
  <1>5. ASSUME NEW c \in Clients, TriggerScan(c) PROVE TypeOK'
    <2>1. pc' \in [Clients -> PCs] /\ attempts' \in [Clients -> Nat]
      BY <1>5 DEF TriggerScan, TypeOK, PCs, InFlight
    <2>2. QED
      BY <1>5, <2>1 DEF TriggerScan, TypeOK, PCs, argVars, msgVars, fragVars,
         seqVars, tryVars
  <1>6. ASSUME NEW c \in Clients, ScanFailed(c) PROVE TypeOK'
    <2>1. scan_retries_left[c] - 1 \in 0 .. ScanRetries
      BY SMTT(30), <1>6 DEF ScanFailed, RetryBudget, InFlight, TypeOK
    <2>2. scan_retries_left' \in [Clients -> 0 .. ScanRetries]
      BY <1>6, <2>1 DEF ScanFailed, TypeOK
    <2>3. /\ pc' \in [Clients -> PCs]
          /\ sockets' \in [Clients -> Nat]
          /\ giveups' \in [Clients -> Nat]
      <3>1. \E l \in {"send", "prompt"} : pc' = [pc EXCEPT ![c] = l]
        BY <1>6 DEF ScanFailed, RetryOrGiveUp
      <3>2. /\ UNCHANGED sockets
            /\ \/ UNCHANGED giveups
               \/ giveups' = [giveups EXCEPT ![c] = @ + 1]
        BY <1>6 DEF ScanFailed, RetryOrGiveUp
      <3>3. pc' \in [Clients -> PCs]
        BY <3>1 DEF TypeOK, PCs, InFlight
      <3>4. giveups \in [Clients -> Nat] /\ sockets \in [Clients -> Nat]
        BY DEF TypeOK
      <3>5. QED
        BY <3>2, <3>3, <3>4
    <2>4. QED
      BY <1>6, <2>2, <2>3 DEF ScanFailed, TypeOK, PCs, argVars, msgVars, fragVars,
         seqVars
  <1>7. ASSUME NEW c \in Clients, ScanDone(c) PROVE TypeOK'
    <2>1. pc' \in [Clients -> PCs]
      BY <1>7 DEF ScanDone, TypeOK, PCs, InFlight
    <2>2. scan_retries_left' \in [Clients -> 0 .. ScanRetries]
      BY <1>7 DEF ScanDone, TypeOK
    <2>3. QED
      BY <1>7, <2>1, <2>2 DEF ScanDone, TypeOK, PCs, argVars, msgVars, fragVars,
         seqVars, histVars
  <1>8. ASSUME NEW c \in Clients, ReadAcks(c) PROVE TypeOK'
    BY <1>8, TypeReadAcks
  <1>9. CASE UNCHANGED vars
    BY <1>9 DEF vars, TypeOK, argVars, msgVars, fragVars, seqVars, tryVars, histVars
  <1>10. QED
    BY <1>1, <1>2, <1>3, <1>4, <1>5, <1>6, <1>7, <1>8, <1>9 DEF Next, Work

-----------------------------------------------------------------------------
(* Pointwise effects.  An action of c leaves the other clients alone, and   *)
(* what it does to c is stated without EXCEPT; the invariants below then    *)
(* reduce to arithmetic about one client.                                   *)

\* What main() of one client does is invisible in the state of another.
LEMMA OthersUnchanged ==
    ASSUME TypeOK, NEW c \in Clients, Start(c) \/ Prompt(c) \/ Work(c),
           NEW x \in Clients, x # c
    PROVE  /\ pc'[x] = pc[x] /\ effort'[x] = effort[x]
           /\ data_origin_ts'[x] = data_origin_ts[x]
           /\ len_data_to_stuff'[x] = len_data_to_stuff[x]
           /\ len_data_already_stuffed'[x] = len_data_already_stuffed[x]
           /\ seq_num'[x] = seq_num[x] /\ ack_seq_num'[x] = ack_seq_num[x]
           /\ scan_retries_left'[x] = scan_retries_left[x]
           /\ ack_retries_left'[x] = ack_retries_left[x]
           /\ frame'[x] = frame[x] /\ sockets'[x] = sockets[x]
           /\ attempts'[x] = attempts[x] /\ heard'[x] = heard[x]
           /\ giveups'[x] = giveups[x]
  <1> USE DEF argVars, msgVars, fragVars, seqVars, tryVars, histVars
  <1>1. CASE Start(c)
    BY <1>1 DEF Start, ParseArgs
  <1>2. CASE Prompt(c)
    <2>1. PICK src \in {"stdin", "uninit"}, n \in Nat : StartMessage(c, src, n)
      BY <1>2, LensAssumption DEF Prompt, ReadLine, ReadEOF
    <2>2. QED
      BY <2>1 DEF StartMessage, TypeOK
  <1>3. CASE BuildFrame(c)
    BY <1>3 DEF BuildFrame, TypeOK
  <1>4. CASE EndMessage(c)
    BY <1>4 DEF EndMessage, TypeOK
  <1>5. CASE TriggerScan(c)
    BY <1>5 DEF TriggerScan, TypeOK
  <1>6. CASE ScanFailed(c)
    BY <1>6 DEF ScanFailed, RetryOrGiveUp, TypeOK
  <1>7. CASE ScanDone(c)
    BY <1>7 DEF ScanDone, TypeOK
  <1>8. CASE ReadAcks(c)
    <2>t. /\ pc \in [Clients -> PCs] /\ seq_num \in [Clients -> Nat]
          /\ sockets \in [Clients -> Nat] /\ giveups \in [Clients -> Nat]
          /\ ack_retries_left \in [Clients -> 0 .. AckRetries]
          /\ ack_seq_num \in [Clients -> Nat \cup {-1}]
          /\ heard \in [Clients -> SUBSET Nat]
      BY DEF TypeOK, PCs
    <2>1. PICK d \in Dumps :
            AckAccepted(c, d) \/ \E ok \in BOOLEAN : AckMissed(c, d, ok)
      BY <1>8 DEF ReadAcks
    <2>2. ack_seq_num'[x] = ack_seq_num[x] /\ heard'[x] = heard[x]
      BY <2>1, <2>t DEF AckAccepted, AckMissed, Hear
    <2>3. CASE AckAccepted(c, d)
      BY <2>2, <2>3, <2>t DEF AckAccepted, NextFrame
    <2>4. ASSUME NEW ok \in BOOLEAN, AckMissed(c, d, ok)
          PROVE  /\ pc'[x] = pc[x] /\ seq_num'[x] = seq_num[x]
                 /\ sockets'[x] = sockets[x] /\ giveups'[x] = giveups[x]
                 /\ ack_retries_left'[x] = ack_retries_left[x]
                 /\ UNCHANGED <<argVars, msgVars, fragVars, scan_retries_left,
                                attempts>>
      BY <2>4, <2>t DEF AckMissed, NextFrame, RetryOrGiveUp
    <2>5. QED
      BY <2>1, <2>2, <2>3, <2>4
  <1>9. QED
    BY <1>1, <1>2, <1>3, <1>4, <1>5, <1>6, <1>7, <1>8 DEF Work

\* ParseArgs: the client exits or waits at its prompt.
LEMMA StartEffect ==
    ASSUME TypeOK, NEW c \in Clients, Start(c)
    PROVE  /\ pc[c] = "start" /\ pc'[c] \in {"exited", "prompt"}
           /\ UNCHANGED <<sockets, giveups>>
  <1>1. pc \in [Clients -> PCs]
    BY DEF TypeOK, PCs
  <1>2. QED
    BY <1>1 DEF Start, ParseArgs, histVars

\* StartMessage: every counter of the message is set afresh.
LEMMA PromptEffect ==
    ASSUME TypeOK, NEW c \in Clients, Prompt(c)
    PROVE  /\ pc[c] = "prompt" /\ pc'[c] = "build"
           /\ len_data_to_stuff'[c] \in Nat /\ len_data_already_stuffed'[c] = 0
           /\ seq_num'[c] = 0 /\ ack_seq_num'[c] = -1
           /\ scan_retries_left'[c] = ScanRetries
           /\ ack_retries_left'[c] = AckRetries
           /\ UNCHANGED <<effort, sockets, giveups>>
  <1>1. PICK src \in {"stdin", "uninit"}, n \in Nat : StartMessage(c, src, n)
    BY LensAssumption DEF Prompt, ReadLine, ReadEOF
  <1>2. QED
    BY <1>1 DEF StartMessage, TypeOK, histVars

\* BuildFrame: the frame is the next slice, the counters are for that frame.
LEMMA BuildEffect ==
    ASSUME TypeOK, NEW c \in Clients, BuildFrame(c)
    PROVE  /\ pc[c] = "build" /\ pc'[c] = "send"
           /\ len_data_already_stuffed[c] < len_data_to_stuff[c]
           /\ frame'[c].seq = seq_num[c]
           /\ frame'[c].ts = data_origin_ts[c]
           /\ frame'[c].start = seq_num[c] * FragMax
           /\ frame'[c].len = NextLen(c)
           /\ frame'[c].mfb = NextMfb(c)
           /\ len_data_already_stuffed'[c] = len_data_already_stuffed[c] + NextLen(c)
           /\ sockets'[c] = sockets[c] + 1
           /\ attempts'[c] = 0 /\ heard'[c] = {}
           /\ UNCHANGED <<effort, data_origin_ts, len_data_to_stuff, seq_num,
                          ack_seq_num, scan_retries_left, ack_retries_left, giveups>>
  <1>1. frame'[c] = Frame(c, data_origin_ts[c], seq_num[c], NextMfb(c),
                          seq_num[c] * FragMax, NextLen(c))
    BY DEF BuildFrame, TypeOK
  <1>2. QED
    BY <1>1 DEF BuildFrame, Frame, TypeOK, argVars, msgVars, seqVars, tryVars

\* RetryOrGiveUp: the prompt with one more abandoned message, or another try.
LEMMA RetryEffect ==
    ASSUME TypeOK, NEW c \in Clients, NEW n \in Int, RetryOrGiveUp(c, n)
    PROVE  /\ sockets'[c] = sockets[c]
           /\ \/ n > 0 /\ pc'[c] = "send" /\ giveups'[c] = giveups[c]
              \/ n <= 0 /\ pc'[c] = "prompt" /\ giveups'[c] = giveups[c] + 1
  <1>1. pc \in [Clients -> PCs] /\ giveups \in [Clients -> Nat]
    BY DEF TypeOK, PCs
  <1>2. QED
    BY <1>1 DEF RetryOrGiveUp

\* ReadAcks: the ack number is the old one or was just heard; the frame is
\* finished with, tried again at the cost of one retry, or given up.
LEMMA ReadAcksEffect ==
    ASSUME TypeOK, NEW c \in Clients, ReadAcks(c)
    PROVE  /\ pc[c] = "dump"
           /\ ack_seq_num'[c] = ack_seq_num[c] \/ ack_seq_num'[c] \in heard'[c]
           /\ heard[c] \subseteq heard'[c]
           /\ \/ /\ pc'[c] = "build"
                 /\ seq_num'[c] = seq_num[c] + 1
                 /\ effort[c] = 2 => ack_seq_num'[c] = seq_num[c]
                 /\ sockets'[c] = sockets[c] - 1
                 /\ ack_retries_left'[c] \in {ack_retries_left[c], AckRetries}
                 /\ UNCHANGED giveups
              \/ /\ ack_retries_left'[c] = ack_retries_left[c] - 1
                 /\ sockets'[c] = sockets[c]
                 /\ UNCHANGED seq_num
                 /\ \/ ack_retries_left'[c] > 0 /\ pc'[c] = "send"
                       /\ giveups'[c] = giveups[c]
                    \/ pc'[c] = "prompt" /\ giveups'[c] = giveups[c] + 1
           /\ UNCHANGED <<effort, data_origin_ts, len_data_to_stuff,
                   len_data_already_stuffed, frame, scan_retries_left, attempts>>
  <1> PICK d \in Dumps :
        AckAccepted(c, d) \/ \E ok \in BOOLEAN : AckMissed(c, d, ok)
    BY DEF ReadAcks
  <1>1. pc[c] = "dump" /\ Hear(c, d)
    BY DEF AckAccepted, AckMissed
  <1>t. /\ ack_seq_num \in [Clients -> Nat \cup {-1}]
        /\ heard \in [Clients -> SUBSET Nat]
        /\ ack_retries_left \in [Clients -> 0 .. AckRetries]
        /\ seq_num \in [Clients -> Nat] /\ sockets \in [Clients -> Nat]
        /\ pc \in [Clients -> PCs]
    BY DEF TypeOK, PCs
  <1>2. /\ ack_seq_num'[c] = get_ack(ack_seq_num[c], d)
        /\ heard'[c] = heard[c] \cup {d[i] : i \in DOMAIN d}
    BY <1>1, <1>t DEF Hear
  <1>3. ack_seq_num'[c] = ack_seq_num[c] \/ ack_seq_num'[c] \in heard'[c]
    BY <1>2, <1>t, GetAck, DumpsAssumption
  <1>4. CASE AckAccepted(c, d)
    <2>1. ack_seq_num'[c] = seq_num[c]
      BY <1>2, <1>4 DEF AckAccepted, IsAck
    <2>2. /\ pc'[c] = "build"
          /\ seq_num'[c] = seq_num[c] + 1
          /\ sockets'[c] = sockets[c] - 1
          /\ ack_retries_left'[c] = AckRetries
      BY <1>4, <1>t DEF AckAccepted, NextFrame
    <2>3. QED
      BY <1>1, <1>2, <1>3, <1>4, <2>1, <2>2
      DEF AckAccepted, argVars, msgVars, fragVars
  <1>5. ASSUME NEW ok \in BOOLEAN, AckMissed(c, d, ok), effort[c] = 2
        PROVE  /\ ack_retries_left'[c] = ack_retries_left[c] - 1
               /\ sockets'[c] = sockets[c]
               /\ UNCHANGED seq_num
               /\ \/ ack_retries_left'[c] > 0 /\ pc'[c] = "send"
                     /\ giveups'[c] = giveups[c]
                  \/ pc'[c] = "prompt" /\ giveups'[c] = giveups[c] + 1
    <2>1. /\ ack_retries_left' = [ack_retries_left EXCEPT ![c] = @ - 1]
          /\ RetryOrGiveUp(c, ack_retries_left[c] - 1)
          /\ UNCHANGED seq_num
      BY <1>5 DEF AckMissed
    <2>2. /\ ack_retries_left'[c] = ack_retries_left[c] - 1
          /\ ack_retries_left[c] - 1 \in Int
      BY <2>1, <1>t, RetriesAssumption
    <2>3. QED
      BY <2>1, <2>2, RetryEffect
  <1>6. ASSUME NEW ok \in BOOLEAN, AckMissed(c, d, ok), effort[c] # 2
        PROVE  /\ pc'[c] = "build"
               /\ seq_num'[c] = seq_num[c] + 1
               /\ sockets'[c] = sockets[c] - 1
               /\ UNCHANGED <<ack_retries_left, giveups>>
    <2>1. NextFrame(c) /\ UNCHANGED <<ack_retries_left, giveups>>
      BY <1>6 DEF AckMissed
    <2>2. QED
      BY <2>1, <1>t DEF NextFrame
  <1>7. ASSUME NEW ok \in BOOLEAN, AckMissed(c, d, ok)
        PROVE  UNCHANGED <<effort, data_origin_ts, len_data_to_stuff,
                   len_data_already_stuffed, frame, scan_retries_left, attempts>>
    BY <1>7 DEF AckMissed, argVars, msgVars, fragVars
  <1>8. QED
    BY <1>1, <1>2, <1>3, <1>4, <1>5, <1>6, <1>7

-----------------------------------------------------------------------------
(* The inductive steps, one per invariant, and the theorems.                   *)

\* The sockets: one is opened per frame, and only giving up forgets one.
LEMMA SocketStep ==
    ASSUME TypeOK, SocketBalance, [Next]_vars
    PROVE  SocketBalance'
  <1> USE DEF SocketBalance, InFlight
  <1>1. ASSUME NEW c \in Clients, Start(c) \/ Prompt(c) \/ Work(c) PROVE SocketBalance'
    <2> SUFFICES ASSUME NEW x \in Clients
                 PROVE  sockets'[x] = giveups'[x]
                            + (IF pc'[x] \in InFlight THEN 1 ELSE 0)
      OBVIOUS
    <2>t. sockets[c] \in Nat /\ giveups[c] \in Nat
      BY DEF TypeOK
    <2>1. CASE x # c
      BY <1>1, <2>1, OthersUnchanged
    <2>2. CASE x = c /\ Start(c)
      BY <2>2, <2>t, StartEffect
    <2>3. CASE x = c /\ Prompt(c)
      BY <2>3, <2>t, PromptEffect
    <2>4. CASE x = c /\ BuildFrame(c)
      BY <2>4, <2>t, BuildEffect
    <2>5. CASE x = c /\ (EndMessage(c) \/ TriggerScan(c) \/ ScanDone(c))
      BY <2>5, <2>t DEF EndMessage, TriggerScan, ScanDone, TypeOK, histVars
    <2>6. CASE x = c /\ ScanFailed(c)
      <3>1. /\ pc[c] = "scanning"
            /\ RetryOrGiveUp(c, scan_retries_left[c] - 1)
            /\ scan_retries_left[c] - 1 \in Int
        BY <2>6, RetriesAssumption DEF ScanFailed, TypeOK
      <3>2. QED
        BY <3>1, <2>6, <2>t, RetryEffect
    <2>7. CASE x = c /\ ReadAcks(c)
      BY <2>7, <2>t, ReadAcksEffect
    <2>8. QED
      BY <1>1, <2>1, <2>2, <2>3, <2>4, <2>5, <2>6, <2>7 DEF Work
  <1>2. CASE UNCHANGED vars
    BY <1>2 DEF vars, histVars
  <1>3. QED
    BY <1>1, <1>2 DEF Next

\* The number expected is unheard when a frame is built, and an equal
\* ack_seq_num later means it was heard.
LEMMA FreshStep ==
    ASSUME TypeOK, FreshAck, [Next]_vars
    PROVE  FreshAck'
  <1> USE DEF FreshAck, InFlight
  <1>1. ASSUME NEW c \in Clients, Start(c) \/ Prompt(c) \/ Work(c) PROVE FreshAck'
    <2> SUFFICES ASSUME NEW x \in Clients, effort'[x] = 2
                 PROVE  /\ pc'[x] = "build" => ack_seq_num'[x] # seq_num'[x]
                        /\ (pc'[x] \in InFlight /\ ack_seq_num'[x] = seq_num'[x])
                              => seq_num'[x] \in heard'[x]
      OBVIOUS
    <2>t. seq_num[c] \in Nat
      BY DEF TypeOK
    <2>1. CASE x # c
      BY <1>1, <2>1, OthersUnchanged
    <2>2. CASE x = c /\ Start(c)
      BY <2>2, StartEffect
    <2>3. CASE x = c /\ Prompt(c)
      BY <2>3, PromptEffect
    <2>4. CASE x = c /\ BuildFrame(c)
      BY <2>4, BuildEffect
    <2>5. CASE x = c /\ (EndMessage(c) \/ TriggerScan(c) \/ ScanDone(c))
      BY <2>5 DEF EndMessage, TriggerScan, ScanDone, TypeOK, histVars, argVars,
                  seqVars
    <2>6. CASE x = c /\ ScanFailed(c)
      <3>1. /\ pc[c] = "scanning"
            /\ RetryOrGiveUp(c, scan_retries_left[c] - 1)
            /\ scan_retries_left[c] - 1 \in Int
            /\ UNCHANGED <<effort, seq_num, ack_seq_num, heard>>
        BY <2>6, RetriesAssumption DEF ScanFailed, TypeOK, argVars, seqVars
      <3>2. QED
        BY <3>1, <2>6, RetryEffect
    <2>7. CASE x = c /\ ReadAcks(c)
      BY <2>7, <2>t, ReadAcksEffect
    <2>8. QED
      BY <1>1, <2>1, <2>2, <2>3, <2>4, <2>5, <2>6, <2>7 DEF Work
  <1>2. CASE UNCHANGED vars
    BY <1>2 DEF vars, histVars, argVars, seqVars
  <1>3. QED
    BY <1>1, <1>2 DEF Next

\* The retry counters: a frame's scans are paid for by the counters' falls.
LEMMA BudgetStep ==
    ASSUME TypeOK, RetryBudget, [Next]_vars
    PROVE  RetryBudget'
  <1> DEFINE S == ScanRetries
             A == AckRetries
             Budgeted(c) ==
                 /\ pc[c] \in InFlight \cup {"build"} =>
                       scan_retries_left[c] > 0 /\ ack_retries_left[c] > 0
                 /\ pc[c] = "dump" => scan_retries_left[c] = S
                 /\ pc[c] = "send" => attempts[c] <= Budget(c)
                 /\ pc[c] = "scanning" => attempts[c] <= Budget(c) + 1
                 /\ pc[c] = "dump" => attempts[c] <= Budget(c) + S
                 /\ pc[c] \in InFlight => attempts[c] <= S * A
  <1>1. ASSUME NEW c \in Clients, Start(c) \/ Prompt(c) \/ Work(c) PROVE RetryBudget'
    <2> SUFFICES ASSUME NEW x \in Clients PROVE Budgeted(x)'
      BY DEF RetryBudget
    <2>b. Budgeted(c)
      BY DEF RetryBudget
    <2>t. /\ S \in Nat \ {0} /\ A \in Nat \ {0} /\ attempts[c] \in Nat
          /\ scan_retries_left[c] \in 0 .. S /\ ack_retries_left[c] \in 0 .. A
      BY RetriesAssumption DEF TypeOK
    <2>1. CASE x # c
      BY <1>1, <2>1, OthersUnchanged DEF RetryBudget, Budget
    <2>2. CASE x = c /\ Start(c)
      BY <2>2, StartEffect DEF InFlight
    <2>3. CASE x = c /\ Prompt(c)
      BY <2>3, <2>t, PromptEffect DEF InFlight
    <2>4. CASE x = c /\ BuildFrame(c)
      <3>1. /\ pc'[c] = "send" /\ attempts'[c] = 0
            /\ ack_retries_left'[c] = ack_retries_left[c]
            /\ scan_retries_left'[c] = scan_retries_left[c]
            /\ scan_retries_left[c] > 0 /\ ack_retries_left[c] > 0
        BY <2>4, <2>b, BuildEffect
      <3>2. S * (A - ack_retries_left[c]) \in Nat /\ S * A \in Nat
        BY <2>t, MulNat
      <3>3. QED
        BY <3>1, <3>2, <2>4, <2>t DEF InFlight, Budget
    <2>5. CASE x = c /\ EndMessage(c)
      <3>1. pc'[c] = "prompt"
        BY <2>5 DEF EndMessage, TypeOK
      <3>2. QED
        BY <3>1, <2>5 DEF InFlight
    <2>6. CASE x = c /\ TriggerScan(c)
      <3>1. /\ pc[c] = "send" /\ pc'[c] = "scanning"
            /\ attempts'[c] = attempts[c] + 1
            /\ UNCHANGED <<scan_retries_left, ack_retries_left>>
        BY <2>6 DEF TriggerScan, TypeOK, tryVars
      <3>2. ack_retries_left[c] \in 1 .. A /\ scan_retries_left[c] \in 1 .. S
        BY <3>1, <2>b, <2>t DEF InFlight
      <3>3. /\ S * (A - ack_retries_left[c]) \in Nat /\ S * A \in Nat
            /\ S * (A - ack_retries_left[c]) + S <= S * A
        BY <3>2, <2>t, Pay, MulNat
      <3>4. attempts[c] <= S * (A - ack_retries_left[c]) + (S - scan_retries_left[c])
        BY <3>1, <2>b DEF Budget
      <3>5. QED
        BY <3>1, <3>2, <3>3, <3>4, <2>6, <2>t DEF InFlight, Budget
    <2>7. CASE x = c /\ ScanFailed(c)
      <3>1. /\ pc[c] = "scanning"
            /\ scan_retries_left'[c] = scan_retries_left[c] - 1
            /\ RetryOrGiveUp(c, scan_retries_left[c] - 1)
            /\ UNCHANGED <<ack_retries_left, attempts>>
        BY <2>7 DEF ScanFailed, TypeOK
      <3>2. \/ pc'[c] = "prompt"
            \/ pc'[c] = "send" /\ scan_retries_left'[c] > 0
        BY <3>1, <2>t, RetryEffect
      <3>3. S * (A - ack_retries_left[c]) \in Nat
        BY <2>t, MulNat
      <3>4. /\ attempts[c] <= S * (A - ack_retries_left[c])
                                  + (S - scan_retries_left[c]) + 1
            /\ ack_retries_left[c] > 0 /\ attempts[c] <= S * A
        BY <3>1, <2>b DEF Budget, InFlight
      <3>5. QED
        BY <3>1, <3>2, <3>3, <3>4, <2>7, <2>t DEF InFlight, Budget
    <2>8. CASE x = c /\ ScanDone(c)
      <3>1. /\ pc[c] = "scanning" /\ pc'[c] = "dump"
            /\ scan_retries_left'[c] = S
            /\ UNCHANGED <<ack_retries_left, attempts>>
        BY <2>8 DEF ScanDone, TypeOK, histVars
      <3>2. S * (A - ack_retries_left[c]) \in Nat
        BY <2>t, MulNat
      <3>3. /\ attempts[c] <= S * (A - ack_retries_left[c])
                                  + (S - scan_retries_left[c]) + 1
            /\ scan_retries_left[c] > 0
            /\ ack_retries_left[c] > 0 /\ attempts[c] <= S * A
        BY <3>1, <2>b DEF Budget, InFlight
      <3>4. QED
        BY <3>1, <3>2, <3>3, <2>8, <2>t DEF InFlight, Budget
    <2>9. CASE x = c /\ ReadAcks(c)
      <3>1. /\ pc[c] = "dump"
            /\ scan_retries_left'[c] = scan_retries_left[c]
            /\ attempts'[c] = attempts[c]
            /\ \/ /\ pc'[c] = "build"
                  /\ ack_retries_left'[c] \in {ack_retries_left[c], A}
               \/ pc'[c] = "prompt"
               \/ /\ pc'[c] = "send"
                  /\ ack_retries_left'[c] = ack_retries_left[c] - 1
                  /\ ack_retries_left'[c] > 0
        BY <2>9, ReadAcksEffect
      <3>2. /\ scan_retries_left[c] = S /\ ack_retries_left[c] > 0
            /\ attempts[c] <= S * (A - ack_retries_left[c]) + (S - S) + S
            /\ attempts[c] <= S * A
        BY <3>1, <2>b DEF Budget, InFlight
      <3>3. /\ S * (A - ack_retries_left[c]) \in Nat
            /\ S * (A - (ack_retries_left[c] - 1))
                   = S * (A - ack_retries_left[c]) + S
        BY <3>2, <2>t, Pay
      <3>4. QED
        BY <3>1, <3>2, <3>3, <2>9, <2>t DEF InFlight, Budget
    <2>10. QED
      BY <1>1, <2>1, <2>2, <2>3, <2>4, <2>5, <2>6, <2>7, <2>8, <2>9 DEF Work
  <1>2. CASE UNCHANGED vars
    BY <1>2 DEF vars, histVars, tryVars, RetryBudget, Budget
  <1>3. QED
    BY <1>1, <1>2 DEF Next

\* The slices: seq_num and len_data_already_stuffed move on together.
LEMMA TilingStep ==
    ASSUME TypeOK, Tiling, [Next]_vars
    PROVE  Tiling'
  <1> DEFINE Tiled(c) ==
        /\ pc[c] = "build" =>
              len_data_already_stuffed[c] =
                  Least(len_data_to_stuff[c], seq_num[c] * FragMax)
        /\ pc[c] \in InFlight =>
              /\ frame[c].seq = seq_num[c]
              /\ frame[c].ts = data_origin_ts[c]
              /\ frame[c].start = seq_num[c] * FragMax
              /\ frame[c].len \in 1 .. FragMax
              /\ frame[c].start + frame[c].len = len_data_already_stuffed[c]
              /\ len_data_already_stuffed[c] <= len_data_to_stuff[c]
              /\ frame[c].mfb = 1 => frame[c].len = FragMax
              /\ frame[c].mfb = IF len_data_already_stuffed[c] = len_data_to_stuff[c]
                                THEN 0 ELSE 1
  <1>1. ASSUME NEW c \in Clients, Start(c) \/ Prompt(c) \/ Work(c) PROVE Tiling'
    <2> SUFFICES ASSUME NEW x \in Clients PROVE Tiled(x)'
      BY DEF Tiling
    <2>b. Tiled(c)
      BY DEF Tiling
    <2>t. /\ FragMax \in Nat \ {0} /\ seq_num[c] \in Nat
          /\ len_data_to_stuff[c] \in Nat /\ len_data_already_stuffed[c] \in Nat
          /\ seq_num[c] * FragMax \in Nat
          /\ (seq_num[c] + 1) * FragMax = seq_num[c] * FragMax + FragMax
      <3>1. /\ FragMax \in Nat \ {0} /\ seq_num[c] \in Nat
            /\ len_data_to_stuff[c] \in Nat /\ len_data_already_stuffed[c] \in Nat
        BY FragAssumption DEF TypeOK
      <3>2. QED
        BY <3>1, MulNat, MulStep
    <2>1. CASE x # c
      BY <1>1, <2>1, OthersUnchanged DEF Tiling
    <2>2. CASE x = c /\ Start(c)
      BY <2>2, StartEffect DEF InFlight
    <2>3. CASE x = c /\ Prompt(c)
      <3>1. 0 * FragMax = 0
        BY <2>t
      <3>2. QED
        BY <2>3, <3>1, PromptEffect DEF InFlight, Least
    <2>4. CASE x = c /\ BuildFrame(c)
      <3> DEFINE left == len_data_to_stuff[c] - len_data_already_stuffed[c]
      <3>1. /\ pc[c] = "build" /\ pc'[c] = "send"
            /\ len_data_already_stuffed[c] < len_data_to_stuff[c]
            /\ frame'[c].seq = seq_num[c]
            /\ frame'[c].ts = data_origin_ts[c]
            /\ frame'[c].start = seq_num[c] * FragMax
            /\ frame'[c].len = NextLen(c)
            /\ frame'[c].mfb = NextMfb(c)
            /\ len_data_already_stuffed'[c] = len_data_already_stuffed[c] + NextLen(c)
            /\ UNCHANGED <<data_origin_ts, len_data_to_stuff, seq_num>>
        BY <2>4, BuildEffect
      <3>2. len_data_already_stuffed[c] = seq_num[c] * FragMax
        BY <3>1, <2>b, <2>t DEF Least
      <3>3. /\ NextLen(c) \in 1 .. FragMax
            /\ NextLen(c) <= left
            /\ NextMfb(c) = 1 => NextLen(c) = FragMax
            /\ NextMfb(c) = IF NextLen(c) = left THEN 0 ELSE 1
        BY <3>1, <2>t DEF NextLen, NextMfb, Least
      <3>4. QED
        BY <3>1, <3>2, <3>3, <2>4, <2>t DEF InFlight
    <2>5. CASE x = c /\ EndMessage(c)
      <3>1. pc'[c] = "prompt"
        BY <2>5 DEF EndMessage, TypeOK
      <3>2. QED
        BY <3>1, <2>5 DEF InFlight
    <2>6. CASE x = c /\ (TriggerScan(c) \/ ScanFailed(c) \/ ScanDone(c))
      <3>1. /\ pc[c] \in InFlight
            /\ UNCHANGED <<frame, seq_num, data_origin_ts, len_data_to_stuff,
                           len_data_already_stuffed>>
        BY <2>6 DEF TriggerScan, ScanFailed, ScanDone, msgVars, fragVars, seqVars,
           InFlight
      <3>2. pc'[c] \in InFlight \cup {"prompt"}
        <4>1. pc \in [Clients -> PCs]
          BY DEF TypeOK, PCs
        <4>2. QED
          BY <2>6, <4>1 DEF TriggerScan, ScanFailed, ScanDone, RetryOrGiveUp, InFlight
      <3>3. QED
        BY <3>1, <3>2, <2>6, <2>b DEF InFlight
    <2>7. CASE x = c /\ ReadAcks(c)
      <3>1. /\ pc[c] = "dump"
            /\ UNCHANGED <<frame, data_origin_ts, len_data_to_stuff,
                           len_data_already_stuffed>>
            /\ \/ pc'[c] = "build" /\ seq_num'[c] = seq_num[c] + 1
               \/ pc'[c] \in {"send", "prompt"} /\ UNCHANGED seq_num
        BY <2>7, ReadAcksEffect
      <3>2. CASE pc'[c] = "build"
        <4>1. frame[c].mfb \in {0, 1}
          BY <3>1, <2>b DEF InFlight
        <4>2. len_data_already_stuffed[c] =
                 Least(len_data_to_stuff[c], seq_num[c] * FragMax + FragMax)
          BY <3>1, <2>b, <2>t, <4>1 DEF InFlight, Least
        <4>3. QED
          BY <3>1, <3>2, <4>2, <2>7, <2>t DEF InFlight
      <3>3. CASE pc'[c] \in {"send", "prompt"}
        BY <3>1, <3>3, <2>7, <2>b DEF InFlight
      <3>4. QED
        BY <3>1, <3>2, <3>3
    <2>8. QED
      BY <1>1, <2>1, <2>2, <2>3, <2>4, <2>5, <2>6, <2>7 DEF Work
  <1>2. CASE UNCHANGED vars
    BY <1>2 DEF vars, msgVars, fragVars, seqVars, Tiling
  <1>3. QED
    BY <1>1, <1>2 DEF Next

\* The inductive invariant holds in every state of every behaviour.
THEOREM Invariance == Spec => []IInv
  <1>1. IInv /\ [Next]_vars => IInv'
    BY TypeStep, BudgetStep, TilingStep, SocketStep, FreshStep DEF IInv
  <1>2. QED
    BY InitIInv, <1>1, PTL DEF Spec

\* The variables of main() keep their types: in particular an attempt is
\* logged with a number from 1 to AckRetries.
THEOREM TypeCorrect == Spec => []TypeOK
  <1>1. IInv => TypeOK  BY DEF IInv
  <1>2. QED  BY Invariance, <1>1, PTL

\* A frame is sent at most ScanRetries * AckRetries times (16 as built),
\* however failed scans and missing acks alternate.
THEOREM RetriesBounded == Spec => []RetryBudget
  <1>1. IInv => RetryBudget  BY DEF IInv
  <1>2. QED  BY Invariance, <1>1, PTL

\* The frames of a message are its consecutive slices, for every length and
\* every fragment size, and the last one alone says mfb = 0.
THEOREM FramesTile == Spec => []Tiling
  <1>1. IInv => Tiling  BY DEF IInv
  <1>2. QED  BY Invariance, <1>1, PTL

\* Giving up is the one thing that leaves a netlink socket open.
THEOREM SocketsBalance == Spec => []SocketBalance
  <1>1. IInv => SocketBalance  BY DEF IInv
  <1>2. QED  BY Invariance, <1>1, PTL

\* With guaranteed delivery no number left over from an earlier frame is
\* taken for the ack of the current one.
THEOREM AcksFresh == Spec => []FreshAck
  <1>1. IInv => FreshAck  BY DEF IInv
  <1>2. QED  BY Invariance, <1>1, PTL

-----------------------------------------------------------------------------
(* The log.                                                                  *)

Active == InFlight \cup {"build"}

\* The number of the attempt that failed last for the frame in flight, 0 if
\* none has.
LastMissed(c) ==
    LET n == Len(log[c]) IN
    IF effort[c] = 2 /\ n > 0 /\ log[c][n].status = -1
       /\ log[c][n].ts = data_origin_ts[c]
    THEN log[c][n].attempt ELSE 0

\* What ties ack_retries_left, from which an attempt gets its number, to the
\* last line of the log.
LogState(c) ==
    /\ pc[c] = "start" => log[c] = <<>>
    /\ \A i \in DOMAIN log[c] : log[c][i].ts <= data_origin_ts[c]
    /\ pc[c] \in Active => ack_retries_left[c] = AckRetries - LastMissed(c)

LogInv == \A c \in Clients : LogState(c)

\* What one step of a client does to its log and to what numbers its lines.
LEMMA LogEffect ==
    ASSUME TypeOK, NEW c \in Clients, Start(c) \/ Prompt(c) \/ Work(c)
    PROVE  /\ pc'[c] # "start"
           /\ \/ /\ log'[c] = log[c] /\ data_origin_ts'[c] = data_origin_ts[c]
                 /\ \/ pc[c] = "start" /\ pc'[c] \notin Active
                    \/ /\ pc'[c] \in Active => pc[c] \in Active
                       /\ effort'[c] = effort[c] /\ seq_num'[c] = seq_num[c]
                       /\ ack_retries_left'[c] = ack_retries_left[c]
              \/ /\ log'[c] = log[c] /\ data_origin_ts'[c] = data_origin_ts[c] + 1
                 /\ effort'[c] = effort[c] /\ seq_num'[c] = 0
                 /\ ack_retries_left'[c] = AckRetries
              \/ /\ pc[c] \in Active
                 /\ effort'[c] = effort[c] /\ data_origin_ts'[c] = data_origin_ts[c]
                 /\ \/ /\ log'[c] = Append(log[c], LogEntry(c, 1))
                       /\ ack_retries_left'[c] = AckRetries
                       /\ seq_num'[c] = seq_num[c] + 1
                    \/ /\ log'[c] = Append(log[c], LogEntry(c, -1))
                       /\ effort[c] = 2
                       /\ ack_retries_left'[c] = ack_retries_left[c] - 1
                       /\ seq_num'[c] = seq_num[c]
                    \/ /\ log'[c] = Append(log[c], LogEntry(c, -1))
                       /\ effort[c] # 2
                       /\ ack_retries_left'[c] = ack_retries_left[c]
  <1> USE DEF Active, InFlight
  <1>t. /\ pc \in [Clients -> PCs] /\ seq_num \in [Clients -> Nat]
        /\ ack_retries_left \in [Clients -> 0 .. AckRetries]
        /\ log \in [Clients -> Seq(LogLines)] /\ data_origin_ts \in [Clients -> Nat]
        /\ effort \in [Clients -> {1, 2}]
    BY DEF TypeOK, PCs, LogLines
  <1>1. CASE Start(c)
    BY <1>1, <1>t DEF Start, ParseArgs, msgVars
  <1>2. CASE Prompt(c)
    <2>1. PICK src \in {"stdin", "uninit"}, n \in Nat : StartMessage(c, src, n)
      BY <1>2, LensAssumption DEF Prompt, ReadLine, ReadEOF
    <2>2. QED
      BY <2>1, <1>t DEF StartMessage
  <1>3. CASE BuildFrame(c) \/ EndMessage(c) \/ TriggerScan(c) \/ ScanDone(c)
    BY <1>3, <1>t DEF BuildFrame, EndMessage, TriggerScan, ScanDone,
                      argVars, msgVars, seqVars, tryVars
  <1>4. CASE ScanFailed(c)
    BY <1>4, <1>t DEF ScanFailed, RetryOrGiveUp, argVars, msgVars, seqVars
  <1>5. CASE ReadAcks(c)
    <2>1. PICK d \in Dumps :
            AckAccepted(c, d) \/ \E ok \in BOOLEAN : AckMissed(c, d, ok)
      BY <1>5 DEF ReadAcks
    <2>2. CASE AckAccepted(c, d)
      BY <2>2, <1>t DEF AckAccepted, NextFrame, log_info, argVars, msgVars
    <2>3. ASSUME NEW ok \in BOOLEAN, AckMissed(c, d, ok)
          PROVE  /\ pc[c] = "dump" /\ pc'[c] # "start"
                 /\ log'[c] = Append(log[c], LogEntry(c, -1))
                 /\ UNCHANGED <<effort, data_origin_ts>>
                 /\ \/ /\ effort[c] = 2
                       /\ ack_retries_left'[c] = ack_retries_left[c] - 1
                       /\ UNCHANGED seq_num
                    \/ effort[c] # 2 /\ UNCHANGED ack_retries_left
      BY <2>3, <1>t DEF AckMissed, NextFrame, RetryOrGiveUp, log_info, argVars, msgVars
    <2>4. QED
      BY <2>1, <2>2, <2>3
  <1>6. QED
    BY <1>1, <1>2, <1>3, <1>4, <1>5 DEF Work

\* The log of the other clients is left alone.
LEMMA OtherLogs ==
    ASSUME TypeOK, NEW c \in Clients, Start(c) \/ Prompt(c) \/ Work(c),
           NEW x \in Clients, x # c
    PROVE  log'[x] = log[x]
  <1>1. log \in [Clients -> Seq(LogLines)]
    BY DEF TypeOK, LogLines
  <1>2. UNCHANGED log \/ \E status \in {1, -1} : log_info(c, status)
    BY DEF Start, ParseArgs, Prompt, ReadLine, ReadEOF, StartMessage, Work, BuildFrame,
           EndMessage, TriggerScan, ScanFailed, ScanDone, ReadAcks, AckAccepted, AckMissed
  <1>3. QED
    BY <1>1, <1>2 DEF log_info

\* The types of what the log proofs look at.
LEMMA LogTyped ==
    ASSUME TypeOK, NEW c \in Clients
    PROVE  /\ log[c] \in Seq(LogLines) /\ Len(log[c]) \in Nat
           /\ DOMAIN log[c] = 1 .. Len(log[c])
           /\ \A i \in 1 .. Len(log[c]) : log[c][i].ts \in Nat /\ log[c][i].attempt \in Nat
           /\ data_origin_ts[c] \in Nat /\ ack_retries_left[c] \in Nat
           /\ AckRetries \in Nat /\ LastMissed(c) \in Nat
  <1>1. log[c] \in Seq(LogLines)
    BY DEF TypeOK, LogLines
  <1>2. Len(log[c]) \in Nat /\ DOMAIN log[c] = 1 .. Len(log[c])
    BY <1>1
  <1>3. ASSUME NEW i \in 1 .. Len(log[c])
        PROVE  log[c][i].ts \in Nat /\ log[c][i].attempt \in Nat
    <2>1. log[c][i] \in LogLines
      BY <1>1, <1>2, <1>3
    <2>2. QED
      BY <2>1, RetriesAssumption DEF LogLines
  <1>4. data_origin_ts[c] \in Nat /\ ack_retries_left[c] \in Nat /\ AckRetries \in Nat
    BY RetriesAssumption DEF TypeOK
  <1>5. LastMissed(c) \in Nat
    <2>1. Len(log[c]) > 0 => Len(log[c]) \in 1 .. Len(log[c])
      BY <1>2
    <2>2. QED
      BY <1>3, <2>1 DEF LastMissed
  <1>6. QED
    BY <1>1, <1>2, <1>3, <1>4, <1>5

\* One line of AttemptNumbering.
Numbered(c, i) ==
    log[c][i].attempt =
        IF i > 1 /\ effort[c] = 2 /\ log[c][i - 1].status = -1
                 /\ log[c][i - 1].ts = log[c][i].ts
        THEN log[c][i - 1].attempt + 1
        ELSE 1

\* A line that is appended has the number that follows from the line before it.
LEMMA LogAppend ==
    ASSUME TypeOK, NEW c \in Clients, LogState(c), pc[c] \in Active,
           \A i \in 1 .. Len(log[c]) : Numbered(c, i),
           NEW status \in {1, -1}, log'[c] = Append(log[c], LogEntry(c, status)),
           effort'[c] = effort[c], data_origin_ts'[c] = data_origin_ts[c],
           \/ status = 1 /\ ack_retries_left'[c] = AckRetries
           \/ /\ status = -1 /\ effort[c] = 2
              /\ ack_retries_left'[c] = ack_retries_left[c] - 1
           \/ /\ status = -1 /\ effort[c] # 2
              /\ ack_retries_left'[c] = ack_retries_left[c],
           pc'[c] # "start"
    PROVE  LogState(c)' /\ \A i \in 1 .. Len(log'[c]) : Numbered(c, i)'
  <1> DEFINE n == Len(log[c])
             e == LogEntry(c, status)
  <1>1. /\ log[c] \in Seq(LogLines) /\ n \in Nat /\ data_origin_ts[c] \in Nat
        /\ ack_retries_left[c] \in Nat /\ AckRetries \in Nat
    BY LogTyped
  <1>2. /\ e.ts = data_origin_ts[c] /\ e.status = status
        /\ e.attempt = AckRetries + 1 - ack_retries_left[c]
    BY DEF LogEntry
  <1> HIDE DEF e
  <1>3. /\ Len(log'[c]) = n + 1 /\ log'[c][n + 1] = e
        /\ \A i \in 1 .. n : log'[c][i] = log[c][i]
        /\ DOMAIN log'[c] = 1 .. n + 1
    BY <1>1 DEF e
  <1>4. e.attempt = LastMissed(c) + 1
    <2>1. ack_retries_left[c] = AckRetries - LastMissed(c)
      BY DEF LogState
    <2>2. LastMissed(c) \in Int
      BY LogTyped
    <2>3. QED
      BY <1>1, <1>2, <2>1, <2>2
  <1>5. ASSUME NEW i \in 1 .. n + 1 PROVE Numbered(c, i)'
    <2>1. CASE i \in 1 .. n
      <3>1. Numbered(c, i) /\ log'[c][i] = log[c][i]
        BY <1>3, <2>1
      <3>2. i > 1 => i - 1 \in 1 .. n /\ log'[c][i - 1] = log[c][i - 1]
        BY <1>1, <1>3, <2>1
      <3>3. QED
        BY <3>1, <3>2 DEF Numbered
    <2>2. CASE i = n + 1
      <3>1. log'[c][i] = e /\ i - 1 = n
        BY <1>1, <1>3, <2>2
      <3>2. n > 0 => log'[c][n] = log[c][n]
        BY <1>1, <1>3
      <3>3. (i > 1) <=> (n > 0)
        BY <1>1, <2>2
      <3>4. QED
        BY <1>2, <1>4, <3>1, <3>2, <3>3 DEF Numbered, LastMissed
    <2>3. QED
      BY <1>1, <1>5, <2>1, <2>2
  <1>6. \A i \in DOMAIN log'[c] : log'[c][i].ts <= data_origin_ts'[c]
    <2>1. \A i \in 1 .. n : log[c][i].ts <= data_origin_ts[c]
      BY <1>1 DEF LogState
    <2>2. \A i \in 1 .. n + 1 : i \in 1 .. n \/ i = n + 1
      BY <1>1
    <2>3. \A i \in 1 .. n : log'[c][i].ts <= data_origin_ts'[c]
      BY <1>3, <2>1
    <2>4. log'[c][n + 1].ts <= data_origin_ts'[c]
      BY <1>1, <1>2, <1>3
    <2>5. QED
      BY <1>3, <2>2, <2>3, <2>4
  <1>7. ack_retries_left'[c] = AckRetries - LastMissed(c)'
    <2>1. LastMissed(c)' = IF effort[c] = 2 /\ status = -1 THEN e.attempt ELSE 0
      BY <1>1, <1>2, <1>3 DEF LastMissed
    <2>2. 1 # -1
      OBVIOUS
    <2>3. CASE status = 1 /\ ack_retries_left'[c] = AckRetries
      BY <1>1, <2>1, <2>2, <2>3
    <2>4. CASE /\ status = -1 /\ effort[c] = 2
               /\ ack_retries_left'[c] = ack_retries_left[c] - 1
      BY <1>1, <1>2, <2>1, <2>4
    <2>5. CASE /\ status = -1 /\ effort[c] # 2
               /\ ack_retries_left'[c] = ack_retries_left[c]
      <3>1. ack_retries_left[c] = AckRetries - LastMissed(c) /\ LastMissed(c) = 0
        BY <2>5 DEF LogState, LastMissed
      <3>2. QED
        BY <1>1, <2>1, <2>5, <3>1
    <2>6. QED
      BY <2>3, <2>4, <2>5
  <1>8. QED
    BY <1>3, <1>5, <1>6, <1>7 DEF LogState

\* Every step keeps the log numbered.
LEMMA LogStep ==
    ASSUME TypeOK, LogInv, AttemptNumbering, [Next]_vars
    PROVE  LogInv' /\ AttemptNumbering'
  <1>1. ASSUME NEW c \in Clients, Start(c) \/ Prompt(c) \/ Work(c),
               NEW x \in Clients
        PROVE  LogState(x)' /\ \A i \in 1 .. Len(log'[x]) : Numbered(x, i)'
    <2>1. LogState(x) /\ \A i \in 1 .. Len(log[x]) : Numbered(x, i)
      BY DEF LogInv, AttemptNumbering, Numbered
    <2>2. CASE x # c
      <3>1. /\ log'[x] = log[x] /\ pc'[x] = pc[x] /\ effort'[x] = effort[x]
            /\ data_origin_ts'[x] = data_origin_ts[x]
            /\ ack_retries_left'[x] = ack_retries_left[x]
        BY <1>1, <2>2, OthersUnchanged, OtherLogs
      <3>2. QED
        BY <2>1, <3>1 DEF LogState, LastMissed, Numbered
    <2>3. CASE x = c /\ log'[c] = log[c]
      <3>1. ASSUME NEW e PROVE log[c] # Append(log[c], e)
        BY LogTyped
      <3>2. /\ pc'[c] # "start"
            /\ \/ /\ data_origin_ts'[c] = data_origin_ts[c]
                  /\ \/ pc[c] = "start" /\ pc'[c] \notin Active
                     \/ /\ pc'[c] \in Active => pc[c] \in Active
                        /\ effort'[c] = effort[c]
                        /\ ack_retries_left'[c] = ack_retries_left[c]
               \/ /\ data_origin_ts'[c] = data_origin_ts[c] + 1
                  /\ effort'[c] = effort[c]
                  /\ ack_retries_left'[c] = AckRetries
        BY <1>1, <2>3, <3>1, LogEffect
      <3>3. CASE pc[c] = "start" /\ pc'[c] \notin Active
        <4>1. log'[c] = <<>>
          BY <2>1, <2>3, <3>3 DEF LogState
        <4>2. Len(log'[c]) = 0 /\ DOMAIN log'[c] = {}
          BY <4>1
        <4>3. QED
          BY <2>3, <3>2, <3>3, <4>2 DEF LogState
      <3>4. CASE /\ data_origin_ts'[c] = data_origin_ts[c]
                 /\ pc'[c] \in Active => pc[c] \in Active
                 /\ effort'[c] = effort[c]
                 /\ ack_retries_left'[c] = ack_retries_left[c]
        BY <2>1, <2>3, <3>2, <3>4 DEF LogState, LastMissed, Numbered
      <3>5. CASE /\ data_origin_ts'[c] = data_origin_ts[c] + 1
                 /\ effort'[c] = effort[c]
                 /\ ack_retries_left'[c] = AckRetries
        <4>1. \A i \in 1 .. Len(log[c]) : Numbered(c, i)'
          BY <2>1, <2>3, <3>5 DEF Numbered
        <4>2. \A i \in 1 .. Len(log[c]) : log[c][i].ts < data_origin_ts'[c]
          <5>1. \A i \in 1 .. Len(log[c]) : log[c][i].ts <= data_origin_ts[c]
            BY <2>1, <2>3, LogTyped DEF LogState
          <5>2. QED
            BY <3>5, <5>1, LogTyped
        <4>3. LastMissed(c)' = 0
          <5>1. Len(log[c]) > 0 => log[c][Len(log[c])].ts # data_origin_ts'[c]
            <6> SUFFICES ASSUME Len(log[c]) > 0
                         PROVE  log[c][Len(log[c])].ts # data_origin_ts'[c]
              OBVIOUS
            <6>1. Len(log[c]) \in 1 .. Len(log[c])
              BY LogTyped
            <6>2. /\ log[c][Len(log[c])].ts < data_origin_ts'[c]
                  /\ log[c][Len(log[c])].ts \in Nat
              BY <4>2, <6>1, LogTyped
            <6>3. data_origin_ts'[c] \in Nat
              BY <3>5, LogTyped
            <6>4. QED
              BY <6>2, <6>3
          <5>2. QED
            BY <2>3, <5>1 DEF LastMissed
        <4>4. \A i \in 1 .. Len(log[c]) : log[c][i].ts <= data_origin_ts'[c]
          BY <3>5, <4>2, LogTyped
        <4>5. QED
          BY <2>3, <3>2, <3>5, <4>1, <4>3, <4>4, LogTyped DEF LogState
      <3>6. QED
        BY <3>2, <3>3, <3>4, <3>5
    <2>4. CASE x = c /\ log'[c] # log[c]
      <3>1. PICK status \in {1, -1} :
              /\ pc[c] \in Active /\ log'[c] = Append(log[c], LogEntry(c, status))
              /\ effort'[c] = effort[c] /\ data_origin_ts'[c] = data_origin_ts[c]
              /\ \/ status = 1 /\ ack_retries_left'[c] = AckRetries
                 \/ /\ status = -1 /\ effort[c] = 2
                    /\ ack_retries_left'[c] = ack_retries_left[c] - 1
                 \/ /\ status = -1 /\ effort[c] # 2
                    /\ ack_retries_left'[c] = ack_retries_left[c]
              /\ pc'[c] # "start"
        BY <1>1, <2>4, LogEffect
      <3>2. QED
        BY <2>1, <2>4, <3>1, LogAppend
    <2>5. QED
      BY <2>2, <2>3, <2>4
  <1>2. CASE UNCHANGED vars
    BY <1>2 DEF vars, argVars, msgVars, tryVars, LogInv, LogState, LastMissed,
                AttemptNumbering
  <1>3. CASE Next
    <2>1. \A x \in Clients : LogState(x)' /\ \A i \in 1 .. Len(log'[x]) : Numbered(x, i)'
      BY <1>1, <1>3 DEF Next
    <2>2. QED
      BY <2>1 DEF LogInv, AttemptNumbering, Numbered
  <1>4. QED
    BY <1>2, <1>3

\* The lines of the log that say a frame of the current message was delivered.
Delivered(c) ==
    {i \in DOMAIN log[c] : log[c][i].ts = data_origin_ts[c] /\ log[c][i].status = 1}

\* A line that is appended adds to them exactly when it says so.
LEMMA DeliveredAppend ==
    ASSUME TypeOK, NEW c \in Clients, NEW status \in {1, -1},
           log'[c] = Append(log[c], LogEntry(c, status)),
           data_origin_ts'[c] = data_origin_ts[c]
    PROVE  /\ IsFiniteSet(Delivered(c))
           /\ Cardinality(Delivered(c)') =
                 Cardinality(Delivered(c)) + (IF status = 1 THEN 1 ELSE 0)
           /\ Cardinality(Delivered(c)) \in Nat
  <1> DEFINE n == Len(log[c])
  <1>1. log[c] \in Seq(LogLines) /\ n \in Nat /\ DOMAIN log[c] = 1 .. n
    BY LogTyped
  <1>2. /\ DOMAIN log'[c] = 1 .. n + 1 /\ log'[c][n + 1] = LogEntry(c, status)
        /\ \A i \in 1 .. n : log'[c][i] = log[c][i]
    BY <1>1
  <1>3. LogEntry(c, status).ts = data_origin_ts[c] /\ LogEntry(c, status).status = status
    BY DEF LogEntry
  <1>4. IsFiniteSet(Delivered(c)) /\ Cardinality(Delivered(c)) \in Nat
    <2>1. IsFiniteSet(1 .. n)
      BY <1>1, FS_Interval
    <2>2. Delivered(c) \subseteq 1 .. n
      BY <1>1 DEF Delivered
    <2>3. QED
      BY <2>1, <2>2, FS_Subset, FS_CardinalityType
  <1>5. n + 1 \notin Delivered(c)
    BY <1>1 DEF Delivered
  <1>6. \A i : i \in 1 .. n + 1 <=> i \in 1 .. n \/ i = n + 1
    BY <1>1
  <1>7. CASE status = 1
    <2>1. Delivered(c)' = Delivered(c) \cup {n + 1}
      BY <1>1, <1>2, <1>3, <1>6, <1>7 DEF Delivered
    <2>2. QED
      BY <1>4, <1>5, <1>7, <2>1, FS_AddElement
  <1>8. CASE status # 1
    <2>1. Delivered(c)' = Delivered(c)
      BY <1>1, <1>2, <1>3, <1>6, <1>8 DEF Delivered
    <2>2. QED
      BY <1>4, <1>8, <2>1
  <1>9. QED
    BY <1>7, <1>8

\* Every step keeps the count of delivered frames.
LEMMA PrefixStep ==
    ASSUME TypeOK, LogInv, AckedPrefix, [Next]_vars
    PROVE  AckedPrefix'
  <1> DEFINE Counted(c) == pc[c] \in Active /\ effort[c] = 2 =>
                              seq_num[c] = Cardinality(Delivered(c))
  <1>1. ASSUME NEW c \in Clients, Start(c) \/ Prompt(c) \/ Work(c),
               NEW x \in Clients
        PROVE  Counted(x)'
    <2>1. Counted(x)
      BY DEF AckedPrefix, Delivered, Active
    <2>2. CASE x # c
      <3>1. /\ log'[x] = log[x] /\ pc'[x] = pc[x] /\ effort'[x] = effort[x]
            /\ data_origin_ts'[x] = data_origin_ts[x] /\ seq_num'[x] = seq_num[x]
        BY <1>1, <2>2, OthersUnchanged, OtherLogs
      <3>2. Delivered(x)' = Delivered(x)
        BY <3>1 DEF Delivered
      <3>3. QED
        BY <2>1, <3>1, <3>2
    <2>3. CASE x = c /\ log'[c] = log[c]
      <3>1. ASSUME NEW e PROVE log[c] # Append(log[c], e)
        BY LogTyped
      <3>2. \/ /\ data_origin_ts'[c] = data_origin_ts[c]
               /\ \/ pc[c] = "start" /\ pc'[c] \notin Active
                  \/ /\ pc'[c] \in Active => pc[c] \in Active
                     /\ effort'[c] = effort[c] /\ seq_num'[c] = seq_num[c]
            \/ /\ data_origin_ts'[c] = data_origin_ts[c] + 1
               /\ seq_num'[c] = 0
        BY <1>1, <2>3, <3>1, LogEffect
      <3>3. CASE data_origin_ts'[c] = data_origin_ts[c]
        <4>1. Delivered(c)' = Delivered(c)
          BY <2>3, <3>3 DEF Delivered
        <4>2. data_origin_ts[c] # data_origin_ts[c] + 1
          BY LogTyped
        <4>3. QED
          BY <2>1, <2>3, <3>2, <3>3, <4>1, <4>2
      <3>4. CASE data_origin_ts'[c] = data_origin_ts[c] + 1 /\ seq_num'[c] = 0
        <4>1. ASSUME NEW i \in DOMAIN log[c] PROVE log[c][i].ts # data_origin_ts'[c]
          <5>1. log[c][i].ts <= data_origin_ts[c] /\ log[c][i].ts \in Nat
            BY LogTyped DEF LogInv, LogState
          <5>2. QED
            BY <3>4, <5>1, LogTyped
        <4>2. Delivered(c)' = {}
          BY <2>3, <4>1 DEF Delivered
        <4>3. QED
          BY <2>3, <3>4, <4>2, FS_EmptySet
      <3>5. QED
        BY <3>2, <3>3, <3>4
    <2>4. CASE x = c /\ log'[c] # log[c]
      <3>1. PICK status \in {1, -1} :
              /\ pc[c] \in Active /\ log'[c] = Append(log[c], LogEntry(c, status))
              /\ effort'[c] = effort[c] /\ data_origin_ts'[c] = data_origin_ts[c]
              /\ \/ status = 1 /\ seq_num'[c] = seq_num[c] + 1
                 \/ status = -1 /\ effort[c] = 2 /\ seq_num'[c] = seq_num[c]
                 \/ effort[c] # 2
        BY <1>1, <2>4, LogEffect
      <3>2. /\ Cardinality(Delivered(c)') =
                 Cardinality(Delivered(c)) + (IF status = 1 THEN 1 ELSE 0)
            /\ Cardinality(Delivered(c)) \in Nat
        BY <3>1, DeliveredAppend
      <3>3. 1 # -1
        OBVIOUS
      <3>4. QED
        BY <2>1, <2>4, <3>1, <3>2, <3>3
    <2>5. QED
      BY <2>2, <2>3, <2>4
  <1>2. CASE UNCHANGED vars
    BY <1>2 DEF vars, argVars, msgVars, seqVars, AckedPrefix
  <1>3. CASE Next
    <2>1. \A x \in Clients : Counted(x)'
      BY <1>1, <1>3 DEF Next
    <2>2. QED
      BY <2>1 DEF AckedPrefix, Delivered, Active
  <1>4. QED
    BY <1>2, <1>3

\* At the start nothing is logged.
LEMMA InitLog == Init => LogInv /\ AttemptNumbering /\ AckedPrefix
  <1> SUFFICES ASSUME Init PROVE LogInv /\ AttemptNumbering /\ AckedPrefix
    OBVIOUS
  <1>1. ASSUME NEW c \in Clients
        PROVE  /\ pc[c] = "start" /\ log[c] = <<>>
               /\ Len(log[c]) = 0 /\ DOMAIN log[c] = {}
    BY DEF Init
  <1>2. QED
    BY <1>1 DEF LogInv, LogState, Active, InFlight, AttemptNumbering, AckedPrefix

\* The attempts of a frame are numbered 1, 2, ... in the log, for all retry
\* limits and lengths of message (5 - ack_retries_left at main.c:275, 301, 323).
THEOREM LogNumbered == Spec => []AttemptNumbering
  <1>1. IInv /\ LogInv /\ AttemptNumbering /\ [Next]_vars
           => (LogInv /\ AttemptNumbering)'
    BY LogStep DEF IInv
  <1>2. QED
    BY <1>1, InitLog, Invariance, PTL DEF Spec

\* With guaranteed delivery no frame is passed over: seq_num counts the frames
\* of the message that are logged as delivered (main.c:321-329).
THEOREM NoFramePassedOver == Spec => []AckedPrefix
  <1>1. IInv /\ LogInv /\ AttemptNumbering /\ AckedPrefix /\ [Next]_vars
           => (LogInv /\ AttemptNumbering /\ AckedPrefix)'
    BY LogStep, PrefixStep DEF IInv
  <1>2. QED
    BY <1>1, InitLog, Invariance, PTL DEF Spec
=============================================================================
