-------------------------- MODULE NetlinkScanProofs -------------------------
(***************************************************************************)
(* Proofs about one scan of the client, for any number of radios and calls *)
(* and any length of the receive queue: a refused request is reported, and *)
(* without another program's events the call is exact.                     *)
(***************************************************************************)
EXTENDS NetlinkScan, TLAPS, SequenceTheorems

Messages ==
    [type : {"trig", "ack", "error", "results", "aborted"}, of : {"own", "foreign"}]

Started == own \in {"running", "results", "aborted"}

\* The variables have their types and the queue keeps to its size.
Types ==
    /\ scan_pc \in {"idle", "mcid", "send", "ack", "done", "dump"}
    /\ member \in BOOLEAN /\ overrun \in BOOLEAN
    /\ rcvbuf \in Seq(Messages) /\ Len(rcvbuf) <= QueueMax
    /\ err \in {-1, 0, 1} /\ done \in {0, 1} /\ aborted \in {0, 1}
    /\ scanning \in [Radios -> {"none", "own", "foreign"}]
    /\ own \in {"none", "running", "refused", "results", "aborted"}
    /\ foreign \in BOOLEAN /\ faulty \in BOOLEAN

\* Before the request is sent nothing is known of it, and the socket hears no
\* events before it has joined the group.
Fresh ==
    /\ scan_pc \in {"mcid", "send"} =>
          /\ own = "none" /\ err = 1 /\ done = 0
          /\ \A k \in DOMAIN rcvbuf : rcvbuf[k].type \notin {"ack", "error"}
    /\ scan_pc = "mcid" => ~member /\ rcvbuf = <<>> /\ ~overrun
    /\ overrun => faulty

\* An answer in the queue, or the err made of it, is the kernel's answer to
\* this request.
Answers ==
    /\ \A k \in DOMAIN rcvbuf :
          /\ rcvbuf[k].type = "ack" => Started
          /\ rcvbuf[k].type = "error" => own = "refused"
    /\ err = 0 => Started
    /\ scan_pc \in {"done", "dump"} => Started /\ err = 0
    /\ scan_pc = "dump" => done = 1 /\ aborted = 0

\* The radio scans for this call only while the call's scan is running.
OwnScan ==
    \A r \in Radios : scanning[r] = "own" => r = MyRadio /\ own = "running"

\* Without another program's events, the end of a scan in the queue is the end
\* of this call's, comes last, and has not been read; once it has, the queue is
\* empty.
Alone ==
    ~foreign =>
        /\ \A k \in DOMAIN rcvbuf : rcvbuf[k].type \in {"results", "aborted"} =>
              k = Len(rcvbuf) /\ own = rcvbuf[k].type /\ done = 0
        /\ done = 1 => /\ own = (IF aborted = 1 THEN "aborted" ELSE "results")
                       /\ rcvbuf = <<>>

\* What a step keeps.
IInv == Types /\ Fresh /\ Answers /\ OwnScan /\ Alone

-----------------------------------------------------------------------------
(* Facts the proofs keep needing. *)

\* What the kernel puts into the queue comes after what was there, in order, as
\* far as there is room, and what is lost is noted.
LEMMA Delivered ==
    ASSUME Types, NEW msgs \in Seq(Messages), Deliver(msgs)
    PROVE  /\ rcvbuf' \in Seq(Messages)
           /\ Len(rcvbuf) <= Len(rcvbuf') /\ Len(rcvbuf') <= QueueMax
           /\ Len(rcvbuf') <= Len(rcvbuf) + Len(msgs)
           /\ \A k \in DOMAIN rcvbuf' :
                 \/ k \in DOMAIN rcvbuf /\ rcvbuf'[k] = rcvbuf[k]
                 \/ k > Len(rcvbuf) /\ \E j \in DOMAIN msgs : rcvbuf'[k] = msgs[j]
           /\ overrun' \in BOOLEAN /\ faulty' \in BOOLEAN
           /\ \/ (overrun' <=> overrun) /\ (faulty' <=> faulty)
              \/ overrun' /\ faulty'
  <1> DEFINE room == QueueMax - Len(rcvbuf)
             n == IF Len(msgs) <= room THEN Len(msgs) ELSE room
             ext == IF Len(msgs) <= room THEN msgs ELSE SubSeq(msgs, 1, room)
  <1>1. room \in Nat /\ n \in Nat /\ n <= room /\ n <= Len(msgs)
    <2>1. Len(rcvbuf) \in Nat /\ Len(msgs) \in Nat /\ Len(rcvbuf) <= QueueMax
      BY DEF Types
    <2>2. QED
      BY <2>1, QueueAssumption
  <1>2. ext \in Seq(Messages) /\ Len(ext) = n /\ \A j \in 1 .. n : ext[j] = msgs[j]
    BY <1>1
  <1>3. rcvbuf' = rcvbuf \o ext
    BY DEF Deliver
  <1> HIDE DEF ext, n, room
  <1>4. rcvbuf' \in Seq(Messages) /\ Len(rcvbuf') = Len(rcvbuf) + n
    <2>1. rcvbuf \in Seq(Messages)
      BY DEF Types
    <2>2. QED
      BY <1>2, <1>3, <2>1, ConcatProperties
  <1>5. ASSUME NEW k \in DOMAIN rcvbuf'
        PROVE  \/ k \in DOMAIN rcvbuf /\ rcvbuf'[k] = rcvbuf[k]
               \/ k > Len(rcvbuf) /\ \E j \in DOMAIN msgs : rcvbuf'[k] = msgs[j]
    <2>1. k \in 1 .. Len(rcvbuf) + n /\ Len(rcvbuf) \in Nat
      BY <1>1, <1>4, <1>5 DEF Types
    <2>2. CASE k <= Len(rcvbuf)
      BY <1>2, <1>3, <2>1, <2>2 DEF Types
    <2>3. CASE k > Len(rcvbuf)
      <3>1. k - Len(rcvbuf) \in 1 .. n
        BY <1>1, <2>1, <2>3
      <3>2. rcvbuf'[k] = ext[k - Len(rcvbuf)]
        BY <1>1, <1>2, <1>3, <2>1, <2>3 DEF Types
      <3>3. k - Len(rcvbuf) \in DOMAIN msgs
        BY <1>1, <3>1
      <3>4. QED
        BY <1>2, <2>3, <3>1, <3>2, <3>3
    <2>4. QED
      BY <2>1, <2>2, <2>3
  <1>6. /\ overrun' \in BOOLEAN /\ faulty' \in BOOLEAN
        /\ ((overrun' <=> overrun) /\ (faulty' <=> faulty)) \/ (overrun' /\ faulty')
    BY DEF Deliver, Types
  <1>7. Len(rcvbuf) <= Len(rcvbuf') /\ Len(rcvbuf') <= QueueMax
        /\ Len(rcvbuf') <= Len(rcvbuf) + Len(msgs)
    <2>1. Len(rcvbuf) \in Nat /\ Len(msgs) \in Nat /\ Len(rcvbuf) <= QueueMax
      BY DEF Types
    <2>2. QED
      BY <1>1, <1>4, <2>1, QueueAssumption DEF room
  <1>8. QED
    BY <1>4, <1>5, <1>6, <1>7

\* A message of the group "scan" is put at the end of the queue or not at all.
LEMMA Multicasts ==
    ASSUME Types, NEW type \in {"trig", "results", "aborted"},
           NEW whose \in {"own", "foreign"}, Multicast(type, whose)
    PROVE  /\ rcvbuf' \in Seq(Messages) /\ Len(rcvbuf') <= QueueMax
           /\ Len(rcvbuf) <= Len(rcvbuf') /\ Len(rcvbuf') <= Len(rcvbuf) + 1
           /\ \A k \in DOMAIN rcvbuf' :
                 \/ k \in DOMAIN rcvbuf /\ rcvbuf'[k] = rcvbuf[k]
                 \/ k > Len(rcvbuf) /\ rcvbuf'[k] = [type |-> type, of |-> whose]
           /\ overrun' \in BOOLEAN /\ faulty' \in BOOLEAN /\ foreign' \in BOOLEAN
           /\ \/ (overrun' <=> overrun) /\ (faulty' <=> faulty)
              \/ overrun' /\ faulty'
           /\ ~member => UNCHANGED <<rcvbuf, overrun>>
           /\ ~foreign' => ~foreign
           /\ ~foreign' /\ whose = "foreign" => UNCHANGED rcvbuf
  <1> DEFINE msgs == <<[type |-> type, of |-> whose]>>
  <1>1. CASE ~member
    BY <1>1 DEF Multicast, Types
  <1>2. CASE member
    <2>1. msgs \in Seq(Messages) /\ Len(msgs) = 1 /\ Deliver(msgs)
      BY <1>2 DEF Messages, Multicast
    <2>2. \A j \in DOMAIN msgs : msgs[j] = [type |-> type, of |-> whose]
      OBVIOUS
    <2>3. /\ foreign' \in BOOLEAN
          /\ ~foreign' => ~foreign /\ whose # "foreign"
      BY <1>2 DEF Multicast, Types
    <2> HIDE DEF msgs
    <2>4. /\ rcvbuf' \in Seq(Messages) /\ Len(rcvbuf') <= QueueMax
          /\ Len(rcvbuf) <= Len(rcvbuf') /\ Len(rcvbuf') <= Len(rcvbuf) + Len(msgs)
          /\ overrun' \in BOOLEAN /\ faulty' \in BOOLEAN
          /\ ((overrun' <=> overrun) /\ (faulty' <=> faulty)) \/ (overrun' /\ faulty')
      BY <2>1, Delivered
    <2>5. \A k \in DOMAIN rcvbuf' :
             \/ k \in DOMAIN rcvbuf /\ rcvbuf'[k] = rcvbuf[k]
             \/ k > Len(rcvbuf) /\ \E j \in DOMAIN msgs : rcvbuf'[k] = msgs[j]
      BY <2>1, Delivered
    <2>6. \A k \in DOMAIN rcvbuf' :
             \/ k \in DOMAIN rcvbuf /\ rcvbuf'[k] = rcvbuf[k]
             \/ k > Len(rcvbuf) /\ rcvbuf'[k] = [type |-> type, of |-> whose]
      BY <2>2, <2>5
    <2>7. Len(rcvbuf') <= Len(rcvbuf) + 1
      BY <2>1, <2>4
    <2>8. QED
      BY <1>2, <2>3, <2>4, <2>6, <2>7
  <1>3. QED
    BY <1>1, <1>2 DEF Types

\* Reading takes the first message and leaves the others in order.
LEMMA Reads ==
    ASSUME Types, Receive
    PROVE  /\ Head(rcvbuf) \in Messages /\ Head(rcvbuf) = rcvbuf[1]
           /\ 1 \in DOMAIN rcvbuf /\ Len(rcvbuf) >= 1
           /\ rcvbuf' \in Seq(Messages) /\ Len(rcvbuf') = Len(rcvbuf) - 1
           /\ \A k \in DOMAIN rcvbuf' :
                 k + 1 \in DOMAIN rcvbuf /\ rcvbuf'[k] = rcvbuf[k + 1]
           /\ err' \in {-1, 0, 1} /\ done' \in {0, 1} /\ aborted' \in {0, 1}
           /\ err' = 0 => err = 0 \/ rcvbuf[1].type = "ack"
           /\ \/ rcvbuf[1].type = "aborted" /\ done' = 1 /\ aborted' = 1
              \/ rcvbuf[1].type = "results" /\ done' = 1 /\ aborted' = 0
              \/ UNCHANGED <<done, aborted>>
  <1>1. rcvbuf # <<>> /\ rcvbuf \in Seq(Messages) /\ rcvbuf' = Tail(rcvbuf)
    BY DEF Receive, Types
  <1>2. Head(rcvbuf) \in Messages /\ Head(rcvbuf) = rcvbuf[1] /\ 1 \in DOMAIN rcvbuf
    BY <1>1
  <1>3. /\ err' \in {-1, 0, 1}
        /\ err' = 0 => err = 0 \/ rcvbuf[1].type = "ack"
    BY <1>2 DEF Receive, HandleAnswer, Types
  <1>4. \/ rcvbuf[1].type = "aborted" /\ done' = 1 /\ aborted' = 1
        \/ rcvbuf[1].type = "results" /\ done' = 1 /\ aborted' = 0
        \/ UNCHANGED <<done, aborted>>
    BY <1>2 DEF Receive, callback_trigger
  <1>5. done' \in {0, 1} /\ aborted' \in {0, 1}
    BY <1>4 DEF Types
  <1>6. QED
    BY <1>1, <1>2, <1>3, <1>4, <1>5

\* What Next offers, one action at a time.
LEMMA Actions ==
    ASSUME Next
    PROVE  \/ Call \/ \E found \in BOOLEAN : JoinGroup(found)
           \/ NoMemory \/ SendAccepted \/ SendRefused \/ SendFails
           \/ WaitAck \/ AckRead \/ WaitDone \/ Finish \/ ReadOverrun \/ Dump
           \/ \E r \in Radios :
                 ForeignStart(r) \/ ScanEnds(r, "results") \/ ScanEnds(r, "aborted")
  BY DEF Next, Process, KernelEnds

-----------------------------------------------------------------------------
(* Every step keeps the invariant. *)

\* A step of the kernel on another program's behalf, or the end of a scan.
LEMMA KernelStep ==
    ASSUME IInv, NEW r \in Radios,
           ForeignStart(r) \/ ScanEnds(r, "results") \/ ScanEnds(r, "aborted")
    PROVE  IInv'
  <1> DEFINE Event(type, whose) ==
          /\ Multicast(type, whose) /\ type \in {"trig", "results", "aborted"}
          /\ whose \in {"own", "foreign"}
  <1>1. PICK type, whose : Event(type, whose) /\
             \/ /\ type = "trig" /\ whose = "foreign" /\ UNCHANGED own
                /\ scanning' = [scanning EXCEPT ![r] = "foreign"]
             \/ /\ type \in {"results", "aborted"} /\ whose = scanning[r]
                /\ own' = (IF whose = "own" THEN type ELSE own)
                /\ scanning' = [scanning EXCEPT ![r] = "none"]
    BY DEF ForeignStart, ScanEnds, IInv, Types
  <1>2. UNCHANGED <<scan_pc, member, err, done, aborted>>
    BY DEF ForeignStart, ScanEnds, resultVars
  <1>3. /\ rcvbuf' \in Seq(Messages) /\ Len(rcvbuf') <= QueueMax
        /\ Len(rcvbuf) <= Len(rcvbuf') /\ Len(rcvbuf') <= Len(rcvbuf) + 1
        /\ \A k \in DOMAIN rcvbuf' :
              \/ k \in DOMAIN rcvbuf /\ rcvbuf'[k] = rcvbuf[k]
              \/ k > Len(rcvbuf) /\ rcvbuf'[k] = [type |-> type, of |-> whose]
        /\ overrun' \in BOOLEAN /\ faulty' \in BOOLEAN /\ foreign' \in BOOLEAN
        /\ \/ (overrun' <=> overrun) /\ (faulty' <=> faulty)
           \/ overrun' /\ faulty'
        /\ ~member => UNCHANGED <<rcvbuf, overrun>>
        /\ ~foreign' => ~foreign
        /\ ~foreign' /\ whose = "foreign" => UNCHANGED rcvbuf
    BY <1>1, Multicasts DEF IInv
  <1>4. whose = "own" => /\ type \in {"results", "aborted"} /\ own = "running"
                         /\ own' = type
    BY <1>1 DEF IInv, OwnScan
  <1>5. whose # "own" => own' = own
    BY <1>1
  <1>6. \A k \in DOMAIN rcvbuf' :
           \/ k \in DOMAIN rcvbuf /\ rcvbuf'[k] = rcvbuf[k]
           \/ k > Len(rcvbuf) /\ rcvbuf'[k].type = type
    BY <1>3
  <1>7. Types'
    BY <1>1, <1>2, <1>3 DEF IInv, Types
  <1>8. Fresh'
    <2>1. ASSUME scan_pc \in {"mcid", "send"}
          PROVE  /\ own' = "none"
                 /\ \A k \in DOMAIN rcvbuf' : rcvbuf'[k].type \notin {"ack", "error"}
      BY <1>1, <1>4, <1>5, <1>6, <2>1 DEF IInv, Fresh
    <2>2. overrun' => faulty'
      <3>1. \/ (overrun' <=> overrun) /\ (faulty' <=> faulty)
            \/ overrun' /\ faulty'
        BY <1>3
      <3>2. overrun => faulty
        BY DEF IInv, Fresh
      <3>3. QED
        BY <3>1, <3>2
    <2>3. QED
      BY <1>2, <1>3, <2>1, <2>2 DEF IInv, Fresh
  <1>9. Answers'
    <2>1. Started => Started'
      BY <1>1 DEF Started, IInv, OwnScan
    <2>2. own = "refused" => own' = "refused"
      BY <1>4, <1>5
    <2>3. \A k \in DOMAIN rcvbuf' :
             /\ rcvbuf'[k].type = "ack" => Started
             /\ rcvbuf'[k].type = "error" => own = "refused"
      BY <1>1, <1>6 DEF IInv, Answers
    <2>4. QED
      BY <1>2, <2>1, <2>2, <2>3 DEF IInv, Answers
  <1>10. OwnScan'
    BY <1>1, <1>4, <1>5 DEF IInv, OwnScan, Types
  <1>11. Alone'
    <2> SUFFICES ASSUME ~foreign' PROVE Alone'
      BY DEF Alone
    <2>1. ~foreign
      BY <1>3
    <2>2. CASE whose = "foreign"
      BY <1>1, <1>2, <1>3, <2>1, <2>2 DEF IInv, Alone
    <2>3. CASE whose = "own"
      <3>1. own = "running" /\ own' = type /\ type \in {"results", "aborted"}
        BY <1>4, <2>3
      <3>2. done = 0 /\ \A k \in DOMAIN rcvbuf :
                           rcvbuf[k].type \notin {"results", "aborted"}
        BY <2>1, <3>1 DEF IInv, Alone, Types
      <3>3. ASSUME NEW k \in DOMAIN rcvbuf', rcvbuf'[k].type \in {"results", "aborted"}
            PROVE  k = Len(rcvbuf') /\ rcvbuf'[k].type = type
        <4>1. k > Len(rcvbuf) /\ rcvbuf'[k].type = type
          BY <1>6, <3>2, <3>3
        <4>2. k \in 1 .. Len(rcvbuf') /\ Len(rcvbuf) \in Nat /\ Len(rcvbuf') \in Nat
          BY <1>3 DEF IInv, Types
        <4>3. QED
          BY <1>3, <4>1, <4>2
      <3>4. QED
        BY <1>2, <3>1, <3>2, <3>3 DEF Alone
    <2>4. QED
      BY <1>1, <2>2, <2>3
  <1>12. QED
    BY <1>7, <1>8, <1>9, <1>10, <1>11 DEF IInv

\* The request: the kernel's answer is the only one in the queue.
LEMMA SendStep ==
    ASSUME IInv, SendAccepted \/ SendRefused \/ SendFails
    PROVE  IInv'
  <1> DEFINE trig == [type |-> "trig", of |-> "own"]
             ack == [type |-> "ack", of |-> "own"]
             error == [type |-> "error", of |-> "own"]
  <1>1. /\ scan_pc = "send" /\ scan_pc' = "ack"
        /\ UNCHANGED <<member, err, done, aborted, foreign>>
    BY DEF SendAccepted, SendRefused, SendFails, sockVars, resultVars
  <1>2. /\ own = "none" /\ err = 1 /\ done = 0
        /\ \A k \in DOMAIN rcvbuf : rcvbuf[k].type \notin {"ack", "error"}
        /\ \A r \in Radios : scanning[r] # "own"
        /\ ~foreign => \A k \in DOMAIN rcvbuf :
                          rcvbuf[k].type \notin {"results", "aborted"}
    BY <1>1 DEF IInv, Fresh, OwnScan, Alone
  <1>3. ASSUME NEW msgs \in Seq(Messages), Deliver(msgs),
               NEW answer \in {"ack", "error"},
               \A j \in DOMAIN msgs : msgs[j].type \in {"trig", answer},
               own' = (IF answer = "ack" THEN "running" ELSE "refused"),
               scanning' \in [Radios -> {"none", "own", "foreign"}], OwnScan'
        PROVE  IInv'
    <2>1. /\ rcvbuf' \in Seq(Messages) /\ Len(rcvbuf') <= QueueMax
          /\ overrun' \in BOOLEAN /\ faulty' \in BOOLEAN
          /\ \/ (overrun' <=> overrun) /\ (faulty' <=> faulty)
             \/ overrun' /\ faulty'
      BY <1>3, Delivered DEF IInv
    <2>2. \A k \in DOMAIN rcvbuf' :
             \/ k \in DOMAIN rcvbuf /\ rcvbuf'[k] = rcvbuf[k]
             \/ rcvbuf'[k].type \in {"trig", answer}
      BY <1>3, Delivered DEF IInv
    <2>3. Types'
      BY <1>1, <1>3, <2>1 DEF IInv, Types
    <2>4. Fresh'
      <3>1. \/ (overrun' <=> overrun) /\ (faulty' <=> faulty)
            \/ overrun' /\ faulty'
        BY <2>1
      <3>2. overrun => faulty
        BY DEF IInv, Fresh
      <3>3. overrun' => faulty'
        BY <3>1, <3>2
      <3>4. QED
        BY <1>1, <3>3 DEF Fresh
    <2>5. Answers'
      <3>1. \A k \in DOMAIN rcvbuf' :
               /\ rcvbuf'[k].type = "ack" => Started'
               /\ rcvbuf'[k].type = "error" => own' = "refused"
        BY <1>2, <1>3, <2>2 DEF Started
      <3>2. QED
        BY <1>1, <1>2, <3>1 DEF Answers
    <2>6. Alone'
      <3>1. ~foreign => \A k \in DOMAIN rcvbuf' :
                           rcvbuf'[k].type \notin {"results", "aborted"}
        BY <1>2, <2>2
      <3>2. QED
        BY <1>1, <1>2, <3>1 DEF Alone
    <2>7. QED
      BY <1>3, <2>3, <2>4, <2>5, <2>6 DEF IInv
  <1>4. CASE SendAccepted
    <2> DEFINE msgs == (IF member THEN <<trig>> ELSE <<>>) \o <<ack>>
    <2>1. /\ Deliver(msgs) /\ own' = "running"
          /\ scanning' = [scanning EXCEPT ![MyRadio] = "own"]
      BY <1>4 DEF SendAccepted
    <2>2. msgs \in Seq(Messages) /\ \A j \in DOMAIN msgs : msgs[j].type \in {"trig", "ack"}
      <3>1. trig \in Messages /\ ack \in Messages
        BY DEF Messages
      <3>2. CASE member
        <4> DEFINE one == <<trig>>
                   two == <<ack>>
        <4>1. /\ one \in Seq(Messages) /\ Len(one) = 1 /\ one[1] = trig
              /\ two \in Seq(Messages) /\ Len(two) = 1 /\ two[1] = ack
              /\ msgs = one \o two
          BY <3>1, <3>2
        <4> HIDE DEF one, two, msgs
        <4>2. /\ msgs \in Seq(Messages) /\ Len(msgs) = 2
              /\ msgs[1] = trig /\ msgs[2] = ack
          BY <4>1, ConcatProperties
        <4>3. QED
          BY <4>2
      <3>3. CASE ~member
        <4>1. msgs = <<ack>>
          BY <3>3
        <4>2. QED
          BY <3>1, <4>1
      <3>4. QED
        BY <3>2, <3>3
    <2>3. scanning' \in [Radios -> {"none", "own", "foreign"}]
      BY <2>1 DEF IInv, Types
    <2>4. OwnScan'
      BY <1>2, <2>1 DEF OwnScan, IInv, Types
    <2> HIDE DEF msgs
    <2>5. QED
      BY <1>3, <2>1, <2>2, <2>3, <2>4
  <1>5. CASE SendRefused
    <2>1. Deliver(<<error>>) /\ own' = "refused" /\ UNCHANGED scanning
      BY <1>5 DEF SendRefused
    <2>2. /\ <<error>> \in Seq(Messages)
          /\ \A j \in DOMAIN <<error>> : <<error>>[j].type \in {"trig", "error"}
      BY DEF Messages
    <2>3. OwnScan' /\ scanning' \in [Radios -> {"none", "own", "foreign"}]
      BY <1>2, <2>1 DEF OwnScan, IInv, Types
    <2>4. QED
      BY <1>3, <2>1, <2>2, <2>3
  <1>6. CASE SendFails
    <2>1. UNCHANGED <<rcvbuf, overrun, scanning, own>> /\ faulty' = TRUE
      BY <1>6 DEF SendFails, sockVars
    <2>2. Types' /\ Fresh' /\ OwnScan'
      BY <1>1, <2>1 DEF IInv, Types, Fresh, OwnScan
    <2>3. Answers' /\ Alone'
      BY <1>1, <1>2, <2>1 DEF IInv, Answers, Alone, Started
    <2>4. QED
      BY <2>2, <2>3 DEF IInv
  <1>7. QED
    BY <1>4, <1>5, <1>6

\* Reading a message, in either loop.
LEMMA ReadStep ==
    ASSUME IInv, WaitAck \/ WaitDone
    PROVE  IInv'
  <1>1. /\ Receive /\ scan_pc \in {"ack", "done"}
        /\ UNCHANGED <<scan_pc, member, overrun, scanning, own, foreign, faulty>>
    BY DEF WaitAck, WaitDone, Receive, histVars
  <1>2. /\ 1 \in DOMAIN rcvbuf /\ Len(rcvbuf) >= 1
        /\ rcvbuf' \in Seq(Messages) /\ Len(rcvbuf') = Len(rcvbuf) - 1
        /\ \A k \in DOMAIN rcvbuf' :
              k + 1 \in DOMAIN rcvbuf /\ rcvbuf'[k] = rcvbuf[k + 1]
        /\ err' \in {-1, 0, 1} /\ done' \in {0, 1} /\ aborted' \in {0, 1}
        /\ err' = 0 => err = 0 \/ rcvbuf[1].type = "ack"
        /\ \/ rcvbuf[1].type = "aborted" /\ done' = 1 /\ aborted' = 1
           \/ rcvbuf[1].type = "results" /\ done' = 1 /\ aborted' = 0
           \/ UNCHANGED <<done, aborted>>
    BY <1>1, Reads DEF IInv
  <1>3. Types'
    <2>1. Len(rcvbuf') <= QueueMax
      BY <1>2, QueueAssumption DEF IInv, Types
    <2>2. QED
      BY <1>1, <1>2, <2>1 DEF IInv, Types
  <1>4. Fresh' /\ OwnScan'
    BY <1>1 DEF IInv, Fresh, OwnScan
  <1>5. Answers'
    <2>1. Started' = Started
      BY <1>1 DEF Started
    <2>2. scan_pc = "done" => err' = 0
      <3> SUFFICES ASSUME scan_pc = "done" PROVE err' = 0
        OBVIOUS
      <3>1. err = 0 /\ own # "refused"
        BY DEF IInv, Answers, Started
      <3>2. Head(rcvbuf) = rcvbuf[1] /\ rcvbuf[1].type # "error"
        BY <1>1, <1>2, <3>1, Reads DEF IInv, Answers
      <3>3. QED
        BY <1>1, <3>1, <3>2 DEF Receive, HandleAnswer
    <2>3. QED
      BY <1>1, <1>2, <2>1, <2>2 DEF IInv, Answers
  <1>6. Alone'
    <2> SUFFICES ASSUME ~foreign PROVE Alone'
      BY <1>1 DEF Alone
    <2>1. done = 0
      <3>1. rcvbuf # <<>>
        BY <1>1 DEF Receive
      <3>2. QED
        BY <3>1 DEF IInv, Alone, Types
    <2>2. CASE rcvbuf[1].type \in {"results", "aborted"} /\ done' = 1
      <3>1. Len(rcvbuf) = 1 /\ own = rcvbuf[1].type
        BY <1>2, <2>2 DEF IInv, Alone
      <3>2. rcvbuf' = <<>>
        BY <1>2, <3>1
      <3>3. own' = (IF aborted' = 1 THEN "aborted" ELSE "results")
        BY <1>1, <1>2, <2>1, <2>2, <3>1
      <3>4. QED
        BY <3>2, <3>3 DEF Alone
    <2>3. CASE UNCHANGED <<done, aborted>>
      <3>1. ASSUME NEW k \in DOMAIN rcvbuf', rcvbuf'[k].type \in {"results", "aborted"}
            PROVE  k = Len(rcvbuf') /\ own = rcvbuf'[k].type
        <4>1. k + 1 = Len(rcvbuf) /\ own = rcvbuf[k + 1].type
          BY <1>2, <3>1 DEF IInv, Alone
        <4>2. k \in Nat /\ Len(rcvbuf) \in Nat
          BY <1>2, <3>1 DEF IInv, Types
        <4>3. QED
          BY <1>2, <4>1, <4>2
      <3>2. QED
        BY <1>1, <2>1, <2>3, <3>1 DEF Alone
    <2>4. QED
      BY <1>2, <2>2, <2>3
  <1>7. QED
    BY <1>3, <1>4, <1>5, <1>6 DEF IInv

\* The steps that neither send, read nor end a scan.
LEMMA OtherStep ==
    ASSUME IInv,
           \/ Call \/ \E found \in BOOLEAN : JoinGroup(found)
           \/ NoMemory \/ AckRead \/ Finish \/ ReadOverrun \/ Dump
    PROVE  IInv'
  <1>1. CASE Call
    <2>1. /\ scan_pc' = "mcid" /\ rcvbuf' = <<>> /\ overrun' = FALSE /\ member' = FALSE
          /\ done' = 0 /\ aborted' = 0 /\ err' = 1
          /\ own' = "none" /\ foreign' = FALSE /\ faulty' = FALSE
      BY <1>1 DEF Call
    <2>2. /\ scanning' \in [Radios -> {"none", "own", "foreign"}]
          /\ \A r \in Radios : scanning'[r] # "own"
      BY <1>1 DEF Call, IInv, Types
    <2>3. Types'
      <3>1. rcvbuf' \in Seq(Messages) /\ Len(rcvbuf') <= QueueMax
        BY <2>1, QueueAssumption
      <3>2. QED
        BY <2>1, <2>2, <3>1 DEF Types
    <2>4. Fresh' /\ Answers' /\ OwnScan' /\ Alone'
      BY <2>1, <2>2 DEF Fresh, Answers, OwnScan, Alone
    <2>5. QED
      BY <2>3, <2>4 DEF IInv
  <1>2. ASSUME NEW found \in BOOLEAN, JoinGroup(found) PROVE IInv'
    <2>1. /\ scan_pc = "mcid" /\ scan_pc' = "send" /\ member' = found /\ faulty' = ~found
          /\ UNCHANGED <<rcvbuf, overrun, err, done, aborted, scanning, own, foreign>>
      BY <1>2 DEF JoinGroup, resultVars
    <2>2. ~overrun
      BY <2>1 DEF IInv, Fresh
    <2>3. Types' /\ Fresh'
      BY <2>1, <2>2 DEF IInv, Types, Fresh
    <2>4. Answers' /\ OwnScan' /\ Alone'
      BY <2>1 DEF IInv, Answers, Started, OwnScan, Alone
    <2>5. QED
      BY <2>3, <2>4 DEF IInv
  <1>3. CASE NoMemory \/ AckRead \/ Finish \/ Dump
    <2>1. UNCHANGED <<rcvbuf, overrun, err, done, aborted, scanning, own, foreign, faulty>>
      BY <1>3 DEF NoMemory, AckRead, Finish, Dump, sockVars, resultVars, histVars
    <2>2. /\ member' \in BOOLEAN
          /\ \/ scan_pc' = "idle"
             \/ scan_pc' = "done" /\ scan_pc = "ack" /\ err = 0
             \/ scan_pc' = "dump" /\ scan_pc = "done" /\ done = 1 /\ aborted = 0
      <3>0. Return(-1) => scan_pc' = "idle" /\ member' = FALSE
        <4>1. -1 # 0
          OBVIOUS
        <4>2. QED
          BY <4>1 DEF Return
      <3>1. CASE NoMemory
        BY <3>0, <3>1 DEF NoMemory
      <3>2. CASE AckRead
        <4>1. scan_pc = "ack" /\ err <= 0 /\ err \in {-1, 0, 1} /\ member \in BOOLEAN
          BY <3>2 DEF AckRead, IInv, Types
        <4>2. CASE err < 0
          BY <3>0, <3>2, <4>2 DEF AckRead
        <4>3. CASE ~(err < 0)
          <5>1. err = 0
            BY <4>1, <4>3
          <5>2. scan_pc' = "done" /\ member' = member
            BY <3>2, <4>3 DEF AckRead
          <5>3. QED
            BY <4>1, <5>1, <5>2
        <4>4. QED
          BY <4>2, <4>3
      <3>3. CASE Finish
        BY <3>3 DEF Finish, Return, IInv, Types
      <3>4. CASE Dump
        BY <3>4 DEF Dump, sockVars, IInv, Types
      <3>5. QED
        BY <1>3, <3>1, <3>2, <3>3, <3>4
    <2>3. Types' /\ OwnScan' /\ Alone'
      BY <2>1, <2>2 DEF IInv, Types, OwnScan, Alone
    <2>4. Fresh'
      BY <2>1, <2>2 DEF IInv, Fresh
    <2>5. Answers'
      BY <2>1, <2>2 DEF IInv, Answers, Started
    <2>6. QED
      BY <2>3, <2>4, <2>5 DEF IInv
  <1>4. CASE ReadOverrun
    <2>1. /\ overrun' = FALSE
          /\ UNCHANGED <<scan_pc, member, rcvbuf, err, done, aborted, scanning, own,
                         foreign, faulty>>
      BY <1>4 DEF ReadOverrun, resultVars, histVars
    <2>2. Types'
      BY <2>1 DEF IInv, Types
    <2>3. OwnScan' /\ Alone'
      BY <2>1 DEF IInv, OwnScan, Alone
    <2>4. Fresh'
      BY <2>1 DEF IInv, Fresh
    <2>5. Answers'
      BY <2>1 DEF IInv, Answers, Started
    <2>6. QED
      BY <2>2, <2>3, <2>4, <2>5 DEF IInv
  <1>5. QED
    BY <1>1, <1>2, <1>3, <1>4

-----------------------------------------------------------------------------
(* The theorems *)

\* The invariant of the socket, its queue and the call, from which the theorems
\* below follow.
THEOREM Invariance == Spec => []IInv
  <1>1. Init => IInv
    <2> SUFFICES ASSUME Init PROVE IInv
      OBVIOUS
    <2>1. Types
      <3>1. rcvbuf \in Seq(Messages) /\ Len(rcvbuf) <= QueueMax
        BY QueueAssumption DEF Init
      <3>2. QED
        BY <3>1 DEF Init, Types
    <2>2. Fresh /\ Answers /\ OwnScan /\ Alone
      BY DEF Init, Fresh, Answers, OwnScan, Alone
    <2>3. QED
      BY <2>1, <2>2 DEF IInv
  <1>2. IInv /\ [Next]_vars => IInv'
    <2> SUFFICES ASSUME IInv, [Next]_vars PROVE IInv'
      OBVIOUS
    <2>1. CASE UNCHANGED vars
      <3>1. UNCHANGED <<scan_pc, member, rcvbuf, overrun, err, done, aborted, scanning,
                        own, foreign, faulty>>
        BY <2>1 DEF vars, sockVars, resultVars, histVars
      <3>2. QED
        BY <3>1 DEF IInv, Types, Fresh, Answers, Started, OwnScan, Alone
    <2>2. CASE Next
      BY <2>2, Actions, KernelStep, SendStep, ReadStep, OtherStep
    <2>3. QED
      BY <2>1, <2>2
  <1>3. QED
    BY <1>1, <1>2, PTL DEF Spec

\* A request that the kernel refused is never taken for a scan, whatever events
\* are read in the loop that waits for the answer (probe_stuffing.c:86-96).
THEOREM RefusalSeen == Spec => []RefusedIsReported
  <1>1. IInv => RefusedIsReported
    BY DEF IInv, Answers, Started, RefusedIsReported
  <1>2. QED
    BY <1>1, Invariance, PTL

\* Without other programs' events the call tells what became of its own scan,
\* and leaves nothing in the queue for the dump to trip over, for every length
\* of the queue (nl_callbacks.c:68-83, probe_stuffing.c:98-113).
THEOREM Exact == Spec => []ExactWhenAlone
  <1>1. ASSUME IInv PROVE ExactWhenAlone
    <2> SUFFICES ASSUME ~foreign PROVE ExactWhenAlone
      BY DEF ExactWhenAlone
    <2>1. done = 1 => /\ own = (IF aborted = 1 THEN "aborted" ELSE "results")
                      /\ rcvbuf = <<>>
      BY <1>1 DEF IInv, Alone
    <2>2. scan_pc = "dump" => done = 1 /\ aborted = 0
      BY <1>1 DEF IInv, Answers
    <2>3. ~faulty => ~overrun
      BY <1>1 DEF IInv, Fresh
    <2>4. QED
      BY <2>1, <2>2, <2>3 DEF ExactWhenAlone
  <1>2. QED
    BY <1>1, Invariance, PTL
=============================================================================
