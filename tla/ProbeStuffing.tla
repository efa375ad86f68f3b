--------------------------- MODULE ProbeStuffing ---------------------------
(***************************************************************************)
(* The client, probe_stuffing/main.c: it reads messages at a prompt, cuts  *)
(* each into fragments, stuffs a fragment into the vendor IEs of the probe *)
(* requests of one scan, and looks for the fragment's sequence number in   *)
(* the scan results, which is the acknowledgement.  A failed scan and a    *)
(* missing acknowledgement have retry counters of their own.               *)
(*                                                                         *)
(* A message is known by its client and its origin timestamp; of its bytes *)
(* only the number is kept, so the data of a frame is the slice            *)
(* [start, len] of the message.  What the scan does (do_probe_stuffing)    *)
(* and what the kernel's scan dump shows are chosen by the environment.    *)
(* Clients do not touch each other's state: each variable is a function    *)
(* of the client, and the access points connect them (DataOverWifi).       *)
(***************************************************************************)
EXTENDS Integers, Sequences, FiniteSets

CONSTANTS
    Clients,      \* the hosts that run probe_stuffing
    LineLens,     \* lengths a line of stdin can have (at most 199 as built)
    UninitLens,   \* strlen of the malloc'ed buffer when fgets meets EOF
    FragMax,      \* ies_max_data_size, 1394 as built
    ScanRetries,  \* what scan_retries_left starts from, 4 as built
    AckRetries,   \* what ack_retries_left starts from, 4 as built
    Dumps,        \* the sequences of ack numbers a scan dump can show
    MaxMsgs       \* bound: messages a client reads at its prompt

ASSUME LensAssumption == LineLens \subseteq Nat /\ UninitLens \subseteq Nat
ASSUME FragAssumption == FragMax \in Nat \ {0}
ASSUME RetriesAssumption ==
    ScanRetries \in Nat \ {0} /\ AckRetries \in Nat \ {0}
ASSUME DumpsAssumption == Dumps \subseteq Seq(Nat)
ASSUME MaxMsgsAssumption == MaxMsgs \in Nat

VARIABLES
    pc,                        \* where main() is
    effort,                    \* 2 = guaranteed delivery, else best effort
    data_to_stuff,             \* where the current data comes from
    data_origin_ts,            \* timestamp of the message: a strictly
                               \* increasing clock, read once per message
    len_data_to_stuff,
    len_data_already_stuffed,
    seq_num,
    ack_seq_num,
    scan_retries_left,
    ack_retries_left,
    frame,                     \* the stuffed probe request (ies_data)
    sockets,                   \* netlink sockets open in the process
    log,                       \* the calls of log_info: the lines of
                               \* logs/client_log.log, if it can be opened
    attempts,                  \* history: scans triggered for this frame
    heard,                     \* history: acks get_ack saw for this frame
    giveups                    \* history: messages abandoned

argVars  == <<effort, data_to_stuff>>
msgVars  == <<data_origin_ts, len_data_to_stuff>>
fragVars == <<len_data_already_stuffed, frame>>
seqVars  == <<seq_num, ack_seq_num>>
tryVars  == <<scan_retries_left, ack_retries_left>>
histVars == <<attempts, heard, giveups>>
vars == <<pc, argVars, msgVars, fragVars, seqVars, tryVars, sockets, log,
          histVars>>

Sources == {"none", "d", "f", "stdin", "uninit"}
InFlight == {"send", "scanning", "dump"}   \* the inner while of main()

Least(a, b) == IF a <= b THEN a ELSE b

\* One stuffed probe request: who sent it, IE0 (sequence number, origin
\* timestamp, more-fragment bit), and the slice of the message in IE1..N.
Frame(c, ts, seq, mfb, start, len) ==
    [sa |-> c, ts |-> ts, seq |-> seq, mfb |-> mfb,
     start |-> start, len |-> len]

Frames == [sa : Clients, ts : Nat, seq : Nat, mfb : {0, 1},
           start : Nat, len : Nat]

NoFrame == [sa |-> "none"]   \* no frame has been built

-----------------------------------------------------------------------------
(* The process starts. *)

Init ==
    /\ pc = [c \in Clients |-> "start"]
    /\ effort = [c \in Clients |-> 2]
    /\ data_to_stuff = [c \in Clients |-> "none"]
    /\ data_origin_ts = [c \in Clients |-> 0]
    /\ len_data_to_stuff = [c \in Clients |-> 0]
    /\ len_data_already_stuffed = [c \in Clients |-> 0]
    /\ seq_num = [c \in Clients |-> 0]
    /\ ack_seq_num = [c \in Clients |-> -1]
    /\ scan_retries_left = [c \in Clients |-> ScanRetries]
    /\ ack_retries_left = [c \in Clients |-> AckRetries]
    /\ frame = [c \in Clients |-> NoFrame]
    /\ sockets = [c \in Clients |-> 0]
    /\ log = [c \in Clients |-> <<>>]
    /\ attempts = [c \in Clients |-> 0]
    /\ heard = [c \in Clients |-> {}]
    /\ giveups = [c \in Clients |-> 0]

\* getopt, the check for an interface, and read_file, which fails on a file
\* that cannot be opened.  opts is the set of options on the command line.
ParseArgs(c, opts, e, readable) ==
    /\ pc[c] = "start"
    /\ effort' = [effort EXCEPT ![c] = IF "e" \in opts THEN e ELSE 2]
    /\ data_to_stuff' = [data_to_stuff EXCEPT ![c] =
          IF "f" \in opts THEN "f" ELSE IF "d" \in opts THEN "d" ELSE "none"]
    /\ pc' = [pc EXCEPT ![c] =
          IF "i" \notin opts \/ ("f" \in opts /\ ~readable)
          THEN "exited" ELSE "prompt"]
    /\ UNCHANGED <<msgVars, fragVars, seqVars, tryVars, sockets, log, histVars>>

-----------------------------------------------------------------------------
(* Reading a message and cutting it into frames. *)

\* The head of the while(1): whatever -d or -f gave is replaced by what the
\* buffer filled by fgets holds, and every counter is set afresh.
StartMessage(c, src, n) ==
    /\ pc[c] = "prompt"
    /\ data_origin_ts[c] < MaxMsgs
    /\ data_to_stuff' = [data_to_stuff EXCEPT ![c] = src]
    /\ len_data_to_stuff' = [len_data_to_stuff EXCEPT ![c] = n]
    /\ len_data_already_stuffed' = [len_data_already_stuffed EXCEPT ![c] = 0]
    /\ data_origin_ts' = [data_origin_ts EXCEPT ![c] = @ + 1]
    /\ seq_num' = [seq_num EXCEPT ![c] = 0]
    /\ ack_seq_num' = [ack_seq_num EXCEPT ![c] = -1]
    /\ scan_retries_left' = [scan_retries_left EXCEPT ![c] = ScanRetries]
    /\ ack_retries_left' = [ack_retries_left EXCEPT ![c] = AckRetries]
    /\ pc' = [pc EXCEPT ![c] = "build"]
    /\ UNCHANGED <<effort, frame, sockets, log, histVars>>

ReadLine(c, n) == StartMessage(c, "stdin", n)

\* At end of file fgets leaves the new buffer as malloc returned it, and
\* strlen measures whatever is there.
ReadEOF(c, n) == StartMessage(c, "uninit", n)

\* The amount of data the next frame takes.
NextLen(c) == Least(FragMax, len_data_to_stuff[c] - len_data_already_stuffed[c])

NextMfbOffByOne(c) ==   \* mutant: a last full frame announces another
    IF len_data_to_stuff[c] - len_data_already_stuffed[c] >= FragMax
    THEN 1 ELSE 0

\* mfb = 1 exactly when more than a full frame is left.
NextMfb(c) ==
    IF len_data_to_stuff[c] - len_data_already_stuffed[c] > FragMax
    THEN 1 ELSE 0

\* One turn of the fragment loop up to the inner while(1).  The slice starts
\* at seq_num * FragMax, its length comes from len_data_already_stuffed.
BuildFrame(c) ==
    /\ pc[c] = "build"
    /\ len_data_already_stuffed[c] < len_data_to_stuff[c]
    /\ frame' = [frame EXCEPT ![c] =
          Frame(c, data_origin_ts[c], seq_num[c], NextMfb(c),
                seq_num[c] * FragMax, NextLen(c))]
    /\ len_data_already_stuffed' =
          [len_data_already_stuffed EXCEPT ![c] = @ + NextLen(c)]
    /\ sockets' = [sockets EXCEPT ![c] = @ + 1]
    /\ attempts' = [attempts EXCEPT ![c] = 0]
    /\ heard' = [heard EXCEPT ![c] = {}]
    /\ pc' = [pc EXCEPT ![c] = "send"]
    /\ UNCHANGED <<argVars, msgVars, seqVars, tryVars, log, giveups>>

EndMessageStrict(c) ==   \* mutant: the loop test is <= instead of <
    /\ pc[c] = "build"
    /\ len_data_already_stuffed[c] > len_data_to_stuff[c]
    /\ pc' = [pc EXCEPT ![c] = "prompt"]
    /\ UNCHANGED <<argVars, msgVars, fragVars, seqVars, tryVars, sockets, log,
                   histVars>>

\* All the data is stuffed: the fragment loop ends and the prompt returns.
EndMessage(c) ==
    /\ pc[c] = "build"
    /\ len_data_already_stuffed[c] >= len_data_to_stuff[c]
    /\ pc' = [pc EXCEPT ![c] = "prompt"]
    /\ UNCHANGED <<argVars, msgVars, fragVars, seqVars, tryVars, sockets, log,
                   histVars>>

-----------------------------------------------------------------------------
(* Sending a frame: the inner while(1). *)

\* do_probe_stuffing is called and the scan is in the kernel's hands.
TriggerScan(c) ==
    /\ pc[c] = "send"
    /\ attempts' = [attempts EXCEPT ![c] = @ + 1]
    /\ pc' = [pc EXCEPT ![c] = "scanning"]
    /\ UNCHANGED <<argVars, msgVars, fragVars, seqVars, tryVars, sockets, log,
                   heard, giveups>>

RetryAtZero(c, n) ==   \* mutant: one retry too many
    \/ /\ n >= 0
       /\ pc' = [pc EXCEPT ![c] = "send"]
       /\ UNCHANGED <<sockets, giveups>>
    \/ /\ n < 0
       /\ pc' = [pc EXCEPT ![c] = "prompt"]
       /\ giveups' = [giveups EXCEPT ![c] = @ + 1]
       /\ UNCHANGED sockets

\* What a retry counter that has just become n leads to: another turn on a
\* fresh socket in place of the old one, or both breaks, which skip the
\* nl_socket_free at the end of the fragment loop.
RetryOrGiveUp(c, n) ==
    \/ /\ n > 0
       /\ pc' = [pc EXCEPT ![c] = "send"]
       /\ UNCHANGED <<sockets, giveups>>
    \/ /\ n <= 0
       /\ pc' = [pc EXCEPT ![c] = "prompt"]
       /\ giveups' = [giveups EXCEPT ![c] = @ + 1]
       /\ UNCHANGED sockets

\* do_probe_stuffing returned an error.
ScanFailed(c) ==
    /\ pc[c] = "scanning"
    /\ scan_retries_left' = [scan_retries_left EXCEPT ![c] = @ - 1]
    /\ RetryOrGiveUp(c, scan_retries_left[c] - 1)
    /\ UNCHANGED <<argVars, msgVars, fragVars, seqVars, ack_retries_left, log,
                   attempts, heard>>

\* do_probe_stuffing returned 0.
ScanDone(c) ==
    /\ pc[c] = "scanning"
    /\ scan_retries_left' = [scan_retries_left EXCEPT ![c] = ScanRetries]
    /\ pc' = [pc EXCEPT ![c] = "dump"]
    /\ UNCHANGED <<argVars, msgVars, fragVars, seqVars, ack_retries_left,
                   sockets, log, histVars>>

\* get_ack runs on every BSS of the dump: each ack number in a vendor IE
\* overwrites ack_seq_num, so the last one stays; without one nothing changes.
get_ack(cur, dump) == IF dump = <<>> THEN cur ELSE dump[Len(dump)]

LogEntryFromZero(c, status) ==   \* mutant: 4 - ack_retries_left
    [attempt |-> AckRetries - ack_retries_left[c], size |-> frame[c].len,
     ts |-> data_origin_ts[c], status |-> status]

LogEntryOfScans(c, status) ==   \* mutant: the other retry counter
    [attempt |-> ScanRetries + 1 - scan_retries_left[c], size |-> frame[c].len,
     ts |-> data_origin_ts[c], status |-> status]

\* The line log_info is called with: attempt, data size, origin timestamp, status.
LogEntry(c, status) ==
    [attempt |-> AckRetries + 1 - ack_retries_left[c], size |-> frame[c].len,
     ts |-> data_origin_ts[c], status |-> status]

log_info(c, status) == log' = [log EXCEPT ![c] = Append(@, LogEntry(c, status))]

Hear(c, d) ==
    /\ ack_seq_num' = [ack_seq_num EXCEPT ![c] = get_ack(@, d)]
    /\ heard' = [heard EXCEPT ![c] = @ \cup {d[i] : i \in DOMAIN d}]

IsAckAtLeast(c, d) ==   \* mutant: acks are taken to be cumulative
    LET a == get_ack(ack_seq_num[c], d) IN a # -1 /\ a >= seq_num[c]

IsAckAny(c, d) ==   \* mutant: the number is not compared
    LET a == get_ack(ack_seq_num[c], d) IN a # -1

\* The test of line 299, on the number get_ack has left behind.
IsAck(c, d) ==
    LET a == get_ack(ack_seq_num[c], d) IN a # -1 /\ a = seq_num[c]

NextFrameLeaks(c) ==   \* mutant: no nl_socket_free
    /\ seq_num' = [seq_num EXCEPT ![c] = @ + 1]
    /\ pc' = [pc EXCEPT ![c] = "build"]
    /\ UNCHANGED sockets

NextFrameSame(c) ==   \* mutant: seq_num is not incremented
    /\ sockets' = [sockets EXCEPT ![c] = @ - 1]
    /\ pc' = [pc EXCEPT ![c] = "build"]
    /\ UNCHANGED seq_num

\* The frame is finished with: the next one has the next number.
NextFrame(c) ==
    /\ seq_num' = [seq_num EXCEPT ![c] = @ + 1]
    /\ sockets' = [sockets EXCEPT ![c] = @ - 1]
    /\ pc' = [pc EXCEPT ![c] = "build"]

AckAccepted(c, d) ==
    /\ pc[c] = "dump"
    /\ IsAck(c, d)
    /\ Hear(c, d)
    /\ log_info(c, 1)
    /\ ack_retries_left' = [ack_retries_left EXCEPT ![c] = AckRetries]
    /\ NextFrame(c)
    /\ UNCHANGED <<argVars, msgVars, fragVars, scan_retries_left, attempts,
                   giveups>>

\* The dump failed (ok is FALSE: get_ack may have run on part of it), or it
\* left a number other than seq_num.  Guaranteed delivery tries again, best
\* effort goes on to the next frame.
AckMissed(c, d, ok) ==
    /\ pc[c] = "dump"
    /\ ok => ~IsAck(c, d)
    /\ Hear(c, d)
    /\ log_info(c, -1)
    /\ \/ /\ effort[c] = 2
          /\ ack_retries_left' = [ack_retries_left EXCEPT ![c] = @ - 1]
          /\ RetryOrGiveUp(c, ack_retries_left[c] - 1)
          /\ UNCHANGED seq_num
       \/ /\ effort[c] # 2
          /\ NextFrame(c)
          /\ UNCHANGED <<ack_retries_left, giveups>>
    /\ UNCHANGED <<argVars, msgVars, fragVars, scan_retries_left, attempts>>

-----------------------------------------------------------------------------

Start(c) ==
    \E opts \in SUBSET {"i", "d", "f", "e"}, e \in {1, 2}, readable \in BOOLEAN :
        ParseArgs(c, opts, e, readable)

Prompt(c) ==
    \/ \E n \in LineLens : ReadLine(c, n)
    \/ \E n \in UninitLens : ReadEOF(c, n)

ReadAcks(c) ==
    \E d \in Dumps :
        AckAccepted(c, d) \/ \E ok \in BOOLEAN : AckMissed(c, d, ok)

\* What main() does once it has a message.
Work(c) ==
    \/ BuildFrame(c) \/ EndMessage(c) \/ TriggerScan(c)
    \/ ScanFailed(c) \/ ScanDone(c)
    \/ ReadAcks(c)

Next == \E c \in Clients : Start(c) \/ Prompt(c) \/ Work(c)

Spec == Init /\ [][Next]_vars

\* main() goes on by itself except at the prompt, and the kernel answers
\* every scan request: with an error, with results, or with an abort.
FairSpec == Spec /\ \A c \in Clients : WF_vars(Work(c))

-----------------------------------------------------------------------------
(* Properties. *)

\* The variables have the types main() declares them with, the retry counters
\* never go below zero, and every logged attempt is one of the AckRetries.
TypeOK ==
    /\ pc \in [Clients -> {"start", "exited", "prompt", "build"} \cup InFlight]
    /\ effort \in [Clients -> {1, 2}]
    /\ data_to_stuff \in [Clients -> Sources]
    /\ data_origin_ts \in [Clients -> Nat]
    /\ len_data_to_stuff \in [Clients -> Nat]
    /\ len_data_already_stuffed \in [Clients -> Nat]
    /\ seq_num \in [Clients -> Nat]
    /\ ack_seq_num \in [Clients -> Nat \cup {-1}]
    /\ scan_retries_left \in [Clients -> 0 .. ScanRetries]
    /\ ack_retries_left \in [Clients -> 0 .. AckRetries]
    /\ frame \in [Clients -> Frames \cup {NoFrame}]
    /\ sockets \in [Clients -> Nat]
    /\ log \in [Clients -> Seq([attempt : 1 .. AckRetries, size : Nat,
                                ts : Nat, status : {1, -1}])]
    /\ attempts \in [Clients -> Nat]
    /\ heard \in [Clients -> SUBSET Nat]
    /\ giveups \in [Clients -> Nat]

\* The two counters that cut a message agree: len_data_already_stuffed is
\* what the first seq_num frames (and the one in flight) hold, so the frame in
\* flight is the slice that follows the earlier ones, is never empty, and says
\* mfb = 0 exactly when it is the last.  (main.c:140 takes the start from
\* seq_num, main.c:146-159 the length from len_data_already_stuffed.)
Tiling ==
    \A c \in Clients :
        /\ pc[c] = "build" =>
              len_data_already_stuffed[c] =
                  Least(len_data_to_stuff[c], seq_num[c] * FragMax)
        /\ pc[c] \in InFlight =>
              /\ frame[c].seq = seq_num[c]
              /\ frame[c].ts = data_origin_ts[c]
              /\ frame[c].start = seq_num[c] * FragMax
              /\ frame[c].len \in 1 .. FragMax
              /\ frame[c].start + frame[c].len = len_data_already_stuffed[c]
              /\ len_data_already_stuffed[c] <= len_data_to_stuff[c]
              /\ frame[c].mfb = 1 => frame[c].len = FragMax
              /\ frame[c].mfb = IF len_data_already_stuffed[c] = len_data_to_stuff[c]
                                THEN 0 ELSE 1

\* The two retry counters together bound the scans spent on one frame: each
\* missing ack pays for at most ScanRetries scans, so a frame goes out at most
\* ScanRetries * AckRetries times.  (main.c:240, 253, 279, 304, 328.)
Budget(c) ==
    ScanRetries * (AckRetries - ack_retries_left[c])
        + (ScanRetries - scan_retries_left[c])

RetryBudget ==
    \A c \in Clients :
        /\ pc[c] \in InFlight \cup {"build"} =>
              scan_retries_left[c] > 0 /\ ack_retries_left[c] > 0
        /\ pc[c] = "dump" => scan_retries_left[c] = ScanRetries
        /\ pc[c] = "send" => attempts[c] <= Budget(c)
        /\ pc[c] = "scanning" => attempts[c] <= Budget(c) + 1
        /\ pc[c] = "dump" => attempts[c] <= Budget(c) + ScanRetries
        /\ pc[c] \in InFlight => attempts[c] <= ScanRetries * AckRetries

\* A socket is open for the frame in flight, and one stays open for every
\* abandoned message and for no other reason.  (init_socket at main.c:162 and
\* 248, 286, 312; nl_socket_free at 243, 282, 308, 349.)
SocketBalance ==
    \A c \in Clients :
        sockets[c] = giveups[c] + (IF pc[c] \in InFlight THEN 1 ELSE 0)

\* With guaranteed delivery a frame is logged as delivered only after get_ack
\* saw its number while that frame was being sent: ack_seq_num, which is not
\* reset between frames, never passes an old number off as a new one.
\* (main.c:91, 266, 299.)  A fragment starts with the number still unheard.
FreshAck ==
    \A c \in Clients : effort[c] = 2 =>
        /\ pc[c] = "build" => ack_seq_num[c] # seq_num[c]
        /\ (pc[c] \in InFlight /\ ack_seq_num[c] = seq_num[c])
              => seq_num[c] \in heard[c]

\* With guaranteed delivery seq_num counts the frames of this message that the
\* log shows as delivered: no frame is passed over.  (main.c:321-329.)
AckedPrefix ==
    \A c \in Clients :
        (pc[c] \in InFlight \cup {"build"} /\ effort[c] = 2) =>
            seq_num[c] = Cardinality({i \in DOMAIN log[c] :
                log[c][i].ts = data_origin_ts[c] /\ log[c][i].status = 1})

\* The attempts of a frame are numbered 1, 2, ... in the log, and a frame that
\* is delivered or a new message starts again at 1.  (5 - ack_retries_left at
\* main.c:275, 301, 323; best effort makes one attempt per frame.)
AttemptNumbering ==
    \A c \in Clients : \A i \in 1 .. Len(log[c]) :
        log[c][i].attempt =
            IF i > 1 /\ effort[c] = 2 /\ log[c][i - 1].status = -1
                     /\ log[c][i - 1].ts = log[c][i].ts
            THEN log[c][i - 1].attempt + 1
            ELSE 1

\* Every message comes to an end, delivered or abandoned, whatever the scans
\* and the dumps return: the retry counters cannot keep the client busy for
\* ever.
MessageEnds ==
    \A c \in Clients : (pc[c] = "build") ~> (pc[c] = "prompt")
=============================================================================
