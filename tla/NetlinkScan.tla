----------------------------- MODULE NetlinkScan ----------------------------
(***************************************************************************)
(* One scan of the client, probe_stuffing.c and nl_callbacks.c, and the    *)
(* scan dump that main.c asks for afterwards on the same netlink socket.   *)
(* do_probe_stuffing joins the multicast group "scan", sends the request,  *)
(* spins on the non-blocking socket until a callback has set err, then     *)
(* until one has set results.done.  The kernel puts the answer to the      *)
(* request and the events of every scan of the host, on any radio and of   *)
(* any program, into one receive queue; the callbacks look at neither the  *)
(* sequence number nor the interface.                                      *)
(*                                                                         *)
(* Every call works on a socket of its own: main.c opens one for a frame   *)
(* and another for each retry.                                             *)
(***************************************************************************)
EXTENDS Integers, Sequences

CONSTANTS
    Radios,       \* the radios of the host
    MyRadio,      \* the one of -i
    QueueMax,     \* messages the socket's receive queue holds
    MaxCalls      \* bound: calls of do_probe_stuffing

ASSUME RadiosAssumption == MyRadio \in Radios
ASSUME QueueAssumption == QueueMax \in Nat \ {0}
ASSUME CallsAssumption == MaxCalls \in Nat

VARIABLES
    scan_pc,      \* "idle", "mcid", "send", "ack", "done" or "dump"
    member,       \* the socket is in the group "scan"
    rcvbuf,       \* its receive queue
    overrun,      \* a message did not fit: the next read says ENOBUFS
    err,          \* 1 until the kernel has answered, then 0 or an error (-1)
    done,         \* results.done
    aborted,      \* results.aborted
    result,       \* what the last call returned
    dump_ok,      \* whether the last dump was read
    scanning,     \* kernel: radio -> whose scan it runs, "none" if idle
    own,          \* history: what became of this call's scan
    foreign,      \* history: another program's event came to this socket
    faulty,       \* history: a message for this socket was lost
    calls         \* history: calls made

sockVars   == <<member, rcvbuf, overrun>>
resultVars == <<err, done, aborted>>
histVars   == <<own, foreign, faulty, calls>>
vars == <<scan_pc, sockVars, resultVars, result, dump_ok, scanning, histVars>>

Init ==
    /\ scan_pc = "idle"
    /\ member = FALSE /\ rcvbuf = <<>> /\ overrun = FALSE
    /\ err = 1 /\ done = 0 /\ aborted = 0
    /\ result = 0
    /\ dump_ok = FALSE
    /\ scanning = [r \in Radios |-> "none"]
    /\ own = "none" /\ foreign = FALSE /\ faulty = FALSE
    /\ calls = 0

-----------------------------------------------------------------------------
(* The kernel. *)

\* Messages go into the socket's queue, in order, as far as there is room.
Deliver(msgs) ==
    LET room == QueueMax - Len(rcvbuf) IN
    IF Len(msgs) <= room
    THEN rcvbuf' = rcvbuf \o msgs /\ UNCHANGED <<overrun, faulty>>
    ELSE /\ rcvbuf' = rcvbuf \o SubSeq(msgs, 1, room)
         /\ overrun' = TRUE /\ faulty' = TRUE

\* An event of the group "scan", for the members.
Multicast(type, whose) ==
    /\ IF member THEN Deliver(<<[type |-> type, of |-> whose]>>)
       ELSE UNCHANGED <<rcvbuf, overrun, faulty>>
    /\ foreign' = (foreign \/ (member /\ whose = "foreign"))

\* Another program starts a scan.
ForeignStart(r) ==
    /\ scanning[r] = "none"
    /\ scanning' = [scanning EXCEPT ![r] = "foreign"]
    /\ Multicast("trig", "foreign")
    /\ UNCHANGED <<scan_pc, member, resultVars, result, dump_ok, own, calls>>

\* A scan ends, with results or aborted.  The scan of an earlier call, which
\* returned before its scan was over, is by now like another program's.
ScanEnds(r, how) ==
    /\ scanning[r] # "none"
    /\ scanning' = [scanning EXCEPT ![r] = "none"]
    /\ Multicast(how, scanning[r])
    /\ own' = IF scanning[r] = "own" THEN how ELSE own
    /\ UNCHANGED <<scan_pc, member, resultVars, result, dump_ok, calls>>

-----------------------------------------------------------------------------
(* do_probe_stuffing. *)

\* init_socket, and the call.
Call ==
    /\ scan_pc = "idle"
    /\ calls < MaxCalls
    /\ calls' = calls + 1
    /\ rcvbuf' = <<>> /\ overrun' = FALSE /\ member' = FALSE
    /\ done' = 0 /\ aborted' = 0 /\ err' = 1
    /\ scanning' = [r \in Radios |->
          IF scanning[r] = "own" THEN "foreign" ELSE scanning[r]]
    /\ own' = "none" /\ foreign' = FALSE /\ faulty' = FALSE
    /\ scan_pc' = "mcid"
    /\ UNCHANGED <<result, dump_ok>>

\* nl_get_multicast_id waits for the kernel's answer and takes the group's id
\* from it; nl_socket_add_membership uses it.  If the id could not be had, the
\* socket joins nothing, and the call goes on.
JoinGroup(found) ==
    /\ scan_pc = "mcid"
    /\ member' = found
    /\ faulty' = ~found
    /\ scan_pc' = "send"
    /\ UNCHANGED <<rcvbuf, overrun, resultVars, result, dump_ok, scanning, own,
                   foreign, calls>>

\* The call ends with value v: 0 leaves the group and the socket is used for the
\* dump, on an error main.c gives the socket up.
Return(v) ==
    /\ result' = v
    /\ scan_pc' = IF v = 0 THEN "dump" ELSE "idle"
    /\ member' = FALSE

\* One of the allocations fails: -ENOMEM.
NoMemory ==
    /\ scan_pc = "send"
    /\ Return(-1)
    /\ UNCHANGED <<rcvbuf, overrun, resultVars, dump_ok, scanning, histVars>>

\* nl_send_auto: the kernel handles the request before the call returns.  It
\* starts the scan, which is announced, and says so.
SendAccepted ==
    /\ scan_pc = "send"
    /\ scanning[MyRadio] = "none"
    /\ scanning' = [scanning EXCEPT ![MyRadio] = "own"]
    /\ own' = "running"
    /\ Deliver((IF member THEN <<[type |-> "trig", of |-> "own"]>> ELSE <<>>)
                  \o <<[type |-> "ack", of |-> "own"]>>)
    /\ scan_pc' = "ack"
    /\ UNCHANGED <<member, resultVars, result, dump_ok, foreign, calls>>

\* Or it refuses: a scan is running (EBUSY), the interface is down, ...
SendRefused ==
    /\ scan_pc = "send"
    /\ own' = "refused"
    /\ Deliver(<<[type |-> "error", of |-> "own"]>>)
    /\ scan_pc' = "ack"
    /\ UNCHANGED <<member, resultVars, result, dump_ok, scanning, foreign, calls>>

\* Or the request does not get there: ret is overwritten without a look.
SendFails ==
    /\ scan_pc = "send"
    /\ faulty' = TRUE
    /\ scan_pc' = "ack"
    /\ UNCHANGED <<sockVars, resultVars, result, dump_ok, scanning, own, foreign,
                   calls>>

\* error_handler, ack_handler
HandleAnswer(m) ==
    err' = CASE m.type = "ack" -> 0 [] m.type = "error" -> -1 [] OTHER -> err

callback_trigger_any(m) ==   \* mutant: any event of the group ends the wait
    IF m.type \in {"trig", "results", "aborted"}
    THEN done' = 1 /\ aborted' = (IF m.type = "aborted" THEN 1 ELSE 0)
    ELSE UNCHANGED <<done, aborted>>

callback_trigger_no_abort(m) ==   \* mutant: an aborted scan is not noticed
    IF m.type = "results" THEN done' = 1 /\ aborted' = 0
    ELSE UNCHANGED <<done, aborted>>

\* callback_trigger
callback_trigger(m) ==
    CASE m.type = "aborted" -> done' = 1 /\ aborted' = 1
      [] m.type = "results" -> done' = 1 /\ aborted' = 0
      [] OTHER -> UNCHANGED <<done, aborted>>

\* nl_recvmsgs reads one message.  On an empty queue it returns at once and the
\* loop goes round, which changes nothing.
Receive ==
    /\ ~overrun /\ rcvbuf # <<>>
    /\ HandleAnswer(Head(rcvbuf))
    /\ callback_trigger(Head(rcvbuf))
    /\ rcvbuf' = Tail(rcvbuf)
    /\ UNCHANGED <<member, overrun, dump_ok, scanning, histVars>>

\* The first loop, up to the message that sets err.
WaitAck ==
    /\ scan_pc = "ack"
    /\ err > 0
    /\ Receive
    /\ UNCHANGED <<scan_pc, result>>

AckReadWarns ==   \* mutant: a negative err is only printed
    /\ scan_pc = "ack"
    /\ err <= 0
    /\ scan_pc' = "done"
    /\ UNCHANGED <<result, sockVars, resultVars, dump_ok, scanning, histVars>>

\* After it: nl_recvmsgs has returned the error that error_handler was given.
AckRead ==
    /\ scan_pc = "ack"
    /\ err <= 0
    /\ IF err < 0 THEN Return(-1) ELSE scan_pc' = "done" /\ UNCHANGED <<result, member>>
    /\ UNCHANGED <<rcvbuf, overrun, resultVars, dump_ok, scanning, histVars>>

\* The second loop.
WaitDone ==
    /\ scan_pc = "done"
    /\ done = 0
    /\ Receive
    /\ UNCHANGED <<scan_pc, result>>

Finish ==
    /\ scan_pc = "done"
    /\ done = 1
    /\ Return(aborted)
    /\ UNCHANGED <<rcvbuf, overrun, resultVars, dump_ok, scanning, histVars>>

\* The read that reports the overrun; neither loop looks at its error.
ReadOverrun ==
    /\ \/ scan_pc = "ack" /\ err > 0
       \/ scan_pc = "done" /\ done = 0
    /\ overrun
    /\ overrun' = FALSE
    /\ UNCHANGED <<scan_pc, member, rcvbuf, resultVars, result, dump_ok, scanning,
                   histVars>>

\* main.c asks for the scan results with nl_recvmsgs_default, which checks
\* sequence numbers: a message still in the queue makes it fail.  The socket is
\* closed afterwards.
Dump ==
    /\ scan_pc = "dump"
    /\ dump_ok' = (rcvbuf = <<>> /\ ~overrun)
    /\ scan_pc' = "idle"
    /\ UNCHANGED <<sockVars, resultVars, result, scanning, histVars>>

-----------------------------------------------------------------------------

Process ==
    \/ \E found \in BOOLEAN : JoinGroup(found)
    \/ NoMemory \/ SendAccepted \/ SendRefused \/ SendFails
    \/ WaitAck \/ AckRead \/ WaitDone \/ Finish \/ ReadOverrun
    \/ Dump

KernelEnds(r) == \E how \in {"results", "aborted"} : ScanEnds(r, how)

Next ==
    \/ Call \/ Process
    \/ \E r \in Radios : ForeignStart(r) \/ KernelEnds(r)

Spec == Init /\ [][Next]_vars

\* The process runs on, and the kernel ends every scan it has started.
FairSpec == Spec /\ WF_vars(Process) /\ \A r \in Radios : WF_vars(KernelEnds(r))

-----------------------------------------------------------------------------
(* Properties. *)

\* Whatever events come before, between and after the kernel's answer, a
\* request the kernel refused is never taken for a scan: the call goes on to
\* wait for events, and main.c to the dump, only if the scan was started.
\* (probe_stuffing.c:86-96: err and results are set in the same loop.)
RefusedIsReported ==
    scan_pc \in {"done", "dump"} => own \in {"running", "results", "aborted"}

\* If no other program's event came to the socket, the call is exact: the flags
\* tell what became of its own scan, it returns 0 only for its own results, and
\* it leaves nothing in the queue that would make the dump fail.  Its own
\* announcement and answer, which come first, do not end the wait.
\* (nl_callbacks.c:68-83, probe_stuffing.c:98-113, main.c:268-270.)
ExactWhenAlone ==
    ~foreign =>
        /\ (scan_pc = "done" /\ done = 1) =>
              own = (IF aborted = 1 THEN "aborted" ELSE "results")
        /\ (scan_pc = "dump" /\ ~faulty) =>
              own = "results" /\ rcvbuf = <<>> /\ ~overrun

\* The call returns, with results, an abort or an error, unless a message for
\* its socket was lost: then it spins.  This is what ProbeStuffing assumes of a
\* scan.  (probe_stuffing.c:86-100 has no other way out.)
CallReturns ==
    (scan_pc \in {"send", "ack", "done"}) ~> (scan_pc \in {"dump", "idle"} \/ faulty)
=============================================================================
