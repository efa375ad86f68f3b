----------------------------- MODULE Controller ----------------------------
(***************************************************************************)
(* The controller, controller_tcp/controller.cpp, and the tcpclient runs   *)
(* (client.cpp) that bring it records over TCP.  run_server is a loop of   *)
(* select, at most one accept, and a pass over the slots of                *)
(* client_sockfds; the tcpclients and the network act between any two of   *)
(* its steps.  The database outlives a crash of the controller; the        *)
(* connections do not.                                                     *)
(*                                                                         *)
(* Each process p runs tcpclient once, with the record RecordOf[p].  The   *)
(* command of at most 600 bytes is written at once and read at once.       *)
(***************************************************************************)
EXTENDS Integers, Sequences, FiniteSets

CONSTANTS
    Procs,        \* the tcpclient processes
    RecordOf,     \* what each sends: [mac, ts, ap, seq, parts, quote]: ap is
                  \* the access point's timestamp, parts the number of comma-
                  \* separated pieces of the data, quote whether the first of
                  \* them holds a quotation mark
    MaxClients,   \* max_clients, the slots of client_sockfds, 50 as built
    Backlog,      \* connections that wait for accept: listen() asks for 10,
                  \* and the kernel may hold one more
    FdLimit       \* descriptors the process may have for its clients

ASSUME ProcsAssumption == IsFiniteSet(Procs)
ASSUME NoProcAssumption == "none" \notin Procs
ASSUME RecordAssumption ==
    \A p \in Procs : LET r == RecordOf[p] IN
        /\ r = [mac |-> r.mac, ts |-> r.ts, ap |-> r.ap, seq |-> r.seq,
                parts |-> r.parts, quote |-> r.quote]
        /\ r.quote \in BOOLEAN
ASSUME LimitsAssumption ==
    MaxClients \in Nat \ {0} /\ Backlog \in Nat \ {0} /\ FdLimit \in Nat \ {0}

VARIABLES
    tcp_pc,          \* where each tcpclient is
    chan,            \* what the controller can read: "none", "data", "fin",
                     \* "data+fin" or "rst"
    backlog,         \* connections the kernel holds for accept
    fds,             \* the controller's open connections: descriptor -> process
    client_sockfds,  \* slot -> descriptor, 0 when the slot is free
    server_pc,       \* "down", "select", "accept" or "serve"
    read_fdset,      \* what select reported; 0 stands for server_sockfd
    slot,            \* i of the serving loop
    offered,         \* history: records written
    aplog            \* the table

connVars   == <<tcp_pc, chan, offered>>
serverVars == <<fds, client_sockfds, server_pc, read_fdset, slot>>
vars == <<connVars, backlog, serverVars, aplog>>

Slots == 1 .. MaxClients
Descriptors == 1 .. FdLimit
Records == {RecordOf[p] : p \in Procs}
NoProc == "none"

\* process_and_save: strtok splits at the commas into eight fields, so of the
\* data the row keeps the first of its comma-separated pieces.  The test for a
\* missing MAC address looks at the timestamp, which is always a number, so
\* "NA" is stored as it came.
Row(rec) == [rec EXCEPT !.parts = 1]

Sink == INSTANCE RecordSink

Init ==
    /\ tcp_pc = [p \in Procs |-> "connect"]
    /\ chan = [p \in Procs |-> "none"]
    /\ backlog = <<>>
    /\ fds = [d \in Descriptors |-> NoProc]
    /\ client_sockfds = [i \in Slots |-> 0]
    /\ server_pc = "down"
    /\ read_fdset = {}
    /\ slot = 1
    /\ offered = {}
    /\ aplog = {}

-----------------------------------------------------------------------------
(* tcpclient *)

\* connect succeeds when the controller listens and the kernel, whose guard the
\* bound is, has room for one more connection; otherwise connect_client waits
\* and tries again, for ever.
connect_client(p) ==
    /\ tcp_pc[p] = "connect"
    /\ server_pc # "down"
    /\ Len(backlog) < Backlog
    /\ backlog' = Append(backlog, p)
    /\ tcp_pc' = [tcp_pc EXCEPT ![p] = "transmit"]
    /\ UNCHANGED <<chan, offered, serverVars, aplog>>

\* The command is written into the connection.
transmit(p) ==
    /\ tcp_pc[p] = "transmit"
    /\ chan[p] = "none"
    /\ chan' = [chan EXCEPT ![p] = "data"]
    /\ offered' = offered \cup {RecordOf[p]}
    /\ tcp_pc' = [tcp_pc EXCEPT ![p] = "close"]
    /\ UNCHANGED <<backlog, serverVars, aplog>>

AddFin(s) == IF s = "data" THEN "data+fin" ELSE IF s = "none" THEN "fin" ELSE s

CleanupNoError(p) ==   \* mutant: a failed write is retried for ever
    /\ tcp_pc[p] = "close"
    /\ chan' = [chan EXCEPT ![p] = AddFin(@)]
    /\ tcp_pc' = [tcp_pc EXCEPT ![p] = "done"]
    /\ UNCHANGED <<offered, backlog, serverVars, aplog>>

\* close(), or the exit of the process, which also follows a failed write.
cleanup(p) ==
    /\ \/ tcp_pc[p] = "close"
       \/ tcp_pc[p] = "transmit" /\ chan[p] = "rst"
    /\ chan' = [chan EXCEPT ![p] = AddFin(@)]
    /\ tcp_pc' = [tcp_pc EXCEPT ![p] = "done"]
    /\ UNCHANGED <<offered, backlog, serverVars, aplog>>

\* The network breaks a connection; what was not read is lost.
Reset(p) ==
    /\ tcp_pc[p] \in {"transmit", "close"}
    /\ chan[p] # "rst"
    /\ chan' = [chan EXCEPT ![p] = "rst"]
    /\ UNCHANGED <<tcp_pc, offered, backlog, serverVars, aplog>>

-----------------------------------------------------------------------------
(* The controller *)

\* main: open the database, create the table if there is none, listen.
StartServer ==
    /\ server_pc = "down"
    /\ server_pc' = "select"
    /\ client_sockfds' = [i \in Slots |-> 0]
    /\ UNCHANGED <<connVars, backlog, fds, read_fdset, slot, aplog>>

Readable(d) == fds[d] # NoProc /\ chan[fds[d]] # "none"

Tracked == {client_sockfds[i] : i \in Slots} \ {0}

ReadyAll ==   \* mutant: read_fdset is used as it was before select
    Tracked \cup (IF backlog # <<>> THEN {0} ELSE {})

\* select returns what is ready of server_sockfd and of the slots.
Ready == {d \in Tracked : Readable(d)} \cup (IF backlog # <<>> THEN {0} ELSE {})

Select ==
    /\ server_pc = "select"
    /\ Ready # {}
    /\ read_fdset' = Ready
    /\ server_pc' = "accept"
    /\ UNCHANGED <<connVars, backlog, fds, client_sockfds, slot, aplog>>

FreeFds == {d \in Descriptors : fds[d] = NoProc}
FreeSlots == {i \in Slots : client_sockfds[i] = 0}
Lowest(S) == CHOOSE x \in S : \A y \in S : x <= y

\* accept takes the oldest connection on the lowest free descriptor, and the
\* descriptor goes to the first free slot, if there is one.
TakeSlot(d) ==
    IF FreeSlots = {} THEN client_sockfds
    ELSE [client_sockfds EXCEPT ![Lowest(FreeSlots)] = d]

Accept ==
    /\ server_pc = "accept"
    /\ 0 \in read_fdset
    /\ FreeFds # {}
    /\ fds' = [fds EXCEPT ![Lowest(FreeFds)] = Head(backlog)]
    /\ backlog' = Tail(backlog)
    /\ client_sockfds' = TakeSlot(Lowest(FreeFds))
    /\ server_pc' = "serve"
    /\ slot' = 1
    /\ UNCHANGED <<connVars, read_fdset, aplog>>

NoAccept ==
    /\ server_pc = "accept"
    /\ 0 \notin read_fdset
    /\ server_pc' = "serve"
    /\ slot' = 1
    /\ UNCHANGED <<connVars, backlog, fds, client_sockfds, read_fdset, aplog>>

\* The process is gone, and with it every connection: the kernel resets them.
\* The tcpclients that had not finished see that, the others never know.
Exit ==
    /\ server_pc' = "down"
    /\ fds' = [d \in Descriptors |-> NoProc]
    /\ client_sockfds' = [i \in Slots |-> 0]
    /\ read_fdset' = {}
    /\ slot' = 1
    /\ backlog' = <<>>
    /\ chan' = [p \in Procs |->
          IF tcp_pc[p] = "connect" THEN "none" ELSE "rst"]
    /\ UNCHANGED <<tcp_pc, offered>>

\* accept fails, for want of a descriptor or because client_len, which nothing
\* initializes before the first accept, is no length: error("accept") ends the
\* process.
AcceptFails ==
    /\ server_pc = "accept"
    /\ 0 \in read_fdset
    /\ Exit
    /\ UNCHANGED aplog

NextSlotPast ==   \* mutant: the loop goes on behind the last slot
    IF slot <= MaxClients THEN slot' = slot + 1 /\ UNCHANGED server_pc
    ELSE slot' = 1 /\ server_pc' = "select"

NextSlotShort ==   \* mutant: the loop stops before the last slot
    IF slot < MaxClients - 1 THEN slot' = slot + 1 /\ UNCHANGED server_pc
    ELSE slot' = 1 /\ server_pc' = "select"

\* The loop goes on to the next slot, and after the last one to select.
NextSlot ==
    IF slot < MaxClients THEN slot' = slot + 1 /\ UNCHANGED server_pc
    ELSE slot' = 1 /\ server_pc' = "select"

Sd == client_sockfds[slot]
Selected == server_pc = "serve" /\ Sd \in read_fdset \ {0}

\* FD_ISSET is false for this slot.
Skip ==
    /\ server_pc = "serve"
    /\ ~Selected
    /\ NextSlot
    /\ UNCHANGED <<connVars, backlog, fds, client_sockfds, read_fdset, aplog>>

SaveAnyKey(rec) ==   \* mutant: no primary key
    aplog' = IF rec.quote THEN aplog ELSE aplog \cup {Row(rec)}

\* The INSERT.  sqlite refuses it when the key is taken or a quotation mark has
\* ended the SQL string; that is only printed.
process_and_save(rec) ==
    aplog' = IF rec.quote \/ \E row \in aplog : Sink!Key(row) = Sink!Key(rec)
             THEN aplog ELSE aplog \cup {Row(rec)}

ServeDataUnlessFin ==   \* mutant: a closed connection is not read any more
    /\ Selected
    /\ \/ /\ chan[fds[Sd]] = "data"
          /\ process_and_save(RecordOf[fds[Sd]])
          /\ chan' = [chan EXCEPT ![fds[Sd]] = "none"]
       \/ /\ chan[fds[Sd]] = "data+fin"
          /\ chan' = [chan EXCEPT ![fds[Sd]] = "fin"]
          /\ UNCHANGED aplog
    /\ NextSlot
    /\ UNCHANGED <<tcp_pc, offered, backlog, fds, client_sockfds, read_fdset>>

\* read returns the command, which is decoded and saved.
ServeData ==
    /\ Selected
    /\ chan[fds[Sd]] \in {"data", "data+fin"}
    /\ process_and_save(RecordOf[fds[Sd]])
    /\ chan' = [chan EXCEPT ![fds[Sd]] = IF @ = "data" THEN "none" ELSE "fin"]
    /\ NextSlot
    /\ UNCHANGED <<tcp_pc, offered, backlog, fds, client_sockfds, read_fdset>>

ServeCloseKeeps ==   \* mutant: the slot is not set to 0
    /\ Selected
    /\ chan[fds[Sd]] = "fin"
    /\ fds' = [fds EXCEPT ![Sd] = NoProc]
    /\ NextSlot
    /\ UNCHANGED <<connVars, backlog, client_sockfds, read_fdset, aplog>>

\* read returns 0: the peer has closed.
ServeClose ==
    /\ Selected
    /\ chan[fds[Sd]] = "fin"
    /\ fds' = [fds EXCEPT ![Sd] = NoProc]
    /\ client_sockfds' = [client_sockfds EXCEPT ![slot] = 0]
    /\ NextSlot
    /\ UNCHANGED <<connVars, backlog, read_fdset, aplog>>

\* read returns -1, the buffer is empty, and the decoder runs from the NULL
\* that index() returned.
ServeReset ==
    /\ Selected
    /\ chan[fds[Sd]] = "rst"
    /\ Exit
    /\ UNCHANGED aplog

\* The NULL that ends strtok's fields is written to split_str[8], outside the
\* array (and farther out when the data has commas): the process may end,
\* before or after the INSERT.
ServeOverflow ==
    /\ Selected
    /\ chan[fds[Sd]] \in {"data", "data+fin"}
    /\ Exit
    /\ UNCHANGED aplog \/ process_and_save(RecordOf[fds[Sd]])

-----------------------------------------------------------------------------

TcpClient(p) == connect_client(p) \/ transmit(p) \/ cleanup(p)

Loop ==
    \/ Select \/ Accept \/ NoAccept \/ AcceptFails
    \/ Skip \/ ServeData \/ ServeClose \/ ServeReset \/ ServeOverflow

Next ==
    \/ \E p \in Procs : TcpClient(p) \/ Reset(p)
    \/ StartServer
    \/ Loop

Spec == Init /\ [][Next]_vars

\* Processes that can run do; nothing says that a controller that is down is
\* started again.
FairSpec ==
    /\ Spec
    /\ \A p \in Procs : WF_vars(TcpClient(p))
    /\ WF_vars(Loop)

-----------------------------------------------------------------------------
(* Properties. *)

Chans == {"none", "data", "fin", "data+fin", "rst"}

\* The variables have their types: the loop never leaves client_sockfds, and a
\* slot holds a descriptor or 0.  Where the loop stands fits what select has
\* said: accept is only reached with something to do and, when the server's bit
\* is set, with a connection still waiting, so that it does not block either; a
\* pass starts at the first slot and leaves no bit behind for the next process.
\* (controller.cpp:237-298.)
TypeOK ==
    /\ tcp_pc \in [Procs -> {"connect", "transmit", "close", "done"}]
    /\ chan \in [Procs -> Chans]
    /\ backlog \in Seq(Procs)
    /\ fds \in [Descriptors -> Procs \cup {NoProc}]
    /\ client_sockfds \in [Slots -> Descriptors \cup {0}]
    /\ server_pc \in {"down", "select", "accept", "serve"}
    /\ read_fdset \subseteq Descriptors \cup {0}
    /\ slot \in Slots
    /\ offered \subseteq Records
    /\ aplog \subseteq {Row(rec) : rec \in Records}
    /\ server_pc = "accept" => read_fdset # {} /\ (0 \in read_fdset => backlog # <<>>)
    /\ server_pc # "serve" => slot = 1
    /\ server_pc = "down" => read_fdset = {} /\ backlog = <<>>

\* A slot that select reported is still readable when the loop comes to it,
\* whatever connections arrived or ended since: the controller never blocks in
\* read on one client and leaves the others unserved.  (controller.cpp:262
\* fills read_fdset, 276 and 315 reuse descriptors, 308 reads.)
NeverBlocksInRead ==
    Selected => fds[Sd] # NoProc /\ chan[fds[Sd]] # "none"

\* No descriptor is in two slots and none is there after it was closed, so a
\* connection is never read or closed through another's slot.
\* (controller.cpp:285-292, 315-316.)
SlotsConsistent ==
    /\ \A i \in Slots : client_sockfds[i] # 0 => fds[client_sockfds[i]] # NoProc
    /\ \A i, j \in Slots :
          (client_sockfds[i] = client_sockfds[j] /\ client_sockfds[i] # 0) => i = j
    /\ \A d, e \in Descriptors : (fds[d] = fds[e] /\ fds[d] # NoProc) => d = e
    /\ \A d \in Descriptors, k \in DOMAIN backlog : fds[d] # backlog[k]

\* A tcpclient that wrote a record sqlite understands, and was not cut off,
\* finds the key in the table once the record has been read: reading and saving
\* are not separable, and a refused INSERT means that the key is there.
\* (controller.cpp:308-352.)
ReadMeansStored ==
    \A p \in Procs :
        (/\ tcp_pc[p] \in {"close", "done"}
         /\ chan[p] \in {"none", "fin"}
         /\ ~RecordOf[p].quote) =>
            \E row \in aplog : Sink!Key(row) = Sink!Key(RecordOf[p])

\* The controller implements the sink: rows come from offered records, one per
\* key, and a crash takes none away.
ImplementsSink == Sink!Spec

Leaked(p) == \E d \in Descriptors \ Tracked : fds[d] = p

\* What was written is read, unless the connection is cut off or was accepted
\* when no slot was free: select and the slots starve nobody else.
\* (controller.cpp:236-360.)
RecordsRead ==
    \A p \in Procs :
        (chan[p] \in {"data", "data+fin"}) ~>
            (chan[p] \notin {"data", "data+fin"} \/ Leaked(p))

\* If the controller is up from some point on, every tcpclient comes to its
\* end, even when connections leak: no access point stays in system() for
\* ever.  (The endless retry of client.cpp:72 and the backlog.)
TcpClientEnds ==
    <>[](server_pc # "down") => \A p \in Procs : <>(tcp_pc[p] = "done")
=============================================================================
