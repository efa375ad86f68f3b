-------------------------- MODULE ControllerProofs --------------------------
(***************************************************************************)
(* Proofs about the controller, for any number of tcpclients, slots and    *)
(* descriptors: types, slots and descriptors that agree, a serving loop    *)
(* that never blocks, reading that means storing, and the refinement of    *)
(* RecordSink.                                                             *)
(***************************************************************************)
EXTENDS Controller, TLAPS, WellFoundedInduction

\* A process that has not connected is in no queue and behind no descriptor,
\* and nobody waits twice for accept.
Connections ==
    /\ \A p \in Procs : tcp_pc[p] = "connect" =>
          /\ \A d \in Descriptors : fds[d] # p
          /\ \A k \in DOMAIN backlog : backlog[k] # p
    /\ \A j, k \in DOMAIN backlog : backlog[j] = backlog[k] => j = k

\* What select reported is still there.  Before accept this is so for every
\* descriptor, in the serving loop for the slots it has not come to yet: the
\* earlier ones may have been read or closed, and accept may have filled one
\* with a descriptor that was free when select returned.
Pending ==
    /\ server_pc = "accept" => \A d \in read_fdset \ {0} : Readable(d)
    /\ server_pc = "serve" =>
          \A i \in slot .. MaxClients :
              client_sockfds[i] \in read_fdset \ {0} => Readable(client_sockfds[i])

\* What can be read was offered.
DataOffered ==
    \A p \in Procs : chan[p] \in {"data", "data+fin"} => RecordOf[p] \in offered

\* What a step keeps.
IInv ==
    TypeOK /\ SlotsConsistent /\ Connections /\ Pending /\ DataOffered
        /\ ReadMeansStored

-----------------------------------------------------------------------------
(* Facts the proofs keep needing. *)

\* The lowest descriptor or slot of a set that is not empty is in the set.
LEMMA LowestIsIn ==
    ASSUME NEW S, S \subseteq Nat, S # {}
    PROVE  Lowest(S) \in S
  <1> DEFINE R == {ss \in Nat \X Nat : ss[1] < ss[2]}
  <1>1. PICK x \in S : \A y \in S : <<y, x>> \notin R
    <2>1. IsWellFoundedOn(R, Nat)
      BY NatLessThanWellFounded, Zenon DEF OpToRel
    <2> HIDE DEF R
    <2>2. QED
      BY <2>1, WFMin
  <1>2. ASSUME NEW y \in S PROVE x <= y
    <2>1. x \in Nat /\ y \in Nat /\ <<y, x>> \notin R
      BY <1>1
    <2>2. <<y, x>> \in Nat \X Nat /\ <<y, x>>[1] = y /\ <<y, x>>[2] = x
      BY <2>1
    <2>3. ~(y < x)
      BY <2>1, <2>2 DEF R
    <2>4. QED
      BY <2>1, <2>3
  <1>3. QED
    BY <1>2 DEF Lowest

\* accept: the descriptor was free, so was the slot, and the connection is one
\* that waited.
LEMMA AcceptTakes ==
    ASSUME TypeOK, Pending, Accept
    PROVE  /\ Lowest(FreeFds) \in Descriptors /\ fds[Lowest(FreeFds)] = NoProc
           /\ FreeSlots # {} => /\ Lowest(FreeSlots) \in Slots
                                /\ client_sockfds[Lowest(FreeSlots)] = 0
           /\ backlog # <<>> /\ Head(backlog) \in Procs /\ Head(backlog) = backlog[1]
           /\ Tail(backlog) \in Seq(Procs) /\ Len(Tail(backlog)) = Len(backlog) - 1
           /\ \A k \in DOMAIN Tail(backlog) :
                 k + 1 \in DOMAIN backlog /\ Tail(backlog)[k] = backlog[k + 1]
  <1>1. Lowest(FreeFds) \in FreeFds
    <2>1. FreeFds \subseteq Nat  BY DEF FreeFds, Descriptors
    <2>2. QED  BY <2>1, LowestIsIn DEF Accept
  <1>2. ASSUME FreeSlots # {} PROVE Lowest(FreeSlots) \in FreeSlots
    <2>1. FreeSlots \subseteq Nat  BY DEF FreeSlots, Slots
    <2>2. QED  BY <1>2, <2>1, LowestIsIn
  <1>3. backlog # <<>> /\ backlog \in Seq(Procs)
    BY DEF Accept, TypeOK
  <1>4. QED
    BY <1>1, <1>2, <1>3 DEF FreeFds, FreeSlots

\* The slot that the loop reads holds an open descriptor with something to read.
LEMMA SelectedIsOpen ==
    ASSUME TypeOK, Pending, Selected
    PROVE  /\ server_pc = "serve" /\ slot \in Slots /\ slot \in slot .. MaxClients
           /\ Sd = client_sockfds[slot] /\ Sd \in Descriptors /\ Sd # 0
           /\ fds[Sd] \in Procs /\ chan[fds[Sd]] # "none"
  <1>1. slot \in Slots /\ slot \in slot .. MaxClients
    BY LimitsAssumption DEF TypeOK, Slots
  <1>2. server_pc = "serve" /\ Sd \in read_fdset \ {0}
    BY DEF Selected
  <1>3. Readable(client_sockfds[slot])
    BY <1>1, <1>2 DEF Pending, Sd
  <1>4. Sd \in Descriptors /\ Sd # 0
    BY <1>1, <1>2 DEF TypeOK, Sd
  <1>5. QED
    BY <1>1, <1>2, <1>3, <1>4 DEF Readable, Sd, TypeOK

\* The slot counter stays within the slots.
LEMMA NextSlotTyped ==
    ASSUME TypeOK, NextSlot
    PROVE  /\ slot' \in Slots
           /\ server_pc' \in {server_pc, "select"}
           /\ server_pc' = server_pc /\ server_pc # "select" => slot' = slot + 1
           /\ server_pc' = "select" /\ server_pc = "serve" => slot' = 1
  BY LimitsAssumption DEF NextSlot, TypeOK, Slots

\* A row keeps the key and the quotation mark of its record.
LEMMA RowKeepsKey ==
    ASSUME NEW p \in Procs
    PROVE  Sink!Key(Row(RecordOf[p])) = Sink!Key(RecordOf[p])
  BY RecordAssumption DEF Row, Sink!Key

\* What Next offers, one action at a time.
LEMMA Actions ==
    ASSUME Next
    PROVE  \/ \E p \in Procs : \/ connect_client(p) \/ transmit(p) \/ cleanup(p)
                               \/ Reset(p)
           \/ StartServer \/ Select \/ Accept \/ NoAccept \/ AcceptFails
           \/ Skip \/ ServeData \/ ServeClose \/ ServeReset \/ ServeOverflow
  BY DEF Next, TcpClient, Loop

-----------------------------------------------------------------------------
(* Types *)

\* The end of the process leaves a typed state.
LEMMA TypeExit ==
    ASSUME TypeOK, Exit, aplog' \subseteq {Row(rec) : rec \in Records}
    PROVE  TypeOK'
  <1>1. chan' \in [Procs -> Chans]
    BY DEF Exit, Chans
  <1>2. backlog' \in Seq(Procs)
    BY DEF Exit
  <1>3. fds' \in [Descriptors -> Procs \cup {NoProc}]
        /\ client_sockfds' \in [Slots -> Descriptors \cup {0}]
    BY DEF Exit
  <1>4. slot' \in Slots
    BY LimitsAssumption DEF Exit, Slots
  <1>5. QED
    BY <1>1, <1>2, <1>3, <1>4 DEF TypeOK, Exit

\* What is saved is the row of a record.
LEMMA SaveTyped ==
    ASSUME TypeOK, NEW p \in Procs, process_and_save(RecordOf[p])
    PROVE  aplog' \subseteq {Row(rec) : rec \in Records}
  BY DEF process_and_save, TypeOK, Records

\* Every step keeps the types.
LEMMA TypeStep == TypeOK /\ Pending /\ [Next]_vars => TypeOK'
  <1> SUFFICES ASSUME TypeOK, Pending, [Next]_vars PROVE TypeOK'
    OBVIOUS
  <1> USE DEF Chans
  <1>1. CASE UNCHANGED vars
    BY <1>1 DEF TypeOK, vars, connVars, serverVars
  <1>2. ASSUME NEW p \in Procs, connect_client(p) PROVE TypeOK'
    <2>1. backlog' \in Seq(Procs) /\ backlog' # <<>>
      BY <1>2 DEF connect_client, TypeOK
    <2>2. QED
      BY <1>2, <2>1 DEF connect_client, TypeOK, serverVars
  <1>3. ASSUME NEW p \in Procs, transmit(p) PROVE TypeOK'
    BY <1>3 DEF transmit, TypeOK, serverVars, Records
  <1>4. ASSUME NEW p \in Procs, cleanup(p) PROVE TypeOK'
    <2>1. chan' \in [Procs -> Chans]
      BY <1>4 DEF cleanup, TypeOK, AddFin
    <2>2. tcp_pc' \in [Procs -> {"connect", "transmit", "close", "done"}]
      BY <1>4 DEF cleanup, TypeOK
    <2>3. QED
      BY <1>4, <2>1, <2>2 DEF cleanup, TypeOK, serverVars
  <1>5. ASSUME NEW p \in Procs, Reset(p) PROVE TypeOK'
    BY <1>5 DEF Reset, TypeOK, serverVars
  <1>6. CASE StartServer
    BY <1>6 DEF StartServer, TypeOK, connVars
  <1>7. CASE Select
    <2>1. read_fdset' \subseteq Descriptors \cup {0}
      BY <1>7 DEF Select, Ready, Tracked, TypeOK
    <2>2. read_fdset' # {} /\ (0 \in read_fdset' => backlog' # <<>>)
      BY <1>7 DEF Select, Ready, Tracked
    <2>3. QED
      BY <1>7, <2>1, <2>2 DEF Select, TypeOK, connVars
  <1>8. CASE Accept
    <2>1. fds' \in [Descriptors -> Procs \cup {NoProc}]
      BY <1>8, AcceptTakes DEF Accept, TypeOK
    <2>2. client_sockfds' \in [Slots -> Descriptors \cup {0}]
      BY <1>8, AcceptTakes DEF Accept, TakeSlot, TypeOK
    <2>3. backlog' \in Seq(Procs)
      BY <1>8, AcceptTakes DEF Accept
    <2>4. slot' \in Slots
      BY <1>8, LimitsAssumption DEF Accept, Slots
    <2>5. QED
      BY <1>8, <2>1, <2>2, <2>3, <2>4 DEF Accept, TypeOK, connVars
  <1>9. CASE NoAccept
    BY <1>9, LimitsAssumption DEF NoAccept, TypeOK, connVars, Slots
  <1>10. CASE AcceptFails \/ ServeReset
    BY <1>10, TypeExit DEF AcceptFails, ServeReset, TypeOK
  <1>11. CASE Skip
    BY <1>11, NextSlotTyped DEF Skip, TypeOK, connVars
  <1>12. CASE ServeData
    <2>1. fds[Sd] \in Procs
      BY <1>12, SelectedIsOpen DEF ServeData
    <2>2. chan' \in [Procs -> Chans]
      BY <1>12, <2>1 DEF ServeData, TypeOK
    <2>3. aplog' \subseteq {Row(rec) : rec \in Records}
      BY <1>12, <2>1, SaveTyped DEF ServeData
    <2>4. QED
      BY <1>12, <2>2, <2>3, NextSlotTyped DEF ServeData, Selected, TypeOK
  <1>13. CASE ServeClose
    BY <1>13, NextSlotTyped DEF ServeClose, Selected, TypeOK, connVars
  <1>14. CASE ServeOverflow
    <2>1. fds[Sd] \in Procs /\ Exit
      BY <1>14, SelectedIsOpen DEF ServeOverflow
    <2>2. aplog' \subseteq {Row(rec) : rec \in Records}
      BY <1>14, <2>1, SaveTyped DEF ServeOverflow, TypeOK
    <2>3. QED
      BY <2>1, <2>2, TypeExit
  <1>15. QED
    BY <1>1, <1>2, <1>3, <1>4, <1>5, <1>6, <1>7, <1>8, <1>9, <1>10, <1>11, <1>12,
       <1>13, <1>14, Actions

-----------------------------------------------------------------------------
(* Slots, descriptors and connections *)

\* The end of the process leaves no slot, no descriptor and nobody waiting.
LEMMA ExitEmpties ==
    ASSUME Exit
    PROVE  SlotsConsistent' /\ Connections' /\ Pending'
  <1>1. /\ \A d \in Descriptors : fds'[d] = NoProc
        /\ \A i \in Slots : client_sockfds'[i] = 0
        /\ backlog' = <<>> /\ server_pc' = "down"
    BY DEF Exit
  <1>2. DOMAIN backlog' = {}
    BY <1>1
  <1>3. SlotsConsistent'
    BY <1>1, <1>2 DEF SlotsConsistent
  <1>4. Connections'
    BY <1>1, <1>2, NoProcAssumption DEF Connections, NoProc
  <1>5. Pending'
    BY <1>1 DEF Pending
  <1>6. QED
    BY <1>3, <1>4, <1>5

\* Every step keeps slots and descriptors in agreement.
LEMMA SlotsStep ==
    TypeOK /\ Pending /\ Connections /\ SlotsConsistent /\ [Next]_vars
        => SlotsConsistent'
  <1> SUFFICES ASSUME TypeOK, Pending, Connections, SlotsConsistent, [Next]_vars
               PROVE  SlotsConsistent'
    OBVIOUS
  <1>1. CASE UNCHANGED <<fds, client_sockfds, backlog>>
    BY <1>1 DEF SlotsConsistent
  <1>2. ASSUME NEW p \in Procs, connect_client(p) PROVE SlotsConsistent'
    <2>1. /\ backlog' = Append(backlog, p) /\ tcp_pc[p] = "connect"
          /\ UNCHANGED <<fds, client_sockfds>>
      BY <1>2 DEF connect_client, serverVars
    <2>2. \A d \in Descriptors, k \in DOMAIN backlog' : fds[d] # backlog'[k]
      BY <2>1 DEF SlotsConsistent, Connections, TypeOK
    <2>3. QED
      BY <2>1, <2>2 DEF SlotsConsistent
  <1>3. CASE StartServer
    <2>1. \A i \in Slots : client_sockfds'[i] = 0
      BY <1>3 DEF StartServer
    <2>2. UNCHANGED <<fds, backlog>>
      BY <1>3 DEF StartServer
    <2>3. QED
      BY <2>1, <2>2 DEF SlotsConsistent
  <1>4. CASE Accept
    <2> DEFINE d0 == Lowest(FreeFds)
               i0 == Lowest(FreeSlots)
               q == Head(backlog)
    <2>1. /\ d0 \in Descriptors /\ fds[d0] = NoProc /\ q \in Procs
          /\ FreeSlots # {} => i0 \in Slots /\ client_sockfds[i0] = 0
      BY <1>4, AcceptTakes
    <2> HIDE DEF d0, i0, q
    <2>2. fds' = [fds EXCEPT ![d0] = q] /\ backlog' = Tail(backlog)
      BY <1>4 DEF Accept, d0, q
    <2>3. client_sockfds' = IF FreeSlots = {} THEN client_sockfds
                            ELSE [client_sockfds EXCEPT ![i0] = d0]
      BY <1>4 DEF Accept, TakeSlot, d0, i0
    <2>4. q # NoProc
      BY <2>1, NoProcAssumption DEF NoProc
    <2>5. \A d \in Descriptors : fds[d] # q
      BY <1>4, AcceptTakes DEF SlotsConsistent, q
    <2>6. \A k \in DOMAIN backlog' : backlog'[k] # q
      BY <1>4, <2>2, AcceptTakes DEF Connections, q, TypeOK
    <2>7. \A k \in DOMAIN backlog', d \in Descriptors : fds[d] # backlog'[k]
      BY <1>4, <2>2, AcceptTakes DEF SlotsConsistent
    <2>8. \A i \in Slots : client_sockfds[i] # d0
      BY <2>1 DEF SlotsConsistent, TypeOK, Descriptors
    <2>9. \A i \in Slots : client_sockfds'[i] # 0 => fds'[client_sockfds'[i]] # NoProc
      BY <2>1, <2>2, <2>3, <2>4 DEF SlotsConsistent, TypeOK
    <2>10. \A i, j \in Slots :
              (client_sockfds'[i] = client_sockfds'[j] /\ client_sockfds'[i] # 0) => i = j
      BY <2>1, <2>3, <2>8 DEF SlotsConsistent, TypeOK
    <2>11. \A d, e \in Descriptors : (fds'[d] = fds'[e] /\ fds'[d] # NoProc) => d = e
      BY <2>1, <2>2, <2>5 DEF SlotsConsistent, TypeOK
    <2>12. \A d \in Descriptors, k \in DOMAIN backlog' : fds'[d] # backlog'[k]
      BY <2>1, <2>2, <2>6, <2>7 DEF TypeOK
    <2>13. QED
      BY <2>9, <2>10, <2>11, <2>12 DEF SlotsConsistent
  <1>5. CASE ServeClose
    <2>1. slot \in Slots /\ Sd \in Descriptors /\ Sd = client_sockfds[slot] /\ Sd # 0
      BY <1>5, SelectedIsOpen DEF ServeClose
    <2>2. /\ fds' = [fds EXCEPT ![Sd] = NoProc] /\ UNCHANGED backlog
          /\ client_sockfds' = [client_sockfds EXCEPT ![slot] = 0]
      BY <1>5 DEF ServeClose
    <2>3. \A i \in Slots : client_sockfds'[i] # 0 =>
             client_sockfds'[i] = client_sockfds[i] /\ client_sockfds[i] # Sd
      BY <2>1, <2>2 DEF SlotsConsistent, TypeOK
    <2>4. \A i \in Slots : client_sockfds'[i] # 0 => fds'[client_sockfds'[i]] # NoProc
      BY <2>1, <2>2, <2>3 DEF SlotsConsistent, TypeOK
    <2>5. \A i, j \in Slots :
             (client_sockfds'[i] = client_sockfds'[j] /\ client_sockfds'[i] # 0) => i = j
      BY <2>3 DEF SlotsConsistent
    <2>6. \A d, e \in Descriptors : (fds'[d] = fds'[e] /\ fds'[d] # NoProc) => d = e
      BY <2>1, <2>2 DEF SlotsConsistent, TypeOK
    <2>7. \A d \in Descriptors, k \in DOMAIN backlog' : fds'[d] # backlog'[k]
      <3>1. \A k \in DOMAIN backlog : backlog[k] # NoProc
        BY NoProcAssumption DEF TypeOK, NoProc
      <3>2. QED
        BY <2>1, <2>2, <3>1 DEF SlotsConsistent, TypeOK
    <2>8. QED
      BY <2>4, <2>5, <2>6, <2>7 DEF SlotsConsistent
  <1>6. CASE AcceptFails \/ ServeReset \/ ServeOverflow
    BY <1>6, ExitEmpties DEF AcceptFails, ServeReset, ServeOverflow
  <1>7. ASSUME NEW p \in Procs, transmit(p) \/ cleanup(p) \/ Reset(p)
        PROVE  UNCHANGED <<fds, client_sockfds, backlog>>
    BY <1>7 DEF transmit, cleanup, Reset, serverVars
  <1>8. ASSUME Select \/ NoAccept \/ Skip \/ ServeData
        PROVE  UNCHANGED <<fds, client_sockfds, backlog>>
    BY <1>8 DEF Select, NoAccept, Skip, ServeData
  <1>9. ASSUME UNCHANGED vars PROVE UNCHANGED <<fds, client_sockfds, backlog>>
    BY <1>9 DEF vars, serverVars
  <1>10. QED
    BY <1>1, <1>2, <1>3, <1>4, <1>5, <1>6, <1>7, <1>8, <1>9, Actions

\* Every step keeps connections apart.
LEMMA ConnectionsStep ==
    TypeOK /\ Pending /\ Connections /\ SlotsConsistent /\ [Next]_vars
        => Connections'
  <1> SUFFICES ASSUME TypeOK, Pending, Connections, SlotsConsistent, [Next]_vars
               PROVE  Connections'
    OBVIOUS
  <1>1. CASE UNCHANGED <<fds, backlog>> /\
             \A p \in Procs : tcp_pc'[p] = "connect" => tcp_pc[p] = "connect"
    BY <1>1 DEF Connections
  <1>2. ASSUME NEW p \in Procs, connect_client(p) PROVE Connections'
    <2>1. /\ backlog' = Append(backlog, p) /\ tcp_pc[p] = "connect"
          /\ tcp_pc' = [tcp_pc EXCEPT ![p] = "transmit"] /\ UNCHANGED fds
      BY <1>2 DEF connect_client, serverVars
    <2>2. \A k \in DOMAIN backlog : backlog[k] # p
      BY <2>1 DEF Connections
    <2>3. \A j, k \in DOMAIN backlog' : backlog'[j] = backlog'[k] => j = k
      BY <2>1, <2>2 DEF Connections, TypeOK
    <2>4. ASSUME NEW o \in Procs, tcp_pc'[o] = "connect"
          PROVE  o # p /\ tcp_pc[o] = "connect"
      BY <2>1, <2>4 DEF TypeOK
    <2>5. ASSUME NEW o \in Procs, tcp_pc'[o] = "connect"
          PROVE  /\ \A d \in Descriptors : fds'[d] # o
                 /\ \A k \in DOMAIN backlog' : backlog'[k] # o
      BY <2>1, <2>4, <2>5 DEF Connections, TypeOK
    <2>6. QED
      BY <2>3, <2>5 DEF Connections
  <1>3. CASE Accept
    <2>1. /\ fds' = [fds EXCEPT ![Lowest(FreeFds)] = backlog[1]]
          /\ UNCHANGED tcp_pc /\ backlog # <<>>
      BY <1>3, AcceptTakes DEF Accept, connVars
    <2>2. \A k \in DOMAIN backlog' :
             k \in Nat /\ k + 1 \in DOMAIN backlog /\ backlog'[k] = backlog[k + 1]
      BY <1>3, AcceptTakes DEF Accept, TypeOK
    <2>3. 1 \in DOMAIN backlog
      BY <2>1 DEF TypeOK
    <2>4. ASSUME NEW o \in Procs, tcp_pc'[o] = "connect"
          PROVE  /\ \A d \in Descriptors : fds'[d] # o
                 /\ \A k \in DOMAIN backlog' : backlog'[k] # o
      BY <2>1, <2>2, <2>3, <2>4 DEF Connections, TypeOK
    <2>5. \A j, k \in DOMAIN backlog' : backlog'[j] = backlog'[k] => j = k
      BY <2>2 DEF Connections
    <2>6. QED
      BY <2>4, <2>5 DEF Connections
  <1>4. CASE ServeClose
    <2>1. fds' = [fds EXCEPT ![Sd] = NoProc] /\ UNCHANGED <<tcp_pc, backlog>>
      BY <1>4 DEF ServeClose, connVars
    <2>2. \A o \in Procs : o # NoProc
      BY NoProcAssumption DEF NoProc
    <2>3. QED
      BY <2>1, <2>2 DEF Connections, TypeOK
  <1>5. CASE AcceptFails \/ ServeReset \/ ServeOverflow
    BY <1>5, ExitEmpties DEF AcceptFails, ServeReset, ServeOverflow
  <1>6. ASSUME NEW p \in Procs, transmit(p) \/ cleanup(p) \/ Reset(p)
        PROVE  Connections'
    <2>1. UNCHANGED <<fds, backlog>>
      BY <1>6 DEF transmit, cleanup, Reset, serverVars
    <2>2. \A o \in Procs : tcp_pc'[o] = "connect" => tcp_pc[o] = "connect"
      BY <1>6 DEF transmit, cleanup, Reset, TypeOK
    <2>3. QED
      BY <1>1, <2>1, <2>2
  <1>7. CASE StartServer \/ Select \/ NoAccept \/ Skip \/ ServeData
    BY <1>1, <1>7 DEF StartServer, Select, NoAccept, Skip, ServeData, connVars
  <1>8. CASE UNCHANGED vars
    BY <1>1, <1>8 DEF vars, serverVars, connVars
  <1>9. QED
    BY <1>2, <1>3, <1>4, <1>5, <1>6, <1>7, <1>8, Actions

-----------------------------------------------------------------------------
(* What select reported *)

\* A descriptor that is readable stays so while no descriptor is closed and
\* nobody's connection becomes empty.
LEMMA StillReadable ==
    ASSUME TypeOK, UNCHANGED fds, NEW d \in Descriptors, Readable(d),
           \A p \in Procs : chan[p] # "none" => chan'[p] # "none"
    PROVE  Readable(d)'
  BY DEF Readable, TypeOK

\* Nor does a step of a tcpclient or of the network disturb what is pending.
LEMMA PendingByClients ==
    ASSUME TypeOK, Pending, NEW p \in Procs,
           connect_client(p) \/ transmit(p) \/ cleanup(p) \/ Reset(p)
    PROVE  Pending'
  <1>1. UNCHANGED serverVars
    BY DEF connect_client, transmit, cleanup, Reset
  <1>2. \A o \in Procs : chan[o] # "none" => chan'[o] # "none"
    BY DEF connect_client, transmit, cleanup, Reset, AddFin, TypeOK
  <1>3. \A d \in Descriptors : Readable(d) => Readable(d)'
    BY <1>1, <1>2, StillReadable DEF serverVars
  <1>4. ASSUME server_pc = "accept"
        PROVE  \A d \in read_fdset' \ {0} : Readable(d)'
    BY <1>1, <1>3, <1>4 DEF Pending, serverVars, TypeOK
  <1>5. ASSUME server_pc = "serve", NEW i \in slot .. MaxClients,
               client_sockfds[i] \in read_fdset \ {0}
        PROVE  Readable(client_sockfds[i])'
    BY <1>1, <1>3, <1>5 DEF Pending, serverVars, TypeOK
  <1>6. QED
    BY <1>1, <1>4, <1>5 DEF Pending, serverVars

\* After the slot that was served the loop finds the later ones as they were.
LEMMA PendingAfterSlot ==
    ASSUME TypeOK, Pending, server_pc = "serve", NextSlot, UNCHANGED read_fdset,
           \A i \in Slots : i > slot /\ client_sockfds[i] \in read_fdset \ {0}
                              /\ Readable(client_sockfds[i]) =>
               /\ client_sockfds'[i] = client_sockfds[i]
               /\ Readable(client_sockfds[i])',
           \A i \in Slots : i > slot => client_sockfds'[i] = client_sockfds[i]
    PROVE  Pending'
  <1>1. CASE server_pc' = "select"
    BY <1>1 DEF Pending
  <1>2. CASE server_pc' = "serve" /\ slot' = slot + 1
    <2>1. ASSUME NEW i \in slot' .. MaxClients,
                 client_sockfds'[i] \in read_fdset' \ {0}
          PROVE  Readable(client_sockfds[i])' /\ client_sockfds'[i] = client_sockfds[i]
      <3>1. i \in Slots /\ i > slot /\ i \in slot .. MaxClients
        BY <1>2, <2>1, LimitsAssumption DEF TypeOK, Slots
      <3>2. client_sockfds[i] \in read_fdset \ {0}
        BY <2>1, <3>1
      <3>3. QED
        BY <3>1, <3>2 DEF Pending
    <2>2. QED
      BY <1>2, <2>1 DEF Pending, Readable
  <1>3. QED
    BY <1>1, <1>2, NextSlotTyped

\* Every step of the controller keeps what is pending.
LEMMA PendingStep ==
    TypeOK /\ Pending /\ SlotsConsistent /\ [Next]_vars => Pending'
  <1> SUFFICES ASSUME TypeOK, Pending, SlotsConsistent, [Next]_vars
               PROVE  Pending'
    OBVIOUS
  <1>1. CASE UNCHANGED vars
    BY <1>1 DEF Pending, Readable, vars, connVars, serverVars
  <1>2. CASE StartServer
    BY <1>2 DEF StartServer, Pending
  <1>3. CASE Select
    <2>1. /\ read_fdset' = Ready /\ server_pc' = "accept"
          /\ UNCHANGED <<chan, fds, backlog>>
      BY <1>3 DEF Select, connVars
    <2>2. \A d \in Ready \ {0} : Readable(d)
      BY DEF Ready
    <2>3. QED
      BY <2>1, <2>2 DEF Pending, Readable
  <1>4. CASE Accept
    <2> DEFINE d0 == Lowest(FreeFds)
    <2>1. d0 \in Descriptors /\ fds[d0] = NoProc
      BY <1>4, AcceptTakes
    <2>2. /\ server_pc = "accept" /\ server_pc' = "serve"
          /\ fds' = [fds EXCEPT ![d0] = Head(backlog)]
          /\ UNCHANGED <<chan, read_fdset>> /\ slot' = 1
      BY <1>4 DEF Accept, connVars
    <2>3. \A d \in read_fdset \ {0} : Readable(d) /\ d # d0
      BY <2>1, <2>2 DEF Pending, Readable
    <2>4. \A d \in read_fdset \ {0} : Readable(d)'
      BY <2>1, <2>2, <2>3 DEF Readable, TypeOK
    <2>5. QED
      BY <2>2, <2>4 DEF Pending, Readable
  <1>5. CASE NoAccept
    <2>1. /\ server_pc = "accept" /\ server_pc' = "serve"
          /\ UNCHANGED <<chan, fds, client_sockfds, read_fdset>>
      BY <1>5 DEF NoAccept, connVars
    <2>2. \A d \in read_fdset \ {0} : Readable(d)'
      BY <2>1 DEF Pending, Readable
    <2>3. QED
      BY <2>1, <2>2 DEF Pending, Readable
  <1>6. CASE Skip
    <2>1. /\ server_pc = "serve" /\ NextSlot
          /\ UNCHANGED <<chan, fds, client_sockfds, read_fdset>>
      BY <1>6 DEF Skip, connVars
    <2>2. \A i \in Slots : Readable(client_sockfds[i]) => Readable(client_sockfds[i])'
      BY <2>1 DEF Readable
    <2>3. QED
      BY <2>1, <2>2, PendingAfterSlot
  <1>7. CASE ServeData
    <2>1. /\ server_pc = "serve" /\ NextSlot /\ slot \in Slots
          /\ Sd = client_sockfds[slot] /\ Sd \in Descriptors /\ Sd # 0 /\ fds[Sd] \in Procs
          /\ UNCHANGED <<fds, client_sockfds, read_fdset>>
      BY <1>7, SelectedIsOpen DEF ServeData
    <2>2. \A p \in Procs : p # fds[Sd] => chan'[p] = chan[p]
      BY <1>7, <2>1 DEF ServeData, TypeOK
    <2>3. ASSUME NEW i \in Slots, i > slot, client_sockfds[i] \in read_fdset \ {0},
                 Readable(client_sockfds[i])
          PROVE  Readable(client_sockfds[i])'
      <3>1. client_sockfds[i] \in Descriptors /\ client_sockfds[i] # Sd
        BY <2>1, <2>3 DEF SlotsConsistent, TypeOK, Slots
      <3>2. fds[client_sockfds[i]] # fds[Sd] /\ fds[client_sockfds[i]] \in Procs
        BY <2>1, <2>3, <3>1 DEF SlotsConsistent, Readable, TypeOK
      <3>3. QED
        BY <2>1, <2>2, <2>3, <3>2 DEF Readable
    <2>4. QED
      BY <2>1, <2>3, PendingAfterSlot
  <1>8. CASE ServeClose
    <2>1. /\ server_pc = "serve" /\ NextSlot /\ slot \in Slots
          /\ Sd = client_sockfds[slot] /\ Sd \in Descriptors /\ Sd # 0
          /\ fds' = [fds EXCEPT ![Sd] = NoProc] /\ UNCHANGED <<chan, read_fdset>>
          /\ client_sockfds' = [client_sockfds EXCEPT ![slot] = 0]
      BY <1>8, SelectedIsOpen DEF ServeClose, connVars
    <2>2. \A i \in Slots : i > slot => client_sockfds'[i] = client_sockfds[i]
      BY <2>1 DEF TypeOK, Slots
    <2>3. ASSUME NEW i \in Slots, i > slot, client_sockfds[i] \in read_fdset \ {0},
                 Readable(client_sockfds[i])
          PROVE  Readable(client_sockfds[i])'
      <3>1. client_sockfds[i] \in Descriptors /\ client_sockfds[i] # Sd
        BY <2>1, <2>3 DEF SlotsConsistent, TypeOK, Slots
      <3>2. QED
        BY <2>1, <2>3, <3>1 DEF Readable, TypeOK
    <2>4. QED
      BY <2>1, <2>2, <2>3, PendingAfterSlot
  <1>9. CASE AcceptFails \/ ServeReset \/ ServeOverflow
    BY <1>9, ExitEmpties DEF AcceptFails, ServeReset, ServeOverflow
  <1>10. QED
    BY <1>1, <1>2, <1>3, <1>4, <1>5, <1>6, <1>7, <1>8, <1>9, PendingByClients, Actions

-----------------------------------------------------------------------------
(* Records and rows *)

\* Every step keeps that what can be read was offered.
LEMMA OfferedStep ==
    TypeOK /\ Pending /\ DataOffered /\ [Next]_vars => DataOffered'
  <1> SUFFICES ASSUME TypeOK, Pending, DataOffered, [Next]_vars
               PROVE  DataOffered'
    OBVIOUS
  <1>1. CASE UNCHANGED <<chan, offered>>
    BY <1>1 DEF DataOffered
  <1>2. ASSUME NEW p \in Procs, transmit(p) PROVE DataOffered'
    BY <1>2 DEF transmit, DataOffered, TypeOK
  <1>3. ASSUME NEW p \in Procs, cleanup(p) PROVE DataOffered'
    BY <1>3 DEF cleanup, AddFin, DataOffered, TypeOK
  <1>4. ASSUME NEW p \in Procs, Reset(p) PROVE DataOffered'
    BY <1>4 DEF Reset, DataOffered, TypeOK
  <1>5. CASE ServeData
    <2>1. UNCHANGED offered /\ fds[Sd] \in Procs
      BY <1>5, SelectedIsOpen DEF ServeData
    <2>2. chan' = [chan EXCEPT ![fds[Sd]] = IF @ = "data" THEN "none" ELSE "fin"]
      BY <1>5 DEF ServeData
    <2>3. QED
      BY <2>1, <2>2 DEF DataOffered, TypeOK
  <1>6. CASE AcceptFails \/ ServeReset \/ ServeOverflow
    <2>1. Exit
      BY <1>6 DEF AcceptFails, ServeReset, ServeOverflow
    <2>2. QED
      BY <2>1 DEF Exit, DataOffered
  <1>7. ASSUME NEW p \in Procs, connect_client(p) PROVE UNCHANGED <<chan, offered>>
    BY <1>7 DEF connect_client
  <1>8. ASSUME StartServer \/ Select \/ Accept \/ NoAccept \/ Skip \/ ServeClose
        PROVE  UNCHANGED <<chan, offered>>
    BY <1>8 DEF StartServer, Select, Accept, NoAccept, Skip, ServeClose, connVars
  <1>9. ASSUME UNCHANGED vars PROVE UNCHANGED <<chan, offered>>
    BY <1>9 DEF vars, connVars
  <1>10. QED
    BY <1>1, <1>2, <1>3, <1>4, <1>5, <1>6, <1>7, <1>8, <1>9, Actions

\* A row that is there stays: no step deletes, and a record sqlite understands
\* leaves its key behind, whether the INSERT succeeds or is refused.
LEMMA SaveLeavesKey ==
    ASSUME NEW p \in Procs, process_and_save(RecordOf[p])
    PROVE  /\ aplog \subseteq aplog'
           /\ ~RecordOf[p].quote =>
                 \E row \in aplog' : Sink!Key(row) = Sink!Key(RecordOf[p])
  <1>1. CASE aplog' = aplog \cup {Row(RecordOf[p])}
    BY <1>1, RowKeepsKey
  <1>2. CASE aplog' = aplog /\ (RecordOf[p].quote \/
                \E row \in aplog : Sink!Key(row) = Sink!Key(RecordOf[p]))
    BY <1>2
  <1>3. QED
    BY <1>1, <1>2 DEF process_and_save

\* Every step keeps that what was read is stored.
LEMMA StoredStep ==
    TypeOK /\ Pending /\ ReadMeansStored /\ [Next]_vars => ReadMeansStored'
  <1> SUFFICES ASSUME TypeOK, Pending, ReadMeansStored, [Next]_vars
               PROVE  ReadMeansStored'
    OBVIOUS
  <1> DEFINE Read(p) == tcp_pc[p] \in {"close", "done"} /\ chan[p] \in {"none", "fin"}
             Stored(p) == \E row \in aplog : Sink!Key(row) = Sink!Key(RecordOf[p])
  <1>1. ASSUME \A p \in Procs : Read(p)' => Read(p), aplog \subseteq aplog'
        PROVE  ReadMeansStored'
    BY <1>1 DEF ReadMeansStored
  <1>2. ASSUME NEW p \in Procs,
               connect_client(p) \/ transmit(p) \/ cleanup(p) \/ Reset(p)
        PROVE  ReadMeansStored'
    <2>1. UNCHANGED aplog
      BY <1>2 DEF connect_client, transmit, cleanup, Reset
    <2>2. CASE connect_client(p) \/ transmit(p) \/ Reset(p)
      <3>1. \A o \in Procs : Read(o)' => Read(o)
        BY <2>2 DEF connect_client, transmit, Reset, TypeOK
      <3>2. QED
        BY <1>1, <2>1, <3>1
    <2>3. CASE cleanup(p)
      <3>1. \A o \in Procs : Read(o)' => Read(o)
        BY <2>3 DEF cleanup, AddFin, TypeOK
      <3>2. QED
        BY <1>1, <2>1, <3>1
    <2>4. QED
      BY <1>2, <2>2, <2>3
  <1>3. CASE ServeData
    <2> DEFINE q == fds[Sd]
    <2>1. q \in Procs
      BY <1>3, SelectedIsOpen DEF ServeData
    <2>2. process_and_save(RecordOf[q]) /\ UNCHANGED tcp_pc
      BY <1>3 DEF ServeData
    <2>3. \A o \in Procs : o # q => chan'[o] = chan[o]
      BY <1>3, <2>1 DEF ServeData, TypeOK
    <2>4. /\ aplog \subseteq aplog'
          /\ ~RecordOf[q].quote =>
                \E row \in aplog' : Sink!Key(row) = Sink!Key(RecordOf[q])
      BY <2>1, <2>2, SaveLeavesKey
    <2> HIDE DEF q
    <2>5. QED
      BY <2>1, <2>2, <2>3, <2>4 DEF ReadMeansStored
  <1>4. CASE AcceptFails \/ ServeReset \/ ServeOverflow
    <2>1. Exit
      BY <1>4 DEF AcceptFails, ServeReset, ServeOverflow
    <2>2. \A o \in Procs : ~Read(o)'
      BY <2>1 DEF Exit
    <2>3. QED
      BY <2>2 DEF ReadMeansStored
  <1>5. ASSUME StartServer \/ Select \/ Accept \/ NoAccept \/ Skip \/ ServeClose
        PROVE  UNCHANGED <<tcp_pc, chan, aplog>>
    BY <1>5 DEF StartServer, Select, Accept, NoAccept, Skip, ServeClose, connVars
  <1>6. ASSUME UNCHANGED vars PROVE UNCHANGED <<tcp_pc, chan, aplog>>
    BY <1>6 DEF vars, connVars
  <1>7. ASSUME UNCHANGED <<tcp_pc, chan, aplog>> PROVE ReadMeansStored'
    BY <1>7 DEF ReadMeansStored
  <1>8. QED
    BY <1>2, <1>3, <1>4, <1>5, <1>6, <1>7, Actions

-----------------------------------------------------------------------------
(* The theorems *)

\* The inductive invariant holds at the start.
LEMMA InitIInv == Init => IInv
  <1> SUFFICES ASSUME Init PROVE IInv
    OBVIOUS
  <1>1. TypeOK
    BY LimitsAssumption DEF Init, TypeOK, Chans, Slots
  <1>2. /\ \A d \in Descriptors : fds[d] = NoProc
        /\ \A i \in Slots : client_sockfds[i] = 0
        /\ backlog = <<>> /\ server_pc = "down"
        /\ \A p \in Procs : tcp_pc[p] = "connect" /\ chan[p] = "none"
    BY DEF Init
  <1>3. SlotsConsistent
    BY <1>2 DEF SlotsConsistent
  <1>4. Connections
    BY <1>2, NoProcAssumption DEF Connections, NoProc
  <1>5. Pending /\ DataOffered /\ ReadMeansStored
    BY <1>2 DEF Pending, DataOffered, ReadMeansStored
  <1>6. QED
    BY <1>1, <1>3, <1>4, <1>5 DEF IInv

\* The invariant of the controller and its tcpclients, from which the theorems
\* below follow.
THEOREM Invariance == Spec => []IInv
  <1>1. IInv /\ [Next]_vars => IInv'
    BY TypeStep, SlotsStep, ConnectionsStep, PendingStep, OfferedStep, StoredStep
       DEF IInv
  <1>2. QED
    BY <1>1, InitIInv, PTL DEF Spec

\* The variables have their types, and no more connections wait than listen()
\* asked for.
THEOREM TypeCorrect == Spec => []TypeOK
  <1>1. IInv => TypeOK
    BY DEF IInv
  <1>2. QED
    BY <1>1, Invariance, PTL

\* A connection is never read or closed through another's slot, however
\* descriptors are reused (controller.cpp:276, 285-292, 315-316).
THEOREM SlotsAgree == Spec => []SlotsConsistent
  <1>1. IInv => SlotsConsistent
    BY DEF IInv
  <1>2. QED
    BY <1>1, Invariance, PTL

\* What select reported can be read when the loop comes to it, although
\* accept may by then have reused a slot and a descriptor and although the
\* clients and the network go on (controller.cpp:262, 276, 308).
THEOREM NeverBlocks == Spec => []NeverBlocksInRead
  <1>1. IInv => NeverBlocksInRead
    BY SelectedIsOpen, NoProcAssumption DEF IInv, NeverBlocksInRead, NoProc
  <1>2. QED
    BY <1>1, Invariance, PTL

\* A record that was read and that sqlite understands has its key in the table,
\* after crashes of the controller too (controller.cpp:308-352).
THEOREM StoredWhenRead == Spec => []ReadMeansStored
  <1>1. IInv => ReadMeansStored
    BY DEF IInv
  <1>2. QED
    BY <1>1, Invariance, PTL

\* Saving a record that was offered is an Insert of the sink or leaves it alone.
LEMMA SaveInserts ==
    ASSUME NEW p \in Procs, RecordOf[p] \in offered, UNCHANGED offered,
           process_and_save(RecordOf[p])
    PROVE  [Sink!Next]_(Sink!sinkVars)
  <1>1. CASE aplog' = aplog
    BY <1>1 DEF Sink!sinkVars
  <1>2. CASE /\ \A row \in aplog : Sink!Key(row) # Sink!Key(RecordOf[p])
             /\ aplog' = aplog \cup {Row(RecordOf[p])}
    <2>1. Sink!Insert(RecordOf[p])
      BY <1>2 DEF Sink!Insert
    <2>2. QED
      BY <2>1 DEF Sink!Next, Records
  <1>3. QED
    BY <1>1, <1>2 DEF process_and_save

\* Every step of the controller and its tcpclients is a step of the sink or
\* leaves it alone.
LEMMA SinkStep == IInv /\ [Next]_vars => [Sink!Next]_(Sink!sinkVars)
  <1> SUFFICES ASSUME IInv, [Next]_vars PROVE [Sink!Next]_(Sink!sinkVars)
    OBVIOUS
  <1> USE DEF IInv
  <1>1. CASE UNCHANGED <<offered, aplog>>
    BY <1>1 DEF Sink!sinkVars
  <1>2. ASSUME NEW p \in Procs, transmit(p) PROVE [Sink!Next]_(Sink!sinkVars)
    <2>1. Sink!Offer(RecordOf[p])
      BY <1>2 DEF transmit, Sink!Offer
    <2>2. QED
      BY <2>1 DEF Sink!Next, Records
  <1>3. CASE ServeData \/ ServeOverflow
    <2>1. /\ fds[Sd] \in Procs /\ chan[fds[Sd]] \in {"data", "data+fin"}
          /\ UNCHANGED offered
          /\ UNCHANGED aplog \/ process_and_save(RecordOf[fds[Sd]])
      BY <1>3, SelectedIsOpen DEF ServeData, ServeOverflow, Exit
    <2>2. RecordOf[fds[Sd]] \in offered
      BY <2>1 DEF DataOffered
    <2>3. QED
      BY <1>1, <2>1, <2>2, SaveInserts
  <1>4. ASSUME NEW p \in Procs, connect_client(p) \/ cleanup(p) \/ Reset(p)
        PROVE  UNCHANGED <<offered, aplog>>
    BY <1>4 DEF connect_client, cleanup, Reset
  <1>5. ASSUME \/ StartServer \/ Select \/ Accept \/ NoAccept \/ AcceptFails
               \/ Skip \/ ServeClose \/ ServeReset
        PROVE  UNCHANGED <<offered, aplog>>
    BY <1>5 DEF StartServer, Select, Accept, NoAccept, AcceptFails, Skip,
                ServeClose, ServeReset, Exit, connVars
  <1>6. ASSUME UNCHANGED vars PROVE UNCHANGED <<offered, aplog>>
    BY <1>6 DEF vars, connVars
  <1>7. QED
    BY <1>1, <1>2, <1>3, <1>4, <1>5, <1>6, Actions

\* The controller implements the sink, whatever the number of tcpclients,
\* slots and descriptors, and through its crashes.
THEOREM Refinement == Spec => ImplementsSink
  <1>1. Init => Sink!Init
    BY DEF Init, Sink!Init
  <1>2. QED
    BY <1>1, SinkStep, Invariance, PTL DEF Spec, ImplementsSink, Sink!Spec

\* So no two rows have the same key and none was made up: what the table holds
\* is what clients wrote (the PRIMARY KEY of aplog and its INSERT).
THEOREM RowsAreOfferedOnce == Spec => [](Sink!UniqueKeys /\ Sink!NoInvention)
  <1> DEFINE Inv == Sink!UniqueKeys /\ Sink!NoInvention
  <1>1. Sink!Init => Inv
    BY DEF Sink!Init, Sink!UniqueKeys, Sink!NoInvention
  <1>2. ASSUME Inv, [Sink!Next]_(Sink!sinkVars) PROVE Inv'
    <2>1. CASE UNCHANGED Sink!sinkVars
      BY <1>2, <2>1 DEF Sink!sinkVars, Sink!UniqueKeys, Sink!NoInvention
    <2>2. ASSUME NEW rec \in Records, Sink!Offer(rec) PROVE Inv'
      BY <1>2, <2>2 DEF Sink!Offer, Sink!UniqueKeys, Sink!NoInvention
    <2>3. ASSUME NEW rec \in Records, Sink!Insert(rec) PROVE Inv'
      <3>1. Sink!Key(Row(rec)) = Sink!Key(rec)
        BY RowKeepsKey DEF Records
      <3>2. /\ aplog' = aplog \cup {Row(rec)} /\ rec \in offered /\ offered' = offered
            /\ \A row \in aplog : Sink!Key(row) # Sink!Key(rec)
        BY <2>3 DEF Sink!Insert
      <3>3. Sink!UniqueKeys'
        <4> SUFFICES ASSUME NEW r1 \in aplog', NEW r2 \in aplog',
                            Sink!Key(r1) = Sink!Key(r2)
                     PROVE  r1 = r2
          BY DEF Sink!UniqueKeys, Sink!Key
        <4>1. QED
          BY <1>2, <3>1, <3>2 DEF Sink!UniqueKeys
      <3>4. Sink!NoInvention'
        BY <1>2, <3>2 DEF Sink!NoInvention
      <3>5. QED
        BY <3>3, <3>4
    <2>4. QED
      BY <1>2, <2>1, <2>2, <2>3 DEF Sink!Next
  <1>3. QED
    BY <1>1, <1>2, Refinement, PTL DEF ImplementsSink, Sink!Spec

=============================================================================
