# Data over management frames: a TLA+ verification project

The program sends data without associating to a network. A client stuffs data
into vendor elements (IEs) of the probe requests of a Wi-Fi scan; an access
point running a changed hostapd takes the data out, hands it to a controller
over TCP and acknowledges it with a vendor element in a probe response; the
controller keeps the records in an sqlite table. This directory models the path
from the client's prompt to that table, and two parts of the hostapd it runs in
where concurrency and failure are hard (the RADIUS client and the WPA2
authenticator); it checks the models with TLC on small instances, and proves
invariants of all of them but the element parser, and the refinements between
them, with TLAPS for every instance.

## 1. Inventory

| component | source | state | operations | hard behaviour | what makes it correct |
|---|---|---|---|---|---|
| client | `data_over_wifi/probe_stuffing/main.c` | position in the message (`len_data_already_stuffed`, `seq_num`), last ack heard (`ack_seq_num`), two retry counters, netlink socket, log | parse options, read a line, build a frame, scan, read acks, retry or give up | two counters in one loop, values left over from earlier frames and dumps, sockets on the error paths | frames tile the message; retries are bounded; only a fresh ack counts; every message ends |
| client utilities | `probe_stuffing/utils.c` | none | `init_socket`, `nl_get_multicast_id`, `get_n_ies_reqd`, `split_data`, `create_vendor_ie`, `get_ack`, `log_info`, `read_file` | `get_ack` runs once per BSS and overwrites; multiples of 252, one-byte lengths | elements and ack are read back as they were written |
| scan request | `probe_stuffing/probe_stuffing.c`, `nl_callbacks.c` | `err`, `results.done`, `results.aborted` | trigger, wait for the kernel's ack, wait for the scan event | events of other programs' scans, lost events, a non-blocking socket | a refusal is reported; exact unless another program's event comes; returns unless a message is lost |
| access point | `hostapd/src/ap/beacon.c` | `hapd->conf->probe_resp_ack_ie`, the driver's template | handle a probe request, relay (`system()`), answer or stay silent, rebuild the template | a pending ack outlives its request; `system()` blocks the event loop | an ack follows its relay and is not multiplied |
| element parser | `hostapd/src/common/ieee802_11_common.c` | ten element slots | collect the stuffed elements | the slots at their limit | the elements of a frame fit and arrive in order |
| tcpclient | `controller_tcp/client.cpp` | one connection | connect (for ever), write, close | endless retry, failing write | ends once the controller is up |
| controller | `controller_tcp/controller.cpp` | `client_sockfds`, `read_fdset`, descriptors, table `aplog` | select, accept, read, decode, insert, close | descriptor reuse, full slot table, reset connections, crash and restart | never blocks; what is read is stored; one row per key |
| benchmark drivers | `data_gen/*.cpp` | none | start `probe_stuffing` or `tcpclient` with random data | records without a MAC address | - |
| RADIUS client | `hostapd/src/radius/radius_client.c` | list of pending requests, `num_msgs`, next identifier, current servers, timeouts | send, receive, retransmit, fail over, return to the primary, flush, deinit | identifiers that wrap over pending requests, handlers that change the list and the timeouts they are called from, change of server and secret | unique identifiers, a timeout for every pending request, the right secret, the list drains |
| WPA authenticator | `hostapd/src/ap/wpa_auth.c`, with `rsn_supp/wpa.c`, `ap/ieee802_11.c`, `ap/sta_info.c` where they call it | two state machines per station, one for the group, `GKeyDoneStations`, timeouts | associate, 4-way handshake, group key handshake, rekey, key request, disconnect, free | lost and repeated frames, one timeout for two handshakes, a count kept by seven places | an open port means equal keys; the count is exact; a rekey ends |
| rest of hostapd | `data_over_wifi/hostapd` | - | - | - | vendored, not modelled (section 6) |

Interaction: the client calls the kernel through netlink; frames go over the air
to any number of access points; an access point runs `tcpclient` and waits for
it; `tcpclient` talks TCP to the controller. The way back is the ack element
only: sequence number, no client, no message. It passes through the kernel's
scan cache, which a scan does not flush.

The hazards, at their lines, are in `PROJECT.json`.

## 2. Modules

| module | models | state and actions |
|---|---|---|
| `ProbeStuffing` | `main.c` with what it uses of `utils.c` | one function over `Clients` per local variable of `main()`. `ParseArgs` is getopt and its checks; `StartMessage` the head of `while(1)`; `BuildFrame` one turn of the fragment loop; `TriggerScan`, `ScanFailed`, `ScanDone` are `do_probe_stuffing` and the two branches on its result; `AckAccepted`, `AckMissed` the branches after the dump; `EndMessage` the end of the loop |
| `HostapdProbe` | `handle_probe_req`, the ack in `hostapd_gen_probe_resp`, the offloaded template | one access point is one BSS (`hapd`). `Ignore` are the returns before the data is looked at, `Stuffed`/`Plain` the two kinds of request, `RelayDone` the return of `system()`, `NoReply` the returns after it, `Reply` the response |
| `NetlinkScan` | `do_probe_stuffing`, the callbacks, the dump that follows | the socket with its queue, `err`, `results`, the kernel's scans. `Call`, `JoinGroup`, `Send...` are the steps up to the request, `WaitAck`/`AckRead` the first loop, `WaitDone`/`Finish` the second, `Dump` what main.c does next; the kernel and other programs start and end scans on any radio and lose messages |
| `StuffedElements` | one frame through its elements: `get_n_ies_reqd`, `split_data`, `create_vendor_ie`, `ieee802_11_parse_elems`, the csv line, the ack IE, `get_ack` | an element is its offset, its length byte and its data; each stage of the frame is an action, each turn of a loop a step |
| `RadiusClient` | `radius_client.c` | `radius` is `struct radius_client_data`, `loop` the local variables of `radius_client_timer`, whose loop is one step per entry; `Tick` is a second of the clock |
| `WpaGroup` | `wpa_auth.c` and the stations | `sms` are the authenticator's state machines, `sup` the stations', `down`/`up` the frames on the air; a handler runs the state machines until none of them moves, as `wpa_sm_step` does |
| `RecordSink` | what the controller promises | abstract: offered records, table, one row per key |
| `Controller` | `run_server`, `process_and_save`, `client.cpp` | one action per step of the select loop, per step of a tcpclient, and for what the network does; `Exit` is any end of the process |
| `DataOverWifi` | the composition | instances of `ProbeStuffing`, `HostapdProbe`, `RecordSink`, joined by the air (`air`) and the clients' scan caches (`bss`) |
| `...Proofs` | - | the theorems about `ProbeStuffing`, `HostapdProbe`, `NetlinkScan`, `Controller`, `DataOverWifi`, `RadiusClient` and `WpaGroup`, one module for each; `WpaKeyProofs` is a second one for `WpaGroup` |
| `MC...` | - | constants for TLC; `MCWpaGroup` lists the `Budgets`, which say how often each station joins and leaves and how often keys are replaced |

What is abstracted. A message is its client, its timestamp and its length; the
bytes of a frame are the slice `[start, len]`. Sequence numbers are printed with
`%08d`, parsed, printed with `%d` and parsed again: the same number below 10^8.
Timestamps are counters that grow with every message (microseconds in the
code). Sleeps are not timed: the other actors may do anything meanwhile. `log`
holds the calls of `log_info`; the lines are in the file if `logs/` exists.
A record keeps what its row depends on: the key, the access point's timestamp,
the number of comma-separated pieces of the data (only the first is stored) and
whether it holds a quotation mark (sqlite then refuses the statement).

Choices that stand for undefined or outside behaviour: the length of the buffer
`fgets` leaves untouched at end of file (`UninitLens`); a failing first `accept`
because `client_len` is not initialized (`AcceptFails`); a process that ends,
or does not, after the write behind `split_str` (`ServeOverflow`); whether a
driver takes a response; which access points hear a frame; the order of a dump
and how much of a failing dump was read; when the kernel drops a cache entry;
whether a RADIUS server can be reached (`Nets`, chosen anew for each handler and for
each entry that `radius_client_timer` visits; `"next"` is a server that cannot be reached
while the one after it can) and answers; whether a driver takes a
group key. In `RadiusClient` the status `"undef"` is the use of freed memory: an
entry whose own retransmission takes an identifier that wraps onto it.

In `RadiusClient` a packet is its type, identifier, station, and the secret it is
signed with, and the authenticator of an answer is taken as verified. In
`WpaGroup` all stations know the PSK, an SNonce stands for the PTK derived from
it, group keys are numbers, and replay counters are the flag `fresh`.

Definitions marked `mutant` in a comment are faulty variants of the definition
that follows them. No specification uses them: each shows that a property
notices that fault.

## 3. Runs

| run | bounds | shows |
|---|---|---|
| `client` | 1 client, 2 messages of 0 to 3 frames, 2 + 2 retries, dumps of up to two acks, numbers 0..2 | type, tiling, retry budget, sockets, fresh acks, log; every message ends |
| `scan` | 2 radios, other programs' scans on both, a queue of 3 messages, 2 calls | a refused scan is reported; a call that meets no foreign event is exact, its dump too; a call returns unless a message was lost |
| `elements` | the limits of the code; every message length up to 1394 and four longer ones; numbers of 1, 2 and 8 digits | ten slots are enough, the slice is put together again, the csv line stays in its buffer, the ack is read back |
| `access_point` | 1 access point with template, 3 stuffed frames of 2 clients, 1 station, 3 relays | acks follow the relay and are conserved |
| `controller` | 3 tcpclients (two with the same key), 2 slots, 3 descriptors, backlog 2 | select's answer and the program point go together, no blocking read, consistent slots, read means stored, refinement of `RecordSink`, also when a connection leaks; records in slots are read or cut off, tcpclients end |
| `path` | 1 client, 1 message of 2 frames, 2 access points, 2 relays each | rows of a message do not overlap, all that have a successor are full and the last one is marked as such; delivery is guaranteed |
| `path_shared` | 2 clients, 1 station, 1 access point where tcpclient may fail | acks have a source; the composition implements `ProbeStuffing` |
| `guaranteed_two_messages` (violation) | 2 messages of 1 client | an old ack counts for a new message |
| `radius` | 2 entries, 3 identifiers, 3 retries, 2 authentication servers with different secrets | unique identifiers, count, timeouts, secrets; the list drains |
| `radius_secret` (violation) | 2 accounting servers | pending requests keep the primary's secret when the return to it fails |
| `wpa_group` | 2 + 2 attempts and 2 frames on the air per direction, with each of three budgets: 2 stations and 1 rekey; 1 station with 2 associations, 1 departure and 2 rekeys; 1 station and 4 rekeys | exact count, equal keys, updated stations have the GTK; a rekey ends unless a station lost its timeout |
| `group_rekey` (violation) | 1 station, 2 rekeys | a key request cancels the repetition of a lost 1/2, and the group waits for ever |

Why the bounds are enough to be of interest: two frames or messages are what it
takes for a number to be stale, two retries of each kind for the two counters to
interact, two access points for a frame to be relayed twice and for a dump to
have an order, a backlog smaller than the number of clients for somebody to wait,
fewer slots than connections for the table to overflow. A queue of three
messages holds an answer between two events and overflows with one more. Three
identifiers for two entries wrap over a pending one. Two stations let one hold
up the rekey of the other, and two rekeys let one begin while the last is on its
way. With two attempts and two frames on the air 1/4, 3/4 and 1/2 are repeated, an
answer to the first copy can arrive after the second was sent or after the next
rekey has begun, and a rekey of the pairwise key completes (with one attempt it
would disconnect the station, as `TimeoutCtr` is not reset in `PTKINITDONE`). `GuaranteedDelivery` is checked where it holds (one client, one message,
tcpclient works) and in the smallest setting where it does not; section 5 names
two others. Deadlock checking is off where clients stop at their prompt, the
controller at `select`, and where a bounded number of calls, associations and
rekeys comes to its end.

`WpaGroup` was also explored with larger budgets, all properties of `wpa_group`, 2 + 2
attempts: 1 station with 2 associations and 4 rekeys (301,710 states), 2 stations of
which one comes again and 1 rekey (750,752 states), and 1 station with 3 frames on the
air, 2 associations, 1 departure and 3 rekeys (520,078 states). All hold.

What the exceptions of two liveness properties mean: `RekeyEndsOrSilent` excepts a station
that has lost its timeout and a group that waits for a step after a station was
freed, and these are the failures `RekeyEnds` and section 5 tell; it speaks of
miscounts and of retries that do not end. `QueueDrains` excepts a list
that new requests keep filling, which happens (without the exception TLC finds one
request after the other); the run `radius` has one accounting server, because with
several the property does not hold (section 5).

Symmetry: in `path` the two access points and in `path_shared` the two clients
are interchangeable; no definition tells them apart, and the properties of these
runs are invariants and a box-action formula. Runs with liveness use none.

Fairness.

* `ProbeStuffing!FairSpec`: `main()` runs on by itself except at the prompt, and
  the kernel answers every scan request (weak fairness of `Work`; the choice
  between success, failure and any dump stays free). `CallReturns` of
  `NetlinkScan` is what stands behind that: it holds when no message is lost.
* `NetlinkScan!FairSpec`: the process runs on, and the kernel ends every scan it
  has started. Other programs need not do anything.
* `Controller!FairSpec`: every tcpclient and the select loop run on; nothing
  makes a dead controller start again, so `TcpClientEnds` speaks of behaviours
  where it is up from some point on. It is also what lets an access point leave
  `system()`.
* `RadiusClient!FairSpec`: the clock and the event loop go on (weak fairness of
  `EventLoop`); no server need ever answer.
* `WpaGroup!TimerSpec`: a registered timeout fires. `FairSpec`, for the run that
  expects a violation, also has frames leave the air, by arriving or being lost,
  so that the counterexample is not one of an event loop that stands still.
* `HostapdProbe` and `DataOverWifi` have no fairness: their properties are
  safety properties.

## 4. Proofs

`ProbeStuffingProofs` proves of `ProbeStuffing!Spec`, for any set of clients, any
lengths of lines, any frame size and retry limits above zero and any dumps of
natural numbers (the `ASSUME`s of `ProbeStuffing`):

* `TypeCorrect`: `[]TypeOK`, with the ranges of both retry counters and of the
  logged attempt;
* `RetriesBounded`: `[]RetryBudget`, at most `ScanRetries * AckRetries` scans for
  a frame;
* `FramesTile`: `[]Tiling`;
* `SocketsBalance`: `[]SocketBalance`;
* `AcksFresh`: `[]FreshAck`.

The inductive invariant is the conjunction of the five. None of the last four is
inductive without the types, and the range of a logged attempt needs the positive
counters of `RetryBudget`; `RetryBudget` carries its own strengthening (the
`Budget` each program point has left, and that a counter is above zero while a
frame is in flight), `Tiling` relates `len_data_already_stuffed` to `seq_num` at
the loop head so that the slice built there follows the last one, and `FreshAck`
says at the loop head that the number left over is not the next one. Each
conjunct has a lemma of its own (`TypeStep`, `BudgetStep`, `TilingStep`,
`SocketStep`, `FreshStep`), which rest on lemmas that say what each action does to
the client that takes it and that it leaves the others alone. `MulStep`, `MulNat`
and `Pay` hold the little nonlinear arithmetic there is.

`HostapdProbeProofs` proves of `HostapdProbe!Spec`, for any access points, any
subset of them with a template, and any requests:

* `TypeCorrect`: `[]TypeOK`;
* `AcksFollowRelays`: `[]AckAfterRelay`;
* `AcksConserved`: `[]AckConservation`.

The inductive invariant of the first two is their conjunction: that `relayed`
holds frames needs `AckAfterRelay` (a handler in `system()` has a stuffed request
in hand), and that a response carries a relayed frame needs that the pending ack
is either relayed or the one `system()` is working on. `AckConservation` is
inductive under the types. As on the client's side a lemma (`OthersUnchanged`)
says that a step of one access point does not touch another, so each action is
looked at for the one access point that takes it.

Two more theorems of `ProbeStuffingProofs` are about the log:

* `LogNumbered`: `[]AttemptNumbering`, the attempts of a frame are numbered
  1, 2, ... and begin again with the next frame or message;
* `NoFramePassedOver`: `[]AckedPrefix`, with guaranteed delivery `seq_num` counts
  the frames of the message that are logged as delivered.

A line of the log gets its number from `ack_retries_left`, so `AttemptNumbering` is
not inductive: `LogInv` adds that this counter says which attempt the last line of
the log was, and that no line is of a later message. `LogEffect` says which line, if
any, each action appends; the rest is about sequences that grow at their end and,
for `AckedPrefix`, about a set of positions that gains one element with a delivered
frame and none otherwise.

`NetlinkScanProofs` proves of `NetlinkScan!Spec`, for any radios, any length of the
receive queue and any number of calls:

* `RefusalSeen`: `[]RefusedIsReported`;
* `Exact`: `[]ExactWhenAlone`.

The inductive invariant says what can be in the queue at each point. `Fresh`: before
the request nothing in it is an answer. `Answers`: an answer in the queue, or the
`err` made of one, is the kernel's answer to this request. `OwnScan`: a radio scans
for this call only while its scan is running, so the kernel reports its end once.
`Alone`: without another program's events the end of a scan is the last message of
the queue and not yet read, and once it is read the queue is empty; this order is
what lets the dump that follows succeed.

`ControllerProofs` proves of `Controller!Spec`, for any finite set of tcpclients, any
records, and any numbers of slots, descriptors and waiting connections above zero:

* `TypeCorrect` (`[]TypeOK`: besides the types, that `accept` is reached only with a
  readable descriptor, and with a connection waiting if the listening socket's bit is
  set, that a pass starts at the first slot and stays within the array, and that a
  dead controller leaves nothing behind), `SlotsAgree` (`[]SlotsConsistent`),
  `NeverBlocks` (`[]NeverBlocksInRead`), `StoredWhenRead` (`[]ReadMeansStored`);
* `Refinement`: `Spec => ImplementsSink`, the controller with its sockets and slots,
  its crashes and restarts implements `RecordSink`, and from it
  `RowsAreOfferedOnce`: no two rows have the same key and none is invented.

`NeverBlocksInRead` speaks of one program point. What makes it inductive is
`Pending`: everything `select` reported is still readable, for every descriptor
before `accept` and for the slots not yet served after it. That needs
`SlotsConsistent` (no descriptor is in two slots, so closing one does not close
another's) and `Connections` (nobody is behind two descriptors or twice in the
backlog). `DataOffered` is what the refinement needs: what can be read was offered
before. Serving a slot is then an `Insert` of the sink, writing an `Offer`, and
everything else a stutter.

`DataOverWifiProofs` proves of `DataOverWifi!Spec`, for any clients, stations, frame
size, any finite set of access points, lines of bounded length and any of the access
points with a tcpclient that fails:

* `ClientsRefined`: the composition implements `ProbeStuffing`, and
  `OthersRefined`: it implements `HostapdProbe` and `RecordSink`. So the invariants
  of the parts hold within the whole, and are used there;
* `AcksHaveSource`: `[]AckHasSource`, an ack number in the air, in a cache or in a
  client's variable is the number of a frame some access point has relayed;
* `RowsFit`: `[]RowsFitTogether`, the rows of a message do not overlap and start
  where their numbers say, a row with a later one or with its more-fragments bit set
  is full, and of the client's current message the bit is clear exactly in the row
  that reaches the end;
* `FirstMessageDelivered` and `DeliveryGuaranteed`: with one client and no tcpclient
  that fails (`Alone`), no frame of the client's first message is left behind that
  the controller was not given, and with one message that is `[]GuaranteedDelivery`.

The rows are written when the message they are cut from may be gone, so the
invariant follows the frames instead: `KnownFrames` says of every frame in the air,
at an access point, relayed or in the client that it is a slice of the client's
message if it is of the current one, and that frames of one message fit together in
any case (the earlier one is full and has its more-fragments bit set); `Stored` ties offered records and rows to relayed frames. The other
conjuncts are the invariants of the client and of the access point
(`CP!IInv`, `HP!IInv`, through `INSTANCE` of their proofs), the types of air and
caches, and `AckHasSource`. The bridge lemmas show that an action of the
composition, restricted to a part's variables, is an action of the part.

The two theorems on delivery have the setting in their statement because the property
is false outside it: the run `guaranteed_two_messages` breaks it with a second message,
a second client takes the other's ack, and a failed tcpclient is acknowledged. Inside it
any number of access points, any frame size, and any loss, delay and repetition of
requests and responses remain. `DeliveryInv` adds to the invariant above that every
relayed frame was offered to the controller (`RelayedOffered`), that no frame is of a
message the client has not begun (`Dated`), and `FirstDelivered`. The number a client
hears is that of a relayed frame (`AckHasSource`); that frame is the client's, as it is
alone, and of its first message, as there is no other, so it is the frame being sent.

`RadiusClientProofs` proves of `RadiusClient!Spec`, for any stations, any servers and
secrets, any number of identifiers, entries and retries above zero, fewer attempts
before a failover than retries (`RADIUS_CLIENT_NUM_FAILOVER` is 4,
`RADIUS_CLIENT_MAX_RETRIES` 10) and a last wait of at least twice the first:

* `IdsUnique`: `[]PendingIdsUnique`, also where identifiers wrap over pending ones;
* `CountCovers`: `[]CountCoversQueue`;
* `SecretsCurrent`: `[](SameSecrets => SecretCurrent)`, where `SameSecrets` says that
  the accounting servers have one secret. Without it the property is the one the
  run `radius_secret` refutes; the authentication servers' secrets are free;
* `Typed`: `[]TypeOK`, with the limit of attempts and that of two timeouts;
* `Timely`: `[]TimelyTimer`.

Every operation of `radius_client.c` is a function of the client's record, and
they call each other, so the invariant is a predicate `Fine` of a record that every
operation is shown to keep, and an action is a composition of such lemmas. The
predicate `Below` says that entries were taken out and each of them counted
(`num_msgs` minus the length stays); together with the entries that
`radius_client_get_id` takes out without counting, it gives `Covered`. `Kept`, which
takes the entries at a set of positions, is reasoned about through the rank of a
position in that set (`KeptElements`). A retransmission under a new identifier
removes a pending entry that has it; uniqueness makes that at most one, so the entry
being visited moves by at most one place (`OnePlace`), and it is still there unless it
was the one itself, where the program uses freed memory and the model stops.
`Signed` is not inductive within a failover: between the change of the server and
the new secrets of the entries, `SignedBefore` says for which server each is signed.

`Typed` and `Timely` rest on a second inductive invariant, `TimeInv`, proved on top of
the first and checked by TLC before. Neither property is inductive: inside
`radius_client_timer` the timeout that fired is gone and the new one is registered
only at the end, from what the loop has noted. So `TimeInv` has one part between two
handlers (`Resting`: one timeout, or two in order, the first within `FirstWait` or
before every entry) and one inside the loop (`Looping`): `Noted` says that the first
`next_try` the loop has seen is a lower bound for the entries behind it, unless a
change of server has meanwhile started the timeout with `FirstWait`; `Seen` that every
authentication request past `NumFailover` attempts has been passed and its failover
noted. The second is what bounds `attempts`: an authentication request whose send fails
is not dropped at the limit (`radius_client.c:459-462`), it only stops because the
failover at the end of the loop throws it away or sets its attempts back, and that
comes before the limit because `NumFailover < MaxRetries`. An entry that is removed
while the loop stands behind it moves the entries it has noted by one place
(`MidwayDrop`, `KeptOthers`).

`WpaGroupProofs` proves of `WpaGroup!Spec`, for any finite set of stations, any
limits and a driver that may fail:

* `CountIsExact`: `[]CountExact`, `GKeyDoneStations` is the number of stations marked
  `GUpdateStationKeys`;
* `CountInRange`: the count is between 0 and the number of stations.

The count is changed by one station's machines and read by the group's. Each state
of the two machines keeps `Rest(sm, group)`, the count without the share of the
station that steps, so `wpa_sm_step` keeps it through all turns of its loop, and it
equals the number of the other marked stations (`Others`). A rekey marks every known
station and sets the count anew. What has to be added to `CountExact` is that a
station the access point does not know has no share: it is not marked, not
associated and has no timeout.

`WpaKeyProofs` proves of the same specification, for any stations, any limits and any
number of frames on the air:

* `KeysEqual`: `[]KeysAgree`, while the port of an associated station is open both ends
  use the same PTK;
* `TypeCorrect`: `[]TypeOK`, between two handlers the machines rest, the counters of
  tries are within their limits and no PTK is newer than the last SNonce.

`KeysAgree` is far from inductive: it speaks of two ends and says nothing of the frames
between them. The invariant `KeyInv` has the type of the group and, for every station,
four parts (`StaOk`):

* `AtRest(sm)`: between two handlers the access point has a PTK in the states that need
  one, does not rest in `PTKCALCNEGOTIATING`, and a station marked
  `GUpdateStationKeys` is in its group key handshake;
* `AirOk(sup, down, up)`: a temporary PTK is that of the SNonce the station would use
  again; a valid 2/4 carries the SNonce that the station now offers, and while one is
  on its way no frame with a MIC is on its way to the station; nothing signed follows a
  valid 1/4; a 3/4 behind a 1/4 is signed with what the station offers; and the station
  signs with nothing but a PTK it has taken (`Used`);
* `KeyOk`: a valid PTK of the access point is offered by the station and not yet taken
  (`Offered`), or taken, with no 1/4 on the air that could make the station choose
  another (`Held`). With the port open it is taken;
* `Limits` and `Short`: the counters of the station and the bound of the air.

A 4/4 that verifies decides between the two: its key is `Used`, which an `Offered` one
is not. Within a handler the machines keep `Coherent`, the same facts with the frames to
be sent behind those on the air, together with what the request flags allow; three
turns of the loop reach a record at rest (`Turned`, `Ended`), and the other six keep
it so. One lemma per state says which fields it changes, one per state what it keeps,
and one per action that the station concerned is left as it should be; the others
are unchanged or only marked for disconnection (`OneMoves`). `KeyInv` was checked by TLC
on small instances before it was proved.

`TypeOK` depends on where the loop of `wpa_sm_step` ends, since inside it both counters
pass their limits and the machines are in states where none of them rests. The model takes
nine turns (`wpa_sm_step`), the code as many as something changes; the proof shows that
the two are the same. `Rank` says how many turns the 4-way handshake machine still has
to make: a disconnection that is due counts most, then the request flags, then the
state. Its steps bring `Rank` down (`PtkStepDescends`), those of the group key
handshake leave it alone or disconnect the station (`GroupStepAside`), and the group can fail
only once, which `Potential` allows for. Three turns settle the group key handshake and the
group (`FirstTurns`) with a potential of six at most, the other six turns use it up
(`LaterTurns`), and a tenth would change nothing (`LoopSettles`). `Bounded` is what the loop
keeps of the counters: past its limit `TimeoutCtr` is only on the way to a disconnection.

Only model-checked:

* every liveness property (`MessageEnds`, `CallReturns`, `RecordsRead`,
  `TcpClientEnds`, `QueueDrains`, `RekeyEndsOrSilent`): fairness is outside the
  prover's reach;
* the invariants of `StuffedElements`: they say what recursive functions compute,
  which needs induction over data;
* `UpdatedHasGtk` of `WpaGroup`: it needs what each frame on the air says of the
  group key. It rests on the run `wpa_group` and the explorations of section 3.

## 5. What the models show beside the runs

What the models made visible and no run needs to show again.

* What `-d` or `-f` gave is replaced by the line of the prompt (`main.c:76-78`).
* A pending ack goes to whichever station is answered next (`beacon.c:836`, 541).
  Two clients at one access point can take each other's; `GuaranteedDelivery`
  does not hold for them.
* tcpclient's status is not looked at (`beacon.c:849`): a frame whose relay
  failed is acknowledged.
* With all slots taken an accepted descriptor is stored nowhere
  (`controller.cpp:285`); `RecordsRead` therefore excepts such connections.
* `listen` is called with 10 where the comment above it says 5 (`controller.cpp:205-206`).
* A peer that is cut off ends the controller (`controller.cpp:326`), and the records
  it had not read are lost although tcpclient had written them; `RecordsRead`
  excepts connections that were cut off.
* The test for a missing MAC address looks at the timestamp (`controller.cpp:120`),
  and `NA` is stored.
* Another program's scan event ends the wait for one's own (`nl_callbacks.c:78`),
  where `main.c:235` says "wait for it to finish"; the event left in the queue
  then makes the dump fail, and the attempt counts as one without an ack.
* The seven stuffed elements of a full frame take 32 + 6 * 5 + 1394 = 1456 bytes,
  where the comment of `main.c:104` allows 1452.
* `num_msgs` is not the length of the list, as its comment says, but a bound of
  it: `radius_client_get_id` takes an entry out without counting, and
  `radius_client_list_add` then drops the oldest request of a list that is not full.
* With two or more accounting servers `QueueDrains` does not hold: a failover
  sets `attempts` back, and a request no server answers is retransmitted for
  ever, where `radius_client.c:713-716` has it end at `RADIUS_CLIENT_MAX_RETRIES`.
  Authentication requests are thrown away when the secret changes, so they end.
* In `wpa_auth.c` the two handshakes of a station share one timeout; a rekey that
  begins before the last has ended takes a 2/2 for the older GTK as an answer to
  the newer one (the exception `early` of `UpdatedHasGtk`); a station between 3/4
  and 4/4 at the start of a rekey is skipped and keeps the old GTK;
  `wpa_free_sta_sm` counts down without a step of the group; `TimeoutCtr` is not
  reset when a station reaches `PTKINITDONE`.

## 6. What is not modelled

* Of the program itself: partial TCP reads (a command has at most 600 bytes and
  is written at once); the missing terminators of strings copied into exactly
  sized `calloc` buffers in the controller; UDP and file transfer, which the code
  leaves empty; memory exhaustion outside `do_probe_stuffing`; responses overheard
  by a client they are not addressed to; the random strings of the benchmark
  drivers and the processes they start (the programs they start are modelled); the
  exits of tcpclient before `connect` when it gets no socket or does not find the host
  (`client.cpp:56-64`; in `DataOverWifi` they are among the failures of tcpclient); the
  exact length of the listening socket's queue, which is the kernel's (Linux admits one
  connection more than `listen` asks for): no property depends on it.
  With best effort an ack number larger than the current one, left over in
  `ack_seq_num`, can mark a later frame as delivered; `FreshAck` therefore speaks
  of guaranteed delivery only.
* Of the WPA authenticator: 802.1X, FT, SAE, PeerKey, IGTK and WNM sleep mode; a
  wrong PSK; the workaround with `alt_SNonce`; the rejection of the first station
  for want of entropy; the limit of four valid replay counters; a driver that refuses
  the pairwise key in `PTKINITDONE`, after which the station is disconnected
  (`wpa_auth.c:2393-2397`). `Inactive` is a station that is gone when
  `ap_handle_timer` finds it; one that is still there, and the disassociation frame it
  would get (`sta_info.c:485`), are not modelled.
* Of the RADIUS client: MIB counters, dumps, the verification of answers, the
  dynamic authorization server.
* The rest of hostapd, some 290,000 of the repository's lines: drivers, ciphers
  and TLS, EAP methods, WPS, P2P, configuration and control interface. It is
  vendored, unchanged by this program and not on the way of its data; most of it
  is formats, tables, arithmetic of ciphers and calls into the system, which a
  state machine over small sets would not say anything about. The project is
  therefore complete for the code written here, and small against the whole tree.

## 7. Plan

Done, in this order: `ProbeStuffing` and its proofs, `HostapdProbe` and its
proofs, `RecordSink`, `Controller`, `DataOverWifi`, `NetlinkScan`,
`StuffedElements`, `RadiusClient`, `WpaGroup`, then the proofs about `Controller`,
`NetlinkScan`, the client's log, `DataOverWifi`, `WpaGroup`, `RadiusClient`, the
pairwise keys of `WpaGroup`, the timeouts of `RadiusClient`, the delivery of a
client's first message, and the counters of `WpaGroup`. Next:

1. `UpdatedHasGtk` of `WpaGroup`, from `KeyInv` with what each frame on the air says of
   the group key.
