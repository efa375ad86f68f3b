---------------------------- MODULE RadiusClient ----------------------------
(***************************************************************************)
(* The RADIUS client of hostapd, radius/radius_client.c: the list of       *)
(* pending requests, their retransmission, the change between several      *)
(* servers and the identifiers that tie an answer to its request.          *)
(*                                                                         *)
(* Times are relative, in units of one second: an entry keeps the time     *)
(* left until next_try and, up to FirstWait, its age; a timeout of eloop   *)
(* keeps the time left.  The loop of radius_client_timer is one step per   *)
(* entry, and no other handler runs while it is at work.                   *)
(***************************************************************************)
EXTENDS Integers, SequencesExt

CONSTANTS
    Addrs,          \* stations the requests are about
    Secrets,        \* the secrets of the configured servers, by kind
    IdSpace,        \* identifiers: 256 in the code
    MaxEntries,     \* RADIUS_CLIENT_MAX_ENTRIES
    MaxRetries,     \* RADIUS_CLIENT_MAX_RETRIES
    NumFailover,    \* RADIUS_CLIENT_NUM_FAILOVER
    FirstWait,      \* RADIUS_CLIENT_FIRST_WAIT
    MaxWait,        \* RADIUS_CLIENT_MAX_WAIT
    RetryInterval   \* retry_primary_interval of the configuration

Kinds == {"auth", "acct"}

ASSUME ServersAssumption ==
    /\ DOMAIN Secrets = Kinds
    /\ \A k \in Kinds : Secrets[k] \in Seq(Range(Secrets[k])) /\ Len(Secrets[k]) > 0
ASSUME LimitsAssumption ==
    /\ {IdSpace, MaxEntries, MaxRetries, NumFailover, FirstWait} \subseteq Nat \ {0}
    /\ MaxWait \in Nat /\ MaxWait >= 2 * FirstWait
    /\ RetryInterval \in Nat /\ RetryInterval > FirstWait
    /\ NumFailover < MaxRetries

VARIABLES
    radius,     \* struct radius_client_data, and the current servers of conf
    status,     \* "on", "off" after deinit, "undef" once freed memory is used
    loop        \* the local variables of radius_client_timer, pos = 0 outside it

vars == <<radius, status, loop>>

-----------------------------------------------------------------------------
\* A request is for authentication, for accounting, or an interim update,
\* which goes to the accounting server as well.

Types == {"auth", "acct", "interim"}
KindOf(type) == IF type = "auth" THEN "auth" ELSE "acct"

\* What the network does to the calls of one handler, or of one turn of the loop
\* of radius_client_timer: "up", a socket that must be connected again ("stale"),
\* no route ("down"), not even a socket ("nosock"), or a route to the next server
\* but none to this one ("next").
Nets == {"up", "stale", "down", "nosock", "next"}
AtNext(net)   == IF net = "next" THEN "up" ELSE net
Sends(net)    == net = "up"
Connects(net) == net \in {"up", "stale"}

\* The sequence s with F applied to each element.
Each(F(_), s) == [i \in 1 .. Len(s) |-> F(s[i])]

\* The elements of s at the positions of the set I, in their order.
Kept(s, I) ==
    LET nth(n) == CHOOSE i \in I : Cardinality({j \in I : j <= i}) = n
    IN  [n \in 1 .. Cardinality(I) |-> s[nth(n)]]

\* eloop keeps the timeouts in the order they are due: a new one goes before
\* the first that is due later.
Register(timers, t) ==
    InsertAt(timers, Cardinality({i \in DOMAIN timers : timers[i] <= t}) + 1, t)

\* Over an empty list MinDue is not asked for.
MinDue(msgs) == Min({msgs[i].due : i \in DOMAIN msgs})

Entry(type, id, addr, secret) ==
    [type |-> type, id |-> id, addr |-> addr, secret |-> secret,
     attempts |-> 1, due |-> FirstWait, next_wait |-> 2 * FirstWait, age |-> 0]

Fresh(server) ==
    [msgs |-> <<>>, num_msgs |-> 0, next_id |-> 0, server |-> server,
     sock |-> [k \in Kinds |-> FALSE], timers |-> <<>>,
     retry |-> RetryInterval]

Outside == [pos |-> 0, first |-> -1, failover |-> {}]

\* All entries but those at the positions I leave the list, and num_msgs goes
\* down with it.
TakeOut(r, I) ==
    [r EXCEPT !.msgs = Kept(@, I), !.num_msgs = @ - (Len(r.msgs) - Cardinality(I))]

\* What radius_client_flush keeps.
NotFlushed(r, only_auth) ==
    {i \in DOMAIN r.msgs : only_auth /\ r.msgs[i].type # "auth"}

\* Mutant: the timeout outlives the list.
radius_client_flush_no_cancel(r, only_auth) ==
    TakeOut(r, NotFlushed(r, only_auth))

radius_client_flush(r, only_auth) ==
    LET f == TakeOut(r, NotFlushed(r, only_auth))
    IN  IF f.msgs = <<>> THEN [f EXCEPT !.timers = <<>>] ELSE f

-----------------------------------------------------------------------------
\* Servers.

\* Mutant: the retry counters also start again for the same server.
MovedAlways(new, old) == old # 0

\* Is the change from the server old (0: none) to new one to another server?
Moved(new, old) == old \notin {0, new}

\* Mutant: requests to the old server are kept for the new one.
ThrownForSame(r, k, new, old) ==
    IF k = "auth" /\ old = new THEN radius_client_flush(r, TRUE) ELSE r

Thrown(r, k, new, old) ==
    IF k = "auth" /\ (old = new \/ (Moved(new, old) /\ Secrets[k][new] # Secrets[k][old]))
    THEN radius_client_flush(r, TRUE) ELSE r

\* The retry counters of an entry start again, and accounting messages are
\* signed anew.
Reset(e, k, new) ==
    [e EXCEPT !.due = FirstWait - e.age, !.attempts = 0, !.next_wait = 2 * FirstWait,
              !.secret = IF k = "acct" THEN Secrets[k][new] ELSE @]

\* A network that does not connect leaves the socket as it was.
radius_change_server(r, k, new, old, net) ==
    LET kept    == Thrown(r, k, new, old)
        step(e) == IF Moved(new, old) /\ e.type = k THEN Reset(e, k, new) ELSE e
    IN  [kept EXCEPT !.msgs = Each(step, @),
                     !.timers = IF kept.msgs = <<>> THEN @ ELSE <<FirstWait>>,
                     !.sock[k] = @ \/ Connects(net)]

\* radius_client_auth_failover and radius_client_acct_failover.
radius_client_failover(r, k, net) ==
    LET old == r.server[k]
        new == IF old = Len(Secrets[k]) THEN 1 ELSE old + 1
    IN  radius_change_server([r EXCEPT !.server[k] = new], k, new, old, AtNext(net))

\* radius_client_init_auth and radius_client_init_acct.
radius_client_init_sock(r, k, net) ==
    LET closed == [r EXCEPT !.sock[k] = FALSE]
    IN  IF net = "nosock" THEN closed
        ELSE radius_change_server(closed, k, r.server[k], 0, net)

\* Mutant: an identifier is given out while a request still has it.
radius_client_get_id_shared(r) == [r EXCEPT !.next_id = (@ + 1) % IdSpace]

\* A new identifier; an entry that still has it leaves the list, and num_msgs
\* is not told.
radius_client_get_id(r) ==
    [r EXCEPT !.msgs = Kept(@, {i \in DOMAIN @ : @[i].id # r.next_id}),
              !.next_id = (@ + 1) % IdSpace]

-----------------------------------------------------------------------------
\* Sending.

\* Mutant: the old timeout is not cancelled.
radius_client_update_timeout_adds(r) ==
    [r EXCEPT !.timers = Register(@, MinDue(r.msgs))]

radius_client_update_timeout(r) ==
    [r EXCEPT !.timers = <<MinDue(r.msgs)>>]

\* Mutant: the counter goes up although the oldest entry made room.
radius_client_list_add_counts(r, e) ==
    LET added == radius_client_update_timeout([r EXCEPT !.msgs = <<e>> \o @])
    IN  [added EXCEPT !.num_msgs = @ + 1,
                      !.msgs = IF r.num_msgs < MaxEntries \/ Len(@) = 1 THEN @ ELSE Front(@)]

radius_client_list_add(r, e) ==
    LET added == radius_client_update_timeout([r EXCEPT !.msgs = <<e>> \o @])
    IN  IF r.num_msgs < MaxEntries THEN [added EXCEPT !.num_msgs = @ + 1]
        ELSE IF Len(added.msgs) = 1 THEN added
        ELSE [added EXCEPT !.msgs = Front(@)]

\* kept: whether there was memory for the entry and the loop still runs.
radius_client_send(r, type, id, addr, net, kept) ==
    LET k    == KindOf(type)
        open == IF r.sock[k] THEN r ELSE radius_client_init_sock(r, k, net)
        sent == IF Sends(net) THEN open ELSE radius_client_init_sock(open, k, net)
    IN  CASE ~open.sock[k] -> open
          [] open.sock[k] /\ ~kept -> sent
          [] open.sock[k] /\ kept ->
                radius_client_list_add(sent,
                    Entry(type, id, addr, Secrets[k][r.server[k]]))

\* A request of accounting.c, ieee802_1x.c or ieee802_11_auth.c.  There is no
\* failover here, so that "next" would be the same as "down".
NewRequest ==
    /\ status = "on" /\ loop.pos = 0
    /\ radius' \in {radius_client_send(radius_client_get_id(radius), type,
                                       radius.next_id, addr, net, kept) :
                      type \in Types, addr \in Addrs, net \in Nets \ {"next"},
                      kept \in BOOLEAN}
    /\ UNCHANGED <<status, loop>>

\* An answer of kind k with identifier id that fits a pending request. The
\* entry is gone whatever the handlers then make of the answer.
radius_client_receive(k, id) ==
    LET fits == {i \in DOMAIN radius.msgs :
                    KindOf(radius.msgs[i].type) = k /\ radius.msgs[i].id = id}
    IN  /\ status = "on" /\ loop.pos = 0 /\ radius.sock[k]
        /\ fits # {}
        /\ radius' = TakeOut(radius, DOMAIN radius.msgs \ {Min(fits)})
        /\ UNCHANGED <<status, loop>>

\* A station is removed.
radius_client_flush_auth(addr) ==
    /\ status = "on" /\ loop.pos = 0
    /\ radius' = TakeOut(radius, {i \in DOMAIN radius.msgs :
                       radius.msgs[i].type # "auth" \/ radius.msgs[i].addr # addr})
    /\ UNCHANGED <<status, loop>>

\* hostapd_clear_old, before a new configuration is put in place.
Reconfigure ==
    /\ status = "on" /\ loop.pos = 0
    /\ radius' = radius_client_flush(radius, FALSE)
    /\ UNCHANGED <<status, loop>>

-----------------------------------------------------------------------------
\* Retransmission.

\* What one call of radius_client_retransmit for entry i makes of the client:
\* the client, where the entry now is, whether it is to be dropped, and
\* whether the call has freed the entry it works on or its predecessor.
Result(r, at, drop, own, before) ==
    [r |-> r, at |-> at, drop |-> drop, own |-> own, before |-> before]

\* One attempt more for the entry at a position, under the identifier id.
Tried(r, at, id) ==
    LET e == r.msgs[at]
    IN  [r EXCEPT !.msgs[at] = [e EXCEPT !.attempts = e.attempts + 1, !.id = id]]

\* The entry at a position is due again after its wait, and the next is longer.
Waits(r, at) ==
    LET e == r.msgs[at]
    IN  [r EXCEPT !.msgs[at] = [e EXCEPT !.due = e.next_wait,
                                         !.next_wait = Min({2 * e.next_wait, MaxWait})]]

\* The second half: a new identifier for an accounting request, the send, the
\* next wait.
Resend(r, i, net) ==
    LET type  == r.msgs[i].type
        k     == KindOf(type)
        id    == r.next_id
        named == IF type = "acct" THEN radius_client_get_id(r) ELSE r
        hit   == IF type = "acct" THEN {j \in DOMAIN r.msgs : r.msgs[j].id = id} ELSE {}
        at    == i - Cardinality({j \in hit : j < i})
        tried == Tried(named, at, IF type = "acct" THEN id ELSE r.msgs[i].id)
        sent  == IF Sends(net) THEN tried ELSE radius_client_init_sock(tried, k, net)
        waits == Waits(sent, at)
    IN  IF i \in hit THEN Result(r, i, FALSE, TRUE, FALSE)
        ELSE IF ~Sends(net) /\ type = "auth" THEN Result(sent, at, FALSE, FALSE, FALSE)
        ELSE Result(waits, at, waits.msgs[at].attempts >= MaxRetries, FALSE,
                    i - 1 \in hit)

radius_client_retransmit(r, i, net) ==
    LET type  == r.msgs[i].type
        k     == KindOf(type)
        open  == IF r.sock[k] THEN r ELSE radius_client_init_sock(r, k, net)
        moves == ~open.sock[k] /\ Len(Secrets[k]) > 1
        moved == IF moves THEN radius_client_failover(open, k, net) ELSE open
    IN  IF moved.num_msgs # open.num_msgs THEN Result(moved, i, FALSE, FALSE, FALSE)
        ELSE IF type = "interim" \/ ~moved.sock[k]
             THEN Result(moved, i, TRUE, FALSE, FALSE)
        ELSE Resend(moved, i, IF moves THEN AtNext(net) ELSE net)

\* An entry whose time has not come is left as it is.
Visit(r, i, net) ==
    IF r.msgs[i].due > 0 THEN Result(r, i, FALSE, FALSE, FALSE)
    ELSE radius_client_retransmit(r, i, net)

\* radius_client_timer: one of the timeouts is due.
TimerFires ==
    /\ status = "on" /\ loop.pos = 0
    /\ radius.timers # <<>> /\ Head(radius.timers) = 0
    /\ radius' = [radius EXCEPT !.timers = Tail(@)]
    /\ loop' = IF radius.msgs = <<>> THEN loop
               ELSE [Outside EXCEPT !.pos = 1]
    /\ UNCHANGED status

\* The entry at i of r stays: note its next_try and whether its server is to
\* be given up, and go on.
GoOn(r, i) ==
    LET e == r.msgs[i]
        k == KindOf(e.type)
    IN  [pos |-> i + 1,
         first |-> IF loop.first = -1 THEN e.due ELSE Min({loop.first, e.due}),
         failover |-> IF \/ e.attempts > NumFailover
                         \/ ~r.sock[k] /\ e.attempts > 0
                      THEN loop.failover \cup {k} ELSE loop.failover]

\* One entry of the list. The message that num_msgs has changed sends the loop
\* back to the start; what get_id removes does not show in num_msgs.
TimerVisit ==
    /\ status = "on" /\ loop.pos \in DOMAIN radius.msgs
    /\ \E res \in {Visit(radius, loop.pos, net) : net \in Nets} :
          IF res.own \/ (res.drop /\ res.before)
          THEN /\ status' = "undef"
               /\ radius' = Fresh(radius.server)
               /\ loop' = Outside
          ELSE /\ UNCHANGED status
               /\ IF res.drop
                  THEN /\ radius' = TakeOut(res.r, DOMAIN res.r.msgs \ {res.at})
                       /\ loop' = [loop EXCEPT !.pos = res.at]
                  ELSE /\ radius' = res.r
                       /\ loop' = IF res.r.num_msgs # radius.num_msgs
                                  THEN [loop EXCEPT !.pos = 1]
                                  ELSE GoOn(res.r, res.at)

\* The end of the loop: the timeout for the entry that is due first, then the
\* failovers the entries asked for.
TimerEnd ==
    /\ status = "on" /\ loop.pos > Len(radius.msgs)
    /\ \E net \in Nets :
          LET timed == IF radius.msgs = <<>> THEN radius
                       ELSE [radius EXCEPT !.timers = Register(@, loop.first)]
              auth  == IF "auth" \in loop.failover
                       THEN radius_client_failover(timed, "auth", net) ELSE timed
          IN  radius' = IF "acct" \in loop.failover
                        THEN radius_client_failover(auth, "acct", net) ELSE auth
    /\ loop' = Outside
    /\ UNCHANGED status

\* The way back to the first server; if it cannot be reached the old one is
\* taken again, and named as both servers of the change.
BackToPrimary(r, k, net) ==
    LET old   == r.server[k]
        tried == radius_change_server([r EXCEPT !.server[k] = 1], k, 1, old, net)
    IN  IF ~r.sock[k] \/ old = 1 THEN r
        ELSE IF Connects(net) THEN tried
        ELSE radius_change_server([tried EXCEPT !.server[k] = old], k, old, old, net)

\* It registers itself again.
radius_retry_primary_timer ==
    /\ status = "on" /\ loop.pos = 0
    /\ radius.retry = 0
    /\ \E net \in Nets :
          radius' = BackToPrimary(
                        BackToPrimary([radius EXCEPT !.retry = RetryInterval], "auth", net),
                        "acct", net)
    /\ UNCHANGED <<status, loop>>

-----------------------------------------------------------------------------
\* Life of the client.

radius_client_deinit ==
    /\ status = "on" /\ loop.pos = 0
    /\ radius' = [radius_client_flush(radius, FALSE) EXCEPT
                     !.sock = [k \in Kinds |-> FALSE], !.retry = RetryInterval]
    /\ status' = "off"
    /\ UNCHANGED loop

\* Fails without a socket; the interface is not started then.
radius_client_init ==
    /\ status # "on"
    /\ \E net \in Nets \ {"nosock"} :
          radius' = radius_client_init_sock(
                        radius_client_init_sock(Fresh(radius.server), "auth", net),
                        "acct", net)
    /\ status' = "on"
    /\ UNCHANGED loop

\* A second goes by. eloop runs what is due first.
Tick ==
    /\ status = "on" /\ loop.pos = 0
    /\ radius.timers # <<>> => Head(radius.timers) > 0
    /\ radius.retry > 0
    /\ LET later(e) == [e EXCEPT !.due = IF @ = 0 THEN 0 ELSE @ - 1,
                                 !.age = IF @ = FirstWait THEN @ ELSE @ + 1]
       IN  radius' = [radius EXCEPT
              !.msgs = Each(later, @),
              !.timers = Each(LAMBDA t : t - 1, @),
              !.retry = @ - 1]
    /\ UNCHANGED <<status, loop>>

Init ==
    /\ radius = Fresh([k \in Kinds |-> 1])
    /\ status = "off"
    /\ loop = Outside

Next ==
    \/ NewRequest
    \/ \E k \in Kinds, id \in 0 .. IdSpace - 1 : radius_client_receive(k, id)
    \/ \E addr \in Addrs : radius_client_flush_auth(addr)
    \/ Reconfigure
    \/ TimerFires \/ TimerVisit \/ TimerEnd
    \/ radius_retry_primary_timer \/ Tick
    \/ radius_client_deinit \/ radius_client_init

Spec == Init /\ [][Next]_vars

\* The event loop runs the timeouts that are due, and time goes by.
EventLoop ==
    TimerFires \/ TimerVisit \/ TimerEnd \/ radius_retry_primary_timer \/ Tick

FairSpec == Spec /\ WF_vars(EventLoop)

-----------------------------------------------------------------------------
\* Properties.

Entries ==
    [type : Types, id : 0 .. IdSpace - 1, addr : Addrs,
     secret : UNION {Range(Secrets[k]) : k \in Kinds}, attempts : 0 .. MaxRetries,
     due : 0 .. MaxWait, next_wait : 1 .. MaxWait, age : 0 .. FirstWait]

\* The fields have their types and the list its limit; attempts never passes
\* the limit of retries, and of the timeouts of radius_client_timer, which it
\* registers itself without a cancel, there are never more than two.
TypeOK ==
    /\ radius.msgs \in Seq(Entries) /\ Len(radius.msgs) <= MaxEntries
    /\ radius.num_msgs \in Nat
    /\ radius.next_id \in 0 .. IdSpace - 1
    /\ \A k \in Kinds : radius.server[k] \in DOMAIN Secrets[k]
    /\ radius.sock \in [Kinds -> BOOLEAN]
    /\ radius.timers \in Seq(0 .. MaxWait) /\ Len(radius.timers) <= 2
    /\ radius.retry \in 0 .. RetryInterval
    /\ status \in {"on", "off", "undef"}
    /\ loop.pos \in 0 .. MaxEntries + 1 /\ loop.failover \subseteq Kinds

\* The comment of radius_client_get_id: an identifier is unique among the
\* pending requests, through retransmissions that take new ones and through
\* the wrap of the counter.
PendingIdsUnique ==
    \A i, j \in DOMAIN radius.msgs :
        radius.msgs[i].id = radius.msgs[j].id => i = j

\* num_msgs bounds the list from above and keeps its limit, so that the
\* unsigned counter cannot wrap below zero, whichever of the six ways an entry
\* takes out of the list.
CountCoversQueue ==
    Len(radius.msgs) <= radius.num_msgs /\ radius.num_msgs <= MaxEntries

\* Between two handlers a timeout runs for every non-empty list, no later than
\* the first entry is due or FirstWait, and none at all once the client is
\* freed.
TimelyTimer ==
    loop.pos = 0 =>
        /\ radius.msgs # <<>> =>
              /\ radius.timers # <<>>
              /\ Head(radius.timers) <= Max({FirstWait, MinDue(radius.msgs)})
        /\ status = "off" => radius.timers = <<>>

\* A request that is still retransmitted is signed with the secret of the
\* server it is sent to, after every change of server.
SecretCurrent ==
    \A i \in DOMAIN radius.msgs :
        LET e == radius.msgs[i]
        IN  e.type # "interim" => e.secret = Secrets[e.type][radius.server[e.type]]

\* Unless requests keep coming, which shows in an entry of age 0, the list
\* becomes empty again and again: every request is answered or given up.
QueueDrains ==
    []<>(radius.msgs = <<>> \/ \E i \in DOMAIN radius.msgs : radius.msgs[i].age = 0)
=============================================================================
