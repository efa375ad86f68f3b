------------------------- MODULE RadiusClientProofs -------------------------
(***************************************************************************)
(* The list of pending RADIUS requests, for any number of stations,        *)
(* servers and identifiers and any limits: identifiers are unique,         *)
(* num_msgs covers the list, and requests are signed for the server they   *)
(* go to as long as the accounting servers share one secret.  Then the     *)
(* timeouts and the counters: every field keeps its type and its limit,    *)
(* and between two handlers a timeout runs for every list that is not      *)
(* empty.                                                                  *)
(***************************************************************************)
EXTENDS RadiusClient, TLAPS, FiniteSetTheorems, SequenceTheorems, WellFoundedInduction

\* The fields of struct radius_client_data and of an entry of its list.
ClientFields == {"msgs", "num_msgs", "next_id", "server", "sock", "timers", "retry"}
EntryFields == {"type", "id", "addr", "secret", "attempts", "due", "next_wait", "age"}

\* What the proofs need to know of the types: a client is a record, and its
\* list a sequence of records.  (What the other fields hold does not matter.)
IsEntry(e) == e = [f \in EntryFields |-> e[f]] /\ e.type \in Types
IsList(s) == Len(s) \in Nat /\ s = [i \in 1 .. Len(s) |-> s[i]]
             /\ \A i \in 1 .. Len(s) : IsEntry(s[i])
IsClient(r) ==
    /\ r = [f \in ClientFields |-> r[f]]
    /\ IsList(r.msgs)
    /\ r.num_msgs \in Int
    /\ r.server = [k \in Kinds |-> r.server[k]]
    /\ \A k \in Kinds : r.server[k] \in 1 .. Len(Secrets[k])

\* The accounting servers are configured with one secret.
SameSecrets ==
    \A m, n \in 1 .. Len(Secrets["acct"]) : Secrets["acct"][m] = Secrets["acct"][n]

\* The entry e has the secret of the server its kind is now sent to.
SignedFor(e, server) == e.type # "interim" => e.secret = Secrets[e.type][server[e.type]]

\* No two entries have the same identifier.
Unique(s) == \A i, j \in 1 .. Len(s) : s[i].id = s[j].id => i = j

\* Every entry of the list s is signed for its server.
Signed(s, server) == \A i \in 1 .. Len(s) : SignedFor(s[i], server)

\* The counter is no less than the length of the list, and keeps to the limit.
Covered(r) == Len(r.msgs) <= r.num_msgs /\ r.num_msgs <= MaxEntries

\* What every operation keeps of a client, and so the inductive invariant.
Fine(r) ==
    /\ IsClient(r) /\ Unique(r.msgs) /\ Covered(r)
    /\ SameSecrets => Signed(r.msgs, r.server)

IInv == Fine(radius)

\* The identifiers of t are those of s, without some of them.
Thinner(t, s) ==
    /\ Unique(s) => Unique(t)
    /\ Len(t) <= Len(s)
    /\ \A i \in 1 .. Len(t) : \E j \in 1 .. Len(s) : t[i].id = s[j].id

\* The entries of t are entries of s at positions in I.
Picked(t, s, I) == \A i \in 1 .. Len(t) : \E j \in I : t[i] = s[j]

\* The client q is r with entries taken out, each of them counted.
Below(q, r) ==
    /\ Thinner(q.msgs, r.msgs)
    /\ q.num_msgs - Len(q.msgs) = r.num_msgs - Len(r.msgs)
    /\ q.next_id = r.next_id

-----------------------------------------------------------------------------
(* Taking entries out of a list. *)

\* The elements of t are those of s at different positions of I.
Selects(t, s, I) ==
    \E f \in [1 .. Cardinality(I) -> I] :
        /\ \A i, j \in 1 .. Cardinality(I) : f[i] = f[j] => i = j
        /\ \A i \in 1 .. Cardinality(I) : t[i] = s[f[i]]

\* The positions that are kept are taken one after the other.
LEMMA KeptElements ==
    ASSUME NEW s, NEW n \in Nat, NEW I \in SUBSET (1 .. n)
    PROVE  /\ Cardinality(I) \in Nat /\ Cardinality(I) <= n
           /\ Cardinality(I) = n => I = 1 .. n
           /\ Len(Kept(s, I)) = Cardinality(I)
           /\ Kept(s, I) = [i \in 1 .. Cardinality(I) |-> Kept(s, I)[i]]
           /\ Selects(Kept(s, I), s, I)
  <1> DEFINE Upto(i) == {j \in I : j <= i}
             rank == [i \in I |-> Cardinality(Upto(i))]
             c == Cardinality(I)
             nth(k) == CHOOSE i \in I : Cardinality(Upto(i)) = k
  <1>1. IsFiniteSet(1 .. n) /\ Cardinality(1 .. n) = n
    BY FS_Interval
  <1>2. IsFiniteSet(I) /\ c \in Nat /\ c <= n /\ (c = n => I = 1 .. n)
    BY <1>1, FS_Subset, FS_CardinalityType
  <1>3. ASSUME NEW i \in I
        PROVE  IsFiniteSet(Upto(i)) /\ Cardinality(Upto(i)) \in 1 .. c
    <2>1. Upto(i) \in SUBSET I /\ i \in Upto(i)
      OBVIOUS
    <2>2. IsFiniteSet(Upto(i)) /\ Cardinality(Upto(i)) <= c
      BY <2>1, <1>2, FS_Subset
    <2>3. Cardinality(Upto(i)) \in Nat /\ Cardinality(Upto(i)) # 0
      BY <2>1, <2>2, FS_CardinalityType, FS_EmptySet
    <2>4. QED
      BY <2>2, <2>3, <1>2
  <1>4. ASSUME NEW i \in I, NEW j \in I, i < j
        PROVE  Cardinality(Upto(i)) < Cardinality(Upto(j))
    <2>1. i \in Int /\ j \in Int /\ I \subseteq Int
      OBVIOUS
    <2>2. Upto(i) \in SUBSET Upto(j)
      <3> SUFFICES ASSUME NEW k \in I, k <= i PROVE k <= j
        OBVIOUS
      <3>1. QED
        BY <2>1, <1>4
    <2>3. Upto(i) \in SUBSET Upto(j) /\ j \in Upto(j) /\ j \notin Upto(i)
      BY <2>2, <2>1, <1>4
    <2>4. /\ Cardinality(Upto(i)) <= Cardinality(Upto(j))
          /\ Cardinality(Upto(j)) # Cardinality(Upto(i))
      BY <2>3, <1>3, FS_Subset
    <2>5. QED
      BY <2>4, <1>3
  <1>5. rank \in Injection(I, 1 .. c)
    <2>1. rank \in [I -> 1 .. c]
      BY <1>3
    <2>2. ASSUME NEW i \in I, NEW j \in I, rank[i] = rank[j] PROVE i = j
      <3>1. i \in Int /\ j \in Int
        OBVIOUS
      <3>2. rank[i] = Cardinality(Upto(i)) /\ rank[j] = Cardinality(Upto(j))
        OBVIOUS
      <3>3. QED
        BY <2>2, <3>1, <3>2, <1>3, <1>4
    <2>3. QED
      BY <2>1, <2>2 DEF Injection, IsInjective
  <1>6. rank \in Surjection(I, 1 .. c)
    <2>1. IsFiniteSet(1 .. c) /\ Cardinality(1 .. c) = c
      BY <1>2, FS_Interval
    <2>2. QED
      BY <2>1, <1>2, <1>5, FS_Injection
  <1>7. ASSUME NEW k \in 1 .. c
        PROVE  nth(k) \in I /\ Cardinality(Upto(nth(k))) = k
    <2>1. \E i \in I : Cardinality(Upto(i)) = k
      BY <1>6 DEF Surjection
    <2>2. QED
      BY <2>1
  <1>8. Kept(s, I) = [k \in 1 .. c |-> s[nth(k)]]
    BY DEF Kept
  <1>9. Len(Kept(s, I)) = c /\ Kept(s, I) = [i \in 1 .. c |-> Kept(s, I)[i]]
    BY <1>8, <1>2
  <1> DEFINE f == [k \in 1 .. c |-> nth(k)]
  <1>10. /\ f \in [1 .. c -> I]
         /\ \A i, j \in 1 .. c : f[i] = f[j] => i = j
         /\ \A i \in 1 .. c : Kept(s, I)[i] = s[f[i]]
    <2>1. f \in [1 .. c -> I]
      BY <1>7
    <2>2. ASSUME NEW i \in 1 .. c, NEW j \in 1 .. c, f[i] = f[j] PROVE i = j
      <3>1. f[i] = nth(i) /\ f[j] = nth(j)
        OBVIOUS
      <3>2. nth(i) = nth(j)
        BY <3>1, <2>2
      <3> HIDE DEF nth
      <3>3. QED
        BY <3>2, <1>7
    <2>3. \A i \in 1 .. c : Kept(s, I)[i] = s[f[i]]
      BY <1>8
    <2>4. QED
      BY <2>1, <2>2, <2>3
  <1> HIDE DEF f
  <1>11. QED
    BY <1>2, <1>9, <1>10 DEF Selects

\* So are lists of entries: what is kept is a list, as unique as it was.
LEMMA KeptList ==
    ASSUME NEW s, IsList(s), NEW I \in SUBSET (1 .. Len(s)), NEW t, t = Kept(s, I)
    PROVE  /\ IsList(t) /\ Thinner(t, s) /\ Picked(t, s, I)
           /\ Len(t) = Cardinality(I)
           /\ Len(t) = Len(s) => I = 1 .. Len(s)
  <1>1. Len(s) \in Nat /\ \A i \in 1 .. Len(s) : IsEntry(s[i])
    BY DEF IsList
  <1>2. /\ Cardinality(I) \in Nat /\ Cardinality(I) <= Len(s)
        /\ Len(t) = Cardinality(I)
        /\ t = [i \in 1 .. Cardinality(I) |-> t[i]]
        /\ Cardinality(I) = Len(s) => I = 1 .. Len(s)
    BY <1>1, KeptElements
  <1>3. Selects(t, s, I)
    BY <1>1, KeptElements
  <1>4. PICK f \in [1 .. Cardinality(I) -> I] :
                 /\ \A i, j \in 1 .. Cardinality(I) : f[i] = f[j] => i = j
                 /\ \A i \in 1 .. Cardinality(I) : t[i] = s[f[i]]
    BY <1>3 DEF Selects
  <1>5. \A i \in 1 .. Len(t) : f[i] \in I /\ f[i] \in 1 .. Len(s) /\ t[i] = s[f[i]]
    BY <1>2, <1>4
  <1>6. IsList(t)
    <2>1. \A i \in 1 .. Len(t) : IsEntry(t[i])
      BY <1>1, <1>5
    <2>2. QED
      BY <1>2, <2>1 DEF IsList
  <1>7. Picked(t, s, I)
    BY <1>5 DEF Picked
  <1>8. ASSUME Unique(s) PROVE Unique(t)
    <2> SUFFICES ASSUME NEW i \in 1 .. Len(t), NEW j \in 1 .. Len(t),
                        t[i].id = t[j].id
                 PROVE  i = j
      BY DEF Unique
    <2>1. f[i] = f[j]
      BY <1>5, <1>8 DEF Unique
    <2>2. QED
      BY <2>1, <1>2, <1>4
  <1>9. Thinner(t, s)
    BY <1>2, <1>5, <1>8 DEF Thinner
  <1>10. QED
    BY <1>2, <1>6, <1>7, <1>9

\* Taking entries out and counting them.
LEMMA TakeOutKeeps ==
    ASSUME NEW r, IsClient(r), NEW I \in SUBSET (1 .. Len(r.msgs)),
           NEW q, q = TakeOut(r, I)
    PROVE  /\ IsClient(q) /\ Below(q, r)
           /\ q.server = r.server /\ q.sock = r.sock
           /\ Len(q.msgs) = Cardinality(I)
           /\ Picked(q.msgs, r.msgs, I)
  <1> DEFINE t == Kept(r.msgs, I)
             n == r.num_msgs - (Len(r.msgs) - Cardinality(I))
  <1>1. /\ IsList(t) /\ Thinner(t, r.msgs) /\ Picked(t, r.msgs, I)
        /\ Len(t) = Cardinality(I)
    BY KeptList DEF IsClient
  <1>2. Len(r.msgs) \in Nat /\ Cardinality(I) \in Nat /\ r.num_msgs \in Int
    BY <1>1 DEF IsClient, IsList
  <1>3. q = [r EXCEPT !.msgs = t, !.num_msgs = n]
    BY DEF TakeOut
  <1>4. n \in Int /\ n - Len(t) = r.num_msgs - Len(r.msgs)
    BY <1>1, <1>2
  <1> HIDE DEF t, n
  <1>5. /\ q = [g \in ClientFields |-> q[g]]
        /\ q.msgs = t /\ q.num_msgs = n /\ q.next_id = r.next_id
        /\ q.server = r.server /\ q.sock = r.sock
    BY <1>3 DEF IsClient, ClientFields
  <1>6. IsClient(q)
    BY <1>1, <1>4, <1>5 DEF IsClient
  <1>7. Below(q, r)
    BY <1>1, <1>4, <1>5 DEF Below
  <1>8. QED
    BY <1>1, <1>5, <1>6, <1>7

\* A list thinned twice is thinner.
LEMMA ThinnerTransitive ==
    ASSUME NEW p, NEW q, NEW r, IsList(p), IsList(q), IsList(r),
           Thinner(p, q), Thinner(q, r)
    PROVE  Thinner(p, r)
  <1>1. Len(p) \in Nat /\ Len(q) \in Nat /\ Len(r) \in Nat
    BY DEF IsList
  <1>2. Unique(r) => Unique(p)
    BY DEF Thinner
  <1>3. Len(p) <= Len(r)
    BY <1>1 DEF Thinner
  <1>4. \A i \in 1 .. Len(p) : \E j \in 1 .. Len(r) : p[i].id = r[j].id
    <2> TAKE i \in 1 .. Len(p)
    <2>1. PICK k \in 1 .. Len(q) : p[i].id = q[k].id
      BY DEF Thinner
    <2>2. PICK j \in 1 .. Len(r) : q[k].id = r[j].id
      BY DEF Thinner
    <2>3. QED
      BY <2>1, <2>2
  <1>5. QED
    BY <1>2, <1>3, <1>4 DEF Thinner

\* Two operations that take entries out, one after the other.
LEMMA BelowTransitive ==
    ASSUME NEW p, NEW q, NEW r, IsClient(p), IsClient(q), IsClient(r),
           Below(p, q), Below(q, r)
    PROVE  Below(p, r)
  <1>1. /\ IsList(p.msgs) /\ IsList(q.msgs) /\ IsList(r.msgs)
        /\ p.num_msgs \in Int /\ q.num_msgs \in Int /\ r.num_msgs \in Int
    BY DEF IsClient
  <1>2. Thinner(p.msgs, r.msgs)
    BY <1>1, ThinnerTransitive DEF Below
  <1>3. QED
    BY <1>1, <1>2 DEF Below, IsList

\* Nothing taken out.
LEMMA BelowSelf ==
    ASSUME NEW r, IsClient(r)
    PROVE  Below(r, r)
  <1>1. Thinner(r.msgs, r.msgs)
    BY DEF IsClient, IsList, Thinner
  <1>2. QED
    BY <1>1 DEF Below

\* A client that had its invariant keeps it, but for the secrets.
LEMMA BelowIsCovered ==
    ASSUME NEW q, NEW r, IsClient(q), IsClient(r), Below(q, r),
           Unique(r.msgs), Covered(r)
    PROVE  Unique(q.msgs) /\ Covered(q)
  <1>1. /\ Len(q.msgs) \in Nat /\ Len(r.msgs) \in Nat
        /\ q.num_msgs \in Int /\ r.num_msgs \in Int /\ MaxEntries \in Int
    BY LimitsAssumption DEF IsClient, IsList
  <1>2. Unique(q.msgs)
    BY Zenon DEF Below, Thinner
  <1>3. /\ Len(q.msgs) <= Len(r.msgs)
        /\ q.num_msgs - Len(q.msgs) = r.num_msgs - Len(r.msgs)
        /\ Len(r.msgs) <= r.num_msgs /\ r.num_msgs <= MaxEntries
    BY DEF Below, Thinner, Covered
  <1>4. Covered(q)
    BY <1>1, <1>3 DEF Covered
  <1>5. QED
    BY <1>2, <1>4

\* radius_client_flush takes out what it does not keep.
LEMMA FlushKeeps ==
    ASSUME NEW r, IsClient(r), NEW only_auth \in BOOLEAN,
           NEW q, q = radius_client_flush(r, only_auth)
    PROVE  /\ IsClient(q) /\ Below(q, r)
           /\ q.server = r.server /\ q.sock = r.sock
           /\ Picked(q.msgs, r.msgs, {j \in 1 .. Len(r.msgs) : r.msgs[j].type # "auth"})
  <1> DEFINE I == NotFlushed(r, only_auth)
             J == {j \in 1 .. Len(r.msgs) : r.msgs[j].type # "auth"}
             t == TakeOut(r, I)
  <1>1. I \in SUBSET (1 .. Len(r.msgs)) /\ I \subseteq J
    BY DEF NotFlushed, IsClient, IsList
  <1> HIDE DEF I, J
  <1>2. /\ IsClient(t) /\ Below(t, r)
        /\ t.server = r.server /\ t.sock = r.sock
        /\ Picked(t.msgs, r.msgs, I)
    BY <1>1, TakeOutKeeps
  <1>3. q = t \/ q = [t EXCEPT !.timers = <<>>]
    BY DEF radius_client_flush, I
  <1> HIDE DEF t
  <1>4. /\ q = [f \in ClientFields |-> q[f]]
        /\ q.msgs = t.msgs /\ q.num_msgs = t.num_msgs /\ q.next_id = t.next_id
        /\ q.server = t.server /\ q.sock = t.sock
    BY <1>2, <1>3 DEF IsClient, ClientFields
  <1>5. IsClient(q)
    BY <1>2, <1>4 DEF IsClient
  <1>6. Below(q, r)
    BY <1>2, <1>4 DEF Below
  <1>7. Picked(q.msgs, r.msgs, J)
    BY <1>1, <1>2, <1>4 DEF Picked
  <1>8. QED
    BY <1>2, <1>4, <1>5, <1>6, <1>7 DEF J

-----------------------------------------------------------------------------
(* Servers. *)

\* Each entry keeps its identifier and its type, whatever else a function of it
\* changes: the list is as unique as it was.
Relabelled(t, s) ==
    /\ Len(t) = Len(s)
    /\ \A i \in 1 .. Len(s) : t[i].id = s[i].id /\ t[i].type = s[i].type

\* New secrets and times leave the identifiers as they were.
LEMMA RelabelledIsThinner ==
    ASSUME NEW s, NEW t, IsList(s), IsList(t), Relabelled(t, s)
    PROVE  Thinner(t, s)
  <1>1. Len(s) \in Nat /\ Len(t) = Len(s)
    BY DEF IsList, Relabelled
  <1>2. Unique(s) => Unique(t)
    BY <1>1 DEF Unique, Relabelled
  <1>3. \A i \in 1 .. Len(t) : \E j \in 1 .. Len(s) : t[i].id = s[j].id
    BY <1>1 DEF Relabelled
  <1>4. QED
    BY <1>1, <1>2, <1>3 DEF Thinner

\* Starting the counters of an entry again keeps its identifier and type, and
\* leaves the secret of an authentication request alone.
LEMMA ResetEntry ==
    ASSUME NEW e, IsEntry(e), NEW k, NEW new
    PROVE  /\ IsEntry(Reset(e, k, new))
           /\ Reset(e, k, new).id = e.id /\ Reset(e, k, new).type = e.type
           /\ Reset(e, k, new).secret = IF k = "acct" THEN Secrets[k][new] ELSE e.secret
  <1> DEFINE c == IF k = "acct" THEN Secrets[k][new] ELSE e.secret
             x == Reset(e, k, new)
  <1>1. x = [e EXCEPT !.due = FirstWait - e.age, !.attempts = 0,
                      !.next_wait = 2 * FirstWait, !.secret = c]
    BY DEF Reset
  <1> HIDE DEF c, x
  <1>2. x = [f \in EntryFields |-> x[f]] /\ x.id = e.id /\ x.type = e.type /\ x.secret = c
    BY <1>1 DEF IsEntry, EntryFields
  <1>3. IsEntry(x)
    BY <1>2 DEF IsEntry
  <1> USE DEF x, c
  <1>4. QED
    BY <1>2, <1>3

\* The list of an entry of kind k before its server changes from old to new.
SignedBefore(s, server, k, new, old) ==
    \A i \in 1 .. Len(s) :
        /\ s[i].type # k => SignedFor(s[i], server)
        /\ s[i].type = k => \E o \in 1 .. Len(Secrets[k]) :
              /\ s[i].secret = Secrets[k][o]
              /\ old = 0 => o = new
              /\ Moved(new, old) => o = old

\* A change of server may throw requests away, and no more: what stays is
\* signed for the new server.
LEMMA ChangeServer ==
    ASSUME NEW r, IsClient(r), NEW k \in Kinds, NEW old \in 0 .. Len(Secrets[k]), NEW net,
           NEW q, q = radius_change_server(r, k, r.server[k], old, net)
    PROVE  /\ IsClient(q) /\ Below(q, r) /\ q.server = r.server
           /\ old = 0 => Len(q.msgs) = Len(r.msgs)
           /\ SameSecrets /\ SignedBefore(r.msgs, r.server, k, r.server[k], old)
                 => Signed(q.msgs, q.server)
  <1> DEFINE new == r.server[k]
             kept == Thrown(r, k, new, old)
             step(e) == IF Moved(new, old) /\ e.type = k THEN Reset(e, k, new) ELSE e
             t == [i \in 1 .. Len(kept.msgs) |-> step(kept.msgs[i])]
             timers == IF kept.msgs = <<>> THEN kept.timers ELSE <<FirstWait>>
             sock == [kept.sock EXCEPT ![k] = @ \/ Connects(net)]
             J == {j \in 1 .. Len(r.msgs) : r.msgs[j].type # "auth"}
  <1>1. new \in 1 .. Len(Secrets[k]) /\ Len(Secrets[k]) \in Nat
    <2>1. Len(Secrets[k]) \in Nat
      BY ServersAssumption, LenProperties
    <2>2. QED
      BY <2>1 DEF IsClient
  <1>2. /\ IsClient(kept) /\ Below(kept, r) /\ kept.server = r.server
        /\ \/ kept = r
           \/ k = "auth" /\ old # 0 /\ Picked(kept.msgs, r.msgs, J)
    <2> DEFINE throws == k = "auth" /\ (old = new
                            \/ (Moved(new, old) /\ Secrets[k][new] # Secrets[k][old]))
    <2>1. CASE ~throws
      <3>1. Thinner(r.msgs, r.msgs)
        BY DEF IsClient, IsList, Thinner
      <3>2. kept = r
        BY <2>1 DEF Thrown
      <3>3. QED
        BY <3>1, <3>2 DEF Below
    <2>2. CASE throws
      <3>1. k = "auth" /\ old # 0
        BY <1>1, <2>2 DEF Moved
      <3>2. kept = radius_client_flush(r, TRUE)
        BY <2>2 DEF Thrown
      <3> HIDE DEF kept, J
      <3>3. QED
        BY <3>1, <3>2, FlushKeeps DEF J
    <2>3. QED
      BY <2>1, <2>2
  <1>3. q = [kept EXCEPT !.msgs = t, !.timers = timers, !.sock = sock]
    BY DEF radius_change_server, Each
  <1> HIDE DEF kept, J, timers, sock
  <1>4. IsList(kept.msgs) /\ Len(kept.msgs) \in Nat
        /\ \A i \in 1 .. Len(kept.msgs) : IsEntry(kept.msgs[i])
    BY <1>2 DEF IsClient, IsList
  <1>5. \A e : IsEntry(e) => IsEntry(step(e)) /\ step(e).id = e.id /\ step(e).type = e.type
    BY ResetEntry
  <1>6. \A i \in 1 .. Len(kept.msgs) : t[i] = step(kept.msgs[i])
    OBVIOUS
  <1>7. Len(t) = Len(kept.msgs) /\ t = [i \in 1 .. Len(t) |-> t[i]]
    BY <1>4
  <1> HIDE DEF step, t
  <1>8. IsList(t)
    BY <1>4, <1>5, <1>6, <1>7 DEF IsList
  <1>9. Relabelled(t, kept.msgs)
    BY <1>4, <1>5, <1>6, <1>7 DEF Relabelled
  <1>10. Thinner(t, kept.msgs)
    BY <1>4, <1>8, <1>9, RelabelledIsThinner
  <1>11. /\ q = [f \in ClientFields |-> q[f]]
         /\ q.msgs = t /\ q.num_msgs = kept.num_msgs /\ q.next_id = kept.next_id
         /\ q.server = r.server
    BY <1>2, <1>3 DEF IsClient, ClientFields
  <1>12. IsClient(q)
    BY <1>2, <1>8, <1>11 DEF IsClient
  <1>13. Below(q, r)
    <2>1. Below(q, kept)
      BY <1>7, <1>10, <1>11 DEF Below
    <2>2. QED
      BY <2>1, <1>2, <1>12, BelowTransitive
  <1>14. old = 0 => Len(q.msgs) = Len(r.msgs)
    BY <1>2, <1>7, <1>11
  <1>15. ASSUME SameSecrets, SignedBefore(r.msgs, r.server, k, new, old)
         PROVE  Signed(q.msgs, q.server)
    <2> SUFFICES ASSUME NEW i \in 1 .. Len(t) PROVE SignedFor(t[i], r.server)
      BY <1>11 DEF Signed
    <2> DEFINE e == kept.msgs[i]
    <2>1. /\ i \in 1 .. Len(kept.msgs) /\ IsEntry(e) /\ t[i] = step(e)
          /\ step(e).type = e.type
      BY <1>4, <1>5, <1>6, <1>7
    <2>2. PICK j \in 1 .. Len(r.msgs) :
             e = r.msgs[j] /\ (kept = r \/ (k = "auth" /\ e.type # "auth"))
      BY <1>2, <2>1 DEF Picked, J
    <2> HIDE DEF e
    <2>3. CASE e.type # k
      <3>1. SignedFor(e, r.server)
        BY <1>15, <2>2, <2>3 DEF SignedBefore
      <3>2. step(e) = e
        BY <2>3 DEF step
      <3>3. QED
        BY <2>1, <3>1, <3>2
    <2>4. CASE e.type = k
      <3>1. PICK o \in 1 .. Len(Secrets[k]) :
              /\ e.secret = Secrets[k][o]
              /\ old = 0 => o = new
              /\ Moved(new, old) => o = old
        BY <1>15, <2>2, <2>4 DEF SignedBefore
      <3>2. kept = r
        BY <2>2, <2>4
      <3>3. step(e).secret = Secrets[k][new]
        <4>1. CASE k = "acct"
          <5>1. Secrets[k][o] = Secrets[k][new]
            BY <1>1, <1>15, <4>1 DEF SameSecrets
          <5>2. QED
            BY <2>1, <3>1, <4>1, <5>1, ResetEntry DEF step
        <4>2. CASE k = "auth"
          <5>1. step(e).secret = e.secret
            BY <2>1, <4>2, ResetEntry DEF step
          <5>2. CASE old = 0
            BY <3>1, <5>1, <5>2
          <5>3. CASE old = new
            <6>1. kept = radius_client_flush(r, TRUE)
              BY <4>2, <5>3 DEF kept, Thrown
            <6>2. Picked(kept.msgs, r.msgs, J)
              BY <6>1, FlushKeeps DEF J
            <6>3. FALSE
              BY <6>2, <2>1, <2>4, <4>2 DEF Picked, J, e
            <6>4. QED
              BY <6>3
          <5>4. CASE Moved(new, old)
            <6>1. CASE Secrets[k][new] = Secrets[k][old]
              BY <3>1, <5>1, <5>4, <6>1
            <6>2. CASE Secrets[k][new] # Secrets[k][old]
              <7>1. kept = radius_client_flush(r, TRUE)
                BY <4>2, <5>4, <6>2 DEF kept, Thrown
              <7>2. Picked(kept.msgs, r.msgs, J)
                BY <7>1, FlushKeeps DEF J
              <7>3. FALSE
                BY <7>2, <2>1, <2>4, <4>2 DEF Picked, J, e
              <7>4. QED
                BY <7>3
            <6>3. QED
              BY <6>1, <6>2
          <5>5. QED
            BY <5>2, <5>3, <5>4 DEF Moved
        <4>3. QED
          BY <4>1, <4>2 DEF Kinds
      <3>4. QED
        BY <2>1, <2>4, <3>3 DEF SignedFor
    <2>5. QED
      BY <2>3, <2>4
  <1>16. QED
    BY <1>11, <1>12, <1>13, <1>14, <1>15

\* There is a server of either kind.
LEMMA ServerCount ==
    ASSUME NEW k \in Kinds
    PROVE  Len(Secrets[k]) \in Nat \ {0} /\ 0 \in 0 .. Len(Secrets[k])
  <1>1. Len(Secrets[k]) \in Nat /\ Len(Secrets[k]) > 0
    BY ServersAssumption, LenProperties
  <1>2. QED
    BY <1>1

\* A client that a change of server has made of one with its invariant.
LEMMA BelowIsFine ==
    ASSUME NEW q, NEW r, IsClient(q), Below(q, r), IsClient(r),
           Unique(r.msgs), Covered(r), SameSecrets => Signed(q.msgs, q.server)
    PROVE  Fine(q)
  BY BelowIsCovered DEF Fine

\* Opening a socket again throws nothing away.
LEMMA InitSock ==
    ASSUME NEW r, Fine(r), NEW k \in Kinds, NEW net,
           NEW q, q = radius_client_init_sock(r, k, net)
    PROVE  /\ Fine(q) /\ Below(q, r) /\ q.server = r.server
           /\ Len(q.msgs) = Len(r.msgs)
  <1> DEFINE c == [r EXCEPT !.sock[k] = FALSE]
  <1>1. IsClient(r) /\ IsList(r.msgs)
    BY DEF Fine, IsClient
  <1>2. /\ c = [f \in ClientFields |-> c[f]]
        /\ c.msgs = r.msgs /\ c.num_msgs = r.num_msgs /\ c.next_id = r.next_id
        /\ c.server = r.server
    BY <1>1 DEF IsClient, ClientFields
  <1>3. q = c \/ q = radius_change_server(c, k, c.server[k], 0, net)
    BY <1>2 DEF radius_client_init_sock
  <1> HIDE DEF c
  <1>4. IsClient(c) /\ Unique(c.msgs) /\ Covered(c)
        /\ (SameSecrets => Signed(c.msgs, c.server))
    BY <1>1, <1>2 DEF IsClient, Fine, Covered
  <1>5. Below(c, r) /\ Below(c, c)
    <2>1. Thinner(r.msgs, r.msgs)
      BY <1>1 DEF IsList, Thinner
    <2>2. QED
      BY <1>2, <2>1 DEF Below
  <1>6. CASE q = c
    BY <1>2, <1>4, <1>5, <1>6 DEF Fine
  <1>7. CASE q = radius_change_server(c, k, c.server[k], 0, net)
    <2>1. 0 \in 0 .. Len(Secrets[k]) /\ c.server[k] \in 1 .. Len(Secrets[k])
      BY <1>4, ServerCount DEF IsClient
    <2>2. ASSUME SameSecrets PROVE SignedBefore(c.msgs, c.server, k, c.server[k], 0)
      <3>1. Signed(c.msgs, c.server) /\ "interim" \notin Kinds
        BY <1>4, <2>2 DEF Kinds
      <3>2. QED
        BY <2>1, <3>1 DEF Signed, SignedBefore, SignedFor, Moved
    <2>3. /\ IsClient(q) /\ Below(q, c) /\ q.server = c.server
          /\ Len(q.msgs) = Len(c.msgs)
          /\ SameSecrets => Signed(q.msgs, q.server)
      BY <1>4, <1>7, <2>1, <2>2, ChangeServer
    <2>4. Fine(q)
      BY <1>4, <2>3, BelowIsFine
    <2>5. Below(q, r)
      BY <1>1, <1>4, <1>5, <2>3, BelowTransitive
    <2>6. QED
      BY <1>2, <2>3, <2>4, <2>5
  <1>8. QED
    BY <1>3, <1>6, <1>7

\* The server of kind k is replaced by another, with the list as it was.
Served(r, k, new) == [r EXCEPT !.server[k] = new]

\* The entries are then signed for the server that was replaced.
LEMMA ServerReplaced ==
    ASSUME NEW r, Fine(r), NEW k \in Kinds, NEW new \in 1 .. Len(Secrets[k]),
           NEW c, c = Served(r, k, new)
    PROVE  /\ IsClient(c) /\ Unique(c.msgs) /\ Covered(c) /\ Below(c, r)
           /\ c.server[k] = new /\ c.msgs = r.msgs /\ c.num_msgs = r.num_msgs
           /\ SameSecrets => SignedBefore(c.msgs, c.server, k, new, r.server[k])
  <1>1. /\ IsClient(r) /\ IsList(r.msgs)
        /\ \A j \in Kinds : r.server[j] \in 1 .. Len(Secrets[j])
        /\ r.server = [j \in Kinds |-> r.server[j]]
    BY DEF Fine, IsClient
  <1> DEFINE v == [r.server EXCEPT ![k] = new]
  <1>2. /\ v = [j \in Kinds |-> v[j]] /\ v[k] = new
        /\ \A j \in Kinds : v[j] \in 1 .. Len(Secrets[j])
        /\ \A j \in Kinds : j # k => v[j] = r.server[j]
    BY <1>1
  <1>3. c = [r EXCEPT !.server = v]
    BY DEF Served
  <1> HIDE DEF v
  <1>4. /\ c = [f \in ClientFields |-> c[f]]
        /\ c.msgs = r.msgs /\ c.num_msgs = r.num_msgs /\ c.next_id = r.next_id
        /\ c.server = v
    BY <1>1, <1>3 DEF IsClient, ClientFields
  <1>5. IsClient(c)
    BY <1>1, <1>2, <1>4 DEF IsClient
  <1>6. Unique(c.msgs) /\ Covered(c)
    BY <1>4 DEF Fine, Covered
  <1>7. Below(c, r)
    <2>1. Thinner(r.msgs, r.msgs)
      BY <1>1 DEF IsList, Thinner
    <2>2. QED
      BY <1>4, <2>1 DEF Below
  <1>8. ASSUME SameSecrets PROVE SignedBefore(c.msgs, c.server, k, new, r.server[k])
    <2>1. Signed(r.msgs, r.server)
      BY <1>8 DEF Fine
    <2> SUFFICES ASSUME NEW i \in 1 .. Len(r.msgs)
                 PROVE  /\ r.msgs[i].type # k => SignedFor(r.msgs[i], v)
                        /\ r.msgs[i].type = k =>
                              r.msgs[i].secret = Secrets[k][r.server[k]]
      <3>1. r.server[k] \in 1 .. Len(Secrets[k]) /\ r.server[k] # 0
        BY <1>1
      <3>2. QED
        BY <1>4, <3>1 DEF SignedBefore
    <2>2. SignedFor(r.msgs[i], r.server) /\ r.msgs[i].type \in Types
      BY <1>1, <2>1 DEF Signed, IsList, IsEntry
    <2>3. ASSUME r.msgs[i].type # k PROVE SignedFor(r.msgs[i], v)
      BY <1>2, <2>2, <2>3 DEF SignedFor, Types, Kinds
    <2>4. ASSUME r.msgs[i].type = k PROVE r.msgs[i].secret = Secrets[k][r.server[k]]
      BY <2>2, <2>4 DEF SignedFor, Kinds
    <2>5. QED
      BY <2>3, <2>4
  <1>9. QED
    BY <1>2, <1>4, <1>5, <1>6, <1>7, <1>8

\* A failover keeps the invariant.
LEMMA Failover ==
    ASSUME NEW r, Fine(r), NEW k \in Kinds, NEW net,
           NEW q, q = radius_client_failover(r, k, net)
    PROVE  Fine(q) /\ Below(q, r)
  <1> DEFINE old == r.server[k]
             new == IF old = Len(Secrets[k]) THEN 1 ELSE old + 1
             c == Served(r, k, new)
  <1>1. /\ Len(Secrets[k]) \in Nat \ {0} /\ old \in 1 .. Len(Secrets[k])
        /\ old \in 0 .. Len(Secrets[k]) /\ new \in 1 .. Len(Secrets[k])
    <2>1. Len(Secrets[k]) \in Nat /\ Len(Secrets[k]) > 0
      BY ServerCount
    <2>2. old \in 1 .. Len(Secrets[k])
      BY DEF Fine, IsClient
    <2>3. QED
      BY <2>1, <2>2
  <1>2. q = radius_change_server(c, k, new, old, AtNext(net))
    BY DEF radius_client_failover, Served
  <1> HIDE DEF new, c
  <1>3. /\ IsClient(c) /\ Unique(c.msgs) /\ Covered(c) /\ Below(c, r)
        /\ c.server[k] = new
        /\ SameSecrets => SignedBefore(c.msgs, c.server, k, new, old)
    BY <1>1, ServerReplaced DEF c
  <1> HIDE DEF old
  <1>4. /\ IsClient(q) /\ Below(q, c)
        /\ SameSecrets => Signed(q.msgs, q.server)
    BY <1>1, <1>2, <1>3, ChangeServer
  <1>5. QED
    BY <1>3, <1>4, BelowIsFine, BelowTransitive DEF Fine

-----------------------------------------------------------------------------
(* Sending. *)

\* After radius_client_get_id no entry has the identifier that was given out.
LEMMA GetId ==
    ASSUME NEW r, Fine(r), NEW q, q = radius_client_get_id(r)
    PROVE  /\ Fine(q) /\ q.server = r.server
           /\ \A i \in 1 .. Len(q.msgs) : q.msgs[i].id # r.next_id
           /\ Len(q.msgs) = Cardinality({i \in 1 .. Len(r.msgs) : r.msgs[i].id # r.next_id})
  <1> DEFINE I == {i \in 1 .. Len(r.msgs) : r.msgs[i].id # r.next_id}
             t == Kept(r.msgs, I)
             id == (r.next_id + 1) % IdSpace
  <1>1. IsClient(r) /\ IsList(r.msgs) /\ DOMAIN r.msgs = 1 .. Len(r.msgs)
    BY DEF Fine, IsClient, IsList
  <1>2. q = [r EXCEPT !.msgs = t, !.next_id = id]
    BY <1>1 DEF radius_client_get_id
  <1>3. I \in SUBSET (1 .. Len(r.msgs)) /\ \A i \in I : r.msgs[i].id # r.next_id
    OBVIOUS
  <1> HIDE DEF I
  <1>4. /\ IsList(t) /\ Thinner(t, r.msgs) /\ Picked(t, r.msgs, I)
        /\ Len(t) = Cardinality(I)
    BY <1>1, <1>3, KeptList
  <1> HIDE DEF t, id
  <1>5. /\ q = [f \in ClientFields |-> q[f]]
        /\ q.msgs = t /\ q.num_msgs = r.num_msgs /\ q.server = r.server
    BY <1>1, <1>2 DEF IsClient, ClientFields
  <1>6. IsClient(q)
    BY <1>1, <1>4, <1>5 DEF IsClient
  <1>7. Unique(q.msgs)
    BY <1>4, <1>5, Zenon DEF Thinner, Fine
  <1>8. Covered(q)
    <2>1. /\ Len(t) \in Nat /\ Len(r.msgs) \in Nat /\ r.num_msgs \in Int
          /\ Len(t) <= Len(r.msgs) /\ Len(r.msgs) <= r.num_msgs
          /\ r.num_msgs <= MaxEntries
      BY <1>1, <1>4 DEF IsClient, IsList, Thinner, Fine, Covered
    <2>2. QED
      BY <1>5, <2>1 DEF Covered
  <1>9. ASSUME SameSecrets PROVE Signed(q.msgs, q.server)
    <2>1. Signed(r.msgs, r.server)
      BY <1>9 DEF Fine
    <2>2. QED
      BY <1>3, <1>4, <1>5, <2>1 DEF Signed, Picked
  <1>10. \A i \in 1 .. Len(q.msgs) : q.msgs[i].id # r.next_id
    BY <1>3, <1>4, <1>5 DEF Picked
  <1>11. QED
    BY <1>4, <1>5, <1>6, <1>7, <1>8, <1>9, <1>10 DEF Fine, I

\* An entry with a new identifier can be put into the list: if there is no room
\* for it the oldest one goes.
LEMMA ListAdd ==
    ASSUME NEW r, Fine(r), NEW e, IsEntry(e),
           \A i \in 1 .. Len(r.msgs) : r.msgs[i].id # e.id,
           SignedFor(e, r.server)
    PROVE  Fine(radius_client_list_add(r, e))
  <1> DEFINE t == <<e>> \o r.msgs
             u == SubSeq(t, 1, Len(t) - 1)
             due == <<MinDue(t)>>
             a == [r EXCEPT !.msgs = t, !.timers = due]
             q == radius_client_list_add(r, e)
  <1>1. /\ IsClient(r) /\ IsList(r.msgs) /\ Unique(r.msgs) /\ r.num_msgs \in Int
        /\ Len(r.msgs) <= r.num_msgs /\ r.num_msgs <= MaxEntries
        /\ MaxEntries \in Nat \ {0}
    BY LimitsAssumption DEF Fine, IsClient, Covered
  <1>2. PICK S : e \in S /\ r.msgs \in Seq(S)
    <2> DEFINE S == {e} \cup {r.msgs[i] : i \in 1 .. Len(r.msgs)}
    <2>1. r.msgs \in Seq(S)
      BY <1>1 DEF IsList
    <2>2. QED
      BY <2>1
  <1>3. /\ t \in Seq(S) /\ Len(t) = Len(r.msgs) + 1 /\ t[1] = e
        /\ \A i \in 2 .. Len(t) : t[i] = r.msgs[i - 1]
    <2>1. <<e>> \in Seq(S) /\ Len(<<e>>) = 1 /\ <<e>>[1] = e
      BY <1>2
    <2>2. /\ t \in Seq(S) /\ Len(t) = 1 + Len(r.msgs)
          /\ \A i \in 1 .. 1 + Len(r.msgs) : t[i] = IF i <= 1 THEN <<e>>[i] ELSE r.msgs[i - 1]
      BY <1>2, <2>1, ConcatProperties
    <2>3. Len(r.msgs) \in Nat
      BY <1>1 DEF IsList
    <2> HIDE DEF t
    <2>4. QED
      BY <2>1, <2>2, <2>3
  <1> HIDE DEF t
  <1>4. Len(r.msgs) \in Nat /\ Len(t) \in Nat /\ t = [i \in 1 .. Len(t) |-> t[i]]
    BY <1>1, <1>3, LenProperties DEF IsList
  <1>5. \A i \in 1 .. Len(t) : \/ i = 1 /\ t[i] = e
                               \/ i - 1 \in 1 .. Len(r.msgs) /\ t[i] = r.msgs[i - 1]
    BY <1>3, <1>4
  <1>6. IsList(t)
    <2>1. \A i \in 1 .. Len(t) : IsEntry(t[i])
      BY <1>1, <1>5 DEF IsList
    <2>2. QED
      BY <1>4, <2>1 DEF IsList
  <1>7. Unique(t)
    <2> SUFFICES ASSUME NEW i \in 1 .. Len(t), NEW j \in 1 .. Len(t), t[i].id = t[j].id
                 PROVE  i = j
      BY DEF Unique
    <2>1. CASE i = 1 /\ t[i] = e
      <3>1. ~(j - 1 \in 1 .. Len(r.msgs) /\ t[j] = r.msgs[j - 1])
        BY <2>1
      <3>2. QED
        BY <1>5, <2>1, <3>1
    <2>2. CASE j = 1 /\ t[j] = e
      <3>1. ~(i - 1 \in 1 .. Len(r.msgs) /\ t[i] = r.msgs[i - 1])
        BY <2>2
      <3>2. QED
        BY <1>5, <2>2, <3>1
    <2>3. CASE /\ i - 1 \in 1 .. Len(r.msgs) /\ t[i] = r.msgs[i - 1]
               /\ j - 1 \in 1 .. Len(r.msgs) /\ t[j] = r.msgs[j - 1]
      <3>1. i - 1 = j - 1
        BY <1>1, <2>3 DEF Unique
      <3>2. QED
        BY <1>4, <3>1
    <2>4. QED
      BY <1>5, <2>1, <2>2, <2>3
  <1>8. SameSecrets => Signed(t, r.server)
    BY <1>5 DEF Signed, Fine
  <1>9. /\ Len(u) = Len(t) - 1 /\ u \in Seq(S)
        /\ \A i \in 1 .. Len(t) - 1 : u[i] = t[i]
    BY <1>3, <1>4, SubSeqProperties
  <1> HIDE DEF u
  <1>10. IsList(u) /\ Unique(u) /\ (SameSecrets => Signed(u, r.server))
    <2>1. u = [i \in 1 .. Len(u) |-> u[i]] /\ Len(u) \in Nat
      BY <1>9, LenProperties
    <2>2. \A i \in 1 .. Len(u) : i \in 1 .. Len(t) /\ u[i] = t[i]
      BY <1>4, <1>9, <2>1
    <2>3. IsList(u)
      BY <1>6, <2>1, <2>2 DEF IsList
    <2>4. Unique(u)
      BY <1>7, <2>2 DEF Unique
    <2>5. SameSecrets => Signed(u, r.server)
      BY <1>8, <2>2 DEF Signed
    <2>6. QED
      BY <2>3, <2>4, <2>5
  <1>11. radius_client_update_timeout([r EXCEPT !.msgs = <<e>> \o @]) = a
    BY <1>1 DEF radius_client_update_timeout, IsClient, ClientFields, t
  <1> HIDE DEF due
  <1>12. /\ a = [f \in ClientFields |-> a[f]]
         /\ a.msgs = t /\ a.num_msgs = r.num_msgs /\ a.server = r.server
    BY <1>1 DEF IsClient, ClientFields
  <1>13. q = IF r.num_msgs < MaxEntries THEN [a EXCEPT !.num_msgs = r.num_msgs + 1]
             ELSE IF Len(t) = 1 THEN a ELSE [a EXCEPT !.msgs = u]
    BY <1>11, <1>12 DEF radius_client_list_add, Front, u
  <1> HIDE DEF a, q
  <1>14. CASE r.num_msgs < MaxEntries
    <2>1. /\ q = [f \in ClientFields |-> q[f]]
          /\ q.msgs = t /\ q.num_msgs = r.num_msgs + 1 /\ q.server = r.server
      BY <1>12, <1>13, <1>14 DEF ClientFields
    <2>2. IsClient(q) /\ Covered(q)
      <3>1. IsClient(q)
        <4>1. q.num_msgs \in Int
          BY <1>1, <2>1
        <4>2. QED
          BY <1>1, <1>6, <2>1, <4>1 DEF IsClient
      <3>2. Covered(q)
        BY <1>1, <1>3, <1>4, <1>14, <2>1 DEF Covered
      <3>3. QED
        BY <3>1, <3>2
    <2>3. QED
      BY <1>7, <1>8, <2>1, <2>2 DEF Fine, q
  <1>15. CASE ~(r.num_msgs < MaxEntries) /\ Len(t) = 1
    <2>1. q = a
      BY <1>13, <1>15
    <2>2. IsClient(q) /\ Covered(q)
      <3>1. IsClient(q)
        BY <1>1, <1>6, <1>12, <2>1 DEF IsClient
      <3>2. Covered(q)
        <4>1. Len(q.msgs) = 1 /\ q.num_msgs = r.num_msgs
          BY <1>12, <1>15, <2>1
        <4>2. r.num_msgs = MaxEntries /\ 1 <= MaxEntries
          BY <1>1, <1>15
        <4>3. QED
          BY <1>1, <4>1, <4>2 DEF Covered
      <3>3. QED
        BY <3>1, <3>2
    <2>3. QED
      BY <1>7, <1>8, <1>12, <2>1, <2>2 DEF Fine, q
  <1>16. CASE ~(r.num_msgs < MaxEntries) /\ Len(t) # 1
    <2>1. /\ q = [f \in ClientFields |-> q[f]]
          /\ q.msgs = u /\ q.num_msgs = r.num_msgs /\ q.server = r.server
      BY <1>12, <1>13, <1>16 DEF ClientFields
    <2>2. IsClient(q) /\ Covered(q)
      <3>1. IsClient(q)
        BY <1>1, <1>10, <2>1 DEF IsClient
      <3>2. Covered(q)
        BY <1>1, <1>3, <1>4, <1>9, <1>16, <2>1 DEF Covered
      <3>3. QED
        BY <3>1, <3>2
    <2>3. QED
      BY <1>10, <2>1, <2>2 DEF Fine, q
  <1>17. QED
    BY <1>14, <1>15, <1>16

\* A request with an identifier that no pending one has is sent.
LEMMA Send ==
    ASSUME NEW r, Fine(r), NEW type \in Types, NEW id, NEW addr, NEW net, NEW kept \in BOOLEAN,
           \A i \in 1 .. Len(r.msgs) : r.msgs[i].id # id
    PROVE  Fine(radius_client_send(r, type, id, addr, net, kept))
  <1> DEFINE k == KindOf(type)
             open == IF r.sock[k] THEN r ELSE radius_client_init_sock(r, k, net)
             sent == IF Sends(net) THEN open ELSE radius_client_init_sock(open, k, net)
             e == Entry(type, id, addr, Secrets[k][r.server[k]])
             q == radius_client_send(r, type, id, addr, net, kept)
  <1>1. k \in Kinds /\ (type # "interim" => k = type)
    BY DEF KindOf, Types, Kinds
  <1>2. q = open \/ q = sent \/ q = radius_client_list_add(sent, e)
    BY DEF radius_client_send
  <1>3. /\ IsEntry(e) /\ e.id = id /\ e.type = type
        /\ e.secret = Secrets[k][r.server[k]]
    BY DEF Entry, IsEntry, EntryFields
  <1> HIDE DEF k, e, q
  <1>4. Below(r, r) /\ IsClient(r)
    BY BelowSelf DEF Fine
  <1>5. Fine(open) /\ Below(open, r) /\ open.server = r.server
    <2>1. CASE open = r
      BY <1>4, <2>1
    <2>2. CASE open = radius_client_init_sock(r, k, net)
      <3> HIDE DEF open
      <3>1. QED
        BY <1>1, <2>2, InitSock
    <2>3. QED
      BY <2>1, <2>2
  <1> HIDE DEF open
  <1>6. Fine(sent) /\ Below(sent, r) /\ sent.server = r.server
    <2>1. CASE sent = open
      BY <1>5, <2>1
    <2>2. CASE sent = radius_client_init_sock(open, k, net)
      <3> HIDE DEF sent
      <3>1. Fine(sent) /\ Below(sent, open) /\ sent.server = open.server
        BY <1>1, <1>5, <2>2, InitSock
      <3>2. QED
        BY <1>4, <1>5, <3>1, BelowTransitive DEF Fine
    <2>3. QED
      BY <2>1, <2>2
  <1> HIDE DEF sent
  <1>7. \A i \in 1 .. Len(sent.msgs) : sent.msgs[i].id # e.id
    BY <1>3, <1>6 DEF Below, Thinner
  <1>8. SignedFor(e, sent.server)
    BY <1>1, <1>3, <1>6 DEF SignedFor
  <1>9. Fine(radius_client_list_add(sent, e))
    BY <1>3, <1>6, <1>7, <1>8, ListAdd
  <1>10. Fine(q)
    BY <1>2, <1>5, <1>6, <1>9
  <1>11. QED
    BY <1>10 DEF q

-----------------------------------------------------------------------------
(* Retransmission. *)

\* The client r with the entry e at a position.
WithEntry(r, at, e) == [r EXCEPT !.msgs[at] = e]

\* An entry may be changed in its other fields, and get an identifier that no
\* entry has.
LEMMA EntryChanged ==
    ASSUME NEW r, Fine(r), NEW at \in 1 .. Len(r.msgs), NEW e, IsEntry(e),
           e.type = r.msgs[at].type, e.secret = r.msgs[at].secret,
           \/ e.id = r.msgs[at].id
           \/ \A i \in 1 .. Len(r.msgs) : r.msgs[i].id # e.id,
           NEW q, q = WithEntry(r, at, e)
    PROVE  /\ Fine(q) /\ q.server = r.server
           /\ Len(q.msgs) = Len(r.msgs) /\ q.num_msgs = r.num_msgs
           /\ q.msgs[at] = e
  <1> DEFINE s == r.msgs
             t == [s EXCEPT ![at] = e]
  <1>1. IsClient(r) /\ IsList(s) /\ Unique(s) /\ Covered(r)
    BY DEF Fine, IsClient
  <1>2. q = [r EXCEPT !.msgs = t]
    BY DEF WithEntry
  <1>3. /\ Len(s) \in Nat /\ s = [i \in 1 .. Len(s) |-> s[i]]
        /\ \A i \in 1 .. Len(s) : IsEntry(s[i])
    BY <1>1 DEF IsList
  <1> HIDE DEF s
  <1>4. at \in 1 .. Len(s)
    BY DEF s
  <1>5. /\ t = [i \in 1 .. Len(s) |-> t[i]] /\ Len(t) = Len(s) /\ t[at] = e
        /\ \A i \in 1 .. Len(s) : i # at => t[i] = s[i]
    <2>1. PICK S : e \in S /\ s \in Seq(S)
      <3> DEFINE S == {e} \cup {s[i] : i \in 1 .. Len(s)}
      <3>1. s \in Seq(S)
        BY <1>3
      <3>2. QED
        BY <3>1
    <2>2. /\ t \in Seq(S) /\ Len(t) = Len(s)
          /\ \A j \in 1 .. Len(s) : t[j] = IF j = at THEN e ELSE s[j]
      BY <1>4, <2>1, ExceptSeq
    <2> HIDE DEF t
    <2>3. t = [i \in 1 .. Len(t) |-> t[i]]
      BY <2>2, LenProperties
    <2>4. QED
      BY <1>4, <2>2, <2>3
  <1> HIDE DEF t
  <1>6. IsList(t)
    <2>1. \A i \in 1 .. Len(t) : IsEntry(t[i])
      BY <1>3, <1>5
    <2>2. QED
      BY <1>3, <1>5, <2>1 DEF IsList
  <1>7. Unique(t)
    <2> SUFFICES ASSUME NEW i \in 1 .. Len(s), NEW j \in 1 .. Len(s), t[i].id = t[j].id
                 PROVE  i = j
      BY <1>5 DEF Unique
    <2>1. e.id = s[at].id \/ \A m \in 1 .. Len(s) : s[m].id # e.id
      BY DEF s
    <2>2. \A m, n \in 1 .. Len(s) : s[m].id = s[n].id => m = n
      BY <1>1 DEF Unique
    <2>3. CASE i = at /\ j # at
      BY <1>4, <1>5, <2>1, <2>2, <2>3
    <2>4. CASE i # at /\ j = at
      BY <1>4, <1>5, <2>1, <2>2, <2>4
    <2>5. CASE i # at /\ j # at
      BY <1>5, <2>2, <2>5
    <2>6. QED
      BY <2>3, <2>4, <2>5
  <1>8. ASSUME SameSecrets PROVE Signed(t, r.server)
    <2>1. Signed(s, r.server)
      BY <1>8 DEF Fine, s
    <2>2. e.type = s[at].type /\ e.secret = s[at].secret
      BY DEF s
    <2>3. SignedFor(e, r.server)
      BY <1>4, <2>1, <2>2 DEF Signed, SignedFor
    <2>4. QED
      BY <1>5, <2>1, <2>3 DEF Signed
  <1>9. /\ q = [f \in ClientFields |-> q[f]]
        /\ q.msgs = t /\ q.num_msgs = r.num_msgs /\ q.server = r.server
    BY <1>1, <1>2 DEF IsClient, ClientFields
  <1>10. IsClient(q)
    BY <1>1, <1>6, <1>9 DEF IsClient
  <1>11. Covered(q)
    BY <1>1, <1>5, <1>9 DEF Covered, s
  <1>12. QED
    BY <1>5, <1>7, <1>8, <1>9, <1>10, <1>11 DEF Fine, s

\* So both halves of a retransmission keep the invariant.
LEMMA TriedAndWaits ==
    ASSUME NEW r, Fine(r), NEW at \in 1 .. Len(r.msgs), NEW id,
           \/ id = r.msgs[at].id
           \/ \A i \in 1 .. Len(r.msgs) : r.msgs[i].id # id
    PROVE  /\ Fine(Tried(r, at, id)) /\ Len(Tried(r, at, id).msgs) = Len(r.msgs)
           /\ Fine(Waits(r, at)) /\ Len(Waits(r, at).msgs) = Len(r.msgs)
  <1> DEFINE e == r.msgs[at]
             n == e.attempts + 1
             d == e.next_wait
             w == Min({2 * e.next_wait, MaxWait})
             x == [e EXCEPT !.attempts = n, !.id = id]
             y == [e EXCEPT !.due = d, !.next_wait = w]
  <1>1. IsEntry(e)
    BY DEF Fine, IsClient, IsList
  <1>2. Tried(r, at, id) = WithEntry(r, at, x) /\ Waits(r, at) = WithEntry(r, at, y)
    BY DEF Tried, Waits, WithEntry
  <1> HIDE DEF e, n, d, w
  <1>3. /\ x = [f \in EntryFields |-> x[f]]
        /\ x.id = id /\ x.type = e.type /\ x.secret = e.secret
    BY <1>1 DEF IsEntry, EntryFields
  <1>4. /\ y = [f \in EntryFields |-> y[f]]
        /\ y.id = e.id /\ y.type = e.type /\ y.secret = e.secret
    BY <1>1 DEF IsEntry, EntryFields
  <1> HIDE DEF x, y
  <1>5. IsEntry(x) /\ IsEntry(y)
    BY <1>1, <1>3, <1>4 DEF IsEntry
  <1>6. Fine(WithEntry(r, at, x)) /\ Len(WithEntry(r, at, x).msgs) = Len(r.msgs)
    BY <1>3, <1>5, EntryChanged DEF e
  <1>7. Fine(WithEntry(r, at, y)) /\ Len(WithEntry(r, at, y).msgs) = Len(r.msgs)
    BY <1>4, <1>5, EntryChanged DEF e
  <1>8. QED
    BY <1>2, <1>6, <1>7

\* One position less, and the place of i when that position is gone.
LEMMA OnePlace ==
    ASSUME NEW n \in Nat, NEW h \in 1 .. n, NEW i \in 1 .. n
    PROVE  /\ Cardinality((1 .. n) \ {h}) = n - 1
           /\ i - Cardinality({j \in {h} : j < i}) = IF h < i THEN i - 1 ELSE i
  <1>1. IsFiniteSet(1 .. n) /\ Cardinality(1 .. n) = n
    BY FS_Interval
  <1>2. Cardinality((1 .. n) \ {h}) = n - 1
    BY <1>1, FS_RemoveElement
  <1>3. CASE h < i
    <2>1. {j \in {h} : j < i} = {h}
      BY <1>3
    <2>2. Cardinality({j \in {h} : j < i}) = 1
      BY <2>1, FS_Singleton
    <2>3. QED
      BY <1>2, <1>3, <2>2
  <1>4. CASE ~(h < i)
    <2>1. {j \in {h} : j < i} = {}
      BY <1>4
    <2>2. Cardinality({j \in {h} : j < i}) = 0
      BY <2>1, FS_EmptySet
    <2>3. QED
      BY <1>2, <1>4, <2>2
  <1>5. QED
    BY <1>3, <1>4

\* radius_client_retransmit from the new identifier on. At most one other entry
\* has that identifier, so that an entry moves up by one place at most.
LEMMA ResendKeeps ==
    ASSUME NEW r, Fine(r), NEW i \in 1 .. Len(r.msgs), NEW net,
           NEW res, res = Resend(r, i, net)
    PROVE  Fine(res.r) /\ (res.drop => res.at \in 1 .. Len(res.r.msgs))
  <1> DEFINE type  == r.msgs[i].type
             k     == KindOf(type)
             id    == r.next_id
             named == IF type = "acct" THEN radius_client_get_id(r) ELSE r
             hit   == IF type = "acct" THEN {j \in DOMAIN r.msgs : r.msgs[j].id = id} ELSE {}
             at    == i - Cardinality({j \in hit : j < i})
             tried == Tried(named, at, IF type = "acct" THEN id ELSE r.msgs[i].id)
             sent  == IF Sends(net) THEN tried ELSE radius_client_init_sock(tried, k, net)
             waits == Waits(sent, at)
  <1>1. /\ IsClient(r) /\ IsList(r.msgs) /\ Unique(r.msgs)
        /\ DOMAIN r.msgs = 1 .. Len(r.msgs) /\ Len(r.msgs) \in Nat
        /\ type \in Types /\ k \in Kinds
    BY DEF Fine, IsClient, IsList, IsEntry, KindOf, Types, Kinds
  <1>2. CASE i \in hit
    <2>1. res = Result(r, i, FALSE, TRUE, FALSE)
      BY <1>2 DEF Resend
    <2>2. QED
      BY <2>1 DEF Result
  <1>3. CASE i \notin hit
    <2>1. /\ Fine(named) /\ at \in 1 .. Len(named.msgs)
          /\ type = "acct" => \A j \in 1 .. Len(named.msgs) : named.msgs[j].id # id
      <3>1. CASE type # "acct"
        <4>1. named = r /\ {j \in hit : j < i} = {}
          BY <3>1
        <4>2. QED
          BY <3>1, <4>1, FS_EmptySet
      <3>2. CASE type = "acct" /\ hit = {}
        <4>1. {j \in 1 .. Len(r.msgs) : r.msgs[j].id # id} = 1 .. Len(r.msgs)
          BY <1>1, <3>2
        <4>2. {j \in hit : j < i} = {} /\ named = radius_client_get_id(r)
          BY <3>2
        <4>3. /\ Fine(named) /\ Len(named.msgs) = Cardinality(1 .. Len(r.msgs))
              /\ \A j \in 1 .. Len(named.msgs) : named.msgs[j].id # id
          <5> HIDE DEF named
          <5>1. QED
            BY <4>1, <4>2, GetId
        <4>4. Len(named.msgs) = Len(r.msgs)
          BY <1>1, <4>3, FS_Interval
        <4>5. Cardinality({j \in hit : j < i}) = 0
          BY <4>2, FS_EmptySet
        <4>6. at = i
          BY <4>5
        <4> HIDE DEF named, at, id, type
        <4>7. QED
          BY <4>3, <4>4, <4>6
      <3>3. CASE type = "acct" /\ hit # {}
        <4>1. PICK h \in 1 .. Len(r.msgs) : hit = {h} /\ h # i
          BY <1>1, <1>3, <3>3 DEF Unique
        <4>2. {j \in 1 .. Len(r.msgs) : r.msgs[j].id # id} = (1 .. Len(r.msgs)) \ {h}
          BY <1>1, <3>3, <4>1
        <4>3. named = radius_client_get_id(r)
          BY <3>3
        <4>4. /\ Fine(named) /\ Len(named.msgs) = Cardinality((1 .. Len(r.msgs)) \ {h})
              /\ \A j \in 1 .. Len(named.msgs) : named.msgs[j].id # id
          <5> HIDE DEF named
          <5>1. QED
            BY <4>2, <4>3, GetId
        <4>5. Len(named.msgs) = Len(r.msgs) - 1
          BY <1>1, <4>4, OnePlace
        <4>6. at = IF h < i THEN i - 1 ELSE i
          BY <1>1, <4>1, OnePlace
        <4>7. at \in 1 .. Len(named.msgs)
          <5> HIDE DEF named, at
          <5>1. QED
            BY <1>1, <4>1, <4>5, <4>6
        <4> HIDE DEF named, at, id, type
        <4>8. QED
          BY <4>4, <4>7
      <3>4. QED
        BY <3>1, <3>2, <3>3
    <2>2. type # "acct" => at = i /\ named = r
      <3> SUFFICES ASSUME type # "acct" PROVE at = i /\ named = r
        OBVIOUS
      <3>1. {j \in hit : j < i} = {}
        OBVIOUS
      <3>2. QED
        BY <3>1, FS_EmptySet
    <2>3. \/ res = Result(sent, at, FALSE, FALSE, FALSE)
          \/ res = Result(waits, at, waits.msgs[at].attempts >= MaxRetries, FALSE,
                          i - 1 \in hit)
      BY <1>3 DEF Resend
    <2> HIDE DEF named, at
    <2>4. Fine(tried) /\ Len(tried.msgs) = Len(named.msgs)
      BY <2>1, <2>2, TriedAndWaits
    <2> HIDE DEF tried, k
    <2>5. Fine(sent) /\ Len(sent.msgs) = Len(named.msgs)
      <3>1. CASE sent = tried
        BY <2>4, <3>1
      <3>2. CASE sent = radius_client_init_sock(tried, k, net)
        <4> HIDE DEF sent
        <4>1. QED
          BY <1>1, <2>4, <3>2, InitSock
      <3>3. QED
        BY <3>1, <3>2
    <2> HIDE DEF sent
    <2>6. Fine(waits) /\ Len(waits.msgs) = Len(named.msgs)
      <3>1. at \in 1 .. Len(sent.msgs)
        BY <2>1, <2>5
      <3>2. QED
        BY <2>5, <3>1, TriedAndWaits
    <2> HIDE DEF waits
    <2>7. QED
      BY <2>1, <2>5, <2>6, <2>3 DEF Result
  <1>4. QED
    BY <1>2, <1>3

\* The whole of it. A failover that throws requests away shows in num_msgs, and
\* without one the entry is still where it was.
LEMMA RetransmitKeeps ==
    ASSUME NEW r, Fine(r), NEW i \in 1 .. Len(r.msgs), NEW net,
           NEW res, res = radius_client_retransmit(r, i, net)
    PROVE  Fine(res.r) /\ (res.drop => res.at \in 1 .. Len(res.r.msgs))
  <1> DEFINE type  == r.msgs[i].type
             k     == KindOf(type)
             open  == IF r.sock[k] THEN r ELSE radius_client_init_sock(r, k, net)
             moves == ~open.sock[k] /\ Len(Secrets[k]) > 1
             moved == IF moves THEN radius_client_failover(open, k, net) ELSE open
  <1>1. k \in Kinds
    BY DEF KindOf, Kinds
  <1>2. res = IF moved.num_msgs # open.num_msgs THEN Result(moved, i, FALSE, FALSE, FALSE)
              ELSE IF type = "interim" \/ ~moved.sock[k]
                   THEN Result(moved, i, TRUE, FALSE, FALSE)
              ELSE Resend(moved, i, IF moves THEN AtNext(net) ELSE net)
    BY DEF radius_client_retransmit
  <1> HIDE DEF k
  <1>3. Fine(open) /\ Len(open.msgs) = Len(r.msgs)
    <2>1. CASE open = r
      BY <2>1
    <2>2. CASE open = radius_client_init_sock(r, k, net)
      <3> HIDE DEF open
      <3>1. QED
        BY <1>1, <2>2, InitSock
    <2>3. QED
      BY <2>1, <2>2
  <1> HIDE DEF open
  <1>4. Fine(moved) /\ Below(moved, open)
    <2>1. CASE moved = open
      BY <1>3, <2>1, BelowSelf DEF Fine
    <2>2. CASE moved = radius_client_failover(open, k, net)
      <3> HIDE DEF moved
      <3>1. QED
        BY <1>1, <1>3, <2>2, Failover
    <2>3. QED
      BY <2>1, <2>2
  <1> HIDE DEF moved, type
  <1>5. moved.num_msgs = open.num_msgs => i \in 1 .. Len(moved.msgs)
    <2>1. /\ moved.num_msgs \in Int /\ open.num_msgs \in Int
          /\ Len(moved.msgs) \in Nat /\ Len(open.msgs) \in Nat
      BY <1>3, <1>4 DEF Fine, IsClient, IsList
    <2>2. moved.num_msgs - Len(moved.msgs) = open.num_msgs - Len(open.msgs)
      BY <1>4 DEF Below
    <2>3. moved.num_msgs = open.num_msgs => Len(moved.msgs) = Len(open.msgs)
      BY <2>1, <2>2
    <2>4. QED
      BY <1>3, <2>3
  <1>6. CASE moved.num_msgs # open.num_msgs
    <2>1. res = Result(moved, i, FALSE, FALSE, FALSE)
      BY <1>2, <1>6
    <2>2. QED
      BY <1>4, <2>1 DEF Result
  <1>7. CASE moved.num_msgs = open.num_msgs /\ (type = "interim" \/ ~moved.sock[k])
    <2>1. res = Result(moved, i, TRUE, FALSE, FALSE)
      BY <1>2, <1>7
    <2>2. QED
      BY <1>4, <1>5, <1>7, <2>1 DEF Result
  <1>8. CASE moved.num_msgs = open.num_msgs /\ ~(type = "interim" \/ ~moved.sock[k])
    <2>1. res = Resend(moved, i, IF moves THEN AtNext(net) ELSE net)
      BY <1>2, <1>8
    <2>2. QED
      BY <1>4, <1>5, <1>8, <2>1, ResendKeeps
  <1>9. QED
    BY <1>6, <1>7, <1>8

\* The way back to the first server, and to the old one if it fails.
LEMMA BackKeeps ==
    ASSUME NEW r, Fine(r), NEW k \in Kinds, NEW net
    PROVE  Fine(BackToPrimary(r, k, net))
  <1> DEFINE old   == r.server[k]
             c     == Served(r, k, 1)
             tried == radius_change_server(c, k, 1, old, net)
             d     == Served(tried, k, old)
             back  == radius_change_server(d, k, old, old, net)
             q     == BackToPrimary(r, k, net)
  <1>1. q = r \/ q = tried \/ q = back
    BY DEF BackToPrimary, Served
  <1>2. /\ 1 \in 1 .. Len(Secrets[k])
        /\ old \in 1 .. Len(Secrets[k]) /\ old \in 0 .. Len(Secrets[k])
    BY ServerCount DEF Fine, IsClient
  <1>3. /\ IsClient(c) /\ Unique(c.msgs) /\ Covered(c)
        /\ c.server[k] = 1
        /\ SameSecrets => SignedBefore(c.msgs, c.server, k, 1, old)
    <2> HIDE DEF c
    <2>1. QED
      BY <1>2, ServerReplaced DEF c
  <1> HIDE DEF c, old
  <1>4. /\ IsClient(tried) /\ Below(tried, c)
        /\ SameSecrets => Signed(tried.msgs, tried.server)
    <2>1. tried = radius_change_server(c, k, c.server[k], old, net)
      BY <1>3
    <2>2. SameSecrets => SignedBefore(c.msgs, c.server, k, c.server[k], old)
      BY <1>3
    <2> HIDE DEF tried
    <2>3. QED
      BY <1>2, <1>3, <2>1, <2>2, ChangeServer
  <1> HIDE DEF tried
  <1>5. Fine(tried)
    BY <1>3, <1>4, BelowIsFine
  <1>6. /\ IsClient(d) /\ Unique(d.msgs) /\ Covered(d)
        /\ d.server[k] = old
        /\ SameSecrets => SignedBefore(d.msgs, d.server, k, old, tried.server[k])
    <2> HIDE DEF d
    <2>1. QED
      BY <1>2, <1>5, ServerReplaced DEF d
  <1> HIDE DEF d
  <1>7. ASSUME SameSecrets PROVE SignedBefore(d.msgs, d.server, k, old, old)
    <2>1. old # 0
      BY <1>2
    <2>2. QED
      BY <1>6, <1>7, <2>1 DEF SignedBefore, Moved
  <1>8. /\ IsClient(back) /\ Below(back, d)
        /\ SameSecrets => Signed(back.msgs, back.server)
    BY <1>2, <1>6, <1>7, ChangeServer
  <1>9. Fine(back)
    BY <1>6, <1>8, BelowIsFine
  <1> HIDE DEF back, q
  <1>10. Fine(q)
    BY <1>1, <1>5, <1>9
  <1>11. QED
    BY <1>10 DEF q

-----------------------------------------------------------------------------
(* The actions. *)

\* A step that leaves the list, num_msgs and the servers alone.
LEMMA SameList ==
    ASSUME NEW q, NEW r, Fine(r), q = [f \in ClientFields |-> q[f]],
           q.msgs = r.msgs, q.num_msgs = r.num_msgs, q.server = r.server
    PROVE  Fine(q)
  <1>1. IsClient(q)
    BY DEF Fine, IsClient
  <1>2. Covered(q)
    BY DEF Fine, Covered
  <1>3. QED
    BY <1>1, <1>2 DEF Fine

\* Taking entries out, in any of the ways the code does.
LEMMA TakeOutFine ==
    ASSUME NEW r, Fine(r), NEW I \in SUBSET (1 .. Len(r.msgs))
    PROVE  Fine(TakeOut(r, I))
  <1> DEFINE q == TakeOut(r, I)
  <1>1. /\ IsClient(q) /\ Below(q, r) /\ q.server = r.server
        /\ Picked(q.msgs, r.msgs, I)
    <2> HIDE DEF q
    <2>1. QED
      BY TakeOutKeeps DEF Fine, q
  <1> HIDE DEF q
  <1>2. SameSecrets => Signed(q.msgs, q.server)
    BY <1>1 DEF Signed, Picked, Fine
  <1>3. Fine(q)
    BY <1>1, <1>2, BelowIsFine DEF Fine
  <1>4. QED
    BY <1>3 DEF q

\* So does radius_client_flush, for all requests or for authentication only.
LEMMA FlushFine ==
    ASSUME NEW r, Fine(r), NEW only_auth \in BOOLEAN
    PROVE  Fine(radius_client_flush(r, only_auth))
  <1> DEFINE q == radius_client_flush(r, only_auth)
             J == {j \in 1 .. Len(r.msgs) : r.msgs[j].type # "auth"}
  <1>1. /\ IsClient(q) /\ Below(q, r) /\ q.server = r.server
        /\ Picked(q.msgs, r.msgs, J)
    <2> HIDE DEF q
    <2>1. QED
      BY FlushKeeps DEF Fine, q
  <1> HIDE DEF q
  <1>2. SameSecrets => Signed(q.msgs, q.server)
    BY <1>1 DEF Signed, Picked, Fine
  <1>3. Fine(q)
    BY <1>1, <1>2, BelowIsFine DEF Fine
  <1>4. QED
    BY <1>3 DEF q

\* A client without requests.
LEMMA FreshFine ==
    ASSUME NEW server, server = [k \in Kinds |-> server[k]],
           \A k \in Kinds : server[k] \in 1 .. Len(Secrets[k])
    PROVE  Fine(Fresh(server))
  <1> DEFINE q == Fresh(server)
  <1>1. /\ q = [f \in ClientFields |-> q[f]]
        /\ q.msgs = <<>> /\ q.num_msgs = 0 /\ q.server = server
    BY DEF Fresh, ClientFields
  <1> HIDE DEF q
  <1>2. IsList(<<>>) /\ Len(<<>>) = 0
    BY DEF IsList
  <1>3. IsClient(q)
    BY <1>1, <1>2 DEF IsClient
  <1>4. Unique(q.msgs) /\ Signed(q.msgs, q.server)
    BY <1>1, <1>2 DEF Unique, Signed
  <1>5. Covered(q)
    BY <1>1, <1>2, LimitsAssumption DEF Covered
  <1>6. Fine(q)
    BY <1>3, <1>4, <1>5 DEF Fine
  <1>7. QED
    BY <1>6 DEF q

\* Requests come, are answered or given up between two timeouts.
LEMMA RequestStep ==
    ASSUME IInv, \/ NewRequest \/ Reconfigure
                 \/ \E k \in Kinds, id \in 0 .. IdSpace - 1 : radius_client_receive(k, id)
                 \/ \E addr \in Addrs : radius_client_flush_auth(addr)
    PROVE  IInv'
  <1>1. Fine(radius) /\ DOMAIN radius.msgs = 1 .. Len(radius.msgs)
    BY DEF IInv, Fine, IsClient, IsList
  <1>2. CASE NewRequest
    <2> DEFINE q == radius_client_get_id(radius)
    <2>1. PICK type \in Types, addr \in Addrs, net \in Nets, kept \in BOOLEAN :
             radius' = radius_client_send(q, type, radius.next_id, addr, net, kept)
      BY <1>2 DEF NewRequest
    <2>2. Fine(q) /\ \A i \in 1 .. Len(q.msgs) : q.msgs[i].id # radius.next_id
      <3> HIDE DEF q
      <3>1. QED
        BY <1>1, GetId DEF q
    <2> HIDE DEF q
    <2>3. QED
      BY <2>1, <2>2, Send DEF IInv
  <1>3. CASE Reconfigure
    BY <1>1, <1>3, FlushFine DEF Reconfigure, IInv
  <1>4. ASSUME NEW k \in Kinds, NEW id, radius_client_receive(k, id) PROVE IInv'
    <2>1. \E i : radius' = TakeOut(radius, DOMAIN radius.msgs \ {i})
      BY <1>4 DEF radius_client_receive
    <2>2. QED
      BY <1>1, <2>1, TakeOutFine DEF IInv
  <1>5. ASSUME NEW addr, radius_client_flush_auth(addr) PROVE IInv'
    <2> DEFINE I == {i \in DOMAIN radius.msgs :
                       radius.msgs[i].type # "auth" \/ radius.msgs[i].addr # addr}
    <2>1. radius' = TakeOut(radius, I)
      BY <1>5 DEF radius_client_flush_auth
    <2>2. I \in SUBSET (1 .. Len(radius.msgs))
      BY <1>1
    <2> HIDE DEF I
    <2>3. QED
      BY <1>1, <2>1, <2>2, TakeOutFine DEF IInv
  <1>6. QED
    BY <1>2, <1>3, <1>4, <1>5

\* The loop of radius_client_timer.
LEMMA TimerStep ==
    ASSUME IInv, TimerFires \/ TimerVisit \/ TimerEnd
    PROVE  IInv'
  <1>1. Fine(radius) /\ DOMAIN radius.msgs = 1 .. Len(radius.msgs) /\ IsClient(radius)
    BY DEF IInv, Fine, IsClient, IsList
  <1>2. CASE TimerFires
    <2> DEFINE t == Tail(radius.timers)
    <2>1. radius' = [radius EXCEPT !.timers = t]
      BY <1>2 DEF TimerFires
    <2> HIDE DEF t
    <2>2. /\ radius' = [f \in ClientFields |-> radius'[f]]
          /\ radius'.msgs = radius.msgs /\ radius'.num_msgs = radius.num_msgs
          /\ radius'.server = radius.server
      BY <1>1, <2>1 DEF IsClient, ClientFields
    <2>3. QED
      BY <1>1, <2>2, SameList DEF IInv
  <1>3. CASE TimerVisit
    <2>1. loop.pos \in 1 .. Len(radius.msgs)
      BY <1>1, <1>3 DEF TimerVisit
    <2>2. PICK net \in Nets : LET res == Visit(radius, loop.pos, net) IN
             \/ radius' = Fresh(radius.server)
             \/ res.drop /\ radius' = TakeOut(res.r, DOMAIN res.r.msgs \ {res.at})
             \/ radius' = res.r
      BY <1>3 DEF TimerVisit
    <2> DEFINE res == Visit(radius, loop.pos, net)
    <2>3. Fine(res.r)
      <3>1. CASE res = Result(radius, loop.pos, FALSE, FALSE, FALSE)
        <4> HIDE DEF res
        <4>1. QED
          BY <1>1, <3>1 DEF Result
      <3>2. CASE res = radius_client_retransmit(radius, loop.pos, net)
        <4> HIDE DEF res
        <4>1. QED
          BY <1>1, <2>1, <3>2, RetransmitKeeps
      <3>3. QED
        BY <3>1, <3>2 DEF Visit
    <2> HIDE DEF res
    <2>4. CASE radius' = Fresh(radius.server)
      BY <1>1, <2>4, FreshFine DEF IsClient, IInv
    <2>5. CASE radius' = TakeOut(res.r, DOMAIN res.r.msgs \ {res.at})
      <3>1. DOMAIN res.r.msgs = 1 .. Len(res.r.msgs)
        BY <2>3 DEF Fine, IsClient, IsList
      <3>2. QED
        BY <2>3, <2>5, <3>1, TakeOutFine DEF IInv
    <2>6. CASE radius' = res.r
      BY <2>3, <2>6 DEF IInv
    <2>7. QED
      BY <2>2, <2>4, <2>5, <2>6 DEF res
  <1>4. CASE TimerEnd
    <2> DEFINE timed == IF radius.msgs = <<>> THEN radius
                        ELSE [radius EXCEPT !.timers = Register(@, loop.first)]
               auth(net) == IF "auth" \in loop.failover
                            THEN radius_client_failover(timed, "auth", net) ELSE timed
    <2>1. PICK net \in Nets :
             radius' = IF "acct" \in loop.failover
                       THEN radius_client_failover(auth(net), "acct", net) ELSE auth(net)
      BY <1>4 DEF TimerEnd
    <2>2. Fine(timed)
      <3>1. CASE timed = radius
        BY <1>1, <3>1
      <3>2. CASE timed = [radius EXCEPT !.timers = Register(@, loop.first)]
        <4> HIDE DEF timed
        <4>1. /\ timed = [f \in ClientFields |-> timed[f]]
              /\ timed.msgs = radius.msgs /\ timed.num_msgs = radius.num_msgs
              /\ timed.server = radius.server
          BY <1>1, <3>2 DEF IsClient, ClientFields
        <4>2. QED
          BY <1>1, <4>1, SameList
      <3>3. QED
        BY <3>1, <3>2
    <2>3. "auth" \in Kinds /\ "acct" \in Kinds
      BY DEF Kinds
    <2> HIDE DEF timed
    <2>4. Fine(auth(net))
      <3>1. Fine(radius_client_failover(timed, "auth", net))
        BY <2>2, <2>3, Failover
      <3>2. QED
        BY <2>2, <3>1
    <2> HIDE DEF auth
    <2>5. Fine(radius_client_failover(auth(net), "acct", net))
      BY <2>3, <2>4, Failover
    <2>6. QED
      BY <2>1, <2>4, <2>5 DEF IInv
  <1>5. QED
    BY <1>2, <1>3, <1>4

\* Time, the way back to the primary servers, and the life of the client.
LEMMA LifeStep ==
    ASSUME IInv, \/ Tick \/ radius_retry_primary_timer
                 \/ radius_client_deinit \/ radius_client_init
    PROVE  IInv'
  <1>1. /\ Fine(radius) /\ DOMAIN radius.msgs = 1 .. Len(radius.msgs)
        /\ IsClient(radius) /\ IsList(radius.msgs)
    BY DEF IInv, Fine, IsClient, IsList
  <1>2. "auth" \in Kinds /\ "acct" \in Kinds
    BY DEF Kinds
  <1>3. CASE radius_retry_primary_timer
    <2> DEFINE c == [radius EXCEPT !.retry = RetryInterval]
    <2>1. PICK net \in Nets :
             radius' = BackToPrimary(BackToPrimary(c, "auth", net), "acct", net)
      BY <1>3 DEF radius_retry_primary_timer
    <2>2. /\ c = [f \in ClientFields |-> c[f]]
          /\ c.msgs = radius.msgs /\ c.num_msgs = radius.num_msgs
          /\ c.server = radius.server
      BY <1>1 DEF IsClient, ClientFields
    <2> HIDE DEF c
    <2>3. Fine(c)
      BY <1>1, <2>2, SameList
    <2>4. Fine(BackToPrimary(c, "auth", net))
      BY <1>2, <2>3, BackKeeps
    <2>5. QED
      BY <1>2, <2>1, <2>4, BackKeeps DEF IInv
  <1>4. CASE radius_client_deinit
    <2> DEFINE c == radius_client_flush(radius, FALSE)
               no == [k \in Kinds |-> FALSE]
    <2>1. radius' = [c EXCEPT !.sock = no, !.retry = RetryInterval]
      BY <1>4 DEF radius_client_deinit
    <2>2. Fine(c)
      BY <1>1, FlushFine
    <2> HIDE DEF c, no
    <2>3. /\ radius' = [f \in ClientFields |-> radius'[f]]
          /\ radius'.msgs = c.msgs /\ radius'.num_msgs = c.num_msgs
          /\ radius'.server = c.server
      BY <2>1, <2>2 DEF Fine, IsClient, ClientFields
    <2>4. QED
      BY <2>2, <2>3, SameList DEF IInv
  <1>5. CASE radius_client_init
    <2> DEFINE c == Fresh(radius.server)
    <2>1. PICK net \in Nets :
             radius' = radius_client_init_sock(radius_client_init_sock(c, "auth", net),
                                               "acct", net)
      BY <1>5 DEF radius_client_init
    <2>2. Fine(c)
      BY <1>1, FreshFine DEF IsClient
    <2> HIDE DEF c
    <2>3. Fine(radius_client_init_sock(c, "auth", net))
      BY <1>2, <2>2, InitSock
    <2>4. QED
      BY <1>2, <2>1, <2>3, InitSock DEF IInv
  <1>6. CASE Tick
    <2> DEFINE later(e) == [e EXCEPT !.due = IF @ = 0 THEN 0 ELSE @ - 1,
                                     !.age = IF @ = FirstWait THEN @ ELSE @ + 1]
               s == radius.msgs
               t == [i \in 1 .. Len(s) |-> later(s[i])]
               w == Each(LAMBDA u : u - 1, radius.timers)
               n == radius.retry - 1
    <2>1. radius' = [radius EXCEPT !.msgs = t, !.timers = w, !.retry = n]
      BY <1>6 DEF Tick, Each
    <2>2. ASSUME NEW e, IsEntry(e)
          PROVE  /\ IsEntry(later(e)) /\ later(e).id = e.id /\ later(e).type = e.type
                 /\ later(e).secret = e.secret
      <3> DEFINE x == later(e)
                 d == IF e.due = 0 THEN 0 ELSE e.due - 1
                 a == IF e.age = FirstWait THEN e.age ELSE e.age + 1
      <3>1. x = [e EXCEPT !.due = d, !.age = a]
        OBVIOUS
      <3> HIDE DEF x, d, a
      <3>2. /\ x = [f \in EntryFields |-> x[f]] /\ x.id = e.id /\ x.type = e.type
            /\ x.secret = e.secret
        BY <2>2, <3>1 DEF IsEntry, EntryFields
      <3>3. IsEntry(x)
        BY <2>2, <3>2 DEF IsEntry
      <3>4. QED
        BY <3>2, <3>3 DEF x
    <2>3. /\ Len(s) \in Nat /\ Len(t) = Len(s) /\ t = [i \in 1 .. Len(t) |-> t[i]]
          /\ \A i \in 1 .. Len(s) : IsEntry(s[i]) /\ t[i] = later(s[i])
      <3> HIDE DEF later, w, n
      <3>1. Len(s) \in Nat /\ \A i \in 1 .. Len(s) : IsEntry(s[i])
        BY <1>1 DEF IsList
      <3> HIDE DEF s
      <3>2. Len(t) = Len(s) /\ t = [i \in 1 .. Len(t) |-> t[i]]
        BY <3>1
      <3>3. QED
        BY <3>1, <3>2
    <2> HIDE DEF later, w, n
    <2>4. \A i \in 1 .. Len(s) :
             /\ IsEntry(t[i]) /\ t[i].id = s[i].id /\ t[i].type = s[i].type
             /\ t[i].secret = s[i].secret
      <3> HIDE DEF s, t
      <3>1. QED
        BY <2>2, <2>3
    <2> HIDE DEF t
    <2>5. /\ radius' = [f \in ClientFields |-> radius'[f]]
          /\ radius'.msgs = t /\ radius'.num_msgs = radius.num_msgs
          /\ radius'.server = radius.server
      BY <1>1, <2>1 DEF IsClient, ClientFields
    <2>6. IsList(t)
      BY <2>3, <2>4 DEF IsList
    <2>7. IsClient(radius')
      BY <1>1, <2>5, <2>6 DEF IsClient
    <2>8. Unique(t)
      <3>1. Unique(s)
        BY <1>1 DEF Fine
      <3> HIDE DEF s
      <3>2. QED
        BY <2>3, <2>4, <3>1 DEF Unique
    <2>9. Covered(radius')
      BY <1>1, <2>3, <2>5 DEF Fine, Covered
    <2>10. ASSUME SameSecrets PROVE Signed(t, radius.server)
      <3>1. Signed(s, radius.server)
        BY <1>1, <2>10 DEF Fine
      <3> HIDE DEF s
      <3>2. QED
        BY <2>3, <2>4, <3>1 DEF Signed, SignedFor
    <2>11. QED
      BY <2>5, <2>7, <2>8, <2>9, <2>10 DEF Fine, IInv
  <1>7. QED
    BY <1>3, <1>4, <1>5, <1>6

-----------------------------------------------------------------------------
(* The theorems on the list. *)

\* What every operation keeps of the client holds in every state.
THEOREM Invariance == Spec => []IInv
  <1>1. Init => IInv
    <2> DEFINE v == [k \in Kinds |-> 1]
    <2>1. v = [k \in Kinds |-> v[k]] /\ \A k \in Kinds : v[k] \in 1 .. Len(Secrets[k])
      BY ServerCount
    <2> HIDE DEF v
    <2>2. Fine(Fresh(v))
      BY <2>1, FreshFine
    <2>3. QED
      BY <2>2 DEF Init, IInv, v
  <1>2. IInv /\ [Next]_vars => IInv'
    <2> SUFFICES ASSUME IInv, [Next]_vars PROVE IInv'
      OBVIOUS
    <2>1. CASE UNCHANGED vars
      BY <2>1 DEF vars, IInv
    <2>2. CASE Next
      BY <2>2, RequestStep, TimerStep, LifeStep DEF Next
    <2>3. QED
      BY <2>1, <2>2
  <1>3. QED
    BY <1>1, <1>2, PTL DEF Spec

\* An identifier is unique among the pending requests, whatever the number of
\* identifiers and however they wrap (radius_client.c, radius_client_get_id).
THEOREM IdsUnique == Spec => []PendingIdsUnique
  <1>1. ASSUME IInv PROVE PendingIdsUnique
    <2>1. DOMAIN radius.msgs = 1 .. Len(radius.msgs) /\ Unique(radius.msgs)
      BY <1>1 DEF IInv, Fine, IsClient, IsList
    <2>2. QED
      BY <2>1 DEF Unique, PendingIdsUnique
  <1>2. QED
    BY <1>1, Invariance, PTL

\* num_msgs never falls below the length of the list, so the size_t does not
\* wrap, and never passes RADIUS_CLIENT_MAX_ENTRIES.
THEOREM CountCovers == Spec => []CountCoversQueue
  <1>1. IInv => CountCoversQueue
    BY DEF IInv, Fine, Covered, CountCoversQueue
  <1>2. QED
    BY <1>1, Invariance, PTL

\* As long as the accounting servers are configured with one secret, every
\* request is signed for the server it is sent to, through failovers and failed
\* returns to the primary; with two secrets it is not (the run radius_secret).
THEOREM SecretsCurrent == Spec => [](SameSecrets => SecretCurrent)
  <1>1. ASSUME IInv PROVE SameSecrets => SecretCurrent
    <2>1. DOMAIN radius.msgs = 1 .. Len(radius.msgs)
      BY <1>1 DEF IInv, Fine, IsClient, IsList
    <2>2. SameSecrets => Signed(radius.msgs, radius.server)
      BY <1>1 DEF IInv, Fine
    <2>3. QED
      BY <2>1, <2>2 DEF Signed, SignedFor, SecretCurrent
  <1>2. QED
    BY <1>1, Invariance, PTL

-----------------------------------------------------------------------------
(* Timeouts, attempts and types: the inductive invariant. *)

\* The secrets of all servers.
AllSecrets == UNION {Range(Secrets[k]) : k \in Kinds}

\* The attempts of an entry at rest or in the loop: a request for
\* authentication is not dropped when the send fails, and stops at the
\* failover; the others are dropped at the limit of retries.
Tries(e) ==
    /\ e.attempts \in Nat
    /\ IF e.type = "auth" THEN e.attempts <= NumFailover + 1 ELSE e.attempts < MaxRetries

\* The fields of an entry are within their bounds.
Bounded(e) ==
    /\ e.id \in 0 .. IdSpace - 1 /\ e.addr \in Addrs /\ e.secret \in AllSecrets
    /\ e.due \in 0 .. MaxWait /\ e.next_wait \in 1 .. MaxWait /\ e.age \in 0 .. FirstWait
    /\ Tries(e)

AllBounded(s) == \A i \in 1 .. Len(s) : Bounded(s[i])

\* At most one timeout, or two in order.
Alone(ts) == ts = <<>> \/ \E t \in 0 .. MaxWait : ts = <<t>>
InOrder(ts) ==
    Alone(ts) \/ \E t, u \in 0 .. MaxWait : t <= u /\ ts = <<t, u>>

\* The fields of a client that no list or server is about.
Scalars(r) ==
    /\ r.next_id \in 0 .. IdSpace - 1
    /\ r.sock \in [Kinds -> BOOLEAN]
    /\ r.retry \in 0 .. RetryInterval

\* Entries that ask for the failover of their server.
Weary(s, i) == s[i].type = "auth" /\ s[i].attempts > NumFailover

\* Between two handlers: no entry is past the failover, and a timeout runs that
\* is due in FirstWait or before every entry.
Prompt(r) ==
    r.msgs # <<>> =>
        /\ r.timers # <<>>
        /\ r.timers[1] <= FirstWait \/ \A i \in 1 .. Len(r.msgs) : r.timers[1] <= r.msgs[i].due
Resting(r) ==
    /\ InOrder(r.timers)
    /\ \A i \in 1 .. Len(r.msgs) : ~Weary(r.msgs, i)
    /\ Prompt(r)

\* Inside radius_client_timer: what the loop has noted of the entries before
\* the position p, unless the timeout has started again.
Noted(r, p, first) ==
    \/ r.timers # <<>> /\ r.timers[1] <= FirstWait
    \/ \A i \in 1 .. Len(r.msgs) : i < p => first <= r.msgs[i].due

\* The entries that ask for a failover have been seen.
Seen(r, p, failover) ==
    \A i \in 1 .. Len(r.msgs) : Weary(r.msgs, i) => i < p /\ "auth" \in failover

Looping(r, l) ==
    /\ Alone(r.timers)
    /\ Seen(r, l.pos, l.failover)
    /\ Noted(r, l.pos, l.first)
    /\ l.pos > 1 => l.first # -1

IsLoop(l) ==
    /\ l = [f \in {"pos", "first", "failover"} |-> l[f]]
    /\ l.pos \in Nat /\ l.first \in -1 .. MaxWait /\ l.failover \subseteq Kinds

TimeInv ==
    /\ Scalars(radius) /\ AllBounded(radius.msgs)
    /\ IsLoop(loop) /\ status \in {"on", "off", "undef"}
    /\ loop.pos = 0 => Resting(radius)
    /\ loop.pos > 0 => /\ status = "on" /\ Looping(radius, loop)
                      /\ loop.pos <= Len(radius.msgs) + 1
    /\ status # "on" => radius.timers = <<>>
\* The least number of a set of natural numbers.
LEMMA LeastNumber ==
    ASSUME NEW S, S \subseteq Nat, S # {}
    PROVE  Min(S) \in S /\ \A y \in S : Min(S) <= y
  <1> DEFINE R == {ss \in Nat \X Nat : ss[1] < ss[2]}
  <1>1. PICK x \in S : \A y \in S : <<y, x>> \notin R
    <2>1. IsWellFoundedOn(R, Nat)
      BY NatLessThanWellFounded, Zenon DEF OpToRel
    <2> HIDE DEF R
    <2>2. QED
      BY <2>1, WFMin
  <1>2. ASSUME NEW y \in S PROVE x <= y
    <2>1. x \in Nat /\ y \in Nat /\ <<y, x>> \notin R
      BY <1>1
    <2>2. <<y, x>> \in Nat \X Nat /\ <<y, x>>[1] = y /\ <<y, x>>[2] = x
      BY <2>1
    <2>3. ~(y < x)
      BY <2>1, <2>2 DEF R
    <2>4. QED
      BY <2>1, <2>3
  <1> HIDE DEF R
  <1>3. \E z \in S : \A y \in S : z <= y
    BY <1>2
  <1>4. Min(S) = CHOOSE z \in S : \A y \in S : z <= y
    BY DEF Min
  <1>5. QED
    BY <1>3, <1>4

\* The smaller of two numbers, and the larger.
LEMMA OfTwo ==
    ASSUME NEW a \in Nat, NEW b \in Nat
    PROVE  /\ Min({a, b}) = IF a <= b THEN a ELSE b
           /\ Max({a, b}) = IF a <= b THEN b ELSE a
  <1>1. Min({a, b}) \in {a, b} /\ \A y \in {a, b} : Min({a, b}) <= y
    BY LeastNumber
  <1>2. Max({a, b}) \in {a, b} /\ \A y \in {a, b} : y <= Max({a, b})
    <2>1. \E z \in {a, b} : \A y \in {a, b} : z >= y
      BY a <= b \/ b <= a
    <2>2. Max({a, b}) = CHOOSE z \in {a, b} : \A y \in {a, b} : z >= y
      BY DEF Max
    <2>3. QED
      BY <2>1, <2>2
  <1>3. QED
    BY <1>1, <1>2

\* The limits are numbers.
LEMMA Limits ==
    /\ FirstWait \in Nat \ {0} /\ MaxWait \in Nat /\ 2 * FirstWait <= MaxWait
    /\ NumFailover \in Nat \ {0} /\ MaxRetries \in Nat /\ NumFailover < MaxRetries
    /\ IdSpace \in Nat \ {0} /\ MaxEntries \in Nat \ {0} /\ RetryInterval \in Nat
    /\ FirstWait \in 0 .. MaxWait
  BY LimitsAssumption

\* A secret of a server.
LEMMA SecretIn ==
    ASSUME NEW k \in Kinds, NEW n \in 1 .. Len(Secrets[k])
    PROVE  Secrets[k][n] \in AllSecrets
  <1>1. Secrets[k] \in Seq(Range(Secrets[k]))
    BY ServersAssumption
  <1>2. Secrets[k][n] \in Range(Secrets[k])
    BY <1>1, ElementOfSeq
  <1>3. QED
    BY <1>2 DEF AllSecrets

\* A new entry, and one whose counters start again, are within the bounds.
LEMMA EntryBounded ==
    ASSUME NEW type \in Types, NEW id \in 0 .. IdSpace - 1, NEW addr \in Addrs,
           NEW secret \in AllSecrets
    PROVE  /\ Bounded(Entry(type, id, addr, secret))
           /\ Entry(type, id, addr, secret).attempts = 1
           /\ Entry(type, id, addr, secret).type = type
           /\ IsEntry(Entry(type, id, addr, secret))
  <1> DEFINE e == Entry(type, id, addr, secret)
  <1>1. /\ e.type = type /\ e.id = id /\ e.addr = addr /\ e.secret = secret
        /\ e.attempts = 1 /\ e.due = FirstWait /\ e.next_wait = 2 * FirstWait /\ e.age = 0
        /\ IsEntry(e)
    BY DEF Entry, IsEntry, EntryFields
  <1> HIDE DEF e
  <1>2. /\ 2 * FirstWait \in 1 .. MaxWait /\ 0 \in 0 .. FirstWait
        /\ 1 <= NumFailover + 1 /\ 1 < MaxRetries
    BY Limits
  <1>3. Tries(e)
    BY <1>1, <1>2 DEF Tries
  <1>4. Bounded(e)
    BY <1>1, <1>2, <1>3, Limits DEF Bounded
  <1>5. QED
    BY <1>1, <1>4 DEF e

LEMMA ResetBounded ==
    ASSUME NEW e, IsEntry(e), NEW k \in Kinds, NEW new \in 1 .. Len(Secrets[k])
    PROVE  /\ Bounded(e) => Bounded(Reset(e, k, new))
           /\ Reset(e, k, new).attempts = 0
  <1> DEFINE c == IF k = "acct" THEN Secrets[k][new] ELSE e.secret
             d == FirstWait - e.age
             n == 2 * FirstWait
             x == Reset(e, k, new)
  <1>1. x = [e EXCEPT !.due = d, !.attempts = 0, !.next_wait = n, !.secret = c]
    BY DEF Reset
  <1>2. ASSUME Bounded(e)
        PROVE  c \in AllSecrets /\ d \in 0 .. MaxWait /\ n \in 1 .. MaxWait
    <2>1. c \in AllSecrets
      BY <1>2, SecretIn DEF Bounded
    <2>2. d \in 0 .. MaxWait /\ n \in 1 .. MaxWait
      BY <1>2, Limits DEF Bounded
    <2>3. QED
      BY <2>1, <2>2
  <1> HIDE DEF c, d, n, x
  <1>3. /\ x.type = e.type /\ x.id = e.id /\ x.addr = e.addr /\ x.age = e.age
        /\ x.secret = c /\ x.due = d /\ x.attempts = 0 /\ x.next_wait = n
    BY <1>1 DEF IsEntry, EntryFields
  <1>4. Tries(x)
    BY <1>3, Limits DEF Tries
  <1>5. Bounded(e) => Bounded(x)
    BY <1>2, <1>3, <1>4 DEF Bounded
  <1>6. QED
    BY <1>3, <1>5 DEF x
-----------------------------------------------------------------------------
(* Timeouts, attempts and types: what the operations on servers do. *)

\* The socket is opened again, and the timeout may start again with it.
Reopened(q, r) ==
    /\ q.msgs = r.msgs /\ q.num_msgs = r.num_msgs /\ q.next_id = r.next_id
    /\ q.retry = r.retry
    /\ r.sock \in [Kinds -> BOOLEAN] => q.sock \in [Kinds -> BOOLEAN]
    /\ q.timers = <<FirstWait>> \/ q.timers = r.timers

\* The timeout starts again, unless the list is empty or nothing changes.
Retimed(q, r) ==
    \/ q.timers = <<FirstWait>>
    \/ q.msgs = <<>> /\ q.timers \in {r.timers, <<>>}
    \/ q.msgs = r.msgs /\ q.timers = r.timers

\* Requests for authentication stay in their place and try no harder; if
\* entries were thrown away none of them is left.
Rested(q, r) ==
    /\ \A i \in 1 .. Len(q.msgs) : q.msgs[i].type = "auth" =>
          /\ i \in 1 .. Len(r.msgs) /\ r.msgs[i].type = "auth"
          /\ q.msgs[i].attempts \in {0, r.msgs[i].attempts}
    /\ q.num_msgs # r.num_msgs => \A i \in 1 .. Len(q.msgs) : q.msgs[i].type # "auth"

\* What a change of server does to all that the loop does not look at.
Changed(q, r) ==
    /\ q.next_id = r.next_id /\ q.retry = r.retry
    /\ r.sock \in [Kinds -> BOOLEAN] => q.sock \in [Kinds -> BOOLEAN]
    /\ AllBounded(r.msgs) => AllBounded(q.msgs)
    /\ Retimed(q, r) /\ Rested(q, r)

LEMMA ChangedSelf ==
    ASSUME NEW q, NEW r, IsClient(r), q.msgs = r.msgs, q.num_msgs = r.num_msgs,
           q.next_id = r.next_id, q.retry = r.retry, q.sock = r.sock, q.timers = r.timers
    PROVE  Changed(q, r)
  <1>1. Retimed(q, r)
    BY DEF Retimed
  <1>2. Rested(q, r)
    BY DEF Rested
  <1>3. QED
    BY <1>1, <1>2 DEF Changed

LEMMA ChangedTwice ==
    ASSUME NEW p, NEW q, NEW r, IsClient(p), IsClient(q), IsClient(r),
           Changed(p, q), Changed(q, r)
    PROVE  Changed(p, r)
  <1>1. Retimed(p, r)
    <2>1. Retimed(p, q) /\ Retimed(q, r)
      BY DEF Changed
    <2>2. QED
      BY <2>1 DEF Retimed
  <1>2. Rested(p, r)
    <2>1. Rested(p, q) /\ Rested(q, r)
      BY DEF Changed
    <2>2. ASSUME NEW i \in 1 .. Len(p.msgs), p.msgs[i].type = "auth"
          PROVE  /\ i \in 1 .. Len(r.msgs) /\ r.msgs[i].type = "auth"
                 /\ p.msgs[i].attempts \in {0, r.msgs[i].attempts}
                 /\ p.num_msgs = r.num_msgs
      <3>1. /\ i \in 1 .. Len(q.msgs) /\ q.msgs[i].type = "auth"
            /\ p.msgs[i].attempts \in {0, q.msgs[i].attempts}
            /\ p.num_msgs = q.num_msgs
        BY <2>1, <2>2 DEF Rested
      <3>2. /\ i \in 1 .. Len(r.msgs) /\ r.msgs[i].type = "auth"
            /\ q.msgs[i].attempts \in {0, r.msgs[i].attempts}
            /\ q.num_msgs = r.num_msgs
        BY <2>1, <3>1 DEF Rested
      <3>3. QED
        BY <3>1, <3>2
    <2>3. QED
      BY <2>2 DEF Rested
  <1>3. QED
    BY <1>1, <1>2 DEF Changed

\* A list without entries is the empty sequence.
LEMMA EmptyList ==
    ASSUME NEW s, IsList(s)
    PROVE  s = <<>> <=> Len(s) = 0
  BY DEF IsList

\* Opening a socket again leaves the list as it is.
LEMMA InitSockTimes ==
    ASSUME NEW r, IsClient(r), NEW k \in Kinds, NEW net,
           NEW q, q = radius_client_init_sock(r, k, net)
    PROVE  Reopened(q, r) /\ IsClient(q) /\ q.server = r.server
  <1> DEFINE sk == [r.sock EXCEPT ![k] = FALSE]
             c == [r EXCEPT !.sock = sk]
             new == r.server[k]
             kept == Thrown(c, k, new, 0)
             timers == IF kept.msgs = <<>> THEN kept.timers ELSE <<FirstWait>>
             sock == [kept.sock EXCEPT ![k] = @ \/ Connects(net)]
             step(e) == IF Moved(new, 0) /\ e.type = k THEN Reset(e, k, new) ELSE e
             t == [i \in 1 .. Len(kept.msgs) |-> step(kept.msgs[i])]
  <1>1. c = [r EXCEPT !.sock[k] = FALSE]
    OBVIOUS
  <1>2. new \in 1 .. Len(Secrets[k]) /\ new # 0
    BY DEF IsClient
  <1>3. kept = c /\ ~Moved(new, 0)
    BY <1>2 DEF Thrown, Moved
  <1>4. q = c \/ q = [kept EXCEPT !.msgs = t, !.timers = timers, !.sock = sock]
    <2>1. q = c \/ q = radius_change_server(c, k, new, 0, net)
      BY <1>1 DEF radius_client_init_sock
    <2>2. radius_change_server(c, k, new, 0, net)
             = [kept EXCEPT !.msgs = t, !.timers = timers, !.sock = sock]
      BY DEF radius_change_server, Each
    <2> HIDE DEF c, new, kept, t, timers, sock
    <2>3. QED
      BY <2>1, <2>2
  <1>5. sk = [r.sock EXCEPT ![k] = FALSE] /\ (r.sock \in [Kinds -> BOOLEAN] => sk \in [Kinds -> BOOLEAN])
    OBVIOUS
  <1> HIDE DEF sk
  <1>6. /\ c = [f \in ClientFields |-> c[f]]
        /\ c.msgs = r.msgs /\ c.num_msgs = r.num_msgs /\ c.next_id = r.next_id
        /\ c.server = r.server /\ c.retry = r.retry /\ c.timers = r.timers /\ c.sock = sk
    BY DEF IsClient, ClientFields
  <1> HIDE DEF c, kept
  <1>7. t = r.msgs
    BY <1>3, <1>6 DEF IsClient, IsList
  <1>8. r.sock \in [Kinds -> BOOLEAN] => sock \in [Kinds -> BOOLEAN]
    BY <1>3, <1>5, <1>6 DEF Connects
  <1>9. timers = <<FirstWait>> \/ timers = r.timers
    BY <1>3, <1>6
  <1> HIDE DEF t, timers, sock
  <1>10. CASE q = c
    <2>1. Reopened(q, r)
      BY <1>5, <1>6, <1>10 DEF Reopened
    <2>2. IsClient(q)
      BY <1>6, <1>10 DEF IsClient
    <2>3. QED
      BY <2>1, <2>2, <1>6, <1>10
  <1>11. CASE q = [kept EXCEPT !.msgs = t, !.timers = timers, !.sock = sock]
    <2>1. /\ q = [f \in ClientFields |-> q[f]]
          /\ q.msgs = t /\ q.num_msgs = r.num_msgs /\ q.next_id = r.next_id
          /\ q.server = r.server /\ q.retry = r.retry /\ q.timers = timers /\ q.sock = sock
      BY <1>3, <1>6, <1>11 DEF ClientFields
    <2>2. Reopened(q, r)
      BY <1>7, <1>8, <1>9, <2>1 DEF Reopened
    <2>3. IsClient(q)
      BY <1>7, <2>1 DEF IsClient
    <2>4. QED
      BY <2>1, <2>2, <2>3
  <1>12. QED
    BY <1>4, <1>10, <1>11

\* What radius_client_flush does to the timeouts.
LEMMA FlushTimes ==
    ASSUME NEW r, IsClient(r), NEW only_auth \in BOOLEAN,
           NEW q, q = radius_client_flush(r, only_auth)
    PROVE  /\ q.next_id = r.next_id /\ q.retry = r.retry
           /\ Picked(q.msgs, r.msgs, NotFlushed(r, only_auth))
           /\ q.timers = <<>> \/ q.timers = r.timers
           /\ q.msgs = <<>> => q.timers = <<>>
           /\ q.msgs # <<>> => q.timers = r.timers
           /\ ~only_auth => q.msgs = <<>>
  <1> DEFINE I == NotFlushed(r, only_auth)
             t == TakeOut(r, I)
             s == Kept(r.msgs, I)
             n == r.num_msgs - (Len(r.msgs) - Cardinality(I))
  <1>1. I \in SUBSET (1 .. Len(r.msgs)) /\ (~only_auth => I = {})
    BY DEF NotFlushed, IsClient, IsList
  <1>2. q = IF t.msgs = <<>> THEN [t EXCEPT !.timers = <<>>] ELSE t
    BY DEF radius_client_flush
  <1>3. t = [r EXCEPT !.msgs = s, !.num_msgs = n]
    BY DEF TakeOut
  <1> HIDE DEF I
  <1>4. IsList(s) /\ Picked(s, r.msgs, I) /\ Len(s) = Cardinality(I)
    BY <1>1, KeptList DEF IsClient
  <1> HIDE DEF s, n, t
  <1>5. /\ t = [f \in ClientFields |-> t[f]]
        /\ t.msgs = s /\ t.next_id = r.next_id /\ t.retry = r.retry /\ t.timers = r.timers
    BY <1>3 DEF IsClient, ClientFields
  <1>6. /\ q.msgs = s /\ q.next_id = r.next_id /\ q.retry = r.retry
        /\ q.timers = IF s = <<>> THEN <<>> ELSE r.timers
    BY <1>2, <1>5 DEF ClientFields
  <1>7. ~only_auth => s = <<>>
    BY <1>1, <1>4, FS_EmptySet, EmptyList
  <1>8. QED
    BY <1>4, <1>6, <1>7 DEF I

\* A change of server. Every request for authentication that it leaves starts
\* its attempts again.
LEMMA ChangeServerTimes ==
    ASSUME NEW r, IsClient(r), NEW k \in Kinds, NEW old \in 1 .. Len(Secrets[k]), NEW net,
           NEW q, q = radius_change_server(r, k, r.server[k], old, net)
    PROVE  /\ Changed(q, r) /\ IsClient(q)
           /\ k = "auth" => \A i \in 1 .. Len(q.msgs) :
                               q.msgs[i].type = "auth" => q.msgs[i].attempts = 0
  <1> DEFINE new == r.server[k]
             kept == Thrown(r, k, new, old)
             step(e) == IF Moved(new, old) /\ e.type = k THEN Reset(e, k, new) ELSE e
             t == [i \in 1 .. Len(kept.msgs) |-> step(kept.msgs[i])]
             timers == IF kept.msgs = <<>> THEN kept.timers ELSE <<FirstWait>>
             sock == [kept.sock EXCEPT ![k] = @ \/ Connects(net)]
             throws == k = "auth" /\ (old = new
                            \/ (Moved(new, old) /\ Secrets[k][new] # Secrets[k][old]))
  <1>1. /\ new \in 1 .. Len(Secrets[k]) /\ Len(Secrets[k]) \in Nat /\ old # 0
        /\ old \in 0 .. Len(Secrets[k])
    <2>1. Len(Secrets[k]) \in Nat
      BY ServersAssumption, LenProperties
    <2>2. QED
      BY <2>1 DEF IsClient
  <1>2. IsClient(q)
    BY <1>1, ChangeServer
  <1>3. q = [kept EXCEPT !.msgs = t, !.timers = timers, !.sock = sock]
    BY DEF radius_change_server, Each
  <1>4. kept = IF throws THEN radius_client_flush(r, TRUE) ELSE r
    BY DEF Thrown
  <1> HIDE DEF kept
  <1>5. /\ IsClient(kept) /\ kept.next_id = r.next_id /\ kept.retry = r.retry
        /\ kept.sock = r.sock
        /\ kept.timers \in {r.timers, <<>>}
        /\ AllBounded(r.msgs) => AllBounded(kept.msgs)
        /\ throws => \A i \in 1 .. Len(kept.msgs) : kept.msgs[i].type # "auth"
        /\ ~throws => kept = r
    <2>1. CASE ~throws
      BY <1>4, <2>1
    <2>2. CASE throws
      <3> HIDE DEF throws
      <3>1. kept = radius_client_flush(r, TRUE)
        BY <1>4, <2>2
      <3>2. /\ IsClient(kept) /\ kept.next_id = r.next_id /\ kept.retry = r.retry
            /\ kept.sock = r.sock
            /\ Picked(kept.msgs, r.msgs, NotFlushed(r, TRUE))
            /\ kept.timers \in {r.timers, <<>>}
        BY <3>1, FlushKeeps, FlushTimes
      <3>3. \A i \in 1 .. Len(kept.msgs) : \E j \in 1 .. Len(r.msgs) :
               kept.msgs[i] = r.msgs[j] /\ r.msgs[j].type # "auth"
        BY <3>2 DEF Picked, NotFlushed, IsClient, IsList
      <3>4. QED
        BY <2>2, <3>2, <3>3 DEF AllBounded
    <2>3. QED
      BY <2>1, <2>2
  <1>6. /\ Len(kept.msgs) \in Nat /\ IsList(kept.msgs)
        /\ \A i \in 1 .. Len(kept.msgs) : IsEntry(kept.msgs[i])
    BY <1>5 DEF IsClient, IsList
  <1>7. r.sock \in [Kinds -> BOOLEAN] => sock \in [Kinds -> BOOLEAN]
    BY <1>5 DEF Connects
  <1>8. \A i \in 1 .. Len(kept.msgs) : t[i] = step(kept.msgs[i])
    OBVIOUS
  <1>9. Len(t) = Len(kept.msgs) /\ (kept.msgs = <<>> => t = <<>>)
    <2>1. Len(t) = Len(kept.msgs)
      BY <1>6
    <2>2. kept.msgs = <<>> => 1 .. Len(kept.msgs) = {}
      OBVIOUS
    <2>3. QED
      BY <2>1, <2>2
  <1>10. ASSUME NEW e, IsEntry(e)
         PROVE  /\ Bounded(e) => Bounded(step(e))
                /\ step(e).type = e.type /\ step(e).attempts \in {0, e.attempts}
                /\ e.type = k /\ Moved(new, old) => step(e).attempts = 0
    BY <1>1, <1>10, ResetBounded, ResetEntry
  <1> HIDE DEF step, t, timers, sock
  <1>11. /\ q.msgs = t /\ q.num_msgs = kept.num_msgs /\ q.next_id = kept.next_id
         /\ q.retry = kept.retry /\ q.timers = timers /\ q.sock = sock
    BY <1>3, <1>5 DEF IsClient, ClientFields
  <1>12. \A i \in 1 .. Len(t) :
            /\ i \in 1 .. Len(kept.msgs)
            /\ Bounded(kept.msgs[i]) => Bounded(t[i])
            /\ t[i].type = kept.msgs[i].type /\ t[i].attempts \in {0, kept.msgs[i].attempts}
            /\ t[i].type = k /\ Moved(new, old) => t[i].attempts = 0
    BY <1>6, <1>8, <1>9, <1>10
  <1>13. AllBounded(r.msgs) => AllBounded(q.msgs)
    BY <1>5, <1>11, <1>12 DEF AllBounded
  <1>14. Retimed(q, r)
    BY <1>5, <1>9, <1>11 DEF Retimed, timers
  <1>15. Rested(q, r)
    <2>1. CASE throws
      <3>1. \A i \in 1 .. Len(q.msgs) : q.msgs[i].type # "auth"
        BY <1>5, <1>11, <1>12, <2>1
      <3>2. QED
        BY <3>1 DEF Rested
    <2>2. CASE ~throws
      BY <1>5, <1>11, <1>12, <2>2 DEF Rested
    <2>3. QED
      BY <2>1, <2>2
  <1>16. Changed(q, r)
    BY <1>5, <1>7, <1>11, <1>13, <1>14, <1>15 DEF Changed
  <1>17. ASSUME k = "auth", NEW i \in 1 .. Len(q.msgs), q.msgs[i].type = "auth"
         PROVE  q.msgs[i].attempts = 0
    <2>1. ~throws
      BY <1>5, <1>11, <1>12, <1>17
    <2>2. Moved(new, old)
      BY <1>1, <1>17, <2>1 DEF Moved
    <2>3. QED
      BY <1>11, <1>12, <1>17, <2>2
  <1>18. QED
    BY <1>2, <1>16, <1>17

\* Another server for the list as it is.
LEMMA ServedTimes ==
    ASSUME NEW r, Fine(r), NEW k \in Kinds, NEW new \in 1 .. Len(Secrets[k]),
           NEW c, c = Served(r, k, new)
    PROVE  Changed(c, r) /\ IsClient(c) /\ c.server[k] = new
  <1> DEFINE v == [r.server EXCEPT ![k] = new]
  <1>1. c = [r EXCEPT !.server = v] /\ IsClient(r)
    BY DEF Served, Fine
  <1>2. IsClient(c) /\ c.server[k] = new
    BY ServerReplaced
  <1> HIDE DEF v
  <1>3. /\ c.msgs = r.msgs /\ c.num_msgs = r.num_msgs /\ c.next_id = r.next_id
        /\ c.retry = r.retry /\ c.sock = r.sock /\ c.timers = r.timers
    BY <1>1 DEF IsClient, ClientFields
  <1>4. QED
    BY <1>1, <1>2, <1>3, ChangedSelf

\* A failover.
LEMMA FailoverTimes ==
    ASSUME NEW r, Fine(r), NEW k \in Kinds, NEW net,
           NEW q, q = radius_client_failover(r, k, net)
    PROVE  /\ Changed(q, r)
           /\ k = "auth" => \A i \in 1 .. Len(q.msgs) :
                               q.msgs[i].type = "auth" => q.msgs[i].attempts = 0
  <1> DEFINE old == r.server[k]
             new == IF old = Len(Secrets[k]) THEN 1 ELSE old + 1
             c == Served(r, k, new)
  <1>1. old \in 1 .. Len(Secrets[k]) /\ new \in 1 .. Len(Secrets[k]) /\ IsClient(r)
    <2>1. Len(Secrets[k]) \in Nat /\ Len(Secrets[k]) > 0
      BY ServerCount
    <2>2. old \in 1 .. Len(Secrets[k]) /\ IsClient(r)
      BY DEF Fine, IsClient
    <2>3. QED
      BY <2>1, <2>2
  <1>2. q = radius_change_server(c, k, new, old, AtNext(net))
    BY DEF radius_client_failover, Served
  <1> HIDE DEF new
  <1>3. Changed(c, r) /\ IsClient(c) /\ c.server[k] = new
    <2> HIDE DEF c
    <2>1. QED
      BY <1>1, ServedTimes DEF c
  <1> HIDE DEF c, old
  <1>4. /\ Changed(q, c) /\ IsClient(q)
        /\ k = "auth" => \A i \in 1 .. Len(q.msgs) :
                            q.msgs[i].type = "auth" => q.msgs[i].attempts = 0
    BY <1>1, <1>2, <1>3, ChangeServerTimes
  <1>5. QED
    BY <1>1, <1>3, <1>4, ChangedTwice

\* The way back to the first server.
LEMMA BackTimes ==
    ASSUME NEW r, Fine(r), NEW k \in Kinds, NEW net
    PROVE  Changed(BackToPrimary(r, k, net), r)
  <1> DEFINE old   == r.server[k]
             c     == Served(r, k, 1)
             tried == radius_change_server(c, k, 1, old, net)
             d     == Served(tried, k, old)
             back  == radius_change_server(d, k, old, old, net)
             q     == BackToPrimary(r, k, net)
  <1>1. q = r \/ q = tried \/ q = back
    BY DEF BackToPrimary, Served
  <1>2. /\ 1 \in 1 .. Len(Secrets[k]) /\ IsClient(r)
        /\ old \in 1 .. Len(Secrets[k]) /\ old \in 0 .. Len(Secrets[k])
    <2>1. Len(Secrets[k]) \in Nat /\ Len(Secrets[k]) > 0
      BY ServerCount
    <2>2. old \in 1 .. Len(Secrets[k]) /\ IsClient(r)
      BY DEF Fine, IsClient
    <2>3. QED
      BY <2>1, <2>2
  <1>3. Changed(c, r) /\ IsClient(c) /\ c.server[k] = 1
    <2> HIDE DEF c
    <2>1. QED
      BY <1>2, ServedTimes DEF c
  <1>4. /\ Unique(c.msgs) /\ Covered(c)
        /\ SameSecrets => SignedBefore(c.msgs, c.server, k, 1, old)
    <2> HIDE DEF c
    <2>1. QED
      BY <1>2, ServerReplaced DEF c
  <1> HIDE DEF c, old
  <1>5. Changed(tried, c) /\ IsClient(tried)
    <2> HIDE DEF tried
    <2>1. QED
      BY <1>2, <1>3, ChangeServerTimes DEF tried
  <1>6. Fine(tried)
    <2>1. tried = radius_change_server(c, k, c.server[k], old, net)
          /\ (SameSecrets => SignedBefore(c.msgs, c.server, k, c.server[k], old))
      BY <1>3, <1>4
    <2> HIDE DEF tried
    <2>2. Below(tried, c) /\ (SameSecrets => Signed(tried.msgs, tried.server))
      BY <1>2, <1>3, <2>1, ChangeServer
    <2>3. QED
      BY <1>3, <1>4, <1>5, <2>2, BelowIsFine
  <1> HIDE DEF tried
  <1>7. Changed(d, tried) /\ IsClient(d) /\ d.server[k] = old
    <2> HIDE DEF d
    <2>1. QED
      BY <1>2, <1>6, ServedTimes DEF d
  <1> HIDE DEF d
  <1>8. Changed(back, d) /\ IsClient(back)
    <2> HIDE DEF back
    <2>1. QED
      BY <1>2, <1>7, ChangeServerTimes DEF back
  <1> HIDE DEF back
  <1>9. Changed(tried, r)
    BY <1>2, <1>3, <1>5, ChangedTwice
  <1>10. Changed(back, r)
    <2>1. Changed(back, tried)
      BY <1>5, <1>7, <1>8, ChangedTwice
    <2>2. QED
      BY <1>2, <1>5, <1>8, <1>9, <2>1, ChangedTwice
  <1>11. Changed(r, r)
    BY <1>2, ChangedSelf
  <1> HIDE DEF q
  <1>12. Changed(q, r)
    BY <1>1, <1>9, <1>10, <1>11
  <1>13. QED
    BY <1>12 DEF q
-----------------------------------------------------------------------------
(* What keeps the client ready between two handlers, and inside the loop. *)

\* The timeout that a change of server registers is one within the bounds.
LEMMA FirstWaitAlone == Alone(<<FirstWait>>) /\ <<FirstWait>> # <<>>
                        /\ <<FirstWait>>[1] = FirstWait
  <1>1. <<FirstWait>> # <<>> /\ <<FirstWait>>[1] = FirstWait
    OBVIOUS
  <1>2. QED
    BY <1>1, Limits DEF Alone

\* A change of server while no handler is at work.
LEMMA ChangedRests ==
    ASSUME NEW q, NEW r, Changed(q, r), Resting(r), AllBounded(r.msgs)
    PROVE  Resting(q) /\ AllBounded(q.msgs)
  <1>1. InOrder(q.timers)
    <2>1. InOrder(<<>>) /\ InOrder(<<FirstWait>>) /\ InOrder(r.timers)
      BY FirstWaitAlone DEF InOrder, Resting, Alone
    <2>2. q.timers = <<FirstWait>> \/ q.timers = <<>> \/ q.timers = r.timers
      BY DEF Changed, Retimed
    <2>3. QED
      BY <2>1, <2>2
  <1>2. \A i \in 1 .. Len(q.msgs) : ~Weary(q.msgs, i)
    <2> SUFFICES ASSUME NEW i \in 1 .. Len(q.msgs), q.msgs[i].type = "auth",
                        q.msgs[i].attempts > NumFailover
                 PROVE  FALSE
      BY DEF Weary
    <2>1. /\ i \in 1 .. Len(r.msgs) /\ r.msgs[i].type = "auth"
          /\ q.msgs[i].attempts \in {0, r.msgs[i].attempts}
      BY DEF Changed, Rested
    <2>2. ~(r.msgs[i].attempts > NumFailover) /\ ~(0 > NumFailover)
      BY <2>1, Limits DEF Resting, Weary
    <2>3. QED
      BY <2>1, <2>2
  <1>3. Prompt(q)
    <2>1. CASE q.timers = <<FirstWait>>
      BY <2>1, FirstWaitAlone, Limits DEF Prompt
    <2>2. CASE q.msgs = <<>>
      BY <2>2 DEF Prompt
    <2>3. CASE q.msgs = r.msgs /\ q.timers = r.timers
      BY <2>3 DEF Prompt, Resting
    <2>4. QED
      BY <2>1, <2>2, <2>3 DEF Changed, Retimed
  <1>4. QED
    BY <1>1, <1>2, <1>3 DEF Resting, Changed

\* A change of server inside the loop.
LEMMA ChangedLoops ==
    ASSUME NEW q, NEW r, IsClient(q), Changed(q, r), NEW p, NEW first, NEW failover,
           Alone(r.timers), Seen(r, p, failover), Noted(r, p, first)
    PROVE  Alone(q.timers) /\ Seen(q, p, failover) /\ Noted(q, p, first)
  <1>1. Alone(q.timers)
    <2>1. Alone(<<>>) /\ Alone(<<FirstWait>>)
      BY FirstWaitAlone DEF Alone
    <2>2. q.timers = <<FirstWait>> \/ q.timers = <<>> \/ q.timers = r.timers
      BY DEF Changed, Retimed
    <2>3. QED
      BY <2>1, <2>2
  <1>2. Seen(q, p, failover)
    <2> SUFFICES ASSUME NEW i \in 1 .. Len(q.msgs), q.msgs[i].type = "auth",
                        q.msgs[i].attempts > NumFailover
                 PROVE  i < p /\ "auth" \in failover
      BY DEF Weary, Seen
    <2>1. /\ i \in 1 .. Len(r.msgs) /\ r.msgs[i].type = "auth"
          /\ q.msgs[i].attempts \in {0, r.msgs[i].attempts}
      BY DEF Changed, Rested
    <2>2. ~(0 > NumFailover)
      BY Limits
    <2>3. QED
      BY <2>1, <2>2 DEF Seen, Weary
  <1>3. Noted(q, p, first)
    <2>1. CASE q.timers = <<FirstWait>>
      BY <2>1, FirstWaitAlone, Limits DEF Noted
    <2>2. CASE q.msgs = <<>>
      <3>1. 1 .. Len(q.msgs) = {}
        BY <2>2
      <3>2. QED
        BY <3>1 DEF Noted
    <2>3. CASE q.msgs = r.msgs /\ q.timers = r.timers
      BY <2>3 DEF Noted
    <2>4. QED
      BY <2>1, <2>2, <2>3 DEF Changed, Retimed
  <1>4. QED
    BY <1>1, <1>2, <1>3

\* Opening a socket again, at any time.
LEMMA ReopenedChanged ==
    ASSUME NEW q, NEW r, IsClient(r), Reopened(q, r)
    PROVE  Changed(q, r)
  <1>1. Retimed(q, r)
    BY DEF Reopened, Retimed
  <1>2. Rested(q, r)
    BY DEF Reopened, Rested
  <1>3. QED
    BY <1>1, <1>2 DEF Reopened, Changed

\* Entries taken out between two handlers: those left are due no earlier.
LEMMA PickedRests ==
    ASSUME NEW q, NEW r, Resting(r), AllBounded(r.msgs), IsClient(q), IsClient(r),
           NEW I \in SUBSET (1 .. Len(r.msgs)), Picked(q.msgs, r.msgs, I),
           q.timers = r.timers \/ (q.msgs = <<>> /\ q.timers = <<>>)
    PROVE  Resting(q) /\ AllBounded(q.msgs)
  <1>1. \A i \in 1 .. Len(q.msgs) : \E j \in 1 .. Len(r.msgs) : q.msgs[i] = r.msgs[j]
    BY DEF Picked
  <1>2. AllBounded(q.msgs)
    BY <1>1 DEF AllBounded
  <1>3. InOrder(q.timers)
    BY DEF InOrder, Alone, Resting
  <1>4. \A i \in 1 .. Len(q.msgs) : ~Weary(q.msgs, i)
    BY <1>1 DEF Weary, Resting
  <1>5. Prompt(q)
    <2> SUFFICES ASSUME q.msgs # <<>>
                 PROVE  /\ q.timers # <<>>
                        /\ \/ q.timers[1] <= FirstWait
                           \/ \A i \in 1 .. Len(q.msgs) : q.timers[1] <= q.msgs[i].due
      BY DEF Prompt
    <2>1. Len(q.msgs) # 0 /\ Len(q.msgs) \in Nat
      BY EmptyList DEF IsClient, IsList
    <2>2. 1 \in 1 .. Len(q.msgs)
      BY <2>1
    <2>3. r.msgs # <<>>
      <3>1. PICK j \in 1 .. Len(r.msgs) : TRUE
        BY <1>1, <2>2
      <3>2. QED
        BY <3>1
    <2>4. /\ r.timers # <<>>
          /\ \/ r.timers[1] <= FirstWait
             \/ \A i \in 1 .. Len(r.msgs) : r.timers[1] <= r.msgs[i].due
      BY <2>3 DEF Resting, Prompt
    <2>5. QED
      BY <1>1, <2>4
  <1>6. QED
    BY <1>2, <1>3, <1>4, <1>5 DEF Resting

\* TakeOut leaves the other fields alone.
LEMMA TakeOutTimes ==
    ASSUME NEW r, IsClient(r), NEW I, NEW q, q = TakeOut(r, I)
    PROVE  /\ q.next_id = r.next_id /\ q.retry = r.retry
           /\ q.sock = r.sock /\ q.timers = r.timers /\ q.msgs = Kept(r.msgs, I)
  <1> DEFINE t == Kept(r.msgs, I)
             n == r.num_msgs - (Len(r.msgs) - Cardinality(I))
  <1>1. q = [r EXCEPT !.msgs = t, !.num_msgs = n]
    BY DEF TakeOut
  <1> HIDE DEF t, n
  <1>2. QED
    BY <1>1 DEF IsClient, ClientFields, t

\* One entry out of a list of length n: those behind it move up.
Without(t, s, n, h) ==
    /\ Len(t) = n - 1
    /\ \A i \in 1 .. n - 1 : t[i] = IF i < h THEN s[i] ELSE s[i + 1]

LEMMA KeptOthers ==
    ASSUME NEW s, NEW n \in Nat, NEW h \in 1 .. n, NEW t, t = Kept(s, (1 .. n) \ {h})
    PROVE  Without(t, s, n, h)
  <1> DEFINE I == (1 .. n) \ {h}
             Upto(i) == {j \in I : j <= i}
             nth(k) == CHOOSE i \in I : Cardinality(Upto(i)) = k
  <1>1. Cardinality(I) = n - 1
    BY OnePlace
  <1>2. t = [k \in 1 .. n - 1 |-> s[nth(k)]]
    BY <1>1 DEF Kept
  <1>3. ASSUME NEW i \in I
        PROVE  Cardinality(Upto(i)) = IF i < h THEN i ELSE i - 1
    <2>1. i \in 1 .. n /\ i # h /\ i \in Nat
      OBVIOUS
    <2>2. CASE i < h
      <3>1. Upto(i) = 1 .. i
        BY <2>1, <2>2
      <3>2. Cardinality(1 .. i) = i
        BY <2>1, FS_Interval
      <3>3. QED
        BY <2>2, <3>1, <3>2
    <2>3. CASE ~(i < h)
      <3>1. Upto(i) = (1 .. i) \ {h} /\ h \in 1 .. i
        BY <2>1, <2>3
      <3>2. Cardinality((1 .. i) \ {h}) = i - 1
        BY <2>1, <3>1, OnePlace
      <3>3. QED
        BY <2>3, <3>1, <3>2
    <2>4. QED
      BY <2>2, <2>3
  <1>4. ASSUME NEW k \in 1 .. n - 1
        PROVE  nth(k) = IF k < h THEN k ELSE k + 1
    <2> DEFINE m == IF k < h THEN k ELSE k + 1
    <2>1. m \in I /\ Cardinality(Upto(m)) = k
      <3>1. m \in I /\ (IF m < h THEN m ELSE m - 1) = k
        OBVIOUS
      <3> HIDE DEF I, Upto, m
      <3>2. QED
        BY <1>3, <3>1
    <2>2. \A i \in I : Cardinality(Upto(i)) = k => i = m
      <3> SUFFICES ASSUME NEW i \in I, Cardinality(Upto(i)) = k PROVE i = m
        OBVIOUS
      <3>1. (IF i < h THEN i ELSE i - 1) = k
        BY <1>3
      <3>2. i \in 1 .. n /\ i # h
        OBVIOUS
      <3> HIDE DEF I, Upto
      <3>3. QED
        BY <3>1, <3>2
    <2> HIDE DEF I, Upto, m
    <2>3. nth(k) = m
      BY <2>1, <2>2
    <2>4. QED
      BY <2>3 DEF m
  <1> HIDE DEF nth, I
  <1>5. \A i \in 1 .. n - 1 : t[i] = s[nth(i)]
    BY <1>2
  <1>6. Len(t) = n - 1
    BY <1>2
  <1>7. QED
    BY <1>4, <1>5, <1>6 DEF Without

\* No entry out of a list.
LEMMA KeptAll ==
    ASSUME NEW s, NEW n \in Nat, NEW t, t = Kept(s, 1 .. n)
    PROVE  Len(t) = n /\ \A i \in 1 .. n : t[i] = s[i]
  <1> DEFINE Upto(i) == {j \in 1 .. n : j <= i}
             nth(k) == CHOOSE i \in 1 .. n : Cardinality(Upto(i)) = k
  <1>1. Cardinality(1 .. n) = n
    BY FS_Interval
  <1>2. t = [k \in 1 .. n |-> s[nth(k)]]
    BY <1>1 DEF Kept
  <1>3. ASSUME NEW i \in 1 .. n PROVE Cardinality(Upto(i)) = i
    <2>1. Upto(i) = 1 .. i
      OBVIOUS
    <2>2. Cardinality(1 .. i) = i
      BY FS_Interval
    <2>3. QED
      BY <2>1, <2>2
  <1> HIDE DEF Upto
  <1>4. ASSUME NEW k \in 1 .. n PROVE nth(k) = k
    BY <1>3
  <1> HIDE DEF nth
  <1>5. \A i \in 1 .. n : t[i] = s[nth(i)]
    BY <1>2
  <1>6. Len(t) = n
    BY <1>2
  <1>7. QED
    BY <1>4, <1>5, <1>6

\* The loop works on the entry at a position: the others are as it left them.
Midway(r, at, first, failover) ==
    /\ at \in 1 .. Len(r.msgs)
    /\ Alone(r.timers)
    /\ \A j \in 1 .. Len(r.msgs) : j # at =>
          /\ Bounded(r.msgs[j])
          /\ Weary(r.msgs, j) => j < at /\ "auth" \in failover
    /\ Noted(r, at, first)

\* The entry is dropped, and the next one takes its place.
LEMMA MidwayDrop ==
    ASSUME NEW r, IsClient(r), NEW at, NEW first, NEW failover, Midway(r, at, first, failover),
           NEW q, q = TakeOut(r, DOMAIN r.msgs \ {at})
    PROVE  /\ AllBounded(q.msgs) /\ Alone(q.timers) /\ Seen(q, at, failover)
           /\ Noted(q, at, first) /\ at <= Len(q.msgs) + 1
           /\ q.next_id = r.next_id /\ q.retry = r.retry /\ q.sock = r.sock
  <1> DEFINE n == Len(r.msgs)
             s == r.msgs
             t == q.msgs
  <1>1. DOMAIN s = 1 .. n /\ n \in Nat /\ at \in 1 .. n
    BY DEF IsClient, IsList, Midway
  <1>2. /\ q.next_id = r.next_id /\ q.retry = r.retry
        /\ q.sock = r.sock /\ q.timers = r.timers /\ t = Kept(s, (1 .. n) \ {at})
    BY <1>1, TakeOutTimes
  <1>3. /\ Len(t) = n - 1
        /\ \A i \in 1 .. n - 1 : t[i] = IF i < at THEN s[i] ELSE s[i + 1]
    BY <1>1, <1>2, KeptOthers DEF Without
  <1>4. \A j \in 1 .. n : j # at =>
          /\ Bounded(s[j])
          /\ Weary(s, j) => j < at /\ "auth" \in failover
    BY DEF Midway
  <1>5. /\ Alone(r.timers)
        /\ \/ r.timers # <<>> /\ r.timers[1] <= FirstWait
           \/ \A j \in 1 .. n : j < at => first <= s[j].due
    BY DEF Midway, Noted
  <1> HIDE DEF n, s, t
  <1>6. \A i \in 1 .. n - 1 :
           \/ i < at /\ i \in 1 .. n /\ i # at /\ t[i] = s[i]
           \/ ~(i < at) /\ i + 1 \in 1 .. n /\ i + 1 # at /\ ~(i + 1 < at) /\ t[i] = s[i + 1]
    BY <1>1, <1>3
  <1>7. \A i \in 1 .. n - 1 : Bounded(t[i])
    BY <1>4, <1>6
  <1>8. \A i \in 1 .. n - 1 : Weary(t, i) => i < at /\ "auth" \in failover
    BY <1>4, <1>6 DEF Weary
  <1>9. \/ r.timers # <<>> /\ r.timers[1] <= FirstWait
        \/ \A i \in 1 .. n - 1 : i < at => first <= t[i].due
    BY <1>5, <1>6
  <1>10. at <= Len(t) + 1
    BY <1>1, <1>3
  <1>11. AllBounded(q.msgs)
    BY <1>3, <1>7 DEF AllBounded, t
  <1>12. Seen(q, at, failover)
    BY <1>3, <1>8 DEF Seen, t
  <1>13. Noted(q, at, first)
    BY <1>2, <1>3, <1>9 DEF Noted, t
  <1>14. QED
    BY <1>2, <1>5, <1>10, <1>11, <1>12, <1>13 DEF t

\* The entry stays, and the loop notes when it is due.
LEMMA MidwayGoOn ==
    ASSUME NEW r, NEW at, IsClient(r), Midway(r, at, loop.first, loop.failover),
           Bounded(r.msgs[at]), IsLoop(loop), at > 1 => loop.first # -1,
           NEW l, l = GoOn(r, at)
    PROVE  /\ AllBounded(r.msgs) /\ Looping(r, l) /\ IsLoop(l)
           /\ l.pos = at + 1 /\ at \in 1 .. Len(r.msgs)
  <1> DEFINE e == r.msgs[at]
             k == KindOf(e.type)
             first == loop.first
             f == IF first = -1 THEN e.due ELSE Min({first, e.due})
             o == IF \/ e.attempts > NumFailover
                     \/ ~r.sock[k] /\ e.attempts > 0
                  THEN loop.failover \cup {k} ELSE loop.failover
  <1>1. l = [pos |-> at + 1, first |-> f, failover |-> o]
    BY DEF GoOn
  <1>2. /\ at \in 1 .. Len(r.msgs) /\ Len(r.msgs) \in Nat
        /\ e.due \in 0 .. MaxWait /\ MaxWait \in Nat
        /\ first \in -1 .. MaxWait /\ loop.failover \subseteq Kinds /\ k \in Kinds
    BY Limits DEF Midway, IsClient, IsList, Bounded, IsLoop, KindOf, Kinds
  <1>3. f \in 0 .. MaxWait /\ f <= e.due /\ (first # -1 => f <= first)
    <2>1. CASE first = -1
      BY <1>2, <2>1
    <2>2. CASE first # -1
      <3>1. first \in Nat /\ e.due \in Nat
        BY <1>2, <2>2
      <3>2. f = IF first <= e.due THEN first ELSE e.due
        BY <2>2, <3>1, OfTwo
      <3> HIDE DEF f
      <3>3. QED
        BY <1>2, <3>1, <3>2
    <2>3. QED
      BY <2>1, <2>2
  <1>4. o \subseteq Kinds /\ loop.failover \subseteq o
        /\ (Weary(r.msgs, at) => "auth" \in o)
    BY <1>2 DEF Weary, KindOf
  <1> HIDE DEF f, o
  <1>5. l.pos = at + 1 /\ l.first = f /\ l.failover = o
        /\ l = [g \in {"pos", "first", "failover"} |-> l[g]]
    BY <1>1
  <1>6. IsLoop(l)
    <2>1. at + 1 \in Nat /\ f \in -1 .. MaxWait
      BY <1>2, <1>3
    <2>2. QED
      BY <1>4, <1>5, <2>1 DEF IsLoop
  <1>7. AllBounded(r.msgs)
    BY DEF Midway, AllBounded
  <1>8. Seen(r, at + 1, o)
    <2> SUFFICES ASSUME NEW i \in 1 .. Len(r.msgs), Weary(r.msgs, i)
                 PROVE  i < at + 1 /\ "auth" \in o
      BY DEF Seen
    <2>1. CASE i = at
      BY <1>2, <1>4, <2>1
    <2>2. CASE i # at
      <3>1. i < at /\ "auth" \in loop.failover
        BY <2>2 DEF Midway
      <3>2. QED
        BY <1>2, <1>4, <3>1
    <2>3. QED
      BY <2>1, <2>2
  <1>9. Noted(r, at + 1, f)
    <2>1. CASE r.timers # <<>> /\ r.timers[1] <= FirstWait
      BY <2>1 DEF Noted
    <2>2. CASE \A j \in 1 .. Len(r.msgs) : j < at => first <= r.msgs[j].due
      <3> SUFFICES ASSUME NEW i \in 1 .. Len(r.msgs), i < at + 1
                   PROVE  f <= r.msgs[i].due
        BY DEF Noted
      <3>1. CASE i = at
        BY <1>3, <3>1
      <3>2. CASE i # at
        <4>1. i < at /\ at > 1 /\ first # -1 /\ Bounded(r.msgs[i])
          BY <1>2, <3>2 DEF Midway
        <4>2. f <= first /\ first <= r.msgs[i].due /\ r.msgs[i].due \in Int
          BY <1>3, <2>2, <4>1 DEF Bounded
        <4>3. QED
          BY <1>2, <1>3, <4>2
      <3>3. QED
        BY <3>1, <3>2
    <2>3. QED
      BY <2>1, <2>2 DEF Midway, Noted
  <1>10. Looping(r, l)
    <2>1. Alone(r.timers) /\ f # -1
      BY <1>3 DEF Midway
    <2>2. QED
      BY <1>5, <1>8, <1>9, <2>1 DEF Looping
  <1>11. QED
    BY <1>2, <1>5, <1>6, <1>7, <1>10

\* What an operation leaves alone that only changes an entry.
LEMMA EntryTimes ==
    ASSUME NEW r, IsClient(r), NEW at \in 1 .. Len(r.msgs), NEW e, IsEntry(e),
           NEW q, q = WithEntry(r, at, e)
    PROVE  /\ IsClient(q) /\ Len(q.msgs) = Len(r.msgs) /\ q.msgs[at] = e
           /\ \A i \in 1 .. Len(r.msgs) : i # at => q.msgs[i] = r.msgs[i]
           /\ q.num_msgs = r.num_msgs /\ q.next_id = r.next_id /\ q.retry = r.retry
           /\ q.sock = r.sock /\ q.timers = r.timers
  <1> DEFINE s == r.msgs
             t == [s EXCEPT ![at] = e]
  <1>1. q = [r EXCEPT !.msgs = t]
    BY DEF WithEntry
  <1>2. /\ Len(s) \in Nat /\ s = [i \in 1 .. Len(s) |-> s[i]]
        /\ \A i \in 1 .. Len(s) : IsEntry(s[i])
    BY DEF IsClient, IsList
  <1> HIDE DEF s
  <1>3. at \in 1 .. Len(s)
    BY DEF s
  <1>4. /\ t = [i \in 1 .. Len(s) |-> t[i]] /\ Len(t) = Len(s) /\ t[at] = e
        /\ \A i \in 1 .. Len(s) : i # at => t[i] = s[i]
    <2>1. PICK S : e \in S /\ s \in Seq(S)
      <3> DEFINE S == {e} \cup {s[i] : i \in 1 .. Len(s)}
      <3>1. s \in Seq(S)
        BY <1>2
      <3>2. QED
        BY <3>1
    <2>2. /\ t \in Seq(S) /\ Len(t) = Len(s)
          /\ \A j \in 1 .. Len(s) : t[j] = IF j = at THEN e ELSE s[j]
      BY <1>3, <2>1, ExceptSeq
    <2> HIDE DEF t
    <2>3. t = [i \in 1 .. Len(t) |-> t[i]]
      BY <2>2, LenProperties
    <2>4. QED
      BY <1>3, <2>2, <2>3
  <1> HIDE DEF t
  <1>5. IsList(t)
    <2>1. \A i \in 1 .. Len(t) : IsEntry(t[i])
      BY <1>2, <1>4
    <2>2. QED
      BY <1>2, <1>4, <2>1 DEF IsList
  <1>6. /\ q = [f \in ClientFields |-> q[f]]
        /\ q.msgs = t /\ q.num_msgs = r.num_msgs /\ q.server = r.server
        /\ q.next_id = r.next_id /\ q.retry = r.retry
        /\ q.sock = r.sock /\ q.timers = r.timers
    BY <1>1 DEF IsClient, ClientFields
  <1>7. IsClient(q)
    BY <1>5, <1>6 DEF IsClient
  <1>8. QED
    BY <1>4, <1>6, <1>7 DEF s

\* The entry in work may change as it likes.
LEMMA MidwayEntry ==
    ASSUME NEW r, IsClient(r), NEW at, NEW first, NEW failover, Midway(r, at, first, failover),
           NEW e, IsEntry(e), NEW q, q = WithEntry(r, at, e)
    PROVE  /\ Midway(q, at, first, failover) /\ IsClient(q) /\ q.msgs[at] = e
           /\ q.num_msgs = r.num_msgs /\ q.next_id = r.next_id /\ q.retry = r.retry
           /\ q.sock = r.sock
  <1>1. at \in 1 .. Len(r.msgs) /\ Len(r.msgs) \in Nat
    BY DEF Midway, IsClient, IsList
  <1>2. /\ IsClient(q) /\ Len(q.msgs) = Len(r.msgs) /\ q.msgs[at] = e
        /\ \A i \in 1 .. Len(r.msgs) : i # at => q.msgs[i] = r.msgs[i]
        /\ q.num_msgs = r.num_msgs /\ q.next_id = r.next_id /\ q.retry = r.retry
        /\ q.sock = r.sock /\ q.timers = r.timers
    BY <1>1, EntryTimes
  <1>3. ASSUME NEW j \in 1 .. Len(q.msgs), j # at
        PROVE  Bounded(q.msgs[j]) /\ (Weary(q.msgs, j) => j < at /\ "auth" \in failover)
    <2>1. j \in 1 .. Len(r.msgs) /\ q.msgs[j] = r.msgs[j]
      BY <1>2, <1>3
    <2>2. QED
      BY <1>3, <2>1 DEF Midway, Weary
  <1>4. Noted(q, at, first)
    <2>1. CASE r.timers # <<>> /\ r.timers[1] <= FirstWait
      BY <1>2, <2>1 DEF Noted
    <2>2. CASE \A j \in 1 .. Len(r.msgs) : j < at => first <= r.msgs[j].due
      BY <1>1, <1>2, <2>2 DEF Noted
    <2>3. QED
      BY <2>1, <2>2 DEF Midway, Noted
  <1>5. Alone(q.timers) /\ at \in 1 .. Len(q.msgs)
    BY <1>1, <1>2 DEF Midway
  <1>6. Midway(q, at, first, failover)
    BY <1>3, <1>4, <1>5 DEF Midway
  <1>7. QED
    BY <1>2, <1>6

\* So may the timeout start again.
LEMMA MidwayReopened ==
    ASSUME NEW q, NEW r, NEW at, NEW first, NEW failover, Midway(r, at, first, failover),
           Reopened(q, r)
    PROVE  Midway(q, at, first, failover)
  <1>1. q.msgs = r.msgs /\ (q.timers = <<FirstWait>> \/ q.timers = r.timers)
    BY DEF Reopened
  <1>2. Alone(q.timers) /\ Noted(q, at, first)
    <2>1. CASE q.timers = <<FirstWait>>
      BY <2>1, FirstWaitAlone, Limits DEF Noted
    <2>2. CASE q.timers = r.timers
      BY <1>1, <2>2 DEF Midway, Noted
    <2>3. QED
      BY <1>1, <2>1, <2>2
  <1>3. QED
    BY <1>1, <1>2 DEF Midway

\* A new identifier leaves the other fields alone.
LEMMA GetIdTimes ==
    ASSUME NEW r, IsClient(r), NEW q, q = radius_client_get_id(r)
    PROVE  /\ q.msgs = Kept(r.msgs, {i \in 1 .. Len(r.msgs) : r.msgs[i].id # r.next_id})
           /\ Picked(q.msgs, r.msgs, {i \in 1 .. Len(r.msgs) : r.msgs[i].id # r.next_id})
           /\ IsClient(q) /\ q.num_msgs = r.num_msgs /\ q.retry = r.retry
           /\ q.sock = r.sock /\ q.timers = r.timers /\ q.server = r.server
           /\ r.next_id \in 0 .. IdSpace - 1 => q.next_id \in 0 .. IdSpace - 1
  <1> DEFINE I == {i \in 1 .. Len(r.msgs) : r.msgs[i].id # r.next_id}
             t == Kept(r.msgs, I)
             id == (r.next_id + 1) % IdSpace
  <1>1. DOMAIN r.msgs = 1 .. Len(r.msgs) /\ IsList(r.msgs)
    BY DEF IsClient, IsList
  <1>2. q = [r EXCEPT !.msgs = t, !.next_id = id]
    BY <1>1 DEF radius_client_get_id
  <1>3. r.next_id \in 0 .. IdSpace - 1 => id \in 0 .. IdSpace - 1
    BY Limits
  <1>4. I \in SUBSET (1 .. Len(r.msgs))
    OBVIOUS
  <1> HIDE DEF I, id
  <1>5. IsList(t) /\ Picked(t, r.msgs, I)
    BY <1>1, <1>4, KeptList
  <1> HIDE DEF t
  <1>6. /\ q = [f \in ClientFields |-> q[f]]
        /\ q.msgs = t /\ q.num_msgs = r.num_msgs /\ q.server = r.server
        /\ q.retry = r.retry /\ q.sock = r.sock /\ q.timers = r.timers /\ q.next_id = id
    BY <1>2 DEF IsClient, ClientFields
  <1>7. IsClient(q)
    BY <1>5, <1>6 DEF IsClient
  <1>8. QED
    BY <1>3, <1>5, <1>6, <1>7 DEF t, I

\* The list t is s with entries gone, and the entry at i is now the one at a
\* position of t.
Follows(t, s, at, i) ==
    /\ at \in 1 .. Len(t)
    /\ \A j \in 1 .. Len(t) : \E m \in 1 .. Len(s) :
          t[j] = s[m] /\ (j < at <=> m < i) /\ (j = at <=> m = i)

\* The client is then midway in its loop.
LEMMA FollowsMidway ==
    ASSUME NEW r, NEW q, NEW at, NEW i, IsClient(r), AllBounded(r.msgs),
           Follows(q.msgs, r.msgs, at, i), q.timers = r.timers,
           NEW first, NEW failover,
           Alone(r.timers), Seen(r, i, failover), Noted(r, i, first), i \in Int
    PROVE  /\ Midway(q, at, first, failover) /\ q.msgs[at] = r.msgs[i]
           /\ Bounded(q.msgs[at]) /\ ~Weary(q.msgs, at)
  <1>1. /\ at \in 1 .. Len(q.msgs)
        /\ \A j \in 1 .. Len(q.msgs) : \E m \in 1 .. Len(r.msgs) :
              q.msgs[j] = r.msgs[m] /\ (j < at <=> m < i) /\ (j = at <=> m = i)
    BY DEF Follows
  <1>2. /\ q.msgs[at] = r.msgs[i] /\ i \in 1 .. Len(r.msgs)
    <2>1. PICK m \in 1 .. Len(r.msgs) :
             q.msgs[at] = r.msgs[m] /\ (at = at <=> m = i)
      BY <1>1
    <2>2. QED
      BY <2>1
  <1>3. Bounded(q.msgs[at]) /\ ~Weary(q.msgs, at)
    <2>1. Bounded(r.msgs[i]) /\ ~Weary(r.msgs, i)
      BY <1>2 DEF AllBounded, Seen
    <2>2. QED
      BY <1>2, <2>1 DEF Weary
  <1>4. ASSUME NEW j \in 1 .. Len(q.msgs), j # at
        PROVE  Bounded(q.msgs[j]) /\ (Weary(q.msgs, j) => j < at /\ "auth" \in failover)
    <2>1. PICK m \in 1 .. Len(r.msgs) : q.msgs[j] = r.msgs[m] /\ (j < at <=> m < i)
      BY <1>1
    <2>2. Bounded(r.msgs[m]) /\ (Weary(r.msgs, m) => m < i /\ "auth" \in failover)
      BY DEF AllBounded, Seen
    <2>3. QED
      BY <2>1, <2>2 DEF Weary
  <1>5. Noted(q, at, first)
    <2>1. CASE r.timers # <<>> /\ r.timers[1] <= FirstWait
      BY <2>1 DEF Noted
    <2>2. CASE \A j \in 1 .. Len(r.msgs) : j < i => first <= r.msgs[j].due
      <3> SUFFICES ASSUME NEW j \in 1 .. Len(q.msgs), j < at
                   PROVE  first <= q.msgs[j].due
        BY DEF Noted
      <3>1. PICK m \in 1 .. Len(r.msgs) : q.msgs[j] = r.msgs[m] /\ (j < at <=> m < i)
        BY <1>1
      <3>2. QED
        BY <2>2, <3>1
    <2>3. QED
      BY <2>1, <2>2 DEF Noted
  <1>6. QED
    BY <1>1, <1>2, <1>3, <1>4, <1>5 DEF Midway

\* One attempt more and the next wait, for an entry that is not past the
\* failover: within the bounds unless it is to be dropped.
LEMMA TriedBounded ==
    ASSUME NEW e, IsEntry(e), Bounded(e),
           ~(e.type = "auth" /\ e.attempts > NumFailover),
           NEW id \in 0 .. IdSpace - 1,
           NEW x, x = [e EXCEPT !.attempts = e.attempts + 1, !.id = id],
           NEW y, y = [x EXCEPT !.due = x.next_wait,
                                !.next_wait = Min({2 * x.next_wait, MaxWait})]
    PROVE  /\ IsEntry(x) /\ IsEntry(y) /\ x.type = e.type
           /\ e.type = "auth" => Bounded(x) /\ Bounded(y)
           /\ ~(y.attempts >= MaxRetries) => Bounded(y)
  <1> DEFINE n == e.attempts + 1
             d == e.next_wait
             w == Min({2 * e.next_wait, MaxWait})
  <1>1. /\ e.attempts \in Nat /\ e.next_wait \in 1 .. MaxWait /\ MaxWait \in Nat
        /\ e.due \in 0 .. MaxWait /\ e.age \in 0 .. FirstWait
        /\ e.addr \in Addrs /\ e.secret \in AllSecrets /\ e.type \in Types
    BY Limits DEF Bounded, Tries, IsEntry
  <1>2. w \in 1 .. MaxWait /\ d \in 0 .. MaxWait
    <2>1. w = IF 2 * e.next_wait <= MaxWait THEN 2 * e.next_wait ELSE MaxWait
      <3>1. 2 * e.next_wait \in Nat
        BY <1>1
      <3>2. QED
        BY <1>1, <3>1, OfTwo
    <2> HIDE DEF w
    <2>2. QED
      BY <1>1, <2>1
  <1>3. n \in Nat /\ (e.type = "auth" => n <= NumFailover + 1)
    BY <1>1, Limits
  <1>4. x = [e EXCEPT !.attempts = n, !.id = id]
    OBVIOUS
  <1> HIDE DEF n
  <1>5. /\ x = [f \in EntryFields |-> x[f]]
        /\ x.id = id /\ x.type = e.type /\ x.secret = e.secret /\ x.attempts = n
        /\ x.addr = e.addr /\ x.due = e.due /\ x.next_wait = e.next_wait /\ x.age = e.age
    BY <1>4 DEF IsEntry, EntryFields
  <1>6. y = [x EXCEPT !.due = d, !.next_wait = w]
    BY <1>5
  <1> HIDE DEF d, w
  <1>7. /\ y = [f \in EntryFields |-> y[f]]
        /\ y.id = id /\ y.type = e.type /\ y.secret = e.secret /\ y.attempts = n
        /\ y.addr = e.addr /\ y.due = d /\ y.next_wait = w /\ y.age = e.age
    BY <1>5, <1>6 DEF EntryFields
  <1>8. IsEntry(x) /\ IsEntry(y)
    BY <1>1, <1>5, <1>7 DEF IsEntry
  <1>9. ASSUME e.type = "auth" \/ n < MaxRetries PROVE Bounded(x) /\ Bounded(y)
    <2>1. Tries(x) /\ Tries(y)
      BY <1>3, <1>5, <1>7, <1>9, Limits DEF Tries
    <2>2. Bounded(x)
      BY <1>1, <1>5, <2>1 DEF Bounded
    <2>3. Bounded(y)
      BY <1>1, <1>2, <1>7, <2>1 DEF Bounded
    <2>4. QED
      BY <2>2, <2>3
  <1>10. ~(y.attempts >= MaxRetries) => n < MaxRetries
    BY <1>3, <1>7, Limits
  <1>11. QED
    BY <1>5, <1>8, <1>9, <1>10

\* The place of the entry after radius_client_get_id.
LEMMA NamedFollows ==
    ASSUME NEW r, Fine(r), NEW i \in 1 .. Len(r.msgs),
           NEW hit, hit = {j \in 1 .. Len(r.msgs) : r.msgs[j].id = r.next_id}, i \notin hit,
           NEW at, at = i - Cardinality({j \in hit : j < i}),
           NEW q, q = radius_client_get_id(r)
    PROVE  Follows(q.msgs, r.msgs, at, i) /\ at <= i
  <1> DEFINE n == Len(r.msgs)
             s == r.msgs
             t == q.msgs
             I == {j \in 1 .. n : s[j].id # r.next_id}
  <1>1. IsClient(r) /\ n \in Nat /\ Unique(s) /\ i \in 1 .. n
    BY DEF Fine, IsClient, IsList
  <1>2. t = Kept(s, I)
    BY <1>1, GetIdTimes
  <1>3. CASE hit = {}
    <2>1. I = 1 .. n /\ {j \in hit : j < i} = {}
      BY <1>3
    <2>2. at = i
      <3>1. Cardinality({j \in hit : j < i}) = 0
        BY <2>1, FS_EmptySet
      <3>2. QED
        BY <1>1, <3>1
    <2> HIDE DEF n, s, t, I
    <2>3. Len(t) = n /\ \A j \in 1 .. n : t[j] = s[j]
      BY <1>1, <1>2, <2>1, KeptAll
    <2>4. Follows(t, s, at, i)
      BY <1>1, <2>2, <2>3 DEF Follows, n, s
    <2>5. QED
      BY <1>1, <2>2, <2>4 DEF t, s
  <1>4. CASE hit # {}
    <2>1. PICK h \in 1 .. n : hit = {h} /\ h # i
      BY <1>1, <1>4 DEF Unique
    <2>2. I = (1 .. n) \ {h}
      BY <2>1
    <2>3. at = IF h < i THEN i - 1 ELSE i
      <3>1. {j \in hit : j < i} = {j \in {h} : j < i}
        BY <2>1
      <3>2. i - Cardinality({j \in {h} : j < i}) = IF h < i THEN i - 1 ELSE i
        <4> HIDE DEF n
        <4>1. QED
          BY <1>1, <2>1, OnePlace
      <3>3. QED
        BY <3>1, <3>2
    <2> HIDE DEF n, I
    <2>4. /\ Len(t) = n - 1
          /\ \A j \in 1 .. n - 1 : t[j] = IF j < h THEN s[j] ELSE s[j + 1]
      <3>1. t = Kept(s, (1 .. n) \ {h})
        BY <1>2, <2>2
      <3>2. n \in Nat /\ h \in 1 .. n
        BY <1>1, <2>1
      <3>3. Without(t, s, n, h)
        BY <3>1, <3>2, KeptOthers
      <3>4. QED
        BY <3>3 DEF Without
    <2> HIDE DEF s, t
    <2>5. at \in 1 .. n - 1 /\ at <= i
      BY <1>1, <2>1, <2>3
    <2>6. ASSUME NEW j \in 1 .. n - 1
          PROVE  \E m \in 1 .. n : t[j] = s[m] /\ (j < at <=> m < i) /\ (j = at <=> m = i)
      <3>1. CASE j < h
        <4>1. j \in 1 .. n /\ t[j] = s[j] /\ (j < at <=> j < i) /\ (j = at <=> j = i)
          BY <1>1, <2>1, <2>3, <2>4, <3>1
        <4>2. QED
          BY <4>1
      <3>2. CASE ~(j < h)
        <4>1. /\ j + 1 \in 1 .. n /\ t[j] = s[j + 1] /\ (j < at <=> j + 1 < i)
              /\ (j = at <=> j + 1 = i)
          BY <1>1, <2>1, <2>3, <2>4, <3>2
        <4>2. QED
          BY <4>1
      <3>3. QED
        BY <3>1, <3>2
    <2>7. Follows(t, s, at, i)
      BY <2>4, <2>5, <2>6 DEF Follows, n, s
    <2>8. QED
      BY <2>5, <2>7 DEF t, s
  <1>5. QED
    BY <1>3, <1>4

\* What a call of radius_client_retransmit that leaves num_msgs alone does.
Retried(res, r, i, first, failover) ==
    /\ Midway(res.r, res.at, first, failover) /\ res.at <= i
    /\ res.drop \in BOOLEAN /\ (~res.drop => Bounded(res.r.msgs[res.at]))
    /\ IsClient(res.r) /\ Scalars(res.r) /\ res.r.num_msgs = r.num_msgs

\* From the new identifier on.
LEMMA ResendTimes ==
    ASSUME NEW r, Fine(r), Scalars(r), AllBounded(r.msgs), NEW i \in 1 .. Len(r.msgs),
           NEW net, NEW first, NEW failover,
           Alone(r.timers), Seen(r, i, failover), Noted(r, i, first),
           NEW res, res = Resend(r, i, net), ~res.own
    PROVE  Retried(res, r, i, first, failover)
  <1> DEFINE type  == r.msgs[i].type
             k     == KindOf(type)
             id    == r.next_id
             named == IF type = "acct" THEN radius_client_get_id(r) ELSE r
             hit   == IF type = "acct" THEN {j \in DOMAIN r.msgs : r.msgs[j].id = id} ELSE {}
             at    == i - Cardinality({j \in hit : j < i})
             new   == IF type = "acct" THEN id ELSE r.msgs[i].id
             tried == Tried(named, at, new)
             sent  == IF Sends(net) THEN tried ELSE radius_client_init_sock(tried, k, net)
             waits == Waits(sent, at)
  <1>1. /\ IsClient(r) /\ Len(r.msgs) \in Nat /\ DOMAIN r.msgs = 1 .. Len(r.msgs)
        /\ i \in Int /\ type \in Types /\ k \in Kinds /\ Bounded(r.msgs[i])
    <2>1. IsClient(r) /\ Len(r.msgs) \in Nat /\ DOMAIN r.msgs = 1 .. Len(r.msgs)
      BY DEF Fine, IsClient, IsList
    <2>2. IsEntry(r.msgs[i])
      BY DEF Fine, IsClient, IsList
    <2>3. type \in Types /\ k \in Kinds /\ Bounded(r.msgs[i])
      BY <2>2 DEF IsEntry, KindOf, Kinds, AllBounded
    <2>4. QED
      BY <2>1, <2>3
  <1>2. /\ i \notin hit
        /\ \/ res = Result(sent, at, FALSE, FALSE, FALSE) /\ type = "auth"
           \/ res = Result(waits, at, waits.msgs[at].attempts >= MaxRetries, FALSE,
                           i - 1 \in hit)
    <2>1. CASE i \in hit
      <3>1. res = Result(r, i, FALSE, TRUE, FALSE)
        BY <2>1 DEF Resend
      <3>2. res.own
        BY <3>1 DEF Result
      <3>3. QED
        BY <3>2
    <2>2. CASE i \notin hit
      BY <2>2 DEF Resend
    <2>3. QED
      BY <2>1, <2>2
  <1>3. /\ Follows(named.msgs, r.msgs, at, i) /\ at <= i /\ IsClient(named)
        /\ named.timers = r.timers /\ Scalars(named) /\ named.num_msgs = r.num_msgs
    <2>1. CASE type # "acct"
      <3>1. named = r /\ {j \in hit : j < i} = {}
        BY <2>1
      <3>2. at = i
        <4>1. Cardinality({j \in hit : j < i}) = 0
          BY <3>1, FS_EmptySet
        <4>2. QED
          BY <1>1, <4>1
      <3> HIDE DEF named, at
      <3>3. Follows(r.msgs, r.msgs, i, i)
        BY <1>1 DEF Follows
      <3>4. QED
        BY <1>1, <3>1, <3>2, <3>3
    <2>2. CASE type = "acct"
      <3>1. /\ named = radius_client_get_id(r)
            /\ hit = {j \in 1 .. Len(r.msgs) : r.msgs[j].id = r.next_id}
            /\ at = i - Cardinality({j \in hit : j < i})
        BY <1>1, <2>2
      <3> HIDE DEF named, at, hit
      <3>2. Follows(named.msgs, r.msgs, at, i) /\ at <= i
        BY <1>2, <3>1, NamedFollows
      <3>3. /\ IsClient(named) /\ named.num_msgs = r.num_msgs /\ named.retry = r.retry
            /\ named.sock = r.sock /\ named.timers = r.timers
            /\ r.next_id \in 0 .. IdSpace - 1 => named.next_id \in 0 .. IdSpace - 1
        BY <1>1, <3>1, GetIdTimes
      <3>4. Scalars(named)
        BY <3>3 DEF Scalars
      <3>5. QED
        BY <3>2, <3>3, <3>4
    <2>3. QED
      BY <2>1, <2>2
  <1>4. new \in 0 .. IdSpace - 1
    BY <1>1 DEF Scalars, Bounded
  <1> HIDE DEF named, at, hit, new, k
  <1>5. /\ Midway(named, at, first, failover) /\ named.msgs[at] = r.msgs[i]
        /\ Bounded(named.msgs[at]) /\ ~Weary(named.msgs, at)
    BY <1>1, <1>3, FollowsMidway
  <1> DEFINE e == named.msgs[at]
             x == [e EXCEPT !.attempts = e.attempts + 1, !.id = new]
             y == [x EXCEPT !.due = x.next_wait,
                            !.next_wait = Min({2 * x.next_wait, MaxWait})]
  <1>6. IsEntry(e) /\ e.type = type /\ ~(e.type = "auth" /\ e.attempts > NumFailover)
        /\ Bounded(e)
    BY <1>3, <1>5 DEF Midway, IsClient, IsList, Weary
  <1>7. /\ IsEntry(x) /\ IsEntry(y) /\ x.type = e.type
        /\ e.type = "auth" => Bounded(x) /\ Bounded(y)
        /\ ~(y.attempts >= MaxRetries) => Bounded(y)
    <2> HIDE DEF e
    <2>1. QED
      BY <1>4, <1>6, TriedBounded
  <1>8. tried = WithEntry(named, at, x)
    BY DEF Tried, WithEntry
  <1> HIDE DEF e, x, tried, type
  <1>9. /\ Midway(tried, at, first, failover) /\ IsClient(tried) /\ tried.msgs[at] = x
        /\ tried.num_msgs = r.num_msgs /\ Scalars(tried)
    <2>1. /\ Midway(tried, at, first, failover) /\ IsClient(tried) /\ tried.msgs[at] = x
          /\ tried.num_msgs = named.num_msgs /\ tried.next_id = named.next_id
          /\ tried.retry = named.retry /\ tried.sock = named.sock
      BY <1>3, <1>5, <1>7, <1>8, MidwayEntry
    <2>2. QED
      BY <1>3, <2>1 DEF Scalars
  <1>10. /\ Midway(sent, at, first, failover) /\ IsClient(sent) /\ sent.msgs[at] = x
         /\ sent.num_msgs = r.num_msgs /\ Scalars(sent)
    <2>1. CASE sent = tried
      BY <1>9, <2>1
    <2>2. CASE sent = radius_client_init_sock(tried, k, net)
      <3> HIDE DEF sent
      <3>1. Reopened(sent, tried) /\ IsClient(sent)
        BY <1>1, <1>9, <2>2, InitSockTimes
      <3>2. Midway(sent, at, first, failover)
        BY <1>9, <3>1, MidwayReopened
      <3>3. QED
        BY <1>9, <3>1, <3>2 DEF Reopened, Scalars
    <2>3. QED
      BY <2>1, <2>2
  <1> HIDE DEF sent
  <1>11. waits = WithEntry(sent, at, y)
    BY <1>10 DEF Waits, WithEntry
  <1> HIDE DEF waits, y
  <1>12. /\ Midway(waits, at, first, failover) /\ IsClient(waits) /\ waits.msgs[at] = y
         /\ waits.num_msgs = r.num_msgs /\ Scalars(waits)
    <2>1. /\ Midway(waits, at, first, failover) /\ IsClient(waits) /\ waits.msgs[at] = y
          /\ waits.num_msgs = sent.num_msgs /\ waits.next_id = sent.next_id
          /\ waits.retry = sent.retry /\ waits.sock = sent.sock
      BY <1>7, <1>10, <1>11, MidwayEntry
    <2>2. QED
      BY <1>10, <2>1 DEF Scalars
  <1>13. CASE res = Result(sent, at, FALSE, FALSE, FALSE) /\ type = "auth"
    <2>1. res.r = sent /\ res.at = at /\ ~res.drop /\ res.drop \in BOOLEAN
      BY <1>13 DEF Result
    <2>2. Bounded(sent.msgs[at])
      BY <1>6, <1>7, <1>10, <1>13
    <2>3. QED
      BY <1>3, <1>10, <2>1, <2>2 DEF Retried
  <1>14. CASE res = Result(waits, at, waits.msgs[at].attempts >= MaxRetries, FALSE, i - 1 \in hit)
    <2>1. /\ res.r = waits /\ res.at = at /\ res.drop = (y.attempts >= MaxRetries)
          /\ res.drop \in BOOLEAN
      BY <1>12, <1>14 DEF Result
    <2>2. ~res.drop => Bounded(waits.msgs[at])
      BY <1>7, <1>12, <2>1
    <2>3. QED
      BY <1>3, <1>12, <2>1, <2>2 DEF Retried
  <1>15. QED
    BY <1>2, <1>13, <1>14

\* A failover inside radius_client_retransmit that threw entries away: the loop
\* starts again, and no request for authentication is left.
Restarted(res, r) ==
    /\ res.r.num_msgs # r.num_msgs /\ ~res.drop
    /\ AllBounded(res.r.msgs) /\ Scalars(res.r) /\ Alone(res.r.timers)
    /\ \A i \in 1 .. Len(res.r.msgs) : res.r.msgs[i].type # "auth"

\* The whole of it.
LEMMA RetransmitTimes ==
    ASSUME NEW r, Fine(r), Scalars(r), AllBounded(r.msgs), NEW i \in 1 .. Len(r.msgs),
           NEW net, NEW first, NEW failover,
           Alone(r.timers), Seen(r, i, failover), Noted(r, i, first),
           NEW res, res = radius_client_retransmit(r, i, net), ~res.own
    PROVE  Restarted(res, r) \/ Retried(res, r, i, first, failover)
  <1> DEFINE type  == r.msgs[i].type
             k     == KindOf(type)
             open  == IF r.sock[k] THEN r ELSE radius_client_init_sock(r, k, net)
             moves == ~open.sock[k] /\ Len(Secrets[k]) > 1
             moved == IF moves THEN radius_client_failover(open, k, net) ELSE open
  <1>1. k \in Kinds /\ IsClient(r)
    BY DEF KindOf, Kinds, Fine
  <1>2. res = IF moved.num_msgs # open.num_msgs THEN Result(moved, i, FALSE, FALSE, FALSE)
              ELSE IF type = "interim" \/ ~moved.sock[k]
                   THEN Result(moved, i, TRUE, FALSE, FALSE)
              ELSE Resend(moved, i, IF moves THEN AtNext(net) ELSE net)
    BY DEF radius_client_retransmit
  <1> HIDE DEF k
  <1>3. /\ Fine(open) /\ Len(open.msgs) = Len(r.msgs) /\ open.num_msgs = r.num_msgs
        /\ Changed(open, r)
    <2>1. CASE open = r
      <3>1. Changed(r, r)
        BY <1>1, ChangedSelf
      <3>2. QED
        BY <2>1, <3>1
    <2>2. CASE open = radius_client_init_sock(r, k, net)
      <3> HIDE DEF open
      <3>1. Fine(open) /\ Reopened(open, r)
        BY <1>1, <2>2, InitSock, InitSockTimes
      <3>2. QED
        BY <1>1, <3>1, ReopenedChanged DEF Reopened
    <2>3. QED
      BY <2>1, <2>2
  <1> HIDE DEF open
  <1>4. Fine(moved) /\ Below(moved, open) /\ Changed(moved, r)
    <2>1. CASE moved = open
      BY <1>3, <2>1, BelowSelf DEF Fine
    <2>2. CASE moved = radius_client_failover(open, k, net)
      <3> HIDE DEF moved
      <3>1. Fine(moved) /\ Below(moved, open) /\ Changed(moved, open)
        BY <1>1, <1>3, <2>2, Failover, FailoverTimes
      <3>2. QED
        BY <1>1, <1>3, <3>1, ChangedTwice DEF Fine
    <2>3. QED
      BY <2>1, <2>2
  <1> HIDE DEF moved, type
  <1>5. moved.num_msgs = open.num_msgs => i \in 1 .. Len(moved.msgs)
    <2>1. /\ moved.num_msgs \in Int /\ open.num_msgs \in Int
          /\ Len(moved.msgs) \in Nat /\ Len(open.msgs) \in Nat
      BY <1>3, <1>4 DEF Fine, IsClient, IsList
    <2>2. moved.num_msgs - Len(moved.msgs) = open.num_msgs - Len(open.msgs)
      BY <1>4 DEF Below
    <2>3. moved.num_msgs = open.num_msgs => Len(moved.msgs) = Len(open.msgs)
      BY <2>1, <2>2
    <2>4. QED
      BY <1>3, <2>3
  <1>6. /\ Scalars(moved) /\ AllBounded(moved.msgs) /\ Alone(moved.timers)
        /\ Seen(moved, i, failover) /\ Noted(moved, i, first) /\ IsClient(moved)
    <2>1. IsClient(moved)
      BY <1>4 DEF Fine
    <2>2. Alone(moved.timers) /\ Seen(moved, i, failover) /\ Noted(moved, i, first)
      BY <1>4, <2>1, ChangedLoops
    <2>3. QED
      BY <1>4, <2>1, <2>2 DEF Changed, Scalars
  <1>7. CASE moved.num_msgs # open.num_msgs
    <2>1. res = Result(moved, i, FALSE, FALSE, FALSE)
      BY <1>2, <1>7
    <2>2. res.r = moved /\ ~res.drop
      BY <2>1 DEF Result
    <2>3. \A j \in 1 .. Len(moved.msgs) : moved.msgs[j].type # "auth"
      BY <1>3, <1>4, <1>7 DEF Changed, Rested
    <2>4. QED
      BY <1>3, <1>6, <1>7, <2>2, <2>3 DEF Restarted
  <1>8. CASE moved.num_msgs = open.num_msgs /\ (type = "interim" \/ ~moved.sock[k])
    <2>1. res = Result(moved, i, TRUE, FALSE, FALSE)
      BY <1>2, <1>8
    <2>2. res.r = moved /\ res.drop /\ res.drop \in BOOLEAN /\ res.at = i
      BY <2>1 DEF Result
    <2>3. Midway(moved, i, first, failover)
      BY <1>5, <1>6, <1>8 DEF Midway, AllBounded, Seen
    <2>4. i <= i
      OBVIOUS
    <2>5. QED
      BY <1>3, <1>6, <1>8, <2>2, <2>3, <2>4 DEF Retried
  <1>9. CASE moved.num_msgs = open.num_msgs /\ ~(type = "interim" \/ ~moved.sock[k])
    <2>1. res = Resend(moved, i, IF moves THEN AtNext(net) ELSE net)
      BY <1>2, <1>9
    <2>2. Retried(res, moved, i, first, failover)
      BY <1>4, <1>5, <1>6, <1>9, <2>1, ResendTimes
    <2>3. QED
      BY <1>3, <1>9, <2>2 DEF Retried
  <1>10. QED
    BY <1>7, <1>8, <1>9

-----------------------------------------------------------------------------
(* The actions, for the timeouts and the types. *)

\* A sequence of one, and of two.
LEMMA Pieces ==
    ASSUME NEW x, NEW t
    PROVE  /\ InsertAt(<<>>, 1, t) = <<t>>
           /\ InsertAt(<<x>>, 1, t) = <<t, x>>
           /\ InsertAt(<<x>>, 2, t) = <<x, t>>
  <1> DEFINE S == {x, t}
  <1>1. /\ <<>> \in Seq(S) /\ <<x>> \in Seq(S) /\ <<t>> \in Seq(S)
        /\ <<x, t>> \in Seq(S) /\ <<t, x>> \in Seq(S)
        /\ Len(<<>>) = 0 /\ Len(<<x>>) = 1 /\ Len(<<t>>) = 1
        /\ <<x>>[1] = x /\ <<t>>[1] = t
    OBVIOUS
  <1>2. /\ SubSeq(<<>>, 1, 0) = <<>> /\ SubSeq(<<x>>, 1, 0) = <<>>
        /\ SubSeq(<<x>>, 2, 1) = <<>>
    BY SubSeqEmpty
  <1>3. SubSeq(<<x>>, 1, 1) = <<x>>
    <2> DEFINE u == SubSeq(<<x>>, 1, 1)
    <2>1. \A i \in 1 .. 1 : <<x>>[i] \in S
      OBVIOUS
    <2>2. u \in Seq(S) /\ Len(u) = 1 /\ \A i \in 1 .. 1 : u[i] = <<x>>[1 + i - 1]
      BY <2>1, SubSeqProperties
    <2> HIDE DEF u, S
    <2>3. \A i \in 1 .. Len(u) : u[i] = <<x>>[i]
      BY <2>2
    <2>4. u = <<x>>
      BY <1>1, <2>2, <2>3, SeqEqual
    <2>5. QED
      BY <2>4 DEF u
  <1>4. <<>> \o <<t>> = <<t>> /\ <<t>> \o <<>> = <<t>>
    BY <1>1, ConcatEmptySeq
  <1>5. ASSUME NEW a \in S, NEW b \in S PROVE <<a>> \o <<b>> = <<a, b>>
    <2> DEFINE u == <<a>> \o <<b>>
               v == <<a, b>>
    <2>1. /\ <<a>> \in Seq(S) /\ <<b>> \in Seq(S) /\ v \in Seq(S)
          /\ Len(<<a>>) = 1 /\ Len(<<b>>) = 1 /\ Len(v) = 2
          /\ <<a>>[1] = a /\ <<b>>[1] = b /\ v[1] = a /\ v[2] = b
      OBVIOUS
    <2>2. /\ u \in Seq(S) /\ Len(u) = 2
          /\ \A i \in 1 .. 2 : u[i] = IF i <= 1 THEN <<a>>[i] ELSE <<b>>[i - 1]
      BY <2>1, ConcatProperties
    <2> HIDE DEF u, v, S
    <2>3. u[1] = v[1] /\ u[2] = v[2]
      BY <2>1, <2>2
    <2>4. \A i \in 1 .. Len(u) : u[i] = v[i]
      BY <2>2, <2>3
    <2>5. u = v
      BY <2>1, <2>2, <2>4, SeqEqual
    <2>6. QED
      BY <2>5 DEF u, v
  <1>6. <<x, t>> \o <<>> = <<x, t>>
    BY <1>1, ConcatEmptySeq
  <1>7. InsertAt(<<>>, 1, t) = <<t>>
    <2>1. InsertAt(<<>>, 1, t) = SubSeq(<<>>, 1, 0) \o <<t>> \o SubSeq(<<>>, 1, 0)
      <3>1. 1 - 1 = 0 /\ Len(<<>>) = 0
        OBVIOUS
      <3>2. QED
        BY <3>1, Zenon DEF InsertAt
    <2>2. QED
      BY <1>2, <1>4, <2>1, Zenon
  <1>8. InsertAt(<<x>>, 1, t) = <<t, x>>
    <2>1. InsertAt(<<x>>, 1, t) = SubSeq(<<x>>, 1, 0) \o <<t>> \o SubSeq(<<x>>, 1, 1)
      <3>1. 1 - 1 = 0 /\ Len(<<x>>) = 1
        OBVIOUS
      <3>2. QED
        BY <3>1, Zenon DEF InsertAt
    <2>2. <<t>> \o <<x>> = <<t, x>>
      BY <1>5
    <2>3. QED
      BY <1>2, <1>3, <1>4, <2>1, <2>2, Zenon
  <1>9. InsertAt(<<x>>, 2, t) = <<x, t>>
    <2>1. InsertAt(<<x>>, 2, t) = SubSeq(<<x>>, 1, 1) \o <<t>> \o SubSeq(<<x>>, 2, 1)
      <3>1. 2 - 1 = 1 /\ Len(<<x>>) = 1
        OBVIOUS
      <3>2. QED
        BY <3>1, Zenon DEF InsertAt
    <2>2. <<x>> \o <<t>> = <<x, t>>
      BY <1>5
    <2>3. QED
      BY <1>2, <1>3, <1>6, <2>1, <2>2, Zenon
  <1>10. QED
    BY <1>7, <1>8, <1>9

\* A timeout registered beside at most one other.
LEMMA RegisterTimes ==
    ASSUME NEW ts, Alone(ts), NEW t \in 0 .. MaxWait, NEW us, us = Register(ts, t)
    PROVE  /\ InOrder(us) /\ us # <<>> /\ us[1] <= t
           /\ ts # <<>> => us[1] <= ts[1]
  <1> DEFINE I == {i \in DOMAIN ts : ts[i] <= t}
  <1>1. us = InsertAt(ts, Cardinality(I) + 1, t)
    BY DEF Register
  <1>2. CASE ts = <<>>
    <2>1. I = {}
      BY <1>2
    <2>2. Cardinality(I) + 1 = 1
      BY <2>1, FS_EmptySet
    <2>3. us = <<t>>
      BY <1>1, <1>2, <2>2, Pieces
    <2>4. Alone(us) /\ us # <<>> /\ us[1] = t
      BY <2>3 DEF Alone
    <2>5. t <= t
      BY Limits
    <2>6. QED
      BY <1>2, <2>4, <2>5 DEF InOrder
  <1>3. ASSUME NEW x \in 0 .. MaxWait, ts = <<x>>
        PROVE  /\ InOrder(us) /\ us # <<>> /\ us[1] <= t
               /\ ts # <<>> => us[1] <= ts[1]
    <2>1. DOMAIN ts = {1} /\ ts[1] = x /\ MaxWait \in Nat
      BY <1>3, Limits
    <2>2. CASE x <= t
      <3>1. I = {1}
        BY <2>1, <2>2
      <3>2. Cardinality(I) + 1 = 2
        <4>1. Cardinality(I) = 1
          BY <3>1, FS_Singleton
        <4> HIDE DEF I
        <4>2. QED
          BY <4>1
      <3>3. us = <<x, t>>
        BY <1>1, <1>3, <3>2, Pieces
      <3>4. us[1] = x /\ us # <<>>
        BY <3>3
      <3>5. InOrder(us)
        BY <2>2, <3>3 DEF InOrder
      <3>6. QED
        BY <2>1, <2>2, <3>4, <3>5
    <2>3. CASE ~(x <= t)
      <3>1. I = {}
        BY <2>1, <2>3
      <3>2. Cardinality(I) + 1 = 1
        BY <3>1, FS_EmptySet
      <3>3. us = <<t, x>>
        BY <1>1, <1>3, <3>2, Pieces
      <3>4. us[1] = t /\ us # <<>> /\ t <= x
        BY <2>1, <2>3, <3>3
      <3>5. InOrder(us)
        BY <3>3, <3>4 DEF InOrder
      <3>6. QED
        BY <2>1, <3>4, <3>5
    <2>4. QED
      BY <2>2, <2>3
  <1>4. QED
    BY <1>2, <1>3 DEF Alone

\* The first entry that is due.
LEMMA MinDueTimes ==
    ASSUME NEW s, IsList(s), s # <<>>, AllBounded(s)
    PROVE  /\ MinDue(s) \in 0 .. MaxWait
           /\ \A i \in 1 .. Len(s) : MinDue(s) <= s[i].due
           /\ \E i \in 1 .. Len(s) : MinDue(s) = s[i].due
  <1> DEFINE D == {s[i].due : i \in DOMAIN s}
  <1>1. DOMAIN s = 1 .. Len(s) /\ Len(s) \in Nat /\ Len(s) # 0
    BY EmptyList DEF IsList
  <1>2. /\ \A i \in 1 .. Len(s) : s[i].due \in D
        /\ \A d \in D : \E i \in 1 .. Len(s) : d = s[i].due
    BY <1>1
  <1>3. \A i \in 1 .. Len(s) : s[i].due \in 0 .. MaxWait /\ s[i].due \in Nat
    BY DEF AllBounded, Bounded
  <1>4. MinDue(s) = Min(D)
    BY DEF MinDue
  <1> HIDE DEF D
  <1>5. D \subseteq Nat /\ D # {}
    BY <1>1, <1>2, <1>3
  <1>6. Min(D) \in D /\ \A y \in D : Min(D) <= y
    BY <1>5, LeastNumber
  <1>7. QED
    BY <1>2, <1>3, <1>4, <1>6

\* What holds of the client while no handler is at work.
Ready(r) == Scalars(r) /\ AllBounded(r.msgs) /\ Resting(r)

\* A new entry, and the timeout for the one that is due first.
LEMMA ListAddTimes ==
    ASSUME NEW r, IsClient(r), Ready(r), NEW e, IsEntry(e), Bounded(e), e.attempts = 1
    PROVE  Ready(radius_client_list_add(r, e))
  <1> DEFINE t == <<e>> \o r.msgs
             u == SubSeq(t, 1, Len(t) - 1)
             d == MinDue(t)
             due == <<d>>
             a == [r EXCEPT !.msgs = t, !.timers = due]
             q == radius_client_list_add(r, e)
  <1>1. IsList(r.msgs) /\ Len(r.msgs) \in Nat /\ AllBounded(r.msgs) /\ Scalars(r)
        /\ \A i \in 1 .. Len(r.msgs) : ~Weary(r.msgs, i)
    BY DEF IsClient, IsList, Ready, Resting
  <1>2. PICK S : e \in S /\ r.msgs \in Seq(S)
    <2> DEFINE S == {e} \cup {r.msgs[i] : i \in 1 .. Len(r.msgs)}
    <2>1. r.msgs \in Seq(S)
      BY <1>1 DEF IsList
    <2>2. QED
      BY <2>1
  <1>3. /\ t \in Seq(S) /\ Len(t) = Len(r.msgs) + 1 /\ t[1] = e
        /\ \A i \in 2 .. Len(t) : t[i] = r.msgs[i - 1]
    <2>1. <<e>> \in Seq(S) /\ Len(<<e>>) = 1 /\ <<e>>[1] = e
      BY <1>2
    <2>2. /\ t \in Seq(S) /\ Len(t) = 1 + Len(r.msgs)
          /\ \A i \in 1 .. 1 + Len(r.msgs) : t[i] = IF i <= 1 THEN <<e>>[i] ELSE r.msgs[i - 1]
      BY <1>2, <2>1, ConcatProperties
    <2> HIDE DEF t
    <2>3. QED
      BY <1>1, <2>1, <2>2
  <1>4. radius_client_update_timeout([r EXCEPT !.msgs = <<e>> \o @]) = a
    BY DEF radius_client_update_timeout, IsClient, ClientFields
  <1> HIDE DEF t
  <1>5. Len(t) \in Nat /\ t = [i \in 1 .. Len(t) |-> t[i]] /\ t # <<>>
    BY <1>1, <1>3, LenProperties
  <1>6. \A i \in 1 .. Len(t) : \/ i = 1 /\ t[i] = e
                               \/ i - 1 \in 1 .. Len(r.msgs) /\ t[i] = r.msgs[i - 1]
    BY <1>1, <1>3
  <1>7. IsList(t) /\ AllBounded(t) /\ \A i \in 1 .. Len(t) : ~Weary(t, i)
    <2>1. \A i \in 1 .. Len(t) : IsEntry(t[i]) /\ Bounded(t[i]) /\ ~Weary(t, i)
      <3>1. ~(1 > NumFailover)
        BY Limits
      <3> TAKE i \in 1 .. Len(t)
      <3>2. CASE i = 1 /\ t[i] = e
        BY <3>1, <3>2 DEF Weary
      <3>3. CASE i - 1 \in 1 .. Len(r.msgs) /\ t[i] = r.msgs[i - 1]
        BY <1>1, <3>3 DEF Weary, AllBounded, IsList
      <3>4. QED
        BY <1>6, <3>2, <3>3
    <2>2. QED
      BY <1>5, <2>1 DEF IsList, AllBounded
  <1>8. d \in 0 .. MaxWait /\ \A i \in 1 .. Len(t) : d <= t[i].due
    BY <1>5, <1>7, MinDueTimes
  <1>9. /\ Len(u) = Len(t) - 1 /\ u \in Seq(S)
        /\ \A i \in 1 .. Len(t) - 1 : u[i] = t[i]
    BY <1>3, <1>5, SubSeqProperties
  <1> HIDE DEF u, d
  <1>10. Alone(due) /\ due # <<>> /\ due[1] = d
    BY <1>8 DEF Alone
  <1> HIDE DEF due
  <1>11. /\ a = [f \in ClientFields |-> a[f]] /\ a.num_msgs = r.num_msgs
         /\ a.msgs = t /\ a.timers = due /\ a.next_id = r.next_id /\ a.sock = r.sock
         /\ a.retry = r.retry
    BY DEF IsClient, ClientFields
  <1>12. q = IF r.num_msgs < MaxEntries THEN [a EXCEPT !.num_msgs = r.num_msgs + 1]
             ELSE IF Len(t) = 1 THEN a ELSE [a EXCEPT !.msgs = u]
    BY <1>4, <1>11 DEF radius_client_list_add, Front, u
  <1> HIDE DEF a, q
  <1>13. /\ q.msgs = t \/ q.msgs = u
         /\ q.timers = due /\ q.next_id = r.next_id /\ q.sock = r.sock /\ q.retry = r.retry
    BY <1>11, <1>12 DEF ClientFields
  <1>14. \A i \in 1 .. Len(q.msgs) : i \in 1 .. Len(t) /\ q.msgs[i] = t[i]
    <2>1. CASE q.msgs = t
      BY <2>1
    <2>2. CASE q.msgs = u
      BY <1>5, <1>9, <2>2
    <2>3. QED
      BY <1>13, <2>1, <2>2
  <1>15. AllBounded(q.msgs) /\ \A i \in 1 .. Len(q.msgs) : ~Weary(q.msgs, i)
    BY <1>7, <1>14 DEF AllBounded, Weary
  <1>16. Prompt(q)
    BY <1>8, <1>10, <1>13, <1>14 DEF Prompt
  <1>17. Ready(q)
    BY <1>1, <1>10, <1>13, <1>15, <1>16 DEF Ready, Scalars, Resting, InOrder
  <1>18. QED
    BY <1>17 DEF q

\* A change of server, with all that it keeps.
LEMMA ChangedReady ==
    ASSUME NEW q, NEW r, Changed(q, r), Ready(r)
    PROVE  Ready(q)
  <1>1. Resting(q) /\ AllBounded(q.msgs)
    BY ChangedRests DEF Ready
  <1>2. Scalars(q)
    BY DEF Changed, Ready, Scalars
  <1>3. QED
    BY <1>1, <1>2 DEF Ready

\* A request is sent.
LEMMA SendTimes ==
    ASSUME NEW r, IsClient(r), Ready(r), NEW type \in Types, NEW id \in 0 .. IdSpace - 1,
           NEW addr \in Addrs, NEW net, NEW kept \in BOOLEAN
    PROVE  Ready(radius_client_send(r, type, id, addr, net, kept))
  <1> DEFINE k == KindOf(type)
             open == IF r.sock[k] THEN r ELSE radius_client_init_sock(r, k, net)
             sent == IF Sends(net) THEN open ELSE radius_client_init_sock(open, k, net)
             c == Secrets[k][r.server[k]]
             e == Entry(type, id, addr, c)
             q == radius_client_send(r, type, id, addr, net, kept)
  <1>1. k \in Kinds
    BY DEF KindOf, Kinds
  <1>2. q = open \/ q = sent \/ q = radius_client_list_add(sent, e)
    BY DEF radius_client_send
  <1> HIDE DEF k
  <1>3. c \in AllSecrets
    BY <1>1, SecretIn DEF IsClient
  <1> HIDE DEF c
  <1>4. Bounded(e) /\ e.attempts = 1 /\ IsEntry(e)
    BY <1>3, EntryBounded
  <1> HIDE DEF e, q
  <1>5. IsClient(open) /\ Ready(open)
    <2>1. CASE open = r
      BY <2>1
    <2>2. CASE open = radius_client_init_sock(r, k, net)
      <3> HIDE DEF open
      <3>1. Reopened(open, r) /\ IsClient(open)
        BY <1>1, <2>2, InitSockTimes
      <3>2. QED
        BY <3>1, ReopenedChanged, ChangedReady
    <2>3. QED
      BY <2>1, <2>2
  <1> HIDE DEF open
  <1>6. IsClient(sent) /\ Ready(sent)
    <2>1. CASE sent = open
      BY <1>5, <2>1
    <2>2. CASE sent = radius_client_init_sock(open, k, net)
      <3> HIDE DEF sent
      <3>1. Reopened(sent, open) /\ IsClient(sent)
        BY <1>1, <1>5, <2>2, InitSockTimes
      <3>2. QED
        BY <1>5, <3>1, ReopenedChanged, ChangedReady
    <2>3. QED
      BY <2>1, <2>2
  <1> HIDE DEF sent
  <1>7. Ready(radius_client_list_add(sent, e))
    BY <1>4, <1>6, ListAddTimes
  <1>8. Ready(q)
    BY <1>2, <1>5, <1>6, <1>7
  <1>9. QED
    BY <1>8 DEF q

\* Entries are taken out.
LEMMA TakeOutReady ==
    ASSUME NEW r, IsClient(r), Ready(r), NEW I \in SUBSET (1 .. Len(r.msgs)),
           NEW q, q = TakeOut(r, I)
    PROVE  Ready(q)
  <1>1. IsClient(q) /\ Picked(q.msgs, r.msgs, I)
    BY TakeOutKeeps
  <1>2. /\ q.next_id = r.next_id /\ q.retry = r.retry
        /\ q.sock = r.sock /\ q.timers = r.timers
    BY TakeOutTimes
  <1>3. Resting(q) /\ AllBounded(q.msgs)
    BY <1>1, <1>2, PickedRests DEF Ready
  <1>4. QED
    BY <1>2, <1>3 DEF Ready, Scalars

\* All of them are, or those for authentication.
LEMMA FlushReady ==
    ASSUME NEW r, IsClient(r), Ready(r), NEW only_auth \in BOOLEAN,
           NEW q, q = radius_client_flush(r, only_auth)
    PROVE  Ready(q)
  <1> DEFINE I == NotFlushed(r, only_auth)
  <1>1. IsClient(q) /\ q.sock = r.sock
    BY FlushKeeps
  <1>2. /\ q.next_id = r.next_id /\ q.retry = r.retry
        /\ Picked(q.msgs, r.msgs, I)
        /\ q.timers = r.timers \/ (q.msgs = <<>> /\ q.timers = <<>>)
    BY FlushTimes
  <1>3. I \in SUBSET (1 .. Len(r.msgs))
    BY DEF NotFlushed, IsClient, IsList
  <1> HIDE DEF I
  <1>4. Resting(q) /\ AllBounded(q.msgs)
    BY <1>1, <1>2, <1>3, PickedRests DEF Ready
  <1>5. QED
    BY <1>1, <1>2, <1>4 DEF Ready, Scalars

\* A client without requests.
LEMMA FreshReady ==
    ASSUME NEW server
    PROVE  Ready(Fresh(server)) /\ Fresh(server).timers = <<>>
  <1> DEFINE q == Fresh(server)
  <1>1. /\ q.msgs = <<>> /\ q.timers = <<>> /\ q.next_id = 0
        /\ q.sock = [k \in Kinds |-> FALSE] /\ q.retry = RetryInterval
    BY DEF Fresh
  <1> HIDE DEF q
  <1>2. Scalars(q)
    BY <1>1, Limits DEF Scalars
  <1>3. Len(q.msgs) = 0
    BY <1>1
  <1>4. AllBounded(q.msgs) /\ \A i \in 1 .. Len(q.msgs) : ~Weary(q.msgs, i)
    BY <1>3 DEF AllBounded
  <1>5. InOrder(q.timers) /\ Prompt(q)
    BY <1>1 DEF InOrder, Alone, Prompt
  <1>6. QED
    BY <1>1, <1>2, <1>4, <1>5 DEF Ready, Resting, q

\* A handler that is done in one step.
LEMMA HandlerDone ==
    ASSUME TimeInv, loop.pos = 0, status = "on", Ready(radius'), UNCHANGED <<status, loop>>
    PROVE  TimeInv'
  BY DEF TimeInv, Ready

\* Between two timeouts.
LEMMA RequestTimes ==
    ASSUME IInv, TimeInv,
           \/ NewRequest \/ Reconfigure
           \/ \E k \in Kinds, id \in 0 .. IdSpace - 1 : radius_client_receive(k, id)
           \/ \E addr \in Addrs : radius_client_flush_auth(addr)
    PROVE  TimeInv'
  <1>1. /\ IsClient(radius) /\ DOMAIN radius.msgs = 1 .. Len(radius.msgs)
        /\ loop.pos = 0 /\ status = "on" /\ UNCHANGED <<status, loop>>
    <2>1. IsClient(radius) /\ DOMAIN radius.msgs = 1 .. Len(radius.msgs)
      BY DEF IInv, Fine, IsClient, IsList
    <2>2. CASE NewRequest
      BY <2>1, <2>2, Zenon DEF NewRequest
    <2>3. CASE Reconfigure
      BY <2>1, <2>3 DEF Reconfigure
    <2>4. CASE \E k \in Kinds, id \in 0 .. IdSpace - 1 : radius_client_receive(k, id)
      BY <2>1, <2>4 DEF radius_client_receive
    <2>5. CASE \E addr \in Addrs : radius_client_flush_auth(addr)
      BY <2>1, <2>5 DEF radius_client_flush_auth
    <2>6. QED
      BY <2>2, <2>3, <2>4, <2>5
  <1>2. Ready(radius)
    BY <1>1 DEF TimeInv, Ready
  <1>3. Ready(radius')
    <2>1. CASE NewRequest
      <3> DEFINE q == radius_client_get_id(radius)
                 I == {i \in 1 .. Len(radius.msgs) : radius.msgs[i].id # radius.next_id}
      <3>1. PICK type \in Types, addr \in Addrs, net \in Nets, kept \in BOOLEAN :
               radius' = radius_client_send(q, type, radius.next_id, addr, net, kept)
        BY <2>1 DEF NewRequest
      <3>2. /\ IsClient(q) /\ Picked(q.msgs, radius.msgs, I)
            /\ q.retry = radius.retry /\ q.sock = radius.sock /\ q.timers = radius.timers
            /\ radius.next_id \in 0 .. IdSpace - 1 => q.next_id \in 0 .. IdSpace - 1
        <4> HIDE DEF q
        <4>1. QED
          BY <1>1, GetIdTimes DEF q
      <3>3. I \in SUBSET (1 .. Len(radius.msgs))
        OBVIOUS
      <3> HIDE DEF q, I
      <3>4. Resting(q) /\ AllBounded(q.msgs)
        BY <1>1, <1>2, <3>2, <3>3, PickedRests DEF Ready
      <3>5. Ready(q) /\ radius.next_id \in 0 .. IdSpace - 1
        BY <1>2, <3>2, <3>4 DEF Ready, Scalars
      <3>6. QED
        BY <3>1, <3>2, <3>5, SendTimes
    <2>2. CASE Reconfigure
      BY <1>1, <1>2, <2>2, FlushReady DEF Reconfigure
    <2>3. ASSUME NEW k \in Kinds, NEW id, radius_client_receive(k, id) PROVE Ready(radius')
      <3>1. \E i : radius' = TakeOut(radius, DOMAIN radius.msgs \ {i})
        BY <2>3 DEF radius_client_receive
      <3>2. QED
        BY <1>1, <1>2, <3>1, TakeOutReady
    <2>4. ASSUME NEW addr, radius_client_flush_auth(addr) PROVE Ready(radius')
      <3> DEFINE I == {i \in DOMAIN radius.msgs :
                         radius.msgs[i].type # "auth" \/ radius.msgs[i].addr # addr}
      <3>1. radius' = TakeOut(radius, I)
        BY <2>4 DEF radius_client_flush_auth
      <3>2. I \in SUBSET (1 .. Len(radius.msgs))
        BY <1>1
      <3> HIDE DEF I
      <3>3. QED
        BY <1>1, <1>2, <3>1, <3>2, TakeOutReady
    <2>5. QED
      BY <2>1, <2>2, <2>3, <2>4
  <1>4. QED
    BY <1>1, <1>3, HandlerDone

\* The first of the timeouts goes.
LEMMA TailAlone ==
    ASSUME NEW ts, InOrder(ts), ts # <<>>
    PROVE  Alone(Tail(ts))
  <1>1. CASE Alone(ts)
    <2>1. PICK t \in 0 .. MaxWait : ts = <<t>>
      BY <1>1 DEF Alone
    <2>2. Tail(<<t>>) = <<>>
      OBVIOUS
    <2>3. QED
      BY <2>1, <2>2 DEF Alone
  <1>2. ASSUME NEW t \in 0 .. MaxWait, NEW u \in 0 .. MaxWait, ts = <<t, u>>
        PROVE  Alone(Tail(ts))
    <2>1. Tail(<<t, u>>) = <<u>>
      OBVIOUS
    <2>2. QED
      BY <1>2, <2>1 DEF Alone
  <1>3. QED
    BY <1>1, <1>2 DEF InOrder

\* radius_client_timer begins.
LEMMA FiresTimes ==
    ASSUME IInv, TimeInv, TimerFires
    PROVE  TimeInv'
  <1> DEFINE t == Tail(radius.timers)
  <1>1. /\ IsClient(radius) /\ loop.pos = 0 /\ status = "on" /\ status' = status
        /\ radius.timers # <<>> /\ radius' = [radius EXCEPT !.timers = t]
        /\ loop' = IF radius.msgs = <<>> THEN loop ELSE [Outside EXCEPT !.pos = 1]
    BY DEF TimerFires, IInv, Fine
  <1>2. /\ Scalars(radius) /\ AllBounded(radius.msgs) /\ Resting(radius) /\ IsLoop(loop)
    BY <1>1 DEF TimeInv
  <1>3. Alone(t)
    BY <1>1, <1>2, TailAlone DEF Resting
  <1> HIDE DEF t
  <1>4. /\ radius'.msgs = radius.msgs /\ radius'.timers = t
        /\ radius'.next_id = radius.next_id /\ radius'.sock = radius.sock
        /\ radius'.retry = radius.retry
    BY <1>1 DEF IsClient, ClientFields
  <1>5. Scalars(radius') /\ AllBounded(radius'.msgs)
    BY <1>2, <1>4 DEF Scalars
  <1>6. CASE radius.msgs = <<>>
    <2>1. Resting(radius')
      BY <1>2, <1>3, <1>4, <1>6 DEF Resting, InOrder, Prompt
    <2>2. Ready(radius') /\ UNCHANGED <<status, loop>>
      BY <1>1, <1>5, <1>6, <2>1 DEF Ready
    <2>3. QED
      BY <1>1, <2>2, HandlerDone
  <1>7. CASE radius.msgs # <<>>
    <2>1. /\ loop'.pos = 1 /\ loop'.first = -1 /\ loop'.failover = {}
          /\ loop' = [g \in {"pos", "first", "failover"} |-> loop'[g]]
      BY <1>1, <1>7 DEF Outside
    <2>2. IsLoop(loop')
      BY <2>1, Limits DEF IsLoop
    <2>3. Seen(radius', 1, {})
      BY <1>2, <1>4 DEF Seen, Resting, Weary
    <2>4. Noted(radius', 1, -1)
      BY DEF Noted
    <2>5. Looping(radius', loop')
      BY <1>3, <1>4, <2>1, <2>3, <2>4 DEF Looping
    <2>6. loop'.pos <= Len(radius'.msgs) + 1
      BY <1>1, <1>4, <2>1 DEF IsClient, IsList
    <2>7. loop'.pos # 0 /\ status' = "on"
      BY <1>1, <2>1
    <2>8. QED
      BY <1>5, <2>2, <2>5, <2>6, <2>7 DEF TimeInv
  <1>8. QED
    BY <1>6, <1>7

\* One entry of the list.
LEMMA VisitTimes ==
    ASSUME IInv, TimeInv, TimerVisit
    PROVE  TimeInv'
  <1> DEFINE i == loop.pos
  <1>1. /\ Fine(radius) /\ IsClient(radius) /\ DOMAIN radius.msgs = 1 .. Len(radius.msgs)
        /\ status = "on" /\ i \in 1 .. Len(radius.msgs) /\ Len(radius.msgs) \in Nat
    BY DEF IInv, Fine, IsClient, IsList, TimerVisit
  <1>2. /\ Scalars(radius) /\ AllBounded(radius.msgs) /\ IsLoop(loop)
        /\ Alone(radius.timers) /\ Seen(radius, i, loop.failover)
        /\ Noted(radius, i, loop.first) /\ (i > 1 => loop.first # -1)
    BY <1>1 DEF TimeInv, Looping
  <1>3. PICK net \in Nets : LET res == Visit(radius, i, net) IN
          IF res.own \/ (res.drop /\ res.before)
          THEN /\ status' = "undef"
               /\ radius' = Fresh(radius.server)
               /\ loop' = Outside
          ELSE /\ UNCHANGED status
               /\ IF res.drop
                  THEN /\ radius' = TakeOut(res.r, DOMAIN res.r.msgs \ {res.at})
                       /\ loop' = [loop EXCEPT !.pos = res.at]
                  ELSE /\ radius' = res.r
                       /\ loop' = IF res.r.num_msgs # radius.num_msgs
                                  THEN [loop EXCEPT !.pos = 1]
                                  ELSE GoOn(res.r, res.at)
    BY DEF TimerVisit
  <1> DEFINE res == Visit(radius, i, net)
  <1>4. ASSUME ~res.own
        PROVE  Restarted(res, radius) \/ Retried(res, radius, i, loop.first, loop.failover)
    <2>1. CASE res = Result(radius, i, FALSE, FALSE, FALSE)
      <3> HIDE DEF res
      <3>1. res.r = radius /\ res.at = i /\ ~res.drop /\ res.drop \in BOOLEAN
        BY <2>1 DEF Result
      <3>2. Midway(radius, i, loop.first, loop.failover) /\ Bounded(radius.msgs[i])
        BY <1>1, <1>2 DEF Midway, AllBounded, Seen
      <3>3. i <= i
        BY <1>1
      <3>4. QED
        BY <1>1, <1>2, <3>1, <3>2, <3>3 DEF Retried
    <2>2. CASE res = radius_client_retransmit(radius, i, net)
      <3> HIDE DEF res, i
      <3>1. QED
        BY <1>1, <1>2, <1>4, <2>2, RetransmitTimes
    <2>3. QED
      BY <2>1, <2>2 DEF Visit
  <1>5. \/ status' = "undef" /\ radius' = Fresh(radius.server) /\ loop' = Outside
        \/ /\ ~res.own /\ status' = status /\ res.drop
           /\ radius' = TakeOut(res.r, DOMAIN res.r.msgs \ {res.at})
           /\ loop' = [loop EXCEPT !.pos = res.at]
        \/ /\ ~res.own /\ status' = status /\ ~res.drop /\ radius' = res.r
           /\ loop' = IF res.r.num_msgs # radius.num_msgs
                      THEN [loop EXCEPT !.pos = 1] ELSE GoOn(res.r, res.at)
    <2> HIDE DEF i
    <2>1. QED
      BY <1>3
  <1> HIDE DEF res
  <1>6. ASSUME NEW p \in Nat, loop' = [loop EXCEPT !.pos = p]
        PROVE  /\ loop'.pos = p /\ loop'.first = loop.first
               /\ loop'.failover = loop.failover /\ IsLoop(loop')
    <2>1. /\ loop'.pos = p /\ loop'.first = loop.first /\ loop'.failover = loop.failover
          /\ loop' = [g \in {"pos", "first", "failover"} |-> loop'[g]]
      BY <1>2, <1>6 DEF IsLoop
    <2>2. QED
      BY <1>2, <2>1 DEF IsLoop
  <1>7. CASE status' = "undef" /\ radius' = Fresh(radius.server) /\ loop' = Outside
    <2>1. Ready(radius') /\ radius'.timers = <<>>
      BY <1>7, FreshReady
    <2>2. IsLoop(loop') /\ loop'.pos = 0
      BY <1>7, Limits DEF Outside, IsLoop
    <2>3. QED
      BY <1>7, <2>1, <2>2 DEF TimeInv, Ready
  <1>8. CASE /\ ~res.own /\ status' = status /\ res.drop
             /\ radius' = TakeOut(res.r, DOMAIN res.r.msgs \ {res.at})
             /\ loop' = [loop EXCEPT !.pos = res.at]
    <2>1. Retried(res, radius, i, loop.first, loop.failover)
      BY <1>4, <1>8 DEF Restarted
    <2>2. /\ Midway(res.r, res.at, loop.first, loop.failover) /\ res.at <= i
          /\ IsClient(res.r) /\ Scalars(res.r)
      BY <2>1 DEF Retried
    <2>3. /\ AllBounded(radius'.msgs) /\ Alone(radius'.timers)
          /\ Seen(radius', res.at, loop.failover)
          /\ Noted(radius', res.at, loop.first) /\ res.at <= Len(radius'.msgs) + 1
          /\ radius'.next_id = res.r.next_id /\ radius'.retry = res.r.retry
          /\ radius'.sock = res.r.sock
      <3> DEFINE q == TakeOut(res.r, DOMAIN res.r.msgs \ {res.at})
                 c == res.r
                 at == res.at
                 f == loop.first
                 o == loop.failover
      <3>1. q = TakeOut(c, DOMAIN c.msgs \ {at}) /\ radius' = q
        BY <1>8
      <3>2. IsClient(c) /\ Midway(c, at, f, o)
        BY <2>2
      <3> HIDE DEF q, c, at, f, o
      <3>3. /\ AllBounded(q.msgs) /\ Alone(q.timers) /\ Seen(q, at, o)
            /\ Noted(q, at, f) /\ at <= Len(q.msgs) + 1
            /\ q.next_id = c.next_id /\ q.retry = c.retry /\ q.sock = c.sock
        BY <3>1, <3>2, MidwayDrop
      <3>4. QED
        BY <3>1, <3>3 DEF c, at, f, o
    <2>4. Scalars(radius')
      BY <2>2, <2>3 DEF Scalars
    <2>5. res.at \in Nat /\ res.at # 0 /\ (res.at > 1 => loop.first # -1)
      BY <1>1, <1>2, <2>2 DEF Midway
    <2>6. /\ loop'.pos = res.at /\ loop'.first = loop.first
          /\ loop'.failover = loop.failover /\ IsLoop(loop')
      BY <1>6, <1>8, <2>5
    <2>7. Looping(radius', loop')
      BY <2>3, <2>5, <2>6 DEF Looping
    <2>8. QED
      BY <1>1, <1>8, <2>3, <2>4, <2>5, <2>6, <2>7 DEF TimeInv
  <1>9. CASE /\ ~res.own /\ status' = status /\ ~res.drop /\ radius' = res.r
             /\ res.r.num_msgs # radius.num_msgs
             /\ loop' = [loop EXCEPT !.pos = 1]
    <2>1. Restarted(res, radius)
      BY <1>4, <1>9 DEF Retried
    <2>2. /\ AllBounded(radius'.msgs) /\ Scalars(radius') /\ Alone(radius'.timers)
          /\ \A j \in 1 .. Len(radius'.msgs) : radius'.msgs[j].type # "auth"
      BY <1>9, <2>1 DEF Restarted
    <2>3. /\ loop'.pos = 1 /\ loop'.first = loop.first
          /\ loop'.failover = loop.failover /\ IsLoop(loop')
      BY <1>6, <1>9
    <2>4. Seen(radius', 1, loop.failover)
      BY <2>2 DEF Seen, Weary
    <2>5. Noted(radius', 1, loop.first)
      BY DEF Noted
    <2>6. Looping(radius', loop')
      BY <2>2, <2>3, <2>4, <2>5 DEF Looping
    <2>7. loop'.pos <= Len(radius'.msgs) + 1
      <3>1. Fine(radius')
        BY TimerStep DEF IInv
      <3>2. Len(radius'.msgs) \in Nat
        BY <3>1 DEF Fine, IsClient, IsList
      <3>3. QED
        BY <2>3, <3>2
    <2>8. QED
      BY <1>1, <1>9, <2>2, <2>3, <2>6, <2>7 DEF TimeInv
  <1>10. CASE /\ ~res.own /\ status' = status /\ ~res.drop /\ radius' = res.r
              /\ res.r.num_msgs = radius.num_msgs
              /\ loop' = GoOn(res.r, res.at)
    <2>1. Retried(res, radius, i, loop.first, loop.failover)
      BY <1>4, <1>10 DEF Restarted
    <2>2. /\ Midway(res.r, res.at, loop.first, loop.failover) /\ res.at <= i
          /\ IsClient(res.r) /\ Scalars(res.r) /\ Bounded(res.r.msgs[res.at])
      BY <1>10, <2>1 DEF Retried
    <2>3. res.at > 1 => loop.first # -1
      BY <1>1, <1>2, <2>2 DEF Midway
    <2>4. /\ AllBounded(res.r.msgs) /\ Looping(res.r, loop') /\ IsLoop(loop')
          /\ loop'.pos = res.at + 1 /\ res.at \in 1 .. Len(res.r.msgs)
      BY <1>2, <1>10, <2>2, <2>3, MidwayGoOn
    <2>5. Len(res.r.msgs) \in Nat
      BY <2>2 DEF IsClient, IsList
    <2>6. loop'.pos # 0 /\ loop'.pos <= Len(res.r.msgs) + 1
      BY <2>4, <2>5
    <2>7. QED
      BY <1>1, <1>10, <2>2, <2>4, <2>6 DEF TimeInv
  <1>11. QED
    BY <1>5, <1>7, <1>8, <1>9, <1>10

\* The end of the loop.
LEMMA EndTimes ==
    ASSUME IInv, TimeInv, TimerEnd
    PROVE  TimeInv'
  <1> DEFINE us == Register(radius.timers, loop.first)
             timed == IF radius.msgs = <<>> THEN radius ELSE [radius EXCEPT !.timers = us]
             auth(net) == IF "auth" \in loop.failover
                          THEN radius_client_failover(timed, "auth", net) ELSE timed
  <1>1. /\ Fine(radius) /\ IsClient(radius) /\ IsList(radius.msgs)
        /\ Len(radius.msgs) \in Nat /\ status = "on" /\ loop.pos > Len(radius.msgs)
        /\ loop' = Outside /\ status' = status
    BY DEF IInv, Fine, IsClient, IsList, TimerEnd
  <1>2. PICK net \in Nets :
           radius' = IF "acct" \in loop.failover
                     THEN radius_client_failover(auth(net), "acct", net) ELSE auth(net)
    BY DEF TimerEnd
  <1>3. IsLoop(loop) /\ loop.pos \in Nat /\ loop.pos > 0
    BY <1>1 DEF TimeInv, IsLoop
  <1>4. /\ Scalars(radius) /\ AllBounded(radius.msgs)
        /\ Alone(radius.timers) /\ Seen(radius, loop.pos, loop.failover)
        /\ Noted(radius, loop.pos, loop.first) /\ (loop.pos > 1 => loop.first # -1)
    BY <1>3 DEF TimeInv, Looping
  <1>5. /\ Fine(timed) /\ timed.msgs = radius.msgs /\ Scalars(timed)
        /\ InOrder(timed.timers) /\ Prompt(timed)
    <2>1. CASE radius.msgs = <<>>
      <3>1. timed = radius
        BY <2>1
      <3>2. QED
        BY <1>1, <1>4, <2>1, <3>1 DEF InOrder, Prompt
    <2>2. CASE radius.msgs # <<>>
      <3>1. timed = [radius EXCEPT !.timers = us]
        BY <2>2
      <3>2. loop.first \in 0 .. MaxWait
        <4>1. Len(radius.msgs) # 0
          BY <1>1, <2>2, EmptyList
        <4>2. loop.first # -1 /\ loop.first \in -1 .. MaxWait
          BY <1>1, <1>3, <1>4, <4>1 DEF IsLoop
        <4>3. QED
          BY <4>2, Limits
      <3>3. /\ InOrder(us) /\ us # <<>> /\ us[1] <= loop.first
            /\ radius.timers # <<>> => us[1] <= radius.timers[1]
        BY <1>4, <3>2, RegisterTimes
      <3> HIDE DEF us, timed
      <3>4. /\ timed = [f \in ClientFields |-> timed[f]]
            /\ timed.msgs = radius.msgs /\ timed.num_msgs = radius.num_msgs
            /\ timed.server = radius.server /\ timed.next_id = radius.next_id
            /\ timed.sock = radius.sock /\ timed.retry = radius.retry /\ timed.timers = us
        BY <1>1, <3>1 DEF IsClient, ClientFields
      <3>5. Fine(timed)
        BY <1>1, <3>4, SameList
      <3>6. us[1] \in Int
        <4>1. CASE Alone(us)
          BY <3>3, <4>1, Limits DEF Alone
        <4>2. CASE \E t, u \in 0 .. MaxWait : t <= u /\ us = <<t, u>>
          BY <4>2, Limits
        <4>3. QED
          BY <3>3, <4>1, <4>2 DEF InOrder
      <3>7. Prompt(timed)
        <4>1. CASE radius.timers # <<>> /\ radius.timers[1] <= FirstWait
          <5>1. PICK t \in 0 .. MaxWait : radius.timers = <<t>>
            BY <1>4, <4>1 DEF Alone
          <5>2. radius.timers[1] = t /\ t \in Int
            BY <5>1, Limits
          <5>3. us[1] <= FirstWait
            BY <3>3, <3>6, <4>1, <5>2, Limits
          <5>4. QED
            BY <3>3, <3>4, <5>3 DEF Prompt
        <4>2. CASE \A j \in 1 .. Len(radius.msgs) : j < loop.pos => loop.first <= radius.msgs[j].due
          <5> SUFFICES ASSUME NEW j \in 1 .. Len(radius.msgs)
                       PROVE  us[1] <= radius.msgs[j].due
            BY <3>3, <3>4 DEF Prompt
          <5>1. j < loop.pos
            BY <1>1, <1>3
          <5>2. loop.first <= radius.msgs[j].due /\ radius.msgs[j].due \in Int
            BY <1>4, <4>2, <5>1 DEF AllBounded, Bounded
          <5>3. QED
            BY <3>2, <3>3, <3>6, <5>2, Limits
        <4>3. QED
          BY <1>4, <4>1, <4>2 DEF Noted
      <3>8. QED
        BY <1>4, <3>3, <3>4, <3>5, <3>7 DEF Scalars
    <2>3. QED
      BY <2>1, <2>2
  <1> HIDE DEF timed
  <1>6. "auth" \in Kinds /\ "acct" \in Kinds
    BY DEF Kinds
  <1> DEFINE a == auth(net)
  <1>7. Fine(a) /\ Ready(a)
    <2>1. CASE "auth" \in loop.failover
      <3>1. a = radius_client_failover(timed, "auth", net)
        BY <2>1
      <3> HIDE DEF a
      <3>2. /\ Fine(a) /\ Changed(a, timed)
            /\ \A i \in 1 .. Len(a.msgs) : a.msgs[i].type = "auth" => a.msgs[i].attempts = 0
        BY <1>5, <1>6, <3>1, Failover, FailoverTimes
      <3>3. \A i \in 1 .. Len(a.msgs) : ~Weary(a.msgs, i)
        BY <3>2, Limits DEF Weary
      <3>4. AllBounded(a.msgs) /\ Scalars(a)
        BY <1>4, <1>5, <3>2 DEF Changed, Scalars
      <3>5. InOrder(a.timers) /\ Prompt(a)
        <4>1. CASE a.timers = <<FirstWait>>
          BY <4>1, FirstWaitAlone, Limits DEF InOrder, Prompt
        <4>2. CASE a.msgs = <<>> /\ a.timers \in {timed.timers, <<>>}
          BY <1>5, <4>2 DEF InOrder, Alone, Prompt
        <4>3. CASE a.msgs = timed.msgs /\ a.timers = timed.timers
          BY <1>5, <4>3 DEF Prompt
        <4>4. QED
          BY <3>2, <4>1, <4>2, <4>3 DEF Changed, Retimed
      <3>6. QED
        BY <3>2, <3>3, <3>4, <3>5 DEF Ready, Resting
    <2>2. CASE "auth" \notin loop.failover
      <3>1. a = timed
        BY <2>2
      <3> HIDE DEF a
      <3>2. \A i \in 1 .. Len(radius.msgs) : ~Weary(radius.msgs, i)
        BY <1>4, <2>2 DEF Seen
      <3>3. QED
        BY <1>4, <1>5, <3>1, <3>2 DEF Ready, Resting
    <2>3. QED
      BY <2>1, <2>2
  <1>8. radius' = IF "acct" \in loop.failover
                  THEN radius_client_failover(a, "acct", net) ELSE a
    BY <1>2
  <1> HIDE DEF a, auth
  <1>9. Ready(radius')
    <2>1. CASE "acct" \in loop.failover
      <3>1. Changed(radius', a)
        BY <1>6, <1>7, <1>8, <2>1, FailoverTimes
      <3>2. QED
        BY <1>7, <3>1, ChangedReady
    <2>2. CASE "acct" \notin loop.failover
      BY <1>7, <1>8, <2>2
    <2>3. QED
      BY <2>1, <2>2
  <1>10. IsLoop(loop') /\ loop'.pos = 0
    BY <1>1, Limits DEF Outside, IsLoop
  <1>11. QED
    BY <1>1, <1>9, <1>10 DEF TimeInv, Ready

\* The client has a second fewer to wait.
LEMMA TimersTick ==
    ASSUME NEW ts, InOrder(ts), ts # <<>> => Head(ts) > 0,
           NEW ws, ws = [i \in 1 .. Len(ts) |-> ts[i] - 1]
    PROVE  /\ InOrder(ws) /\ (ts = <<>> => ws = <<>>)
           /\ ts # <<>> => ws # <<>> /\ ts[1] \in Nat /\ ws[1] = ts[1] - 1
  <1>1. CASE ts = <<>>
    <2>1. Len(ts) = 0
      BY <1>1
    <2>2. ws = <<>>
      BY <2>1
    <2>3. QED
      BY <1>1, <2>2 DEF InOrder, Alone
  <1>2. ASSUME NEW t \in 0 .. MaxWait, ts = <<t>>
        PROVE  /\ Alone(ws) /\ ws # <<>> /\ ws[1] = ts[1] - 1 /\ ts[1] \in Nat
    <2>1. Len(ts) = 1 /\ ts[1] = t /\ Head(ts) = t /\ ts # <<>>
      BY <1>2
    <2>2. t \in Nat /\ t - 1 \in 0 .. MaxWait
      BY <2>1, Limits
    <2>3. ws = <<t - 1>>
      BY <2>1
    <2>4. <<t - 1>> # <<>> /\ <<t - 1>>[1] = t - 1
      OBVIOUS
    <2>5. QED
      BY <2>1, <2>2, <2>3, <2>4 DEF Alone
  <1>3. ASSUME NEW t \in 0 .. MaxWait, NEW u \in 0 .. MaxWait, t <= u, ts = <<t, u>>
        PROVE  /\ InOrder(ws) /\ ws # <<>> /\ ws[1] = ts[1] - 1 /\ ts[1] \in Nat
    <2>1. Len(ts) = 2 /\ ts[1] = t /\ ts[2] = u /\ Head(ts) = t /\ ts # <<>>
      BY <1>3
    <2>2. t \in Nat /\ t - 1 \in 0 .. MaxWait /\ u - 1 \in 0 .. MaxWait /\ t - 1 <= u - 1
      BY <1>3, <2>1, Limits
    <2>3. ws = <<t - 1, u - 1>>
      BY <2>1
    <2>4. <<t - 1, u - 1>> # <<>> /\ <<t - 1, u - 1>>[1] = t - 1
      OBVIOUS
    <2>5. QED
      BY <2>1, <2>2, <2>3, <2>4 DEF InOrder
  <1>4. QED
    BY <1>1, <1>2, <1>3 DEF InOrder, Alone

\* A second goes by.
LEMMA TickTimes ==
    ASSUME IInv, TimeInv, Tick
    PROVE  TimeInv'
  <1> DEFINE later(e) == [e EXCEPT !.due = IF @ = 0 THEN 0 ELSE @ - 1,
                                   !.age = IF @ = FirstWait THEN @ ELSE @ + 1]
             s == radius.msgs
             t == [i \in 1 .. Len(s) |-> later(s[i])]
             w == [i \in 1 .. Len(radius.timers) |-> radius.timers[i] - 1]
             n == radius.retry - 1
  <1>1. /\ radius' = [radius EXCEPT !.msgs = t, !.timers = w, !.retry = n]
        /\ loop.pos = 0 /\ status = "on" /\ UNCHANGED <<status, loop>>
        /\ radius.timers # <<>> => Head(radius.timers) > 0
        /\ radius.retry > 0
    BY DEF Tick, Each
  <1>2. IsClient(radius) /\ IsList(s) /\ Ready(radius)
    BY <1>1 DEF IInv, Fine, IsClient, TimeInv, Ready
  <1>3. ASSUME NEW e, IsEntry(e), Bounded(e)
        PROVE  /\ Bounded(later(e)) /\ later(e).type = e.type
               /\ later(e).attempts = e.attempts
               /\ later(e).due = IF e.due = 0 THEN 0 ELSE e.due - 1
    <2> DEFINE x == later(e)
               d == IF e.due = 0 THEN 0 ELSE e.due - 1
               a == IF e.age = FirstWait THEN e.age ELSE e.age + 1
    <2>1. x = [e EXCEPT !.due = d, !.age = a]
      OBVIOUS
    <2>2. d \in 0 .. MaxWait /\ a \in 0 .. FirstWait /\ d = IF e.due = 0 THEN 0 ELSE e.due - 1
      BY <1>3, Limits DEF Bounded
    <2> HIDE DEF x, d, a
    <2>3. /\ x.id = e.id /\ x.type = e.type /\ x.addr = e.addr /\ x.secret = e.secret
          /\ x.attempts = e.attempts /\ x.due = d /\ x.next_wait = e.next_wait /\ x.age = a
      BY <1>3, <2>1 DEF IsEntry, EntryFields
    <2>4. Bounded(x)
      BY <1>3, <2>2, <2>3 DEF Bounded, Tries
    <2>5. QED
      BY <2>2, <2>3, <2>4 DEF x
  <1>4. /\ Len(s) \in Nat /\ Len(t) = Len(s)
        /\ \A i \in 1 .. Len(s) : IsEntry(s[i]) /\ Bounded(s[i]) /\ t[i] = later(s[i])
    <2> HIDE DEF later, w, n
    <2>1. Len(s) \in Nat /\ \A i \in 1 .. Len(s) : IsEntry(s[i]) /\ Bounded(s[i])
      BY <1>2 DEF IsList, Ready, AllBounded
    <2> HIDE DEF s
    <2>2. QED
      BY <2>1
  <1>5. /\ InOrder(w) /\ (radius.timers = <<>> => w = <<>>)
        /\ radius.timers # <<>> => /\ w # <<>> /\ radius.timers[1] \in Nat
                                   /\ w[1] = radius.timers[1] - 1
    <2>1. InOrder(radius.timers)
      BY <1>2 DEF Ready, Resting
    <2> DEFINE ts == radius.timers
    <2>2. w = [i \in 1 .. Len(ts) |-> ts[i] - 1] /\ (ts # <<>> => Head(ts) > 0)
      BY <1>1
    <2> HIDE DEF w, ts
    <2>3. QED
      BY <2>1, <2>2, TimersTick DEF ts
  <1>6. n \in 0 .. RetryInterval
    BY <1>1, <1>2, Limits DEF Ready, Scalars
  <1> HIDE DEF later, w, n
  <1>7. \A i \in 1 .. Len(s) :
           /\ Bounded(t[i]) /\ t[i].type = s[i].type /\ t[i].attempts = s[i].attempts
           /\ t[i].due = IF s[i].due = 0 THEN 0 ELSE s[i].due - 1
    <2> HIDE DEF s, t
    <2>1. QED
      BY <1>3, <1>4
  <1> HIDE DEF t
  <1>8. /\ radius'.msgs = t /\ radius'.timers = w /\ radius'.next_id = radius.next_id
        /\ radius'.sock = radius.sock /\ radius'.retry = n
    BY <1>1, <1>2 DEF IsClient, ClientFields
  <1>9. Scalars(radius') /\ AllBounded(t)
    BY <1>2, <1>4, <1>6, <1>7, <1>8 DEF Ready, Scalars, AllBounded
  <1>10. \A i \in 1 .. Len(t) : ~Weary(t, i)
    <2>1. \A i \in 1 .. Len(s) : ~Weary(s, i)
      BY <1>2 DEF Ready, Resting
    <2> HIDE DEF s
    <2>2. QED
      BY <1>4, <1>7, <2>1 DEF Weary
  <1>11. ASSUME t # <<>>
         PROVE  w # <<>> /\ (w[1] <= FirstWait \/ \A i \in 1 .. Len(t) : w[1] <= t[i].due)
    <2>1. s # <<>>
      <3>1. CASE s = <<>>
        <4>1. Len(t) = 0
          BY <1>4, <3>1
        <4>2. t = <<>>
          BY <1>4, <4>1 DEF t
        <4>3. QED
          BY <1>11, <4>2
      <3>2. QED
        BY <3>1
    <2>2. /\ radius.timers # <<>>
          /\ radius.timers[1] <= FirstWait \/ \A i \in 1 .. Len(s) : radius.timers[1] <= s[i].due
      BY <1>2, <2>1 DEF Ready, Resting, Prompt
    <2>3. w # <<>> /\ radius.timers[1] \in Nat /\ w[1] = radius.timers[1] - 1
      BY <1>5, <2>2
    <2>4. radius.timers[1] > 0
      BY <1>1, <2>2, <2>3
    <2>5. CASE radius.timers[1] <= FirstWait
      BY <2>3, <2>5, Limits
    <2>6. CASE \A i \in 1 .. Len(s) : radius.timers[1] <= s[i].due
      <3>1. ASSUME NEW i \in 1 .. Len(t) PROVE w[1] <= t[i].due
        <4>1. /\ radius.timers[1] <= s[i].due /\ s[i].due \in Nat
              /\ t[i].due = IF s[i].due = 0 THEN 0 ELSE s[i].due - 1
          BY <1>4, <1>7, <2>6 DEF Bounded
        <4>2. s[i].due # 0
          BY <2>3, <2>4, <4>1
        <4>3. QED
          BY <2>3, <4>1, <4>2
      <3>2. QED
        BY <2>3, <3>1
    <2>7. QED
      BY <2>2, <2>3, <2>5, <2>6
  <1>12. Resting(radius')
    BY <1>5, <1>8, <1>10, <1>11 DEF Resting, Prompt
  <1>13. Ready(radius')
    BY <1>8, <1>9, <1>12 DEF Ready
  <1>14. QED
    BY <1>1, <1>13, HandlerDone

\* The client is set up and taken down, and the way back to the primary server.
LEMMA LifeTimes ==
    ASSUME IInv, TimeInv,
           radius_retry_primary_timer \/ radius_client_deinit \/ radius_client_init
    PROVE  TimeInv'
  <1>1. Fine(radius) /\ IsClient(radius) /\ "auth" \in Kinds /\ "acct" \in Kinds
    BY DEF IInv, Fine, Kinds
  <1>2. CASE radius_retry_primary_timer
    <2> DEFINE c == [radius EXCEPT !.retry = RetryInterval]
    <2>1. PICK net \in Nets :
             radius' = BackToPrimary(BackToPrimary(c, "auth", net), "acct", net)
      BY <1>2 DEF radius_retry_primary_timer
    <2>2. loop.pos = 0 /\ status = "on" /\ UNCHANGED <<status, loop>>
      BY <1>2 DEF radius_retry_primary_timer
    <2>3. /\ c = [f \in ClientFields |-> c[f]]
          /\ c.msgs = radius.msgs /\ c.num_msgs = radius.num_msgs
          /\ c.server = radius.server /\ c.timers = radius.timers
          /\ c.next_id = radius.next_id /\ c.sock = radius.sock /\ c.retry = RetryInterval
      BY <1>1 DEF IsClient, ClientFields
    <2> HIDE DEF c
    <2>4. Fine(c)
      BY <1>1, <2>3, SameList
    <2>5. Ready(c)
      <3>1. Ready(radius)
        BY <2>2 DEF TimeInv, Ready
      <3>2. Scalars(c)
        BY <2>3, <3>1, Limits DEF Ready, Scalars
      <3>3. QED
        BY <2>3, <3>1, <3>2 DEF Ready, Resting, Prompt
    <2> DEFINE d == BackToPrimary(c, "auth", net)
    <2>6. Fine(d) /\ Changed(d, c)
      BY <1>1, <2>4, BackKeeps, BackTimes
    <2>7. radius' = BackToPrimary(d, "acct", net)
      BY <2>1
    <2> HIDE DEF d
    <2>8. Changed(radius', d)
      BY <1>1, <2>6, <2>7, BackTimes
    <2>9. Ready(d)
      BY <2>5, <2>6, ChangedReady
    <2>10. Ready(radius')
      BY <2>8, <2>9, ChangedReady
    <2>11. QED
      BY <2>2, <2>10, HandlerDone
  <1>3. CASE radius_client_deinit
    <2> DEFINE c == radius_client_flush(radius, FALSE)
               no == [k \in Kinds |-> FALSE]
    <2>1. /\ radius' = [c EXCEPT !.sock = no, !.retry = RetryInterval]
          /\ loop.pos = 0 /\ loop' = loop /\ status' = "off"
      BY <1>3 DEF radius_client_deinit
    <2>2. c = radius_client_flush(radius, FALSE) /\ FALSE \in BOOLEAN
      OBVIOUS
    <2>3. Fine(c)
      BY <1>1, FlushFine
    <2>4. no \in [Kinds -> BOOLEAN]
      OBVIOUS
    <2> HIDE DEF c, no
    <2>5. c.msgs = <<>> /\ c.timers = <<>> /\ c.next_id = radius.next_id
      BY <1>1, <2>2, FlushTimes
    <2>6. /\ radius'.msgs = <<>> /\ radius'.timers = <<>> /\ radius'.next_id = radius.next_id
          /\ radius'.sock = no /\ radius'.retry = RetryInterval
      BY <2>1, <2>3, <2>5 DEF Fine, IsClient, ClientFields
    <2>7. Scalars(radius')
      BY <2>4, <2>6, Limits DEF TimeInv, Scalars
    <2>8. Len(radius'.msgs) = 0
      BY <2>6
    <2>9. AllBounded(radius'.msgs) /\ Resting(radius')
      BY <2>6, <2>8 DEF AllBounded, Resting, InOrder, Alone, Prompt
    <2>10. IsLoop(loop') /\ loop'.pos = 0
      BY <2>1 DEF TimeInv
    <2>11. QED
      BY <2>1, <2>6, <2>7, <2>9, <2>10 DEF TimeInv
  <1>4. CASE radius_client_init
    <2> DEFINE c == Fresh(radius.server)
    <2>1. PICK net \in Nets :
             radius' = radius_client_init_sock(radius_client_init_sock(c, "auth", net),
                                               "acct", net)
      BY <1>4 DEF radius_client_init
    <2>2. status # "on" /\ status' = "on" /\ loop' = loop
      BY <1>4 DEF radius_client_init
    <2>3. IsLoop(loop') /\ loop'.pos = 0
      BY <2>2 DEF TimeInv, IsLoop
    <2>4. Fine(c) /\ Ready(c)
      BY <1>1, FreshFine, FreshReady DEF IsClient
    <2> HIDE DEF c
    <2> DEFINE d == radius_client_init_sock(c, "auth", net)
    <2>5. radius' = radius_client_init_sock(d, "acct", net)
      BY <2>1
    <2>6. d = radius_client_init_sock(c, "auth", net)
      OBVIOUS
    <2> HIDE DEF d
    <2>7. Reopened(d, c) /\ IsClient(d) /\ IsClient(c)
      BY <1>1, <2>4, <2>6, InitSockTimes DEF Fine
    <2>8. Reopened(radius', d)
      BY <1>1, <2>5, <2>7, InitSockTimes
    <2>9. Ready(d)
      BY <2>4, <2>7, ReopenedChanged, ChangedReady
    <2>10. Ready(radius')
      BY <2>7, <2>8, <2>9, ReopenedChanged, ChangedReady
    <2>11. QED
      BY <2>2, <2>3, <2>10 DEF TimeInv, Ready
  <1>5. QED
    BY <1>2, <1>3, <1>4

-----------------------------------------------------------------------------
(* The theorems on timeouts, attempts and types. *)

\* What every handler keeps of the timeouts, the attempts and the loop holds in
\* every state.
THEOREM TimesInvariance == Spec => []TimeInv
  <1>1. Init => TimeInv
    <2> SUFFICES ASSUME Init PROVE TimeInv
      OBVIOUS
    <2>1. Ready(radius) /\ radius.timers = <<>>
      BY FreshReady DEF Init
    <2>2. IsLoop(loop) /\ loop.pos = 0
      BY Limits DEF Init, Outside, IsLoop
    <2>3. QED
      BY <2>1, <2>2 DEF Init, TimeInv, Ready
  <1>2. IInv /\ TimeInv /\ [Next]_vars => TimeInv'
    <2> SUFFICES ASSUME IInv, TimeInv, [Next]_vars PROVE TimeInv'
      OBVIOUS
    <2>1. CASE UNCHANGED vars
      BY <2>1 DEF vars, TimeInv
    <2>2. CASE Next
      BY <2>2, RequestTimes, FiresTimes, VisitTimes, EndTimes, TickTimes, LifeTimes DEF Next
    <2>3. QED
      BY <2>1, <2>2
  <1>3. QED
    BY <1>1, <1>2, Invariance, PTL DEF Spec

\* The fields of struct radius_client_data keep their types for any limits: in
\* particular no entry is retried past RADIUS_CLIENT_MAX_RETRIES, although a
\* request for authentication whose send fails is not dropped there, and of the
\* timeouts of radius_client_timer there are never more than two.
THEOREM Typed == Spec => []TypeOK
  <1>1. ASSUME IInv, TimeInv PROVE TypeOK
    <2>1. /\ IsClient(radius) /\ IsList(radius.msgs) /\ Covered(radius)
          /\ Scalars(radius) /\ AllBounded(radius.msgs) /\ IsLoop(loop)
      BY <1>1 DEF IInv, Fine, IsClient, TimeInv
    <2>2. Len(radius.msgs) \in Nat /\ radius.num_msgs \in Nat /\ Len(radius.msgs) <= MaxEntries
      BY <2>1, Limits DEF IsClient, IsList, Covered
    <2>3. ASSUME NEW i \in 1 .. Len(radius.msgs) PROVE radius.msgs[i] \in Entries
      <3> DEFINE e == radius.msgs[i]
      <3>1. IsEntry(e) /\ Bounded(e)
        BY <2>1 DEF IsList, AllBounded
      <3> HIDE DEF e
      <3>2. e.attempts \in 0 .. MaxRetries
        BY <3>1, Limits DEF Bounded, Tries
      <3>3. /\ e = [f \in EntryFields |-> e[f]] /\ e.type \in Types
            /\ e.id \in 0 .. IdSpace - 1 /\ e.addr \in Addrs /\ e.secret \in AllSecrets
            /\ e.due \in 0 .. MaxWait /\ e.next_wait \in 1 .. MaxWait /\ e.age \in 0 .. FirstWait
        BY <3>1 DEF IsEntry, Bounded
      <3>4. e \in Entries
        BY <3>2, <3>3 DEF EntryFields, Entries, AllSecrets
      <3>5. QED
        BY <3>4 DEF e
    <2>4. radius.msgs \in Seq(Entries)
      <3> DEFINE s == radius.msgs
      <3>1. s = [i \in 1 .. Len(s) |-> s[i]] /\ Len(s) \in Nat
            /\ \A i \in 1 .. Len(s) : s[i] \in Entries
        BY <2>1, <2>3 DEF IsList
      <3> HIDE DEF s
      <3>2. s \in [1 .. Len(s) -> Entries]
        BY <3>1
      <3>3. s \in Seq(Entries)
        BY <3>1, <3>2, SeqDef
      <3>4. QED
        BY <3>3 DEF s
    <2>5. radius.timers \in Seq(0 .. MaxWait) /\ Len(radius.timers) <= 2
      <3>1. InOrder(radius.timers)
        <4>1. CASE loop.pos = 0
          BY <1>1, <4>1 DEF TimeInv, Resting
        <4>2. CASE loop.pos > 0
          BY <1>1, <4>2 DEF TimeInv, Looping, InOrder
        <4>3. QED
          BY <2>1, <4>1, <4>2 DEF IsLoop
      <3>2. CASE radius.timers = <<>>
        BY <3>2
      <3>3. CASE \E t \in 0 .. MaxWait : radius.timers = <<t>>
        BY <3>3
      <3>4. CASE \E t, u \in 0 .. MaxWait : t <= u /\ radius.timers = <<t, u>>
        BY <3>4
      <3>5. QED
        BY <3>1, <3>2, <3>3, <3>4 DEF InOrder, Alone
    <2>6. loop.pos \in 0 .. MaxEntries + 1 /\ loop.failover \subseteq Kinds
      BY <1>1, <2>1, <2>2, Limits DEF TimeInv, IsLoop
    <2>7. \A k \in Kinds : radius.server[k] \in DOMAIN Secrets[k]
      <3> SUFFICES ASSUME NEW k \in Kinds PROVE radius.server[k] \in DOMAIN Secrets[k]
        OBVIOUS
      <3>1. Secrets[k] \in Seq(Range(Secrets[k]))
        BY ServersAssumption
      <3>2. DOMAIN Secrets[k] = 1 .. Len(Secrets[k])
        BY <3>1
      <3>3. QED
        BY <2>1, <3>2 DEF IsClient
    <2>8. QED
      BY <1>1, <2>1, <2>2, <2>4, <2>5, <2>6, <2>7 DEF TypeOK, Scalars, TimeInv
  <1>2. QED
    BY <1>1, Invariance, TimesInvariance, PTL

\* Between two handlers every pending request is waited for: a timeout runs, at
\* the latest when the first entry is due or after RADIUS_CLIENT_FIRST_WAIT, and
\* none is left behind by radius_client_deinit.
THEOREM Timely == Spec => []TimelyTimer
  <1>1. ASSUME IInv, TimeInv PROVE TimelyTimer
    <2> SUFFICES ASSUME loop.pos = 0
                 PROVE  /\ radius.msgs # <<>> =>
                              /\ radius.timers # <<>>
                              /\ Head(radius.timers) <= Max({FirstWait, MinDue(radius.msgs)})
                        /\ status = "off" => radius.timers = <<>>
      BY DEF TimelyTimer
    <2>1. status = "off" => radius.timers = <<>>
      BY <1>1 DEF TimeInv
    <2>2. ASSUME radius.msgs # <<>>
          PROVE  /\ radius.timers # <<>>
                 /\ Head(radius.timers) <= Max({FirstWait, MinDue(radius.msgs)})
      <3> DEFINE m == MinDue(radius.msgs)
                 t == radius.timers[1]
      <3>1. /\ IsList(radius.msgs) /\ AllBounded(radius.msgs) /\ Resting(radius)
            /\ Len(radius.msgs) \in Nat
        BY <1>1 DEF IInv, Fine, IsClient, IsList, TimeInv
      <3>2. /\ m \in 0 .. MaxWait /\ \E i \in 1 .. Len(radius.msgs) : m = radius.msgs[i].due
        BY <2>2, <3>1, MinDueTimes
      <3>3. /\ radius.timers # <<>>
            /\ t <= FirstWait \/ \A i \in 1 .. Len(radius.msgs) : t <= radius.msgs[i].due
        BY <2>2, <3>1 DEF Resting, Prompt
      <3>4. t \in Nat /\ Head(radius.timers) = t
        <4>1. CASE \E x \in 0 .. MaxWait : radius.timers = <<x>>
          BY <4>1, Limits
        <4>2. CASE \E x, y \in 0 .. MaxWait : x <= y /\ radius.timers = <<x, y>>
          BY <4>2, Limits
        <4>3. QED
          BY <3>1, <3>3, <4>1, <4>2 DEF Resting, InOrder, Alone
      <3> HIDE DEF m, t
      <3>5. t <= FirstWait \/ t <= m
        BY <3>2, <3>3
      <3>6. m \in Nat /\ FirstWait \in Nat
        BY <3>2, Limits
      <3>7. Max({FirstWait, m}) = IF FirstWait <= m THEN m ELSE FirstWait
        BY <3>6, OfTwo
      <3>8. t <= Max({FirstWait, m})
        BY <3>4, <3>5, <3>6, <3>7
      <3>9. QED
        BY <3>3, <3>4, <3>8 DEF m
    <2>3. QED
      BY <2>1, <2>2
  <1>2. QED
    BY <1>1, Invariance, TimesInvariance, PTL

=============================================================================
