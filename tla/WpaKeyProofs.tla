---------------------------- MODULE WpaKeyProofs ----------------------------
(***************************************************************************)
(* The pairwise keys of the access point and of a station, for any number  *)
(* of stations, any limits of retries, any number of frames on the air and *)
(* a driver that may fail: while the port of a station is open both ends   *)
(* use the same PTK.                                                       *)
(*                                                                         *)
(* The argument follows the SNonces, which a station numbers.  An answer   *)
(* 2/4 that is still valid offers the station's last SNonce, and no frame  *)
(* with a MIC is then on its way to the station.  From its acceptance the  *)
(* key of the access point is the offered one, until the station takes it  *)
(* with 3/4; from then on it is the station's PTK, and no 1/4 is left on   *)
(* the air that could make the station choose another.  Only the second    *)
(* of these two lets a 4/4 verify, because a station signs with nothing    *)
(* but what it has taken.                                                  *)
(*                                                                         *)
(* The same invariant bounds the counters between two handlers.  For that  *)
(* the nine turns of the loop that the model takes must be enough: three   *)
(* settle the handshake of the group key and the group, and then a rank of *)
(* the work that is left, six at most, drops with every turn.              *)
(***************************************************************************)
EXTENDS WpaGroupProofs, SequenceTheorems

-----------------------------------------------------------------------------
(* Frames on the air. *)

FrameFields == {"type", "mic", "idx", "gtk", "fresh"}

IsFrame(m) ==
    m = [f \in FrameFields |-> m[f]] /\ m.mic \in Nat /\ m.fresh \in BOOLEAN

IsQueue(q) ==
    /\ Len(q) \in Nat /\ q = [i \in 1 .. Len(q) |-> q[i]]
    /\ \A i \in 1 .. Len(q) : IsFrame(q[i])

\* There is room for it.
Short(q) == Len(q) <= MaxAir

\* The frames e are some that follow one another in d.
Part(e, d) ==
    \E c \in Nat : \A i \in 1 .. Len(e) : i + c \in 1 .. Len(d) /\ e[i] = d[i + c]

\* A queue is a sequence over the set of its frames.
LEMMA QueueIsSeq ==
    ASSUME NEW q, IsQueue(q), NEW X
    PROVE  \E S : X \subseteq S /\ q \in Seq(S) /\ \A m \in S \ X : IsFrame(m)
  <1> DEFINE S == {q[i] : i \in 1 .. Len(q)} \cup X
  <1>1. Len(q) \in Nat /\ q = [i \in 1 .. Len(q) |-> q[i]]
    BY DEF IsQueue
  <1>2. q \in [1 .. Len(q) -> S]
    BY <1>1
  <1>3. q \in Seq(S)
    BY <1>1, <1>2
  <1>4. X \subseteq S /\ \A m \in S \ X : IsFrame(m)
    BY DEF IsQueue
  <1> HIDE DEF S
  <1>5. QED
    BY <1>3, <1>4

\* One more frame.
LEMMA QueueAppend ==
    ASSUME NEW q, IsQueue(q), NEW f, IsFrame(f), NEW r, r = Append(q, f)
    PROVE  /\ IsQueue(r) /\ Len(r) = Len(q) + 1 /\ r[Len(q) + 1] = f
           /\ \A i \in 1 .. Len(q) : r[i] = q[i]
  <1>1. PICK S : {f} \subseteq S /\ q \in Seq(S) /\ \A m \in S \ {f} : IsFrame(m)
    BY QueueIsSeq
  <1>2. /\ r \in Seq(S) /\ Len(r) = Len(q) + 1 /\ r[Len(q) + 1] = f
        /\ \A i \in 1 .. Len(q) : r[i] = q[i]
    BY <1>1, AppendProperties
  <1>3. Len(r) \in Nat /\ r = [i \in 1 .. Len(r) |-> r[i]]
    BY <1>2, LenProperties
  <1>4. \A i \in 1 .. Len(r) : IsFrame(r[i])
    <2>1. \A i \in 1 .. Len(r) : r[i] \in S
      BY <1>2, ElementOfSeq
    <2>2. QED
      BY <1>1, <2>1
  <1>5. QED
    BY <1>2, <1>3, <1>4 DEF IsQueue

\* Two queues one after the other.
LEMMA QueueJoin ==
    ASSUME NEW p, IsQueue(p), NEW q, IsQueue(q)
    PROVE  /\ IsQueue(p \o q) /\ Len(p \o q) = Len(p) + Len(q)
           /\ p \o <<>> = p
           /\ \A f : IsFrame(f) => p \o Append(q, f) = Append(p \o q, f)
  <1> DEFINE A == {p[i] : i \in 1 .. Len(p)}
             B == {q[i] : i \in 1 .. Len(q)}
             S == A \cup B
             r == p \o q
  <1>1. Len(p) \in Nat /\ Len(q) \in Nat
    BY DEF IsQueue
  <1>2. p \in Seq(S) /\ q \in Seq(S) /\ \A m \in S : IsFrame(m)
    <2>1. p \in [1 .. Len(p) -> S] /\ q \in [1 .. Len(q) -> S]
      BY DEF IsQueue
    <2>2. QED
      BY <1>1, <2>1 DEF IsQueue
  <1> HIDE DEF S
  <1>3. /\ r \in Seq(S) /\ Len(r) = Len(p) + Len(q)
        /\ \A i \in 1 .. Len(p) + Len(q) :
              r[i] = IF i <= Len(p) THEN p[i] ELSE q[i - Len(p)]
    BY <1>2, ConcatProperties
  <1>4. IsQueue(r)
    <2> HIDE DEF r
    <2>1. Len(r) \in Nat /\ r = [i \in 1 .. Len(r) |-> r[i]]
      BY <1>3, LenProperties
    <2>2. \A i \in 1 .. Len(r) : r[i] \in S
      BY <1>3, ElementOfSeq
    <2>3. QED
      BY <1>2, <2>1, <2>2 DEF IsQueue
  <1>5. p \o <<>> = p
    BY <1>2, ConcatEmptySeq
  <1>6. ASSUME NEW f PROVE p \o Append(q, f) = Append(p \o q, f)
    <2> DEFINE T == S \cup {f}
               a == Append(q, f)
    <2>1. p \in Seq(T) /\ q \in Seq(T) /\ f \in T
      BY <1>2
    <2> HIDE DEF T
    <2>2. /\ a \in Seq(T) /\ Len(a) = Len(q) + 1 /\ a[Len(q) + 1] = f
          /\ \A i \in 1 .. Len(q) : a[i] = q[i]
      BY <2>1, AppendProperties
    <2> HIDE DEF a
    <2>3. /\ p \o a \in Seq(T) /\ Len(p \o a) = Len(p) + Len(q) + 1
          /\ \A i \in 1 .. Len(p) + Len(q) + 1 :
                (p \o a)[i] = IF i <= Len(p) THEN p[i] ELSE a[i - Len(p)]
      BY <1>1, <2>1, <2>2, ConcatProperties
    <2>4. r \in Seq(T)
      BY <2>1, ConcatProperties
    <2> DEFINE b == Append(r, f)
               c == p \o a
    <2>5. /\ b \in Seq(T) /\ Len(b) = Len(r) + 1 /\ b[Len(r) + 1] = f
          /\ \A i \in 1 .. Len(r) : b[i] = r[i]
      BY <2>1, <2>4, AppendProperties
    <2> HIDE DEF b, c, r
    <2>6. Len(c) = Len(b) /\ \A i \in 1 .. Len(c) : c[i] = b[i]
      <3>1. Len(c) = Len(p) + Len(q) + 1 /\ Len(b) = Len(p) + Len(q) + 1
        BY <1>3, <2>3, <2>5 DEF c
      <3>2. ASSUME NEW i \in 1 .. Len(c) PROVE c[i] = b[i]
        <4>1. c[i] = IF i <= Len(p) THEN p[i] ELSE a[i - Len(p)]
          BY <2>3, <3>1 DEF c
        <4>2. CASE i <= Len(p)
          BY <1>1, <1>3, <2>5, <3>1, <4>1, <4>2
        <4>3. CASE i > Len(p) /\ i <= Len(p) + Len(q)
          BY <1>1, <1>3, <2>2, <2>5, <3>1, <4>1, <4>3
        <4>4. CASE i = Len(p) + Len(q) + 1
          BY <1>1, <1>3, <2>2, <2>5, <3>1, <4>1, <4>4
        <4>5. QED
          BY <1>1, <3>1, <4>2, <4>3, <4>4
      <3>3. QED
        BY <3>1, <3>2
    <2>7. c = b
      BY <2>3, <2>5, <2>6, SeqEqual DEF c
    <2>8. QED
      BY <2>7 DEF a, b, c, r
  <1>7. QED
    BY <1>3, <1>4, <1>5, <1>6

\* The first frame, and those after it.
LEMMA QueueTail ==
    ASSUME NEW q, IsQueue(q), q # <<>>
    PROVE  /\ Len(q) > 0 /\ Head(q) = q[1] /\ IsFrame(q[1])
           /\ IsQueue(Tail(q)) /\ Part(Tail(q), q) /\ Len(Tail(q)) = Len(q) - 1
           /\ Short(q) => Short(Tail(q))
           /\ \A i \in 1 .. Len(Tail(q)) : Tail(q)[i] = q[i + 1]
  <1>1. PICK S : q \in Seq(S) /\ \A m \in S \ {} : IsFrame(m)
    BY QueueIsSeq
  <1>2. /\ Len(q) \in Nat /\ Len(q) > 0 /\ Head(q) = q[1]
        /\ Tail(q) \in Seq(S) /\ Len(Tail(q)) = Len(q) - 1
        /\ \A i \in 1 .. Len(q) - 1 : Tail(q)[i] = q[i + 1]
    <2>1. Tail(q) \in Seq(S) /\ Len(Tail(q)) = Len(q) - 1
          /\ \A i \in 1 .. Len(Tail(q)) : Tail(q)[i] = q[i + 1]
      BY <1>1, HeadTailProperties
    <2>2. Len(q) \in Nat /\ Len(q) > 0
      BY <1>1, EmptySeq, LenProperties
    <2>3. Head(q) = q[1]
      BY <1>1
    <2>4. QED
      BY <2>1, <2>2, <2>3
  <1> DEFINE t == Tail(q)
  <1> HIDE DEF t
  <1>3. IsQueue(t)
    <2>1. Len(t) \in Nat /\ t = [i \in 1 .. Len(t) |-> t[i]]
      BY <1>2, LenProperties DEF t
    <2>2. \A i \in 1 .. Len(t) : t[i] \in S
      BY <1>2, ElementOfSeq DEF t
    <2>3. QED
      BY <1>1, <2>1, <2>2 DEF IsQueue
  <1>4. Part(t, q)
    BY <1>2 DEF Part, t
  <1>5. IsFrame(q[1])
    BY <1>2 DEF IsQueue
  <1>6. Short(q) => Short(t)
    BY <1>2, CountAssumption DEF Short, t
  <1>7. QED
    BY <1>2, <1>3, <1>4, <1>5, <1>6 DEF t

\* What the air takes is a part of what is sent.
LEMMA QueueAir ==
    ASSUME NEW q, IsQueue(q), NEW f, IsQueue(f)
    PROVE  IsQueue(Air(q, f)) /\ Part(Air(q, f), q \o f) /\ Short(Air(q, f))
  <1> DEFINE r == q \o f
             n == IF Len(r) > MaxAir THEN MaxAir ELSE Len(r)
             a == Air(q, f)
  <1>1. IsQueue(r) /\ Len(r) \in Nat
    BY QueueJoin DEF IsQueue
  <1>2. a = SubSeq(r, 1, n)
    BY DEF Air
  <1>3. n \in Nat /\ n <= Len(r) /\ n <= MaxAir
    BY <1>1, CountAssumption
  <1>4. PICK S : r \in Seq(S) /\ \A m \in S \ {} : IsFrame(m)
    BY <1>1, QueueIsSeq
  <1> HIDE DEF r, n, a
  <1>5. /\ a \in Seq(S) /\ Len(a) = n
        /\ \A i \in 1 .. n : a[i] = r[i]
    <2>1. \A i \in 1 .. n : r[i] \in S
      BY <1>3, <1>4, ElementOfSeq
    <2>2. a = [i \in 1 .. n |-> r[i]]
      BY <1>1, <1>2, <1>3, <1>4 DEF IsQueue
    <2>3. QED
      BY <1>3, <2>1, <2>2
  <1>6. IsQueue(a)
    <2>1. Len(a) \in Nat /\ a = [i \in 1 .. Len(a) |-> a[i]]
      BY <1>5, LenProperties
    <2>2. \A i \in 1 .. Len(a) : a[i] \in S
      BY <1>5, ElementOfSeq
    <2>3. QED
      BY <1>4, <2>1, <2>2 DEF IsQueue
  <1>7. Part(a, r)
    BY <1>1, <1>3, <1>5 DEF Part
  <1>8. Short(a)
    BY <1>3, <1>5 DEF Short
  <1>9. QED
    BY <1>6, <1>7, <1>8 DEF a, r

\* Frames whose replay counters are no longer valid.
LEMMA QueueMark ==
    ASSUME NEW q, IsQueue(q), NEW r, r = MarkInvalid(q)
    PROVE  /\ IsQueue(r) /\ Len(r) = Len(q)
           /\ \A i \in 1 .. Len(q) :
                 r[i].type = q[i].type /\ r[i].mic = q[i].mic /\ ~r[i].fresh
  <1> DEFINE b == [i \in 1 .. Len(q) |-> [q[i] EXCEPT !.fresh = FALSE]]
             S == {b[i] : i \in 1 .. Len(q)}
  <1>1. Len(q) \in Nat /\ DOMAIN q = 1 .. Len(q)
    BY DEF IsQueue
  <1>2. \A i \in 1 .. Len(q) : /\ IsFrame(b[i]) /\ ~b[i].fresh
                               /\ b[i].type = q[i].type /\ b[i].mic = q[i].mic
    <2> SUFFICES ASSUME NEW i \in 1 .. Len(q)
                 PROVE  /\ IsFrame(b[i]) /\ ~b[i].fresh
                        /\ b[i].type = q[i].type /\ b[i].mic = q[i].mic
      OBVIOUS
    <2> DEFINE m == q[i]
               k == [m EXCEPT !.fresh = FALSE]
    <2>1. IsFrame(m) /\ b[i] = k
      BY DEF IsQueue
    <2> HIDE DEF b, m
    <2>2. IsFrame(k) /\ ~k.fresh /\ k.type = m.type /\ k.mic = m.mic
      BY <2>1 DEF IsFrame, FrameFields
    <2> HIDE DEF k
    <2>3. QED
      BY <2>1, <2>2 DEF m
  <1>3. /\ b = [i \in 1 .. Len(q) |-> b[i]] /\ b \in [1 .. Len(q) -> S]
        /\ b \in Seq(S) /\ Len(b) = Len(q)
    <2>1. b = [i \in 1 .. Len(q) |-> b[i]] /\ \A i \in 1 .. Len(q) : b[i] \in S
      OBVIOUS
    <2> HIDE DEF b, S
    <2>2. QED
      BY <1>1, <2>1
  <1>4. r = SubSeq(b, 1, Len(q))
    BY <1>1 DEF MarkInvalid
  <1>5. r = b
    <2> HIDE DEF b, S
    <2>1. r = [i \in 1 .. Len(q) |-> b[i]]
      BY <1>1, <1>3, <1>4
    <2>2. QED
      BY <1>3, <2>1
  <1> HIDE DEF b, S
  <1>6. IsQueue(r)
    BY <1>1, <1>2, <1>3, <1>5 DEF IsQueue
  <1>7. QED
    BY <1>2, <1>3, <1>5, <1>6

-----------------------------------------------------------------------------
(* What a station, the frames and the access point know of each other. *)

SupFields == {"on", "snonce", "renew", "tptk", "ptk", "msg_3_of_4_ok", "gtk"}

\* The frames that the access point signs with the PTK.
Mic(m) == m.type \in {"3/4", "1/2"}

\* Station u will not choose k as its SNonce again: it has taken the PTK of k, or
\* has gone on without.
Used(u, k) == k <= u.snonce /\ (~u.renew => k < u.snonce)

\* The PTK k is the one that u has offered and not yet taken.
Offered(u, k) == k = u.snonce /\ ~u.renew /\ (u.on => u.tptk = k)

\* Kinds of frames that are not on the air: questions 1/4, those that are still
\* valid, valid answers 2/4, and frames with a MIC.
No1of4(d)   == \A i \in 1 .. Len(d) : d[i].type # "1/4"
NoAsk(d)    == \A i \in 1 .. Len(d) : ~(d[i].type = "1/4" /\ d[i].fresh)
NoAnswer(q) == \A i \in 1 .. Len(q) : ~(q[i].type = "2/4" /\ q[i].fresh)
NoMic(d)    == \A i \in 1 .. Len(d) : ~Mic(d[i])

\* u has taken the PTK k, and nothing on the air makes it choose another.
Held(u, k, d) == Used(u, k) /\ (u.on => u.ptk = k /\ u.tptk = 0) /\ No1of4(d)

\* A station: a temporary PTK belongs to the SNonce it would use again.
SupOk(u) ==
    /\ u = [f \in SupFields |-> u[f]]
    /\ u.snonce \in Nat /\ u.tptk \in Nat /\ u.ptk \in Nat
    /\ u.on \in BOOLEAN /\ u.renew \in BOOLEAN
    /\ ~u.renew => u.snonce > 0
    /\ Used(u, u.ptk)
    /\ u.tptk # 0 => u.tptk = u.snonce /\ ~u.renew
    /\ ~u.on => u.tptk = 0

\* Of two frames to the station, one behind the other: a 1/4 behind a frame with
\* a MIC is valid, nothing signed is behind a valid 1/4, and a 3/4 behind a 1/4
\* is signed with what the 1/4 will make the station offer.
Ordered(u, m, n) ==
    /\ Mic(m) /\ n.type = "1/4" => n.fresh
    /\ m.type = "1/4" /\ m.fresh => ~Mic(n)
    /\ m.type = "1/4" /\ n.type = "3/4" => n.mic = u.snonce /\ ~u.renew

\* A frame to the station: a 3/4 does not contradict the temporary PTK, and a 1/2
\* is signed with a PTK the station has taken.
ToSta(u, m) ==
    /\ m.type = "3/4" => u.tptk \in {0, m.mic}
    /\ m.type = "1/2" => Used(u, m.mic)

DownOk(u, d) ==
    /\ \A i, j \in 1 .. Len(d) : i < j => Ordered(u, d[i], d[j])
    /\ \A i \in 1 .. Len(d) : ToSta(u, d[i])

\* A frame from the station is signed with a PTK it has taken, and a valid 2/4
\* has its last SNonce.
FromSta(u, m) ==
    /\ m.type \in {"4/4", "2/2", "new PTK", "new GTK"} => Used(u, m.mic)
    /\ m.type = "2/4" /\ m.fresh => Offered(u, m.mic)

UpOk(u, q) == \A i \in 1 .. Len(q) : FromSta(u, q[i])

\* The station and the frames from and to it.
AirOk(u, d, q) ==
    /\ SupOk(u) /\ IsQueue(d) /\ IsQueue(q)
    /\ DownOk(u, d) /\ UpOk(u, q)
    /\ NoAnswer(q) \/ NoMic(d)

\* The states in which the access point has a PTK.
Keyed == {"PTKCALCNEGOTIATING", "PTKINITNEGOTIATING", "PTKINITDONE"}

\* A PTK of the access point is held by the station or, before the port is open,
\* offered by it.
KeyOk(valid, ptk, k, u, d, q) ==
    valid => /\ ptk \in Keyed /\ k \in Nat
             /\ NoAsk(d) /\ NoAnswer(q)
             /\ Held(u, k, d) \/ (ptk # "PTKINITDONE" /\ Offered(u, k))

\* Frames lost at either end.
LEMMA PartKeeps ==
    ASSUME NEW u, NEW d, NEW q, NEW e, NEW p, AirOk(u, d, q),
           IsQueue(e), IsQueue(p), Part(e, d), Part(p, q)
    PROVE  /\ AirOk(u, e, p)
           /\ \A valid, ptk, k : KeyOk(valid, ptk, k, u, d, q) => KeyOk(valid, ptk, k, u, e, p)
  <1>1. PICK b \in Nat : \A i \in 1 .. Len(e) : i + b \in 1 .. Len(d) /\ e[i] = d[i + b]
    BY DEF Part
  <1>2. PICK c \in Nat : \A i \in 1 .. Len(p) : i + c \in 1 .. Len(q) /\ p[i] = q[i + c]
    BY DEF Part
  <1>3. DownOk(u, e)
    <2>1. ASSUME NEW i \in 1 .. Len(e), NEW j \in 1 .. Len(e), i < j
          PROVE  Ordered(u, e[i], e[j])
      <3>1. /\ i + b \in 1 .. Len(d) /\ j + b \in 1 .. Len(d)
            /\ e[i] = d[i + b] /\ e[j] = d[j + b]
        BY <1>1
      <3>2. i + b < j + b
        BY <2>1 DEF IsQueue
      <3>3. QED
        BY <3>1, <3>2 DEF AirOk, DownOk
    <2>2. \A i \in 1 .. Len(e) : ToSta(u, e[i])
      BY <1>1 DEF AirOk, DownOk
    <2>3. QED
      BY <2>1, <2>2 DEF DownOk
  <1>4. UpOk(u, p)
    BY <1>2 DEF AirOk, UpOk
  <1>5. /\ NoAnswer(q) => NoAnswer(p)
        /\ NoMic(d) => NoMic(e)
        /\ NoAsk(d) => NoAsk(e)
        /\ No1of4(d) => No1of4(e)
    BY <1>1, <1>2 DEF NoAnswer, NoMic, NoAsk, No1of4
  <1>6. AirOk(u, e, p)
    BY <1>3, <1>4, <1>5 DEF AirOk
  <1>7. ASSUME NEW valid, NEW ptk, NEW k, KeyOk(valid, ptk, k, u, d, q)
        PROVE  KeyOk(valid, ptk, k, u, e, p)
    BY <1>5, <1>7 DEF KeyOk, Held
  <1>8. QED
    BY <1>6, <1>7

\* A frame is sent to the station that is a question, is signed with a key that
\* may be used, or neither asks nor is signed.
LEMMA SendDown ==
    ASSUME NEW u, NEW d, NEW q, AirOk(u, d, q), NEW f, IsFrame(f), f.fresh,
           \/ f.type = "1/4"
           \/ /\ Mic(f) /\ NoAsk(d) /\ NoAnswer(q)
              /\ Held(u, f.mic, d) \/ (f.type = "3/4" /\ Offered(u, f.mic))
           \/ f.type = "deauth"
    PROVE  /\ AirOk(u, Append(d, f), q)
           /\ f.type # "1/4" => \A valid, ptk, k :
                 KeyOk(valid, ptk, k, u, d, q) => KeyOk(valid, ptk, k, u, Append(d, f), q)
  <1> DEFINE e == Append(d, f)
             n == Len(d)
  <1>1. /\ IsQueue(e) /\ Len(e) = n + 1 /\ e[n + 1] = f /\ n \in Nat
        /\ \A i \in 1 .. n : e[i] = d[i]
    <2>1. IsQueue(d)
      BY DEF AirOk
    <2>2. Len(d) \in Nat
      BY <2>1 DEF IsQueue
    <2>3. e = Append(d, f)
      OBVIOUS
    <2> HIDE DEF e
    <2> HIDE DEF n
    <2>4. IsQueue(e)
      BY <2>1, <2>3, QueueAppend
    <2>5. Len(e) = Len(d) + 1
      BY <2>1, <2>3, QueueAppend
    <2>6. e[Len(d) + 1] = f
      BY <2>1, <2>3, QueueAppend
    <2>7. \A i \in 1 .. Len(d) : e[i] = d[i]
      BY <2>1, <2>3, QueueAppend
    <2>8. QED
      BY <2>2, <2>4, <2>5, <2>6, <2>7 DEF n
  <1> HIDE DEF e, n
  <1>2. 1 .. Len(e) = 1 .. n \cup {n + 1}
    BY <1>1
  <1>3. ASSUME NEW i \in 1 .. n PROVE Ordered(u, d[i], f)
    <2>1. CASE f.type = "1/4"
      BY <2>1 DEF Ordered, Mic
    <2>2. CASE f.type = "deauth"
      BY <2>2 DEF Ordered, Mic
    <2>3. CASE /\ Mic(f) /\ NoAsk(d)
               /\ Held(u, f.mic, d) \/ (f.type = "3/4" /\ Offered(u, f.mic))
      <3>1. f.type # "1/4"
        BY <2>3 DEF Mic
      <3>2. ~(d[i].type = "1/4" /\ d[i].fresh)
        BY <1>3, <2>3 DEF NoAsk, n
      <3>3. d[i].type = "1/4" /\ f.type = "3/4" => f.mic = u.snonce /\ ~u.renew
        BY <1>3, <2>3 DEF Held, Offered, No1of4, n
      <3>4. QED
        BY <3>1, <3>2, <3>3 DEF Ordered
    <2>4. QED
      BY <2>1, <2>2, <2>3
  <1>4. ToSta(u, f)
    <2>1. CASE ~Mic(f)
      BY <2>1 DEF ToSta, Mic
    <2>2. CASE Mic(f) /\ Held(u, f.mic, d)
      <3>1. u.tptk = 0
        BY <2>2 DEF Held, AirOk, SupOk
      <3>2. QED
        BY <2>2, <3>1 DEF ToSta, Held
    <2>3. CASE f.type = "3/4" /\ Offered(u, f.mic)
      BY <2>3 DEF ToSta, Offered, AirOk, SupOk
    <2>4. QED
      BY <2>1, <2>2, <2>3 DEF Mic
  <1>5. DownOk(u, e)
    <2>1. ASSUME NEW i \in 1 .. Len(e), NEW j \in 1 .. Len(e), i < j
          PROVE  Ordered(u, e[i], e[j])
      <3>1. i \in 1 .. n
        BY <1>1, <2>1
      <3>2. CASE j \in 1 .. n
        BY <1>1, <2>1, <3>1, <3>2 DEF AirOk, DownOk, n
      <3>3. CASE j = n + 1
        BY <1>1, <1>3, <3>1, <3>3
      <3>4. QED
        BY <1>2, <3>2, <3>3
    <2>2. \A i \in 1 .. Len(e) : ToSta(u, e[i])
      BY <1>1, <1>2, <1>4 DEF AirOk, DownOk, n
    <2>3. QED
      BY <2>1, <2>2 DEF DownOk
  <1>6. NoAnswer(q) \/ NoMic(e)
    <2>1. NoMic(d) /\ ~Mic(f) => NoMic(e)
      BY <1>1, <1>2 DEF NoMic, n
    <2>2. Mic(f) => NoAnswer(q)
      BY DEF Mic
    <2>3. QED
      BY <2>1, <2>2 DEF AirOk
  <1>7. AirOk(u, e, q)
    BY <1>1, <1>5, <1>6 DEF AirOk
  <1>8. ASSUME f.type # "1/4"
        PROVE  (NoAsk(d) => NoAsk(e)) /\ (No1of4(d) => No1of4(e))
    BY <1>1, <1>2, <1>8 DEF NoAsk, No1of4, n
  <1>9. ASSUME f.type # "1/4", NEW valid, NEW ptk, NEW k, KeyOk(valid, ptk, k, u, d, q)
        PROVE  KeyOk(valid, ptk, k, u, e, q)
    BY <1>8, <1>9 DEF KeyOk, Held
  <1>10. QED
    BY <1>7, <1>9 DEF e

\* An answer of the station is accepted: all replay counters become invalid.
LEMMA MarkKeeps ==
    ASSUME NEW u, NEW d, NEW q, AirOk(u, d, q), NoMic(d) \/ NoAsk(d)
    PROVE  /\ AirOk(u, MarkInvalid(d), MarkInvalid(q))
           /\ NoAsk(MarkInvalid(d)) /\ NoAnswer(MarkInvalid(q))
           /\ NoMic(d) => NoMic(MarkInvalid(d))
           /\ No1of4(d) => No1of4(MarkInvalid(d))
  <1> DEFINE e == MarkInvalid(d)
             p == MarkInvalid(q)
  <1>1. /\ IsQueue(e) /\ Len(e) = Len(d) /\ IsQueue(p) /\ Len(p) = Len(q)
        /\ \A i \in 1 .. Len(d) :
              e[i].type = d[i].type /\ e[i].mic = d[i].mic /\ ~e[i].fresh
        /\ \A i \in 1 .. Len(q) :
              p[i].type = q[i].type /\ p[i].mic = q[i].mic /\ ~p[i].fresh
    BY QueueMark DEF AirOk
  <1> HIDE DEF e, p
  <1>2. NoAsk(e) /\ NoAnswer(p)
    BY <1>1 DEF NoAsk, NoAnswer
  <1>3. (NoMic(d) => NoMic(e)) /\ (No1of4(d) => No1of4(e))
    BY <1>1 DEF NoMic, No1of4, Mic
  <1>4. UpOk(u, p)
    BY <1>1 DEF AirOk, UpOk, FromSta
  <1>5. DownOk(u, e)
    <2>1. ASSUME NEW i \in 1 .. Len(e), NEW j \in 1 .. Len(e), i < j
          PROVE  Ordered(u, e[i], e[j])
      <3>1. Ordered(u, d[i], d[j])
        BY <1>1, <2>1 DEF AirOk, DownOk
      <3>2. ~(Mic(d[i]) /\ d[j].type = "1/4")
        BY <1>1, <3>1 DEF Ordered, NoMic, NoAsk
      <3>3. QED
        BY <1>1, <3>1, <3>2 DEF Ordered, Mic
    <2>2. \A i \in 1 .. Len(e) : ToSta(u, e[i])
      BY <1>1 DEF AirOk, DownOk, ToSta
    <2>3. QED
      BY <2>1, <2>2 DEF DownOk
  <1>6. QED
    BY <1>1, <1>2, <1>3, <1>4, <1>5 DEF AirOk, e, p

-----------------------------------------------------------------------------
(* The state machines: what the states do to the record they work on. *)

\* The fields of a record of a station.
Shape(x) ==
    /\ x = [f \in WorkFields |-> x[f]] /\ x.sm = [f \in SmFields |-> x.sm[f]]
    /\ x.sm.PTK_valid \in BOOLEAN /\ x.sm.GUpdateStationKeys \in BOOLEAN

\* The record y has the group key handshake of x, and its SNonce.
SameGroup(y, x) ==
    /\ y.sm.grp = x.sm.grp /\ y.sm.GTimeoutCtr = x.sm.GTimeoutCtr
    /\ y.sm.GUpdateStationKeys = x.sm.GUpdateStationKeys
    /\ y.snonce = x.snonce

\* The record y has the 4-way handshake of x.
SamePtk(y, x) ==
    /\ y.sm.ptk = x.sm.ptk /\ y.sm.PTK = x.sm.PTK /\ y.sm.PTK_valid = x.sm.PTK_valid
    /\ y.snonce = x.snonce

\* The record y has the fields given, and what no state changes from x.
Becomes(y, x, ptk, PTK, valid, ev, rx, out) ==
    /\ Shape(y) /\ y.snonce = x.snonce
    /\ y.sm.ptk = ptk /\ y.sm.PTK = PTK /\ y.sm.PTK_valid = valid
    /\ y.ev = ev /\ y.rx = rx /\ y.out = out

\* The record y has the counter of tries, the timeouts, the flag and the group given.
Counts(y, ctr, timers, disc, g) ==
    /\ y.sm.TimeoutCtr = ctr /\ y.sm.timers = timers /\ y.sm.Disconnect = disc
    /\ y.group = g

\* Groups that differ in the stations they wait for only.
Recounted(h, g) == \E v : h = [g EXCEPT !.GKeyDoneStations = v]

\* x with a new sm and group, new flags, another kind of frame received, other
\* frames to send.
Put(x, m, g, ev, rx, out) ==
    [x EXCEPT !.sm = m, !.group = g, !.ev = ev, !.rx = rx, !.out = out]

\* Its fields.
LEMMA PutFields ==
    ASSUME NEW x, Shape(x), NEW m, m = [f \in SmFields |-> m[f]],
           m.PTK_valid \in BOOLEAN, m.GUpdateStationKeys \in BOOLEAN,
           NEW g, NEW ev, NEW rx, NEW out, NEW y, y = Put(x, m, g, ev, rx, out)
    PROVE  /\ Becomes(y, x, m.ptk, m.PTK, m.PTK_valid, ev, rx, out) /\ y.sm = m
           /\ y.group = g
  <1>1. /\ y = [f \in WorkFields |-> y[f]] /\ y.sm = m /\ y.group = g /\ y.ev = ev /\ y.rx = rx
        /\ y.out = out /\ y.snonce = x.snonce
    BY DEF Put, Shape, WorkFields
  <1>2. QED
    BY <1>1 DEF Becomes, Shape

\* A frame is sent unless it would be signed without a PTK.
LEMMA SendFields ==
    ASSUME NEW x, Shape(x), NEW type, NEW idx
    PROVE  LET y == wpa_send_eapol(x, type, idx) IN
           /\ Shape(y) /\ SamePtk(y, x) /\ SameGroup(y, x) /\ y.ev = x.ev /\ y.rx = x.rx
           /\ Counts(y, x.sm.TimeoutCtr, x.sm.timers + 1, x.sm.Disconnect, x.group)
           /\ \/ y.out = x.out /\ type # "1/4" /\ ~x.sm.PTK_valid
              \/ /\ type = "1/4" \/ x.sm.PTK_valid
                 /\ \E gtk : y.out = Append(x.out, Frame(type, x.sm.PTK, idx, gtk))
  <1> DEFINE gtk == IF idx = 0 THEN 0 ELSE x.group.GTK[idx]
             o == IF type = "1/4" \/ x.sm.PTK_valid
                  THEN Append(x.out, Frame(type, x.sm.PTK, idx, gtk)) ELSE x.out
             m == [x.sm EXCEPT !.timers = @ + 1]
             y == [x EXCEPT !.sm = m, !.out = o]
  <1>1. wpa_send_eapol(x, type, idx) = y
    BY DEF wpa_send_eapol
  <1>2. /\ m = [f \in SmFields |-> m[f]] /\ m.PTK_valid = x.sm.PTK_valid
        /\ m.ptk = x.sm.ptk /\ m.PTK = x.sm.PTK /\ m.grp = x.sm.grp
        /\ m.GTimeoutCtr = x.sm.GTimeoutCtr
        /\ m.GUpdateStationKeys = x.sm.GUpdateStationKeys
        /\ m.TimeoutCtr = x.sm.TimeoutCtr /\ m.timers = x.sm.timers + 1
        /\ m.Disconnect = x.sm.Disconnect
    BY DEF Shape, SmFields
  <1> HIDE DEF m, o
  <1>3. /\ y = [f \in WorkFields |-> y[f]] /\ y.sm = m /\ y.out = o /\ y.group = x.group
        /\ y.ev = x.ev /\ y.rx = x.rx /\ y.snonce = x.snonce
    BY DEF Shape, WorkFields
  <1> HIDE DEF y
  <1>4. /\ Shape(y) /\ SamePtk(y, x) /\ SameGroup(y, x) /\ y.ev = x.ev /\ y.rx = x.rx
        /\ Counts(y, x.sm.TimeoutCtr, x.sm.timers + 1, x.sm.Disconnect, x.group)
    BY <1>2, <1>3 DEF Shape, SamePtk, SameGroup, Counts
  <1>5. \/ y.out = x.out /\ type # "1/4" /\ ~x.sm.PTK_valid
        \/ /\ type = "1/4" \/ x.sm.PTK_valid
           /\ y.out = Append(x.out, Frame(type, x.sm.PTK, idx, gtk))
    BY <1>3 DEF o
  <1> HIDE DEF gtk
  <1>6. QED
    BY <1>1, <1>4, <1>5

\* The states that send a frame, before they do.
Asking(x) ==
    [x EXCEPT !.sm.ptk = "PTKSTART", !.sm.TimeoutCtr = @ + 1,
              !.ev = @ \ {"PTKRequest", "TimeoutEvt"}]
Installing(x) ==
    [x EXCEPT !.sm.ptk = "PTKINITNEGOTIATING", !.sm.TimeoutCtr = @ + 1,
              !.ev = @ \ {"TimeoutEvt"}]
Rekeying(x) == [x EXCEPT !.sm.grp = "REKEYNEGOTIATING", !.sm.GTimeoutCtr = @ + 1]

\* The station is disconnected.
LEMMA DisconnectFields ==
    ASSUME NEW x, Shape(x), NEW y, y = DISCONNECT(x)
    PROVE  /\ Becomes(y, x, "DISCONNECT", 0, FALSE, x.ev \cup {"DeauthenticationRequest"},
                      x.rx, Append(x.out, Frame("deauth", 0, 0, 0)))
           /\ SameGroup(y, x)
           /\ Counts(y, x.sm.TimeoutCtr, x.sm.timers, FALSE, x.group)
  <1> DEFINE m == [x.sm EXCEPT !.PTK_valid = FALSE, !.PTK = 0, !.ptk_rekey = FALSE,
                                !.ptk = "DISCONNECT", !.Disconnect = FALSE, !.assoc = FALSE]
             v == x.ev \cup {"DeauthenticationRequest"}
             fr == Frame("deauth", 0, 0, 0)
             o == Append(x.out, fr)
  <1>1. y = Put(x, m, x.group, v, x.rx, o)
    BY DEF Put, Shape, WorkFields, SmFields, DISCONNECT, wpa_remove_ptk
  <1>2. /\ m = [f \in SmFields |-> m[f]] /\ m.ptk = "DISCONNECT" /\ m.PTK = 0
        /\ m.PTK_valid = FALSE /\ m.grp = x.sm.grp /\ m.GTimeoutCtr = x.sm.GTimeoutCtr
        /\ m.GUpdateStationKeys = x.sm.GUpdateStationKeys
        /\ m.PTK_valid \in BOOLEAN /\ m.GUpdateStationKeys \in BOOLEAN
        /\ m.TimeoutCtr = x.sm.TimeoutCtr /\ m.timers = x.sm.timers /\ m.Disconnect = FALSE
    BY DEF Shape, SmFields
  <1> HIDE DEF m, v, o
  <1>3. Becomes(y, x, m.ptk, m.PTK, m.PTK_valid, v, x.rx, o) /\ y.sm = m /\ y.group = x.group
    BY <1>1, <1>2, PutFields
  <1>4. QED
    BY <1>2, <1>3 DEF SameGroup, Becomes, Counts, v, o

\* A request to do so is served.
LEMMA DisconnectedFields ==
    ASSUME NEW x, Shape(x), NEW y, y = DISCONNECTED(x)
    PROVE  /\ Becomes(y, x, "DISCONNECTED", x.sm.PTK, x.sm.PTK_valid,
                      x.ev \ {"DeauthenticationRequest"}, x.rx, x.out)
           /\ SameGroup(y, x)
           /\ Counts(y, x.sm.TimeoutCtr, x.sm.timers, x.sm.Disconnect, x.group)
  <1> DEFINE m == [x.sm EXCEPT !.ptk = "DISCONNECTED"]
             v == x.ev \ {"DeauthenticationRequest"}
             o == x.out
  <1>1. y = Put(x, m, x.group, v, x.rx, o)
    BY DEF Put, Shape, WorkFields, SmFields, DISCONNECTED
  <1>2. /\ m = [f \in SmFields |-> m[f]] /\ m.ptk = "DISCONNECTED" /\ m.PTK = x.sm.PTK
        /\ m.PTK_valid = x.sm.PTK_valid /\ m.grp = x.sm.grp /\ m.GTimeoutCtr = x.sm.GTimeoutCtr
        /\ m.GUpdateStationKeys = x.sm.GUpdateStationKeys
        /\ m.PTK_valid \in BOOLEAN /\ m.GUpdateStationKeys \in BOOLEAN
        /\ m.TimeoutCtr = x.sm.TimeoutCtr /\ m.timers = x.sm.timers /\ m.Disconnect = x.sm.Disconnect
    BY DEF Shape, SmFields
  <1> HIDE DEF m, v, o
  <1>3. Becomes(y, x, m.ptk, m.PTK, m.PTK_valid, v, x.rx, o) /\ y.sm = m /\ y.group = x.group
    BY <1>1, <1>2, PutFields
  <1>4. QED
    BY <1>2, <1>3 DEF SameGroup, Becomes, Counts, v, o

\* The keys are removed.
LEMMA InitializeFields ==
    ASSUME NEW x, Shape(x), NEW y, y = INITIALIZE(x)
    PROVE  /\ Becomes(y, x, "INITIALIZE", 0, FALSE, x.ev, x.rx, x.out)
           /\ y.sm.grp = x.sm.grp /\ y.sm.GTimeoutCtr = x.sm.GTimeoutCtr
           /\ y.sm.GUpdateStationKeys = FALSE
           /\ Recounted(y.group, x.group)
           /\ Counts(y, 0, x.sm.timers, x.sm.Disconnect, y.group)
  <1> DEFINE w == wpa_remove_ptk(x)
             n == [x.sm EXCEPT !.PTK_valid = FALSE, !.PTK = 0, !.ptk_rekey = FALSE]
             m == [w.sm EXCEPT !.GUpdateStationKeys = FALSE,
                               !.ptk = "INITIALIZE", !.TimeoutCtr = 0]
             g == [w.group EXCEPT !.GKeyDoneStations =
                      IF w.sm.GUpdateStationKeys THEN @ - 1 ELSE @]
  <1>1. w = Put(x, n, x.group, x.ev, x.rx, x.out)
    BY DEF Put, Shape, WorkFields, SmFields, wpa_remove_ptk
  <1>2. /\ n = [f \in SmFields |-> n[f]] /\ n.PTK = 0 /\ n.PTK_valid = FALSE
        /\ n.grp = x.sm.grp /\ n.GTimeoutCtr = x.sm.GTimeoutCtr
        /\ n.timers = x.sm.timers /\ n.Disconnect = x.sm.Disconnect
        /\ n.PTK_valid \in BOOLEAN /\ n.GUpdateStationKeys \in BOOLEAN
    BY DEF Shape, SmFields
  <1>3. y = [GroupDone(w) EXCEPT !.sm.ptk = "INITIALIZE", !.sm.TimeoutCtr = 0]
    BY DEF INITIALIZE
  <1> HIDE DEF w, n
  <1>4. Becomes(w, x, n.ptk, n.PTK, n.PTK_valid, x.ev, x.rx, x.out) /\ w.sm = n
        /\ w.group = x.group
    BY <1>1, <1>2, PutFields
  <1>5. Shape(w)
    BY <1>4 DEF Becomes
  <1>6. y = Put(w, m, g, w.ev, w.rx, w.out)
    BY <1>3, <1>5 DEF Put, Shape, WorkFields, SmFields, GroupDone
  <1>7. /\ m = [f \in SmFields |-> m[f]] /\ m.ptk = "INITIALIZE" /\ m.PTK = w.sm.PTK
        /\ m.PTK_valid = w.sm.PTK_valid /\ m.grp = w.sm.grp
        /\ m.GTimeoutCtr = w.sm.GTimeoutCtr /\ m.GUpdateStationKeys = FALSE
        /\ m.TimeoutCtr = 0 /\ m.timers = w.sm.timers /\ m.Disconnect = w.sm.Disconnect
        /\ m.PTK_valid \in BOOLEAN /\ m.GUpdateStationKeys \in BOOLEAN
    BY <1>5 DEF Shape, SmFields
  <1> HIDE DEF m, g
  <1>8. Becomes(y, w, m.ptk, m.PTK, m.PTK_valid, w.ev, w.rx, w.out) /\ y.sm = m
        /\ y.group = g
    BY <1>5, <1>6, <1>7, PutFields
  <1>9. Recounted(y.group, x.group)
    BY <1>4, <1>8 DEF Recounted, g
  <1>10. QED
    BY <1>2, <1>4, <1>7, <1>8, <1>9 DEF Becomes, Counts

\* A new association begins.
LEMMA AuthenticationFields ==
    ASSUME NEW x, Shape(x), NEW y, y = AUTHENTICATION2(x)
    PROVE  /\ Becomes(y, x, "AUTHENTICATION2", x.sm.PTK, x.sm.PTK_valid,
                      x.ev \ {"ReAuthenticationRequest"}, x.rx, x.out)
           /\ SameGroup(y, x)
           /\ Counts(y, 0, x.sm.timers, x.sm.Disconnect, x.group)
  <1> DEFINE m == [x.sm EXCEPT !.ptk = "AUTHENTICATION2", !.TimeoutCtr = 0]
             v == x.ev \ {"ReAuthenticationRequest"}
             o == x.out
  <1>1. y = Put(x, m, x.group, v, x.rx, o)
    BY DEF Put, Shape, WorkFields, SmFields, AUTHENTICATION2
  <1>2. /\ m = [f \in SmFields |-> m[f]] /\ m.ptk = "AUTHENTICATION2" /\ m.PTK = x.sm.PTK
        /\ m.PTK_valid = x.sm.PTK_valid /\ m.grp = x.sm.grp /\ m.GTimeoutCtr = x.sm.GTimeoutCtr
        /\ m.GUpdateStationKeys = x.sm.GUpdateStationKeys
        /\ m.PTK_valid \in BOOLEAN /\ m.GUpdateStationKeys \in BOOLEAN
        /\ m.TimeoutCtr = 0 /\ m.timers = x.sm.timers /\ m.Disconnect = x.sm.Disconnect
    BY DEF Shape, SmFields
  <1> HIDE DEF m, v, o
  <1>3. Becomes(y, x, m.ptk, m.PTK, m.PTK_valid, v, x.rx, o) /\ y.sm = m /\ y.group = x.group
    BY <1>1, <1>2, PutFields
  <1>4. QED
    BY <1>2, <1>3 DEF SameGroup, Becomes, Counts, v, o

\* A PTK is made of the SNonce.
LEMMA CalcFields ==
    ASSUME NEW x, Shape(x), NEW y, y = PTKCALCNEGOTIATING(x)
    PROVE  /\ Becomes(y, x, "PTKCALCNEGOTIATING", x.snonce, TRUE, x.ev, "none", x.out)
           /\ SameGroup(y, x)
           /\ Counts(y, 0, 0, x.sm.Disconnect, x.group)
  <1> DEFINE m == [x.sm EXCEPT !.ptk = "PTKCALCNEGOTIATING", !.PTK = x.snonce,
                                !.PTK_valid = TRUE, !.timers = 0, !.TimeoutCtr = 0]
             v == x.ev
             o == x.out
  <1>1. y = Put(x, m, x.group, v, "none", o)
    BY DEF Put, Shape, WorkFields, SmFields, PTKCALCNEGOTIATING
  <1>2. /\ m = [f \in SmFields |-> m[f]] /\ m.ptk = "PTKCALCNEGOTIATING" /\ m.PTK = x.snonce
        /\ m.PTK_valid = TRUE /\ m.grp = x.sm.grp /\ m.GTimeoutCtr = x.sm.GTimeoutCtr
        /\ m.GUpdateStationKeys = x.sm.GUpdateStationKeys
        /\ m.PTK_valid \in BOOLEAN /\ m.GUpdateStationKeys \in BOOLEAN
        /\ m.TimeoutCtr = 0 /\ m.timers = 0 /\ m.Disconnect = x.sm.Disconnect
    BY DEF Shape, SmFields
  <1> HIDE DEF m, v, o
  <1>3. Becomes(y, x, m.ptk, m.PTK, m.PTK_valid, v, "none", o) /\ y.sm = m /\ y.group = x.group
    BY <1>1, <1>2, PutFields
  <1>4. QED
    BY <1>2, <1>3 DEF SameGroup, Becomes, Counts, v, o

\* The port is opened.
LEMMA DoneFields ==
    ASSUME NEW x, Shape(x), NEW y, y = PTKINITDONE(x)
    PROVE  /\ Becomes(y, x, "PTKINITDONE", x.sm.PTK, x.sm.PTK_valid, x.ev, "none", x.out)
           /\ SameGroup(y, x)
           /\ Counts(y, x.sm.TimeoutCtr, x.sm.timers, x.sm.Disconnect, x.group)
  <1> DEFINE m == [x.sm EXCEPT !.ptk = "PTKINITDONE", !.ptk_rekey = TRUE]
             v == x.ev
             o == x.out
  <1>1. y = Put(x, m, x.group, v, "none", o)
    BY DEF Put, Shape, WorkFields, SmFields, PTKINITDONE
  <1>2. /\ m = [f \in SmFields |-> m[f]] /\ m.ptk = "PTKINITDONE" /\ m.PTK = x.sm.PTK
        /\ m.PTK_valid = x.sm.PTK_valid /\ m.grp = x.sm.grp /\ m.GTimeoutCtr = x.sm.GTimeoutCtr
        /\ m.GUpdateStationKeys = x.sm.GUpdateStationKeys
        /\ m.PTK_valid \in BOOLEAN /\ m.GUpdateStationKeys \in BOOLEAN
        /\ m.TimeoutCtr = x.sm.TimeoutCtr /\ m.timers = x.sm.timers /\ m.Disconnect = x.sm.Disconnect
    BY DEF Shape, SmFields
  <1> HIDE DEF m, v, o
  <1>3. Becomes(y, x, m.ptk, m.PTK, m.PTK_valid, v, "none", o) /\ y.sm = m /\ y.group = x.group
    BY <1>1, <1>2, PutFields
  <1>4. QED
    BY <1>2, <1>3 DEF SameGroup, Becomes, Counts, v, o

\* The group key handshake is over.
LEMMA IdleFields ==
    ASSUME NEW x, Shape(x), NEW y, y = IDLE(x)
    PROVE  /\ Becomes(y, x, x.sm.ptk, x.sm.PTK, x.sm.PTK_valid,
                      x.ev \ {"PtkGroupInit"}, x.rx, x.out)
           /\ y.sm.grp = "IDLE" /\ y.sm.GTimeoutCtr = 0
           /\ y.sm.GUpdateStationKeys = x.sm.GUpdateStationKeys
           /\ Counts(y, x.sm.TimeoutCtr, x.sm.timers, x.sm.Disconnect, x.group)
  <1> DEFINE m == [x.sm EXCEPT !.grp = "IDLE", !.GTimeoutCtr = 0]
             v == x.ev \ {"PtkGroupInit"}
             o == x.out
  <1>1. y = Put(x, m, x.group, v, x.rx, o)
    BY DEF Put, Shape, WorkFields, SmFields, IDLE
  <1>2. /\ m = [f \in SmFields |-> m[f]] /\ m.ptk = x.sm.ptk /\ m.PTK = x.sm.PTK
        /\ m.PTK_valid = x.sm.PTK_valid /\ m.grp = "IDLE" /\ m.GTimeoutCtr = 0
        /\ m.GUpdateStationKeys = x.sm.GUpdateStationKeys
        /\ m.PTK_valid \in BOOLEAN /\ m.GUpdateStationKeys \in BOOLEAN
        /\ m.TimeoutCtr = x.sm.TimeoutCtr /\ m.timers = x.sm.timers /\ m.Disconnect = x.sm.Disconnect
    BY DEF Shape, SmFields
  <1> HIDE DEF m, v, o
  <1>3. Becomes(y, x, m.ptk, m.PTK, m.PTK_valid, v, x.rx, o) /\ y.sm = m /\ y.group = x.group
    BY <1>1, <1>2, PutFields
  <1>4. QED
    BY <1>2, <1>3 DEF SameGroup, Becomes, Counts, v, o

\* The station has the group key.
LEMMA EstablishedFields ==
    ASSUME NEW x, Shape(x), NEW y, y = REKEYESTABLISHED(x)
    PROVE  /\ Becomes(y, x, x.sm.ptk, x.sm.PTK, x.sm.PTK_valid, x.ev, "none", x.out)
           /\ y.sm.grp = "REKEYESTABLISHED" /\ y.sm.GTimeoutCtr = 0
           /\ y.sm.GUpdateStationKeys = FALSE
           /\ Recounted(y.group, x.group)
           /\ Counts(y, x.sm.TimeoutCtr, x.sm.timers, x.sm.Disconnect, y.group)
  <1> DEFINE m == [x.sm EXCEPT !.GUpdateStationKeys = FALSE,
                                !.grp = "REKEYESTABLISHED", !.GTimeoutCtr = 0]
             v == x.ev
             o == x.out
             g == [x.group EXCEPT !.GKeyDoneStations =
                      IF x.sm.GUpdateStationKeys THEN @ - 1 ELSE @]
  <1>1. y = Put(x, m, g, v, "none", o)
    BY DEF Put, Shape, WorkFields, SmFields, REKEYESTABLISHED, GroupDone
  <1>2. /\ m = [f \in SmFields |-> m[f]] /\ m.ptk = x.sm.ptk /\ m.PTK = x.sm.PTK
        /\ m.PTK_valid = x.sm.PTK_valid /\ m.grp = "REKEYESTABLISHED" /\ m.GTimeoutCtr = 0
        /\ m.GUpdateStationKeys = FALSE
        /\ m.PTK_valid \in BOOLEAN /\ m.GUpdateStationKeys \in BOOLEAN
        /\ m.TimeoutCtr = x.sm.TimeoutCtr /\ m.timers = x.sm.timers /\ m.Disconnect = x.sm.Disconnect
    BY DEF Shape, SmFields
  <1> HIDE DEF m, v, o, g
  <1>3. Becomes(y, x, m.ptk, m.PTK, m.PTK_valid, v, "none", o) /\ y.sm = m /\ y.group = g
    BY <1>1, <1>2, PutFields
  <1>4. QED
    BY <1>2, <1>3 DEF SameGroup, Becomes, Counts, Recounted, v, o, g

\* The station does not answer.
LEMMA ErrorFields ==
    ASSUME NEW x, Shape(x), NEW y, y = KEYERROR(x)
    PROVE  /\ Becomes(y, x, x.sm.ptk, x.sm.PTK, x.sm.PTK_valid, x.ev, x.rx, x.out)
           /\ y.sm.grp = "KEYERROR" /\ y.sm.GTimeoutCtr = x.sm.GTimeoutCtr
           /\ y.sm.GUpdateStationKeys = FALSE
           /\ Recounted(y.group, x.group)
           /\ Counts(y, x.sm.TimeoutCtr, x.sm.timers, TRUE, y.group)
  <1> DEFINE m == [x.sm EXCEPT !.GUpdateStationKeys = FALSE,
                                !.grp = "KEYERROR", !.Disconnect = TRUE]
             v == x.ev
             o == x.out
             g == [x.group EXCEPT !.GKeyDoneStations =
                      IF x.sm.GUpdateStationKeys THEN @ - 1 ELSE @]
  <1>1. y = Put(x, m, g, v, x.rx, o)
    BY DEF Put, Shape, WorkFields, SmFields, KEYERROR, GroupDone
  <1>2. /\ m = [f \in SmFields |-> m[f]] /\ m.ptk = x.sm.ptk /\ m.PTK = x.sm.PTK
        /\ m.PTK_valid = x.sm.PTK_valid /\ m.grp = "KEYERROR" /\ m.GTimeoutCtr = x.sm.GTimeoutCtr
        /\ m.GUpdateStationKeys = FALSE
        /\ m.PTK_valid \in BOOLEAN /\ m.GUpdateStationKeys \in BOOLEAN
        /\ m.TimeoutCtr = x.sm.TimeoutCtr /\ m.timers = x.sm.timers /\ m.Disconnect = TRUE
    BY DEF Shape, SmFields
  <1> HIDE DEF m, v, o, g
  <1>3. Becomes(y, x, m.ptk, m.PTK, m.PTK_valid, v, x.rx, o) /\ y.sm = m /\ y.group = g
    BY <1>1, <1>2, PutFields
  <1>4. QED
    BY <1>2, <1>3 DEF SameGroup, Becomes, Counts, Recounted, v, o, g

\* One try more to ask for an SNonce.
LEMMA StartCounts ==
    ASSUME NEW x, Shape(x), NEW y, y = Asking(x)
    PROVE  /\ Becomes(y, x, "PTKSTART", x.sm.PTK, x.sm.PTK_valid,
                      x.ev \ {"PTKRequest", "TimeoutEvt"}, x.rx, x.out)
           /\ SameGroup(y, x)
           /\ Counts(y, x.sm.TimeoutCtr + 1, x.sm.timers, x.sm.Disconnect, x.group)
  <1> DEFINE m == [x.sm EXCEPT !.ptk = "PTKSTART", !.TimeoutCtr = @ + 1]
             v == x.ev \ {"PTKRequest", "TimeoutEvt"}
             o == x.out
  <1>1. y = Put(x, m, x.group, v, x.rx, o)
    BY DEF Put, Shape, WorkFields, SmFields, Asking
  <1>2. /\ m = [f \in SmFields |-> m[f]] /\ m.ptk = "PTKSTART" /\ m.PTK = x.sm.PTK
        /\ m.PTK_valid = x.sm.PTK_valid /\ m.grp = x.sm.grp /\ m.GTimeoutCtr = x.sm.GTimeoutCtr
        /\ m.GUpdateStationKeys = x.sm.GUpdateStationKeys
        /\ m.PTK_valid \in BOOLEAN /\ m.GUpdateStationKeys \in BOOLEAN
        /\ m.TimeoutCtr = x.sm.TimeoutCtr + 1 /\ m.timers = x.sm.timers /\ m.Disconnect = x.sm.Disconnect
    BY DEF Shape, SmFields
  <1> HIDE DEF m, v, o
  <1>3. Becomes(y, x, m.ptk, m.PTK, m.PTK_valid, v, x.rx, o) /\ y.sm = m /\ y.group = x.group
    BY <1>1, <1>2, PutFields
  <1>4. QED
    BY <1>2, <1>3 DEF SameGroup, Becomes, Counts, v, o

\* One try more to have the station install the keys.
LEMMA InitCounts ==
    ASSUME NEW x, Shape(x), NEW y, y = Installing(x)
    PROVE  /\ Becomes(y, x, "PTKINITNEGOTIATING", x.sm.PTK, x.sm.PTK_valid,
                      x.ev \ {"TimeoutEvt"}, x.rx, x.out)
           /\ SameGroup(y, x)
           /\ Counts(y, x.sm.TimeoutCtr + 1, x.sm.timers, x.sm.Disconnect, x.group)
  <1> DEFINE m == [x.sm EXCEPT !.ptk = "PTKINITNEGOTIATING", !.TimeoutCtr = @ + 1]
             v == x.ev \ {"TimeoutEvt"}
             o == x.out
  <1>1. y = Put(x, m, x.group, v, x.rx, o)
    BY DEF Put, Shape, WorkFields, SmFields, Installing
  <1>2. /\ m = [f \in SmFields |-> m[f]] /\ m.ptk = "PTKINITNEGOTIATING" /\ m.PTK = x.sm.PTK
        /\ m.PTK_valid = x.sm.PTK_valid /\ m.grp = x.sm.grp /\ m.GTimeoutCtr = x.sm.GTimeoutCtr
        /\ m.GUpdateStationKeys = x.sm.GUpdateStationKeys
        /\ m.PTK_valid \in BOOLEAN /\ m.GUpdateStationKeys \in BOOLEAN
        /\ m.TimeoutCtr = x.sm.TimeoutCtr + 1 /\ m.timers = x.sm.timers /\ m.Disconnect = x.sm.Disconnect
    BY DEF Shape, SmFields
  <1> HIDE DEF m, v, o
  <1>3. Becomes(y, x, m.ptk, m.PTK, m.PTK_valid, v, x.rx, o) /\ y.sm = m /\ y.group = x.group
    BY <1>1, <1>2, PutFields
  <1>4. QED
    BY <1>2, <1>3 DEF SameGroup, Becomes, Counts, v, o

\* One try more to give the station the group key.
LEMMA RekeyCounts ==
    ASSUME NEW x, Shape(x), NEW y, y = Rekeying(x)
    PROVE  /\ Becomes(y, x, x.sm.ptk, x.sm.PTK, x.sm.PTK_valid, x.ev, x.rx, x.out)
           /\ y.sm.grp = "REKEYNEGOTIATING" /\ y.sm.GTimeoutCtr = x.sm.GTimeoutCtr + 1
           /\ y.sm.GUpdateStationKeys = x.sm.GUpdateStationKeys
           /\ Counts(y, x.sm.TimeoutCtr, x.sm.timers, x.sm.Disconnect, x.group)
  <1> DEFINE m == [x.sm EXCEPT !.grp = "REKEYNEGOTIATING", !.GTimeoutCtr = @ + 1]
             v == x.ev
             o == x.out
  <1>1. y = Put(x, m, x.group, v, x.rx, o)
    BY DEF Put, Shape, WorkFields, SmFields, Rekeying
  <1>2. /\ m = [f \in SmFields |-> m[f]] /\ m.ptk = x.sm.ptk /\ m.PTK = x.sm.PTK
        /\ m.PTK_valid = x.sm.PTK_valid /\ m.grp = "REKEYNEGOTIATING"
        /\ m.GTimeoutCtr = x.sm.GTimeoutCtr + 1
        /\ m.GUpdateStationKeys = x.sm.GUpdateStationKeys
        /\ m.PTK_valid \in BOOLEAN /\ m.GUpdateStationKeys \in BOOLEAN
        /\ m.TimeoutCtr = x.sm.TimeoutCtr /\ m.timers = x.sm.timers /\ m.Disconnect = x.sm.Disconnect
    BY DEF Shape, SmFields
  <1> HIDE DEF m, v, o
  <1>3. Becomes(y, x, m.ptk, m.PTK, m.PTK_valid, v, x.rx, o) /\ y.sm = m /\ y.group = x.group
    BY <1>1, <1>2, PutFields
  <1>4. QED
    BY <1>2, <1>3 DEF SameGroup, Becomes, Counts, v, o

\* The record without its timeout.
LEMMA NoTimeoutFields ==
    ASSUME NEW x, Shape(x), NEW y, y = [x EXCEPT !.ev = @ \ {"TimeoutEvt"}]
    PROVE  /\ Becomes(y, x, x.sm.ptk, x.sm.PTK, x.sm.PTK_valid,
                      x.ev \ {"TimeoutEvt"}, x.rx, x.out)
           /\ SameGroup(y, x)
           /\ Counts(y, x.sm.TimeoutCtr, x.sm.timers, x.sm.Disconnect, x.group)
  <1>1. y = [f \in WorkFields |-> y[f]] /\ y.ev = x.ev \ {"TimeoutEvt"}
        /\ y.sm = x.sm /\ y.rx = x.rx /\ y.out = x.out /\ y.snonce = x.snonce
        /\ y.group = x.group
    BY DEF Shape, WorkFields
  <1>2. QED
    BY <1>1 DEF Shape, Becomes, SameGroup, Counts

\* The state machine of the group is not that of the station.
LEMMA GsmFields ==
    ASSUME NEW x, Shape(x), NEW y, y = GsmStep(x)
    PROVE  /\ Becomes(y, x, x.sm.ptk, x.sm.PTK, x.sm.PTK_valid, x.ev, x.rx, x.out)
           /\ SameGroup(y, x)
           /\ y.sm.TimeoutCtr = x.sm.TimeoutCtr /\ y.sm.timers = x.sm.timers
           /\ \/ ~Waited(x.group) /\ y = x
              \/ /\ Waited(x.group) /\ y.group = wpa_group_setkeysdone(x.group, x.ok)
                 /\ y.sm.Disconnect = (x.sm.Disconnect \/ ~x.ok)
  <1>1. CASE ~Waited(x.group)
    BY <1>1 DEF Becomes, SameGroup, GsmStep
  <1>2. CASE Waited(x.group)
    <2> DEFINE g == wpa_group_setkeysdone(x.group, x.ok)
               m == [x.sm EXCEPT !.Disconnect = @ \/ ~x.ok]
    <2>1. y = [x EXCEPT !.group = g, !.sm.Disconnect = @ \/ ~x.ok]
      BY <1>2 DEF GsmStep
    <2> HIDE DEF g
    <2>2. y = Put(x, m, g, x.ev, x.rx, x.out)
      BY <2>1 DEF Put, Shape, WorkFields, SmFields
    <2>3. /\ m = [f \in SmFields |-> m[f]] /\ m.ptk = x.sm.ptk /\ m.PTK = x.sm.PTK
          /\ m.PTK_valid = x.sm.PTK_valid /\ m.grp = x.sm.grp
          /\ m.GTimeoutCtr = x.sm.GTimeoutCtr
          /\ m.GUpdateStationKeys = x.sm.GUpdateStationKeys
          /\ m.TimeoutCtr = x.sm.TimeoutCtr /\ m.timers = x.sm.timers
          /\ m.Disconnect = (x.sm.Disconnect \/ ~x.ok)
          /\ m.PTK_valid \in BOOLEAN /\ m.GUpdateStationKeys \in BOOLEAN
      BY DEF Shape, SmFields
    <2> HIDE DEF m
    <2>4. Becomes(y, x, m.ptk, m.PTK, m.PTK_valid, x.ev, x.rx, x.out) /\ y.sm = m
          /\ y.group = g
      BY <2>2, <2>3, PutFields
    <2>5. QED
      BY <1>2, <2>3, <2>4 DEF SameGroup, Becomes, g
  <1>3. QED
    BY <1>1, <1>2

-----------------------------------------------------------------------------
(* The state machines: what they keep. *)

\* The requests that begin a state before the state itself is looked at.
Asks == {"PTKRequest", "DeauthenticationRequest", "ReAuthenticationRequest"}

\* The PTK of x, and its frames behind the frames d that are on the air.
Sound(x, u, d, q) ==
    /\ Shape(x) /\ x.sm.PTK \in Nat /\ IsQueue(d) /\ IsQueue(x.out)
    /\ AirOk(u, d \o x.out, q)
    /\ KeyOk(x.sm.PTK_valid, x.sm.ptk, x.sm.PTK, u, d \o x.out, q)

\* An answer of the 4-way handshake has been received: 2/4 with the SNonce that
\* the station offers, or 4/4 signed with a PTK that it has taken.
Answered(x, u, e, q) ==
    /\ x.ev \cap {"TimeoutEvt", "PTKRequest", "ReAuthenticationRequest"} = {}
    /\ x.sm.ptk \notin {"PTKCALCNEGOTIATING", "AUTHENTICATION2"}
    /\ x.sm.ptk = "PTKSTART" =>
          Offered(u, x.snonce) /\ NoMic(e) /\ NoAsk(e) /\ NoAnswer(q)
    /\ x.sm.ptk = "PTKINITNEGOTIATING" /\ x.sm.PTK_valid => Held(u, x.sm.PTK, e)

\* The flags of x.  A station that is to be updated is in its group key handshake,
\* so that no 1/2 goes out because of it in the midst of a 4-way handshake.
Flags(x, u, e, q) ==
    /\ x.sm.PTK_valid => x.ev \cap Asks = {}
    /\ x.sm.ptk = "PTKCALCNEGOTIATING" => "TimeoutEvt" \notin x.ev
    /\ x.sm.GUpdateStationKeys =>
          x.sm.grp = "REKEYNEGOTIATING" /\ "PtkGroupInit" \notin x.ev
    /\ x.rx = "pairwise" => Answered(x, u, e, q)

Coherent(x, u, d, q) == Sound(x, u, d, q) /\ Flags(x, u, d \o x.out, q)

\* No timeout of the 4-way handshake is left to the group key handshake.
NoTimeout(x) ==
    x.sm.PTK_valid /\ x.sm.ptk # "PTKINITDONE" => "TimeoutEvt" \notin x.ev

\* The access point has a PTK in the states that need one.
HasKey(x) == x.sm.ptk \in Keyed => x.sm.PTK_valid

\* Sending a frame that asks, or one that is signed with a key that the station
\* has or is about to take.
LEMMA SendSound ==
    ASSUME NEW x, NEW u, NEW d, NEW q, Sound(x, u, d, q), NEW type, NEW idx,
           \/ type = "1/4" /\ ~x.sm.PTK_valid
           \/ /\ type \in {"3/4", "1/2"}
              /\ x.sm.PTK_valid => \/ Held(u, x.sm.PTK, d \o x.out)
                                   \/ type = "3/4" /\ Offered(u, x.sm.PTK)
    PROVE  LET y == wpa_send_eapol(x, type, idx)
           IN  Sound(y, u, d, q) /\ SamePtk(y, x) /\ SameGroup(y, x) /\ y.ev = x.ev /\ y.rx = x.rx
  <1> DEFINE y == wpa_send_eapol(x, type, idx)
  <1>1. /\ Shape(y) /\ SamePtk(y, x) /\ SameGroup(y, x) /\ y.ev = x.ev /\ y.rx = x.rx
        /\ \/ y.out = x.out /\ type # "1/4" /\ ~x.sm.PTK_valid
           \/ /\ type = "1/4" \/ x.sm.PTK_valid
              /\ \E gtk : y.out = Append(x.out, Frame(type, x.sm.PTK, idx, gtk))
    BY SendFields DEF Sound
  <1> HIDE DEF y
  <1>2. ASSUME y.out = x.out PROVE Sound(y, u, d, q)
    BY <1>1, <1>2 DEF Sound, SamePtk
  <1>3. ASSUME NEW gtk, y.out = Append(x.out, Frame(type, x.sm.PTK, idx, gtk)),
               type = "1/4" \/ x.sm.PTK_valid
        PROVE  Sound(y, u, d, q)
    <2> DEFINE f == Frame(type, x.sm.PTK, idx, gtk)
               e == d \o x.out
    <2>1. IsFrame(f) /\ f.fresh /\ f.type = type /\ f.mic = x.sm.PTK
      BY DEF Frame, IsFrame, FrameFields, Sound
    <2> HIDE DEF f
    <2>2. IsQueue(d) /\ IsQueue(x.out) /\ AirOk(u, e, q)
      BY DEF Sound
    <2>3. IsQueue(y.out)
      BY <1>3, <2>1, <2>2, QueueAppend DEF f
    <2>4. d \o y.out = Append(e, f)
      BY <1>3, <2>1, <2>2, QueueJoin DEF f
    <2> HIDE DEF e
    <2>5. \/ f.type = "1/4"
          \/ /\ Mic(f) /\ NoAsk(e) /\ NoAnswer(q)
             /\ Held(u, f.mic, e) \/ (f.type = "3/4" /\ Offered(u, f.mic))
      BY <1>3, <2>1 DEF Sound, KeyOk, Mic, e
    <2>6. AirOk(u, Append(e, f), q)
      BY <2>1, <2>2, <2>5, SendDown
    <2>7. KeyOk(x.sm.PTK_valid, x.sm.ptk, x.sm.PTK, u, Append(e, f), q)
      <3>1. CASE ~x.sm.PTK_valid
        BY <3>1 DEF KeyOk
      <3>2. CASE x.sm.PTK_valid
        <4>1. f.type # "1/4" /\ KeyOk(x.sm.PTK_valid, x.sm.ptk, x.sm.PTK, u, e, q)
          BY <2>1, <3>2 DEF Sound, e
        <4>2. QED
          BY <2>1, <2>2, <2>5, <4>1, SendDown
      <3>3. QED
        BY <3>1, <3>2
    <2>8. QED
      BY <1>1, <2>2, <2>3, <2>4, <2>6, <2>7 DEF Sound, SamePtk
  <1>4. Sound(y, u, d, q)
    BY <1>1, <1>2, <1>3
  <1>5. QED
    BY <1>1, <1>4 DEF y

\* The station is disconnected: its key is gone.
LEMMA DisconnectOk ==
    ASSUME NEW x, NEW u, NEW d, NEW q, Coherent(x, u, d, q)
    PROVE  Coherent(DISCONNECT(x), u, d, q)
  <1> DEFINE y == DISCONNECT(x)
             f == Frame("deauth", 0, 0, 0)
             e == d \o x.out
  <1>1. /\ Becomes(y, x, "DISCONNECT", 0, FALSE, x.ev \cup {"DeauthenticationRequest"},
                   x.rx, Append(x.out, f))
        /\ SameGroup(y, x)
    BY DisconnectFields DEF Coherent, Sound
  <1>2. IsFrame(f) /\ f.fresh /\ f.type = "deauth"
    BY DEF Frame, IsFrame, FrameFields
  <1> HIDE DEF y, f
  <1>3. IsQueue(d) /\ IsQueue(x.out) /\ AirOk(u, e, q)
    BY DEF Coherent, Sound
  <1>4. IsQueue(y.out)
    <2>1. y.out = Append(x.out, f)
      BY <1>1 DEF Becomes
    <2>2. QED
      BY <1>2, <1>3, <2>1, QueueAppend
  <1>5. d \o y.out = Append(e, f)
    BY <1>1, <1>2, <1>3, QueueJoin DEF Becomes
  <1>6. AirOk(u, Append(e, f), q)
    BY <1>2, <1>3, SendDown
  <1> HIDE DEF e
  <1>7. Sound(y, u, d, q)
    BY <1>1, <1>3, <1>4, <1>5, <1>6 DEF Sound, Becomes, KeyOk
  <1>8. Flags(y, u, d \o y.out, q)
    BY <1>1 DEF Coherent, Flags, Answered, Becomes, SameGroup
  <1>9. QED
    BY <1>7, <1>8 DEF Coherent, y

\* The states that have no PTK and send nothing.
LEMMA KeylessOk ==
    ASSUME NEW x, NEW u, NEW d, NEW q, Coherent(x, u, d, q)
    PROVE  /\ ~x.sm.PTK_valid => Coherent(DISCONNECTED(x), u, d, q)
           /\ Coherent(INITIALIZE(x), u, d, q)
           /\ ~x.sm.PTK_valid /\ x.rx # "pairwise" => Coherent(AUTHENTICATION2(x), u, d, q)
  <1>1. ASSUME ~x.sm.PTK_valid PROVE Coherent(DISCONNECTED(x), u, d, q)
    <2> DEFINE y == DISCONNECTED(x)
    <2>1. /\ Becomes(y, x, "DISCONNECTED", x.sm.PTK, x.sm.PTK_valid,
                     x.ev \ {"DeauthenticationRequest"}, x.rx, x.out)
          /\ SameGroup(y, x)
      BY DisconnectedFields DEF Coherent, Sound
    <2> HIDE DEF y
    <2>2. Sound(y, u, d, q)
      BY <1>1, <2>1 DEF Coherent, Sound, Becomes, KeyOk
    <2>3. Flags(y, u, d \o y.out, q)
      BY <1>1, <2>1 DEF Coherent, Flags, Answered, Becomes, SameGroup
    <2>4. QED
      BY <2>2, <2>3 DEF Coherent, y
  <1>2. Coherent(INITIALIZE(x), u, d, q)
    <2> DEFINE y == INITIALIZE(x)
    <2>1. /\ Becomes(y, x, "INITIALIZE", 0, FALSE, x.ev, x.rx, x.out)
          /\ y.sm.GUpdateStationKeys = FALSE
      BY InitializeFields DEF Coherent, Sound
    <2> HIDE DEF y
    <2>2. Sound(y, u, d, q)
      BY <2>1 DEF Coherent, Sound, Becomes, KeyOk
    <2>3. Flags(y, u, d \o y.out, q)
      BY <2>1 DEF Coherent, Flags, Answered, Becomes
    <2>4. QED
      BY <2>2, <2>3 DEF Coherent, y
  <1>3. ASSUME ~x.sm.PTK_valid, x.rx # "pairwise" PROVE Coherent(AUTHENTICATION2(x), u, d, q)
    <2> DEFINE y == AUTHENTICATION2(x)
    <2>1. /\ Becomes(y, x, "AUTHENTICATION2", x.sm.PTK, x.sm.PTK_valid,
                     x.ev \ {"ReAuthenticationRequest"}, x.rx, x.out)
          /\ SameGroup(y, x)
      BY AuthenticationFields DEF Coherent, Sound
    <2> HIDE DEF y
    <2>2. Sound(y, u, d, q)
      BY <1>3, <2>1 DEF Coherent, Sound, Becomes, KeyOk
    <2>3. Flags(y, u, d \o y.out, q)
      BY <1>3, <2>1 DEF Coherent, Flags, Becomes, SameGroup
    <2>4. QED
      BY <2>2, <2>3 DEF Coherent, y
  <1>4. QED
    BY <1>1, <1>2, <1>3

\* The states of the 4-way handshake: the SNonce is asked for, ...
LEMMA StartOk ==
    ASSUME NEW x, NEW u, NEW d, NEW q, Coherent(x, u, d, q),
           ~x.sm.PTK_valid, x.rx # "pairwise", NEW y, y = PTKSTART(x)
    PROVE  /\ Coherent(y, u, d, q) /\ SameGroup(y, x) /\ y.sm.ptk = "PTKSTART"
           /\ ~y.sm.PTK_valid /\ y.ev = x.ev \ {"PTKRequest", "TimeoutEvt"} /\ y.rx = x.rx
  <1> DEFINE w == Asking(x)
  <1>1. y = w \/ y = wpa_send_eapol(w, "1/4", 0)
    BY DEF PTKSTART, Asking
  <1>2. /\ Becomes(w, x, "PTKSTART", x.sm.PTK, x.sm.PTK_valid,
                   x.ev \ {"PTKRequest", "TimeoutEvt"}, x.rx, x.out)
        /\ SameGroup(w, x)
    BY StartCounts DEF Coherent, Sound
  <1> HIDE DEF w
  <1>3. Sound(w, u, d, q) /\ ~w.sm.PTK_valid
    BY <1>2 DEF Coherent, Sound, Becomes, KeyOk
  <1>4. Sound(y, u, d, q) /\ SamePtk(y, w) /\ SameGroup(y, w) /\ y.ev = w.ev /\ y.rx = w.rx
    <2>1. CASE y = w
      BY <1>3, <2>1 DEF SamePtk, SameGroup
    <2>2. CASE y = wpa_send_eapol(w, "1/4", 0)
      BY <1>3, <2>2, SendSound
    <2>3. QED
      BY <1>1, <2>1, <2>2
  <1>5. /\ SameGroup(y, x) /\ y.sm.ptk = "PTKSTART" /\ ~y.sm.PTK_valid
        /\ y.ev = x.ev \ {"PTKRequest", "TimeoutEvt"} /\ y.rx = x.rx
    BY <1>2, <1>4 DEF Becomes, SameGroup, SamePtk
  <1>6. Flags(y, u, d \o y.out, q)
    BY <1>5 DEF Coherent, Flags, SameGroup
  <1>7. QED
    BY <1>4, <1>5, <1>6 DEF Coherent

\* ... a PTK is made of it, ...
LEMMA CalcOk ==
    ASSUME NEW x, NEW u, NEW d, NEW q, Coherent(x, u, d, q), x.rx = "pairwise",
           x.sm.ptk = "PTKSTART", x.ev \cap Asks = {}, NEW y, y = PTKCALCNEGOTIATING(x)
    PROVE  /\ Coherent(y, u, d, q) /\ SameGroup(y, x) /\ y.sm.ptk = "PTKCALCNEGOTIATING"
           /\ y.sm.PTK_valid /\ y.ev = x.ev /\ "TimeoutEvt" \notin y.ev /\ y.rx = "none"
  <1>1. /\ Becomes(y, x, "PTKCALCNEGOTIATING", x.snonce, TRUE, x.ev, "none", x.out)
        /\ SameGroup(y, x)
    BY CalcFields DEF Coherent, Sound
  <1>2. /\ Offered(u, x.snonce) /\ NoAsk(d \o x.out) /\ NoAnswer(q)
        /\ "TimeoutEvt" \notin x.ev
    BY DEF Coherent, Flags, Answered
  <1>3. x.snonce \in Nat
    BY <1>2 DEF Coherent, Sound, AirOk, SupOk, Offered
  <1>4. KeyOk(TRUE, "PTKCALCNEGOTIATING", x.snonce, u, d \o x.out, q)
    BY <1>2, <1>3 DEF KeyOk, Keyed
  <1>5. Sound(y, u, d, q)
    BY <1>1, <1>3, <1>4 DEF Coherent, Sound, Becomes
  <1>6. Flags(y, u, d \o y.out, q)
    BY <1>1, <1>2 DEF Coherent, Flags, Becomes, SameGroup
  <1>7. QED
    BY <1>1, <1>2, <1>5, <1>6 DEF Coherent, Becomes

\* ... the station is to install it, ...
LEMMA InstallOk ==
    ASSUME NEW x, NEW u, NEW d, NEW q, Coherent(x, u, d, q), x.rx # "pairwise",
           x.sm.ptk \in {"PTKCALCNEGOTIATING", "PTKINITNEGOTIATING"},
           NEW y, y = PTKINITNEGOTIATING(x)
    PROVE  /\ Coherent(y, u, d, q) /\ SameGroup(y, x) /\ y.sm.ptk = "PTKINITNEGOTIATING"
           /\ y.sm.PTK_valid = x.sm.PTK_valid /\ y.ev = x.ev \ {"TimeoutEvt"} /\ y.rx = x.rx
  <1> DEFINE w == Installing(x)
  <1>1. y = w \/ \E idx : y = wpa_send_eapol(w, "3/4", idx)
    BY DEF PTKINITNEGOTIATING, Installing
  <1>2. /\ Becomes(w, x, "PTKINITNEGOTIATING", x.sm.PTK, x.sm.PTK_valid,
                   x.ev \ {"TimeoutEvt"}, x.rx, x.out)
        /\ SameGroup(w, x)
    BY InitCounts DEF Coherent, Sound
  <1> HIDE DEF w
  <1>3. KeyOk(x.sm.PTK_valid, "PTKINITNEGOTIATING", x.sm.PTK, u, d \o x.out, q)
    BY DEF Coherent, Sound, KeyOk, Keyed
  <1>4. Sound(w, u, d, q)
    BY <1>2, <1>3 DEF Coherent, Sound, Becomes
  <1>5. w.sm.PTK_valid => Held(u, w.sm.PTK, d \o w.out) \/ Offered(u, w.sm.PTK)
    BY <1>4 DEF Sound, KeyOk
  <1>6. Sound(y, u, d, q) /\ SamePtk(y, w) /\ SameGroup(y, w) /\ y.ev = w.ev /\ y.rx = w.rx
    <2>1. CASE y = w
      BY <1>4, <2>1 DEF SamePtk, SameGroup
    <2>2. ASSUME NEW idx, y = wpa_send_eapol(w, "3/4", idx)
          PROVE  Sound(y, u, d, q) /\ SamePtk(y, w) /\ SameGroup(y, w) /\ y.ev = w.ev
                 /\ y.rx = w.rx
      BY <1>4, <1>5, <2>2, SendSound
    <2>3. QED
      BY <1>1, <2>1, <2>2
  <1>7. /\ SameGroup(y, x) /\ y.sm.ptk = "PTKINITNEGOTIATING"
        /\ y.sm.PTK_valid = x.sm.PTK_valid /\ y.ev = x.ev \ {"TimeoutEvt"} /\ y.rx = x.rx
    BY <1>2, <1>6 DEF Becomes, SameGroup, SamePtk
  <1>8. Flags(y, u, d \o y.out, q)
    BY <1>7 DEF Coherent, Flags, SameGroup
  <1>9. QED
    BY <1>6, <1>7, <1>8 DEF Coherent

\* ... and the port is opened once it has.
LEMMA DoneOk ==
    ASSUME NEW x, NEW u, NEW d, NEW q, Coherent(x, u, d, q), x.rx = "pairwise",
           x.sm.ptk = "PTKINITNEGOTIATING", NEW y, y = PTKINITDONE(x)
    PROVE  /\ Coherent(y, u, d, q) /\ SameGroup(y, x) /\ y.sm.ptk = "PTKINITDONE"
           /\ y.sm.PTK_valid = x.sm.PTK_valid /\ y.ev = x.ev /\ y.rx = "none"
  <1>1. /\ Becomes(y, x, "PTKINITDONE", x.sm.PTK, x.sm.PTK_valid, x.ev, "none", x.out)
        /\ SameGroup(y, x)
    BY DoneFields DEF Coherent, Sound
  <1>2. x.sm.PTK_valid => Held(u, x.sm.PTK, d \o x.out)
    BY DEF Coherent, Flags, Answered
  <1>3. KeyOk(x.sm.PTK_valid, "PTKINITDONE", x.sm.PTK, u, d \o x.out, q)
    BY <1>2 DEF Coherent, Sound, KeyOk, Keyed
  <1>4. Sound(y, u, d, q)
    BY <1>1, <1>3 DEF Coherent, Sound, Becomes
  <1>5. Flags(y, u, d \o y.out, q)
    BY <1>1 DEF Coherent, Flags, Becomes, SameGroup
  <1>6. QED
    BY <1>1, <1>4, <1>5 DEF Coherent, Becomes

\* No answer waits in a state that it would lead on from.
Calm(x) == x.rx = "pairwise" => x.sm.ptk \notin {"PTKSTART", "PTKCALCNEGOTIATING"}

\* What a step of SM_STEP(WPA_PTK) from x to y brings about: y has a PTK if x had
\* one or is to lose it, and PTKCALCNEGOTIATING is passed through.
Stepped(y, x) ==
    /\ NoTimeout(y) /\ Calm(y)
    /\ HasKey(x) \/ x.sm.Disconnect \/ x.ev \cap Asks # {} => HasKey(y)
    /\ Calm(x) => y.sm.ptk # "PTKCALCNEGOTIATING"
    /\ y.sm.grp = x.sm.grp /\ y.sm.GTimeoutCtr = x.sm.GTimeoutCtr
    /\ "TimeoutEvt" \in y.ev => "TimeoutEvt" \in x.ev
    /\ y.rx \in {x.rx, "none"}
    /\ ~x.sm.PTK_valid /\ x.rx # "pairwise" => ~y.sm.PTK_valid

\* The states that take a PTK away.
LEMMA KeylessSteps ==
    ASSUME NEW x, NEW u, NEW d, NEW q, Coherent(x, u, d, q)
    PROVE  /\ Stepped(DISCONNECT(x), x)
           /\ ~x.sm.PTK_valid => Stepped(DISCONNECTED(x), x)
           /\ Stepped(INITIALIZE(x), x)
           /\ ~x.sm.PTK_valid /\ x.rx # "pairwise" => Stepped(AUTHENTICATION2(x), x)
  <1>1. Shape(x)
    BY DEF Coherent, Sound
  <1>2. Stepped(DISCONNECT(x), x)
    <2> DEFINE y == DISCONNECT(x)
    <2>1. /\ y.sm.ptk = "DISCONNECT" /\ ~y.sm.PTK_valid /\ y.rx = x.rx /\ SameGroup(y, x)
          /\ y.ev = x.ev \cup {"DeauthenticationRequest"}
      BY <1>1, DisconnectFields DEF Becomes
    <2> HIDE DEF y
    <2>2. Stepped(y, x)
      BY <2>1 DEF Stepped, NoTimeout, HasKey, Calm, Keyed, SameGroup
    <2>3. QED
      BY <2>2 DEF y
  <1>3. ASSUME ~x.sm.PTK_valid PROVE Stepped(DISCONNECTED(x), x)
    <2> DEFINE y == DISCONNECTED(x)
    <2>1. /\ y.sm.ptk = "DISCONNECTED" /\ ~y.sm.PTK_valid /\ y.rx = x.rx /\ SameGroup(y, x)
          /\ y.ev = x.ev \ {"DeauthenticationRequest"}
      BY <1>1, <1>3, DisconnectedFields DEF Becomes
    <2> HIDE DEF y
    <2>2. Stepped(y, x)
      BY <2>1 DEF Stepped, NoTimeout, HasKey, Calm, Keyed, SameGroup
    <2>3. QED
      BY <2>2 DEF y
  <1>4. Stepped(INITIALIZE(x), x)
    <2> DEFINE y == INITIALIZE(x)
    <2>1. /\ y.sm.ptk = "INITIALIZE" /\ ~y.sm.PTK_valid /\ y.rx = x.rx /\ y.ev = x.ev
          /\ y.sm.grp = x.sm.grp /\ y.sm.GTimeoutCtr = x.sm.GTimeoutCtr
      BY <1>1, InitializeFields DEF Becomes
    <2> HIDE DEF y
    <2>2. Stepped(y, x)
      BY <2>1 DEF Stepped, NoTimeout, HasKey, Calm, Keyed
    <2>3. QED
      BY <2>2 DEF y
  <1>5. ASSUME ~x.sm.PTK_valid PROVE Stepped(AUTHENTICATION2(x), x)
    <2> DEFINE y == AUTHENTICATION2(x)
    <2>1. /\ y.sm.ptk = "AUTHENTICATION2" /\ ~y.sm.PTK_valid /\ y.rx = x.rx
          /\ SameGroup(y, x) /\ y.ev = x.ev \ {"ReAuthenticationRequest"}
      BY <1>1, <1>5, AuthenticationFields DEF Becomes
    <2> HIDE DEF y
    <2>2. Stepped(y, x)
      BY <2>1 DEF Stepped, NoTimeout, HasKey, Calm, Keyed, SameGroup
    <2>3. QED
      BY <2>2 DEF y
  <1>6. QED
    BY <1>2, <1>3, <1>4, <1>5

\* SM_STEP(WPA_PTK).
LEMMA PtkStepKeeps ==
    ASSUME NEW x, NEW u, NEW d, NEW q, Coherent(x, u, d, q)
    PROVE  Coherent(PtkStep(x), u, d, q) /\ Stepped(PtkStep(x), x)
  <1> DEFINE Good(y) == Coherent(y, u, d, q) /\ Stepped(y, x)
             p == x.sm.ptk
  <1>1. /\ x.sm.PTK_valid => p \in Keyed /\ x.ev \cap Asks = {}
        /\ x.rx = "pairwise" =>
              /\ x.ev \cap {"TimeoutEvt", "PTKRequest", "ReAuthenticationRequest"} = {}
              /\ p \notin {"PTKCALCNEGOTIATING", "AUTHENTICATION2"}
        /\ p = "PTKCALCNEGOTIATING" => "TimeoutEvt" \notin x.ev
    BY DEF Coherent, Sound, KeyOk, Flags, Answered
  <1>2. Good(DISCONNECT(x)) /\ Good(INITIALIZE(x))
    BY DisconnectOk, KeylessOk, KeylessSteps
  <1>3. ~x.sm.PTK_valid => Good(DISCONNECTED(x))
    BY KeylessOk, KeylessSteps
  <1>4. ~x.sm.PTK_valid /\ x.rx # "pairwise" => Good(AUTHENTICATION2(x))
    BY KeylessOk, KeylessSteps
  <1>5. ASSUME ~x.sm.PTK_valid, x.rx # "pairwise" PROVE Good(PTKSTART(x))
    <2> DEFINE y == PTKSTART(x)
    <2>1. /\ Coherent(y, u, d, q) /\ SameGroup(y, x) /\ y.sm.ptk = "PTKSTART"
          /\ ~y.sm.PTK_valid /\ y.ev = x.ev \ {"PTKRequest", "TimeoutEvt"} /\ y.rx = x.rx
      BY <1>5, StartOk
    <2> HIDE DEF y
    <2>2. Stepped(y, x)
      BY <1>5, <2>1 DEF Stepped, NoTimeout, HasKey, Calm, Keyed, SameGroup
    <2>3. QED
      BY <2>1, <2>2 DEF y
  <1>6. ASSUME x.rx = "pairwise", p = "PTKSTART", x.ev \cap Asks = {}
        PROVE  Good(PTKCALCNEGOTIATING(x))
    <2> DEFINE y == PTKCALCNEGOTIATING(x)
    <2>1. /\ Coherent(y, u, d, q) /\ SameGroup(y, x) /\ y.sm.ptk = "PTKCALCNEGOTIATING"
          /\ y.sm.PTK_valid /\ y.ev = x.ev /\ "TimeoutEvt" \notin y.ev /\ y.rx = "none"
      BY <1>6, CalcOk
    <2> HIDE DEF y
    <2>2. Stepped(y, x)
      BY <1>6, <2>1 DEF Stepped, NoTimeout, HasKey, Calm, Keyed, SameGroup
    <2>3. QED
      BY <2>1, <2>2 DEF y
  <1>7. ASSUME x.rx # "pairwise", p \in {"PTKCALCNEGOTIATING", "PTKINITNEGOTIATING"},
               ~x.sm.Disconnect, x.ev \cap Asks = {}
        PROVE  Good(PTKINITNEGOTIATING(x))
    <2> DEFINE y == PTKINITNEGOTIATING(x)
    <2>1. /\ Coherent(y, u, d, q) /\ SameGroup(y, x) /\ y.sm.ptk = "PTKINITNEGOTIATING"
          /\ y.sm.PTK_valid = x.sm.PTK_valid /\ y.ev = x.ev \ {"TimeoutEvt"} /\ y.rx = x.rx
      BY <1>7, InstallOk
    <2> HIDE DEF y
    <2>2. Stepped(y, x)
      BY <1>7, <2>1 DEF Stepped, NoTimeout, HasKey, Calm, Keyed, SameGroup
    <2>3. QED
      BY <2>1, <2>2 DEF y
  <1>8. ASSUME x.rx = "pairwise", p = "PTKINITNEGOTIATING",
               ~x.sm.Disconnect, x.ev \cap Asks = {}
        PROVE  Good(PTKINITDONE(x))
    <2> DEFINE y == PTKINITDONE(x)
    <2>1. /\ Coherent(y, u, d, q) /\ SameGroup(y, x) /\ y.sm.ptk = "PTKINITDONE"
          /\ y.sm.PTK_valid = x.sm.PTK_valid /\ y.ev = x.ev /\ y.rx = "none"
      BY <1>8, DoneOk
    <2> HIDE DEF y
    <2>2. Stepped(y, x)
      BY <1>8, <2>1 DEF Stepped, NoTimeout, HasKey, Calm, Keyed, SameGroup
    <2>3. QED
      BY <2>1, <2>2 DEF y
  <1>9. ASSUME ~x.sm.Disconnect, x.ev \cap Asks = {}, NoTimeout(x), Calm(x),
               p # "PTKCALCNEGOTIATING"
        PROVE  Good(x)
    BY <1>9 DEF Stepped
  <1>10. CASE x.sm.Disconnect
    BY <1>2, <1>10 DEF PtkStep
  <1>11. CASE ~x.sm.Disconnect /\ x.ev \cap Asks # {}
    <2>1. ~x.sm.PTK_valid
      BY <1>1, <1>11
    <2>2. CASE "DeauthenticationRequest" \in x.ev
      BY <1>3, <1>11, <2>1, <2>2 DEF PtkStep
    <2>3. CASE "DeauthenticationRequest" \notin x.ev /\ "ReAuthenticationRequest" \in x.ev
      <3>1. x.rx # "pairwise"
        BY <1>1, <2>3
      <3>2. QED
        BY <1>4, <1>11, <2>1, <2>3, <3>1 DEF PtkStep
    <2>4. CASE /\ "DeauthenticationRequest" \notin x.ev
               /\ "ReAuthenticationRequest" \notin x.ev /\ "PTKRequest" \in x.ev
      <3>1. x.rx # "pairwise"
        BY <1>1, <2>4
      <3>2. QED
        BY <1>5, <1>11, <2>1, <2>4, <3>1 DEF PtkStep
    <2>5. QED
      BY <1>11, <2>2, <2>3, <2>4 DEF Asks
  <1>12. CASE ~x.sm.Disconnect /\ x.ev \cap Asks = {}
    <2>1. /\ "DeauthenticationRequest" \notin x.ev /\ "ReAuthenticationRequest" \notin x.ev
          /\ "PTKRequest" \notin x.ev
      BY <1>12 DEF Asks
    <2>2. CASE p \in {"DISCONNECT", "DISCONNECTED", "AUTHENTICATION2"}
      <3>1. ~x.sm.PTK_valid /\ (p = "AUTHENTICATION2" => x.rx # "pairwise")
        BY <1>1, <2>2 DEF Keyed
      <3>2. CASE p = "DISCONNECT"
        BY <1>3, <1>12, <2>1, <3>1, <3>2 DEF PtkStep
      <3>3. CASE p = "DISCONNECTED"
        BY <1>2, <1>12, <2>1, <3>3 DEF PtkStep
      <3>4. CASE p = "AUTHENTICATION2"
        BY <1>5, <1>12, <2>1, <3>1, <3>4 DEF PtkStep
      <3>5. QED
        BY <2>2, <3>2, <3>3, <3>4
    <2>3. CASE p = "PTKSTART"
      <3>1. ~x.sm.PTK_valid
        BY <1>1, <2>3 DEF Keyed
      <3>2. PtkStep(x) = Negotiate(x, PTKCALCNEGOTIATING(x), PTKSTART(x))
        BY <1>12, <2>1, <2>3 DEF PtkStep
      <3>3. CASE x.rx = "pairwise"
        BY <1>6, <1>12, <2>3, <3>2, <3>3 DEF Negotiate
      <3>4. CASE x.rx # "pairwise"
        <4>1. Good(PTKSTART(x))
          BY <1>5, <3>1, <3>4
        <4>2. Good(x)
          BY <1>9, <1>12, <2>3, <3>1, <3>4 DEF NoTimeout, Calm
        <4>3. QED
          BY <1>2, <3>2, <3>4, <4>1, <4>2 DEF Negotiate
      <3>5. QED
        BY <3>3, <3>4
    <2>4. CASE p = "PTKCALCNEGOTIATING"
      <3>1. x.rx # "pairwise"
        BY <1>1, <2>4
      <3>2. QED
        BY <1>7, <1>12, <2>1, <2>4, <3>1 DEF PtkStep
    <2>5. CASE p = "PTKINITNEGOTIATING"
      <3>1. PtkStep(x) = Negotiate(x, PTKINITDONE(x), PTKINITNEGOTIATING(x))
        BY <1>12, <2>1, <2>5 DEF PtkStep
      <3>2. CASE x.rx = "pairwise"
        BY <1>8, <1>12, <2>5, <3>1, <3>2 DEF Negotiate
      <3>3. CASE x.rx # "pairwise"
        <4>1. Good(PTKINITNEGOTIATING(x))
          BY <1>7, <1>12, <2>5, <3>3
        <4>2. "TimeoutEvt" \notin x.ev => Good(x)
          BY <1>9, <1>12, <2>5, <3>3 DEF NoTimeout, Calm
        <4>3. QED
          BY <1>2, <3>1, <3>3, <4>1, <4>2 DEF Negotiate
      <3>4. QED
        BY <3>2, <3>3
    <2>6. CASE p \notin {"DISCONNECT", "DISCONNECTED", "AUTHENTICATION2", "PTKSTART",
                         "PTKCALCNEGOTIATING", "PTKINITNEGOTIATING"}
      <3>1. PtkStep(x) = x
        BY <1>12, <2>1, <2>6 DEF PtkStep
      <3>2. NoTimeout(x) /\ Calm(x)
        BY <1>1, <2>6 DEF NoTimeout, Calm, Keyed
      <3>3. QED
        BY <1>9, <1>12, <2>6, <3>1, <3>2
    <2>7. QED
      BY <2>2, <2>3, <2>4, <2>5, <2>6
  <1>13. QED
    BY <1>10, <1>11, <1>12

\* The group key handshake does not move any more; will not after one step, or two.
Quiet(x) ==
    \/ x.sm.grp = "IDLE"
    \/ /\ x.sm.grp = "REKEYNEGOTIATING" /\ x.rx # "group"
       /\ ~(x.sm.GTimeoutCtr > GroupCount) /\ "TimeoutEvt" \notin x.ev
Passing(x) == Quiet(x) \/ x.sm.grp \in {"REKEYESTABLISHED", "KEYERROR"}
Late(x) ==
    \/ Passing(x)
    \/ x.sm.grp = "REKEYNEGOTIATING" /\ x.rx # "group" /\ x.sm.GTimeoutCtr > GroupCount

\* A group key is sent under a PTK that the station has taken.
LEMMA RekeyKeeps ==
    ASSUME NEW x, NEW u, NEW d, NEW q, Sound(x, u, d, q),
           x.sm.PTK_valid => Held(u, x.sm.PTK, d \o x.out), NEW y, y = REKEYNEGOTIATING(x)
    PROVE  /\ Sound(y, u, d, q) /\ SamePtk(y, x) /\ y.rx = x.rx
           /\ y.sm.grp = "REKEYNEGOTIATING"
           /\ y.sm.GUpdateStationKeys = x.sm.GUpdateStationKeys
           /\ \/ y.ev = x.ev /\ y.sm.GTimeoutCtr > GroupCount
              \/ y.ev = x.ev \ {"TimeoutEvt"} /\ ~(y.sm.GTimeoutCtr > GroupCount)
  <1> DEFINE w == Rekeying(x)
             z == [w EXCEPT !.ev = @ \ {"TimeoutEvt"}]
  <1>1. \/ y = w /\ w.sm.GTimeoutCtr > GroupCount
        \/ ~(w.sm.GTimeoutCtr > GroupCount) /\ \E idx : y = wpa_send_eapol(z, "1/2", idx)
    BY DEF REKEYNEGOTIATING, Rekeying
  <1>2. /\ Becomes(w, x, x.sm.ptk, x.sm.PTK, x.sm.PTK_valid, x.ev, x.rx, x.out)
        /\ w.sm.grp = "REKEYNEGOTIATING"
        /\ w.sm.GUpdateStationKeys = x.sm.GUpdateStationKeys
    BY RekeyCounts DEF Sound
  <1> HIDE DEF w
  <1>3. Shape(w)
    BY <1>2 DEF Becomes
  <1>4. /\ Becomes(z, w, w.sm.ptk, w.sm.PTK, w.sm.PTK_valid, w.ev \ {"TimeoutEvt"}, w.rx, w.out)
        /\ SameGroup(z, w)
    BY <1>3, NoTimeoutFields
  <1> HIDE DEF z
  <1>5. Sound(w, u, d, q)
    BY <1>2 DEF Sound, Becomes
  <1>6. Sound(z, u, d, q)
    BY <1>4, <1>5 DEF Sound, Becomes
  <1>7. z.sm.PTK_valid => Held(u, z.sm.PTK, d \o z.out)
    BY <1>2, <1>4 DEF Becomes
  <1>8. CASE y = w /\ w.sm.GTimeoutCtr > GroupCount
    BY <1>2, <1>5, <1>8 DEF Becomes, SamePtk
  <1>9. ASSUME ~(w.sm.GTimeoutCtr > GroupCount), NEW idx, y = wpa_send_eapol(z, "1/2", idx)
        PROVE  /\ Sound(y, u, d, q) /\ SamePtk(y, x) /\ y.rx = x.rx
               /\ y.sm.grp = "REKEYNEGOTIATING"
               /\ y.sm.GUpdateStationKeys = x.sm.GUpdateStationKeys
               /\ y.ev = x.ev \ {"TimeoutEvt"} /\ ~(y.sm.GTimeoutCtr > GroupCount)
    <2>1. Sound(y, u, d, q) /\ SamePtk(y, z) /\ SameGroup(y, z) /\ y.ev = z.ev /\ y.rx = z.rx
      BY <1>6, <1>7, <1>9, SendSound
    <2>2. QED
      BY <1>2, <1>4, <1>9, <2>1 DEF Becomes, SamePtk, SameGroup
  <1>10. QED
    BY <1>1, <1>8, <1>9

\* A step that does not touch the 4-way handshake and sends nothing.
LEMMA AsideKeeps ==
    ASSUME NEW x, NEW u, NEW d, NEW q, Coherent(x, u, d, q),
           NEW y, Shape(y), SamePtk(y, x), y.out = x.out, y.ev \subseteq x.ev,
           y.rx \in {x.rx, "none"},
           y.sm.GUpdateStationKeys =>
              y.sm.grp = "REKEYNEGOTIATING" /\ "PtkGroupInit" \notin y.ev
    PROVE  Coherent(y, u, d, q)
  <1>1. Sound(y, u, d, q)
    BY DEF Coherent, Sound, SamePtk
  <1>2. x.rx = "pairwise" => Answered(y, u, d \o y.out, q)
    BY DEF Coherent, Flags, Answered, SamePtk
  <1>3. Flags(y, u, d \o y.out, q)
    BY <1>2 DEF Coherent, Flags, SamePtk
  <1>4. QED
    BY <1>1, <1>3 DEF Coherent

\* What a step of SM_STEP(WPA_PTK_GROUP) brings about.
GroupStepped(y, x) ==
    /\ SamePtk(y, x) /\ y.ev \subseteq x.ev /\ y.rx \in {x.rx, "none"}
    /\ Late(y) /\ (Late(x) => Passing(y)) /\ (Passing(x) => Quiet(y)) /\ (Quiet(x) => Quiet(y))

\* SM_STEP(WPA_PTK_GROUP).
LEMMA GroupStepKeeps ==
    ASSUME NEW x, NEW u, NEW d, NEW q, Coherent(x, u, d, q), NoTimeout(x),
           NEW y, y = GroupStep(x)
    PROVE  Coherent(y, u, d, q) /\ GroupStepped(y, x)
  <1>1. /\ Shape(x)
        /\ x.sm.GUpdateStationKeys =>
              x.sm.grp = "REKEYNEGOTIATING" /\ "PtkGroupInit" \notin x.ev
        /\ x.rx = "pairwise" => "TimeoutEvt" \notin x.ev
    BY DEF Coherent, Sound, Flags, Answered
  <1>2. CASE y = IDLE(x) /\ ("PtkGroupInit" \in x.ev \/ x.sm.grp # "REKEYNEGOTIATING")
    <2>1. /\ Becomes(y, x, x.sm.ptk, x.sm.PTK, x.sm.PTK_valid, x.ev \ {"PtkGroupInit"},
                     x.rx, x.out)
          /\ y.sm.grp = "IDLE" /\ y.sm.GUpdateStationKeys = x.sm.GUpdateStationKeys
      BY <1>1, <1>2, IdleFields
    <2>2. /\ Shape(y) /\ SamePtk(y, x) /\ y.out = x.out /\ y.ev \subseteq x.ev /\ y.rx = x.rx
          /\ ~y.sm.GUpdateStationKeys
      BY <1>1, <1>2, <2>1 DEF Becomes, SamePtk
    <2>3. Coherent(y, u, d, q)
      BY <2>2, AsideKeeps
    <2>4. Quiet(y)
      BY <2>1 DEF Quiet
    <2>5. QED
      BY <2>2, <2>3, <2>4 DEF GroupStepped, Late, Passing
  <1>3. CASE /\ y = REKEYESTABLISHED(x) /\ x.sm.grp = "REKEYNEGOTIATING" /\ x.rx = "group"
    <2>1. /\ Becomes(y, x, x.sm.ptk, x.sm.PTK, x.sm.PTK_valid, x.ev, "none", x.out)
          /\ y.sm.grp = "REKEYESTABLISHED" /\ y.sm.GUpdateStationKeys = FALSE
      BY <1>1, <1>3, EstablishedFields
    <2>2. /\ Shape(y) /\ SamePtk(y, x) /\ y.out = x.out /\ y.ev \subseteq x.ev /\ y.rx = "none"
          /\ ~y.sm.GUpdateStationKeys
      BY <2>1 DEF Becomes, SamePtk
    <2>3. Coherent(y, u, d, q)
      BY <2>2, AsideKeeps
    <2>4. Passing(y) /\ ~Passing(x)
      BY <1>3, <2>1 DEF Quiet, Passing
    <2>5. QED
      BY <2>2, <2>3, <2>4 DEF GroupStepped, Late, Passing
  <1>4. CASE /\ y = KEYERROR(x) /\ x.sm.grp = "REKEYNEGOTIATING"
             /\ x.sm.GTimeoutCtr > GroupCount
    <2>1. /\ Becomes(y, x, x.sm.ptk, x.sm.PTK, x.sm.PTK_valid, x.ev, x.rx, x.out)
          /\ y.sm.grp = "KEYERROR" /\ y.sm.GUpdateStationKeys = FALSE
      BY <1>1, <1>4, ErrorFields
    <2>2. /\ Shape(y) /\ SamePtk(y, x) /\ y.out = x.out /\ y.ev \subseteq x.ev /\ y.rx = x.rx
          /\ ~y.sm.GUpdateStationKeys
      BY <2>1 DEF Becomes, SamePtk
    <2>3. Coherent(y, u, d, q)
      BY <2>2, AsideKeeps
    <2>4. Passing(y) /\ ~Passing(x)
      BY <1>4, <2>1 DEF Quiet, Passing
    <2>5. QED
      BY <2>2, <2>3, <2>4 DEF GroupStepped, Late, Passing
  <1>5. CASE /\ y = REKEYNEGOTIATING(x) /\ x.sm.grp = "REKEYNEGOTIATING"
             /\ ~(x.sm.GTimeoutCtr > GroupCount) /\ "TimeoutEvt" \in x.ev
             /\ x.rx # "group" /\ "PtkGroupInit" \notin x.ev
    <2>1. Sound(x, u, d, q) /\ x.rx # "pairwise"
      BY <1>1, <1>5 DEF Coherent
    <2>2. x.sm.PTK_valid => Held(u, x.sm.PTK, d \o x.out)
      BY <1>5, <2>1 DEF NoTimeout, Sound, KeyOk
    <2>3. /\ Sound(y, u, d, q) /\ SamePtk(y, x) /\ y.rx = x.rx
          /\ y.sm.grp = "REKEYNEGOTIATING"
          /\ y.sm.GUpdateStationKeys = x.sm.GUpdateStationKeys
          /\ \/ y.ev = x.ev /\ y.sm.GTimeoutCtr > GroupCount
             \/ y.ev = x.ev \ {"TimeoutEvt"} /\ ~(y.sm.GTimeoutCtr > GroupCount)
      BY <1>5, <2>1, <2>2, RekeyKeeps
    <2>4. y.ev \subseteq x.ev
      BY <2>3
    <2>5. Flags(y, u, d \o y.out, q)
      BY <1>5, <2>1, <2>3, <2>4 DEF Coherent, Flags, SamePtk
    <2>6. Late(y) /\ ~Late(x)
      BY <1>5, <2>3 DEF Late, Passing, Quiet
    <2>7. QED
      BY <2>3, <2>4, <2>5, <2>6 DEF Coherent, GroupStepped, Late, Passing
  <1>6. CASE /\ y = x /\ "PtkGroupInit" \notin x.ev
             /\ \/ x.sm.grp = "IDLE"
                \/ /\ x.sm.grp = "REKEYNEGOTIATING" /\ x.rx # "group"
                   /\ ~(x.sm.GTimeoutCtr > GroupCount) /\ "TimeoutEvt" \notin x.ev
    <2>1. Quiet(y)
      BY <1>6 DEF Quiet
    <2>2. QED
      BY <1>6, <2>1 DEF GroupStepped, Late, Passing, SamePtk
  <1>7. QED
    <2>1. x.sm.grp = "IDLE" => ~x.sm.GUpdateStationKeys
      BY <1>1
    <2>2. CASE "PtkGroupInit" \in x.ev
      BY <1>2, <2>2 DEF GroupStep
    <2>3. CASE "PtkGroupInit" \notin x.ev /\ x.sm.grp = "IDLE"
      BY <1>6, <2>1, <2>3 DEF GroupStep
    <2>4. CASE "PtkGroupInit" \notin x.ev /\ x.sm.grp = "REKEYNEGOTIATING"
      BY <1>3, <1>4, <1>5, <1>6, <2>4 DEF GroupStep
    <2>5. CASE "PtkGroupInit" \notin x.ev /\ x.sm.grp \notin {"IDLE", "REKEYNEGOTIATING"}
      BY <1>2, <2>5 DEF GroupStep
    <2>6. QED
      BY <2>2, <2>3, <2>4, <2>5

-----------------------------------------------------------------------------
(* The loop of wpa_sm_step. *)

\* The record has its key, or will have lost it with the first step.
Ready(x) == HasKey(x) \/ x.sm.Disconnect \/ x.ev \cap Asks # {}

\* No key, and none on its way.
Keyless(x) == ~x.sm.PTK_valid /\ x.rx # "pairwise"

\* What a turn of the loop from z to w brings about.
Turned(w, z) ==
    /\ Calm(w) /\ (Ready(z) => HasKey(w))
    /\ Calm(z) => w.sm.ptk # "PTKCALCNEGOTIATING"
    /\ Late(w) /\ (Late(z) => Passing(w)) /\ (Passing(z) => Quiet(w)) /\ (Quiet(z) => Quiet(w))
    /\ Keyless(z) => Keyless(w)

\* A turn of the loop.
LEMMA TurnKeeps ==
    ASSUME NEW z, NEW u, NEW d, NEW q, Coherent(z, u, d, q),
           NEW w, w = GsmStep(GroupStep(PtkStep(z)))
    PROVE  Coherent(w, u, d, q) /\ Turned(w, z)
  <1> DEFINE a == PtkStep(z)
             b == GroupStep(a)
  <1>1. Coherent(a, u, d, q) /\ Stepped(a, z)
    BY PtkStepKeeps
  <1> HIDE DEF a
  <1>2. NoTimeout(a)
    BY <1>1 DEF Stepped
  <1>3. Coherent(b, u, d, q) /\ GroupStepped(b, a)
    BY <1>1, <1>2, GroupStepKeeps
  <1>4. w = GsmStep(b)
    BY DEF a
  <1> HIDE DEF b
  <1>5. /\ Becomes(w, b, b.sm.ptk, b.sm.PTK, b.sm.PTK_valid, b.ev, b.rx, b.out)
        /\ SameGroup(w, b)
    BY <1>3, <1>4, GsmFields DEF Coherent, Sound
  <1>6. /\ Shape(w) /\ SamePtk(w, b) /\ w.out = b.out /\ w.ev = b.ev /\ w.rx = b.rx
        /\ w.sm.grp = b.sm.grp /\ w.sm.GTimeoutCtr = b.sm.GTimeoutCtr
        /\ w.sm.GUpdateStationKeys = b.sm.GUpdateStationKeys
    BY <1>5 DEF Becomes, SamePtk, SameGroup
  <1>7. Coherent(w, u, d, q)
    <2>1. w.sm.GUpdateStationKeys =>
             w.sm.grp = "REKEYNEGOTIATING" /\ "PtkGroupInit" \notin w.ev
      BY <1>3, <1>6 DEF Coherent, Flags
    <2>2. QED
      BY <1>3, <1>6, <2>1, AsideKeeps
  <1>8. /\ (Late(z) => Late(a)) /\ (Passing(z) => Passing(a)) /\ (Quiet(z) => Quiet(a))
    BY <1>1 DEF Stepped, Late, Passing, Quiet
  <1>9. /\ (Late(b) => Late(w)) /\ (Passing(b) => Passing(w)) /\ (Quiet(b) => Quiet(w))
    BY <1>6 DEF Late, Passing, Quiet
  <1>10. /\ Late(w) /\ (Late(z) => Passing(w)) /\ (Passing(z) => Quiet(w))
         /\ (Quiet(z) => Quiet(w))
    BY <1>3, <1>8, <1>9 DEF GroupStepped
  <1>11. /\ w.sm.ptk = a.sm.ptk /\ w.sm.PTK_valid = a.sm.PTK_valid /\ w.rx \in {a.rx, "none"}
    BY <1>3, <1>6 DEF GroupStepped, SamePtk
  <1>12. /\ Calm(w) /\ (Ready(z) => HasKey(w))
         /\ Calm(z) => w.sm.ptk # "PTKCALCNEGOTIATING"
         /\ Keyless(z) => Keyless(w)
    BY <1>1, <1>11 DEF Stepped, Calm, Ready, HasKey, Keyless
  <1>13. QED
    BY <1>7, <1>10, <1>12 DEF Turned

\* An sm between two handlers.
AtRest(m) ==
    /\ m = [f \in SmFields |-> m[f]] /\ m.PTK \in Nat
    /\ m.PTK_valid \in BOOLEAN /\ m.GUpdateStationKeys \in BOOLEAN
    /\ m.ptk \in Keyed => m.PTK_valid
    /\ m.ptk # "PTKCALCNEGOTIATING"
    /\ m.grp \in {"IDLE", "REKEYNEGOTIATING"}
    /\ m.GUpdateStationKeys => m.grp = "REKEYNEGOTIATING"

\* What the loop has reached after three turns.
Ended(x) == Calm(x) /\ HasKey(x) /\ Quiet(x) /\ x.sm.ptk # "PTKCALCNEGOTIATING"

\* The loop ends at rest.
LEMMA LoopKeeps ==
    ASSUME NEW x, NEW u, NEW d, NEW q, Coherent(x, u, d, q), NEW y \in wpa_sm_step(x)
    PROVE  /\ Coherent(y, u, d, q) /\ (Keyless(x) => Keyless(y))
           /\ Ready(x) => AtRest(y.sm)
  <1>1. ASSUME NEW S, \A z \in S : Coherent(z, u, d, q), NEW w \in Turn(S)
        PROVE  Coherent(w, u, d, q) /\ \E z \in S : Turned(w, z)
    <2>1. PICK z \in S : w = GsmStep(GroupStep(PtkStep(z)))
      BY <1>1 DEF Turn
    <2>2. QED
      BY <1>1, <2>1, TurnKeeps
  <1>2. ASSUME NEW S, \A z \in S : Coherent(z, u, d, q)
        PROVE  \A w \in Turn(S) : Coherent(w, u, d, q) /\ \E z \in S : Turned(w, z)
    BY <1>1, <1>2
  <1>3. ASSUME NEW S, \A z \in S : Coherent(z, u, d, q)
        PROVE  /\ \A w \in ThreeTurns(S) : Coherent(w, u, d, q)
               /\ (\A z \in S : Keyless(z)) => \A w \in ThreeTurns(S) : Keyless(w)
               /\ (\A z \in S : Ready(z)) => \A w \in ThreeTurns(S) : Ended(w)
    <2> DEFINE A == Turn(S)
               B == Turn(A)
               C == Turn(B)
    <2>1. \A w \in A : Coherent(w, u, d, q) /\ \E z \in S : Turned(w, z)
      BY <1>2, <1>3
    <2> HIDE DEF A
    <2>2. \A w \in B : Coherent(w, u, d, q) /\ \E z \in A : Turned(w, z)
      BY <1>2, <2>1
    <2> HIDE DEF B
    <2>3. \A w \in C : Coherent(w, u, d, q) /\ \E z \in B : Turned(w, z)
      BY <1>2, <2>2
    <2> HIDE DEF C
    <2>4. ASSUME \A z \in S : Keyless(z) PROVE \A w \in C : Keyless(w)
      <3>1. \A w \in A : Keyless(w)
        BY <2>1, <2>4 DEF Turned
      <3>2. \A w \in B : Keyless(w)
        BY <2>2, <3>1 DEF Turned
      <3>3. QED
        BY <2>3, <3>2 DEF Turned
    <2>5. ASSUME \A z \in S : Ready(z) PROVE \A w \in C : Ended(w)
      <3>1. \A w \in A : Calm(w) /\ HasKey(w) /\ Late(w)
        BY <2>1, <2>5 DEF Turned
      <3>2. \A w \in B : Calm(w) /\ HasKey(w) /\ Passing(w)
        BY <2>2, <3>1 DEF Turned, Ready
      <3>3. \A w \in C : Calm(w) /\ HasKey(w) /\ Quiet(w) /\ w.sm.ptk # "PTKCALCNEGOTIATING"
        BY <2>3, <3>2 DEF Turned, Ready
      <3>4. QED
        BY <3>3 DEF Ended
    <2>6. ThreeTurns(S) = C
      BY DEF ThreeTurns, A, B, C
    <2>7. QED
      BY <2>3, <2>4, <2>5, <2>6
  <1> DEFINE A == ThreeTurns({x})
             B == ThreeTurns(A)
             C == ThreeTurns(B)
  <1>4. /\ \A w \in A : Coherent(w, u, d, q)
        /\ Keyless(x) => \A w \in A : Keyless(w)
        /\ Ready(x) => \A w \in A : Ended(w)
    <2>1. \A z \in {x} : Coherent(z, u, d, q)
      OBVIOUS
    <2>2. QED
      BY <1>3, <2>1
  <1> HIDE DEF A
  <1>5. /\ \A w \in B : Coherent(w, u, d, q)
        /\ Keyless(x) => \A w \in B : Keyless(w)
        /\ Ready(x) => \A w \in B : Ended(w)
    <2>1. (\A w \in A : Ended(w)) => \A w \in A : Ready(w)
      BY DEF Ended, Ready
    <2>2. QED
      BY <1>3, <1>4, <2>1
  <1> HIDE DEF B
  <1>6. /\ \A w \in C : Coherent(w, u, d, q)
        /\ Keyless(x) => \A w \in C : Keyless(w)
        /\ Ready(x) => \A w \in C : Ended(w)
    <2>1. (\A w \in B : Ended(w)) => \A w \in B : Ready(w)
      BY DEF Ended, Ready
    <2>2. QED
      BY <1>3, <1>5, <2>1
  <1>7. y \in C
    BY DEF wpa_sm_step, A, B
  <1> HIDE DEF C
  <1>8. Coherent(y, u, d, q) /\ (Keyless(x) => Keyless(y)) /\ (Ready(x) => Ended(y))
    BY <1>6, <1>7
  <1>9. Ended(y) => AtRest(y.sm)
    BY <1>8 DEF Ended, AtRest, Coherent, Sound, Shape, Flags, HasKey, Quiet
  <1>10. QED
    BY <1>8, <1>9

-----------------------------------------------------------------------------
(* How long the loop runs, and the counters it leaves. *)

\* The states in which the 4-way handshake waits for the station.
Waiting == {"PTKSTART", "PTKINITNEGOTIATING"}

\* How many turns the 4-way handshake goes on from its state; with the requests
\* that are left when the station is disconnected; and with those that come first.
StateRank(x) ==
    IF x.sm.ptk \in Waiting
    THEN IF x.rx = "pairwise" THEN IF x.sm.ptk = "PTKSTART" THEN 2 ELSE 1
         ELSE IF x.sm.TimeoutCtr > PairwiseCount THEN 3
         ELSE IF "TimeoutEvt" \in x.ev THEN 4
         ELSE 0
    ELSE IF x.sm.ptk = "DISCONNECT" THEN 2
    ELSE IF x.sm.ptk \in {"DISCONNECTED", "AUTHENTICATION2", "PTKCALCNEGOTIATING"} THEN 1
    ELSE 0

Pending(x) ==
    IF "ReAuthenticationRequest" \in x.ev THEN 2
    ELSE IF "PTKRequest" \in x.ev THEN 4
    ELSE 1

Rank(x) ==
    IF x.sm.Disconnect THEN Pending(x) + 2
    ELSE IF "DeauthenticationRequest" \in x.ev THEN Pending(x) + 1
    ELSE IF Pending(x) # 1 THEN Pending(x)
    ELSE StateRank(x)

\* The driver may refuse a group key once, which disconnects the station.
Potential(x) == Rank(x) + IF Failed(x.group) THEN 0 ELSE 3

\* A group, with the fields that the access point looks at.
GroupTyped(g) ==
    /\ g = [f \in GroupFields |-> g[f]]
    /\ g.state \in {"SETKEYS", "SETKEYSDONE", "FATAL_FAILURE"} /\ g.GN \in {1, 2}

\* Requests come one at a time, and not with a timeout.
OneRequest(x) ==
    /\ "ReAuthenticationRequest" \notin x.ev \/ "PTKRequest" \notin x.ev
    /\ x.sm.GTimeoutCtr > GroupCount \/ "TimeoutEvt" \in x.ev => Pending(x) = 1

\* The counters of a record; the keys of the station are numbered up to n.  Past
\* its limit a counter of tries is only on the way to a disconnection.
Counters(x, n) ==
    /\ x.sm.ptk \in PtkStates \cup {"none"}
    /\ x.sm.Disconnect \in BOOLEAN /\ x.sm.timers \in Nat
    /\ x.sm.PTK \in 0 .. n /\ x.snonce \in 0 .. n
    /\ x.sm.TimeoutCtr \in Nat
    /\ x.sm.TimeoutCtr > PairwiseCount =>
          x.sm.ptk \in Waiting \cup {"DISCONNECT", "DISCONNECTED"} /\ x.rx # "pairwise"
    /\ x.sm.ptk \in {"AUTHENTICATION2", "PTKCALCNEGOTIATING"} => x.sm.TimeoutCtr = 0
    /\ x.sm.GTimeoutCtr \in Nat /\ (x.sm.grp = "IDLE" => x.sm.GTimeoutCtr = 0)

Bounded(x, n) == Counters(x, n) /\ OneRequest(x) /\ GroupTyped(x.group)

\* Only the count of the stations changes.
LEMMA RecountedTyped ==
    ASSUME NEW g, GroupTyped(g), NEW h, Recounted(h, g)
    PROVE  GroupTyped(h) /\ h.state = g.state
  BY DEF GroupTyped, GroupFields, Recounted

\* A first message of a handshake is sent, if the limit allows it.
LEMMA StartFields ==
    ASSUME NEW x, Shape(x), NEW y, y = PTKSTART(x)
    PROVE  /\ y.sm.ptk = "PTKSTART" /\ y.sm.PTK = x.sm.PTK /\ y.snonce = x.snonce
           /\ y.ev = x.ev \ {"PTKRequest", "TimeoutEvt"} /\ y.rx = x.rx /\ SameGroup(y, x)
           /\ Counts(y, x.sm.TimeoutCtr + 1, y.sm.timers, x.sm.Disconnect, x.group)
           /\ y.sm.timers \in {x.sm.timers, x.sm.timers + 1}
  <1> DEFINE w == Asking(x)
  <1>1. y = w \/ y = wpa_send_eapol(w, "1/4", 0)
    BY DEF PTKSTART, Asking
  <1>2. /\ Becomes(w, x, "PTKSTART", x.sm.PTK, x.sm.PTK_valid,
                   x.ev \ {"PTKRequest", "TimeoutEvt"}, x.rx, x.out)
        /\ SameGroup(w, x)
        /\ Counts(w, x.sm.TimeoutCtr + 1, x.sm.timers, x.sm.Disconnect, x.group)
    BY StartCounts
  <1> HIDE DEF w
  <1>3. Shape(w)
    BY <1>2 DEF Becomes
  <1>4. CASE y = w
    BY <1>2, <1>4 DEF Becomes, Counts
  <1>5. CASE y = wpa_send_eapol(w, "1/4", 0)
    <2>1. /\ SamePtk(y, w) /\ SameGroup(y, w) /\ y.ev = w.ev /\ y.rx = w.rx
          /\ Counts(y, w.sm.TimeoutCtr, w.sm.timers + 1, w.sm.Disconnect, w.group)
      BY <1>3, <1>5, SendFields
    <2>2. QED
      BY <1>2, <2>1 DEF Becomes, Counts, SamePtk, SameGroup
  <1>6. QED
    BY <1>1, <1>4, <1>5

\* The third, likewise.
LEMMA InstallFields ==
    ASSUME NEW x, Shape(x), NEW y, y = PTKINITNEGOTIATING(x)
    PROVE  /\ y.sm.ptk = "PTKINITNEGOTIATING" /\ y.sm.PTK = x.sm.PTK /\ y.snonce = x.snonce
           /\ y.ev = x.ev \ {"TimeoutEvt"} /\ y.rx = x.rx /\ SameGroup(y, x)
           /\ Counts(y, x.sm.TimeoutCtr + 1, y.sm.timers, x.sm.Disconnect, x.group)
           /\ y.sm.timers \in {x.sm.timers, x.sm.timers + 1}
  <1> DEFINE w == Installing(x)
  <1>1. y = w \/ \E idx : y = wpa_send_eapol(w, "3/4", idx)
    BY DEF PTKINITNEGOTIATING, Installing
  <1>2. /\ Becomes(w, x, "PTKINITNEGOTIATING", x.sm.PTK, x.sm.PTK_valid,
                   x.ev \ {"TimeoutEvt"}, x.rx, x.out)
        /\ SameGroup(w, x)
        /\ Counts(w, x.sm.TimeoutCtr + 1, x.sm.timers, x.sm.Disconnect, x.group)
    BY InitCounts
  <1> HIDE DEF w
  <1>3. Shape(w)
    BY <1>2 DEF Becomes
  <1>4. CASE y = w
    BY <1>2, <1>4 DEF Becomes, Counts
  <1>5. ASSUME NEW idx, y = wpa_send_eapol(w, "3/4", idx)
        PROVE  /\ y.sm.ptk = "PTKINITNEGOTIATING" /\ y.sm.PTK = x.sm.PTK
               /\ y.snonce = x.snonce
               /\ y.ev = x.ev \ {"TimeoutEvt"} /\ y.rx = x.rx /\ SameGroup(y, x)
               /\ Counts(y, x.sm.TimeoutCtr + 1, y.sm.timers, x.sm.Disconnect, x.group)
               /\ y.sm.timers \in {x.sm.timers, x.sm.timers + 1}
    <2>1. /\ SamePtk(y, w) /\ SameGroup(y, w) /\ y.ev = w.ev /\ y.rx = w.rx
          /\ Counts(y, w.sm.TimeoutCtr, w.sm.timers + 1, w.sm.Disconnect, w.group)
      BY <1>3, <1>5, SendFields
    <2>2. QED
      BY <1>2, <2>1 DEF Becomes, Counts, SamePtk, SameGroup
  <1>6. QED
    BY <1>1, <1>4, <1>5

\* And that of the group key handshake.
LEMMA RekeyFields ==
    ASSUME NEW x, Shape(x), NEW y, y = REKEYNEGOTIATING(x)
    PROVE  /\ SamePtk(y, x) /\ y.rx = x.rx /\ y.ev \in {x.ev, x.ev \ {"TimeoutEvt"}}
           /\ y.sm.grp = "REKEYNEGOTIATING" /\ y.sm.GTimeoutCtr = x.sm.GTimeoutCtr + 1
           /\ Counts(y, x.sm.TimeoutCtr, y.sm.timers, x.sm.Disconnect, x.group)
           /\ y.sm.timers \in {x.sm.timers, x.sm.timers + 1}
  <1> DEFINE w == Rekeying(x)
             z == [w EXCEPT !.ev = @ \ {"TimeoutEvt"}]
  <1>1. y = w \/ \E idx : y = wpa_send_eapol(z, "1/2", idx)
    BY DEF REKEYNEGOTIATING, Rekeying
  <1>2. /\ Becomes(w, x, x.sm.ptk, x.sm.PTK, x.sm.PTK_valid, x.ev, x.rx, x.out)
        /\ w.sm.grp = "REKEYNEGOTIATING" /\ w.sm.GTimeoutCtr = x.sm.GTimeoutCtr + 1
        /\ Counts(w, x.sm.TimeoutCtr, x.sm.timers, x.sm.Disconnect, x.group)
    BY RekeyCounts
  <1> HIDE DEF w
  <1>3. Shape(w)
    BY <1>2 DEF Becomes
  <1>4. /\ Becomes(z, w, w.sm.ptk, w.sm.PTK, w.sm.PTK_valid, w.ev \ {"TimeoutEvt"}, w.rx, w.out)
        /\ SameGroup(z, w)
        /\ Counts(z, w.sm.TimeoutCtr, w.sm.timers, w.sm.Disconnect, w.group)
    BY <1>3, NoTimeoutFields
  <1> HIDE DEF z
  <1>5. Shape(z)
    BY <1>4 DEF Becomes
  <1>6. CASE y = w
    BY <1>2, <1>6 DEF Becomes, Counts, SamePtk
  <1>7. ASSUME NEW idx, y = wpa_send_eapol(z, "1/2", idx)
        PROVE  /\ SamePtk(y, x) /\ y.rx = x.rx /\ y.ev \in {x.ev, x.ev \ {"TimeoutEvt"}}
               /\ y.sm.grp = "REKEYNEGOTIATING" /\ y.sm.GTimeoutCtr = x.sm.GTimeoutCtr + 1
               /\ Counts(y, x.sm.TimeoutCtr, y.sm.timers, x.sm.Disconnect, x.group)
               /\ y.sm.timers \in {x.sm.timers, x.sm.timers + 1}
    <2>1. /\ SamePtk(y, z) /\ SameGroup(y, z) /\ y.ev = z.ev /\ y.rx = z.rx
          /\ Counts(y, z.sm.TimeoutCtr, z.sm.timers + 1, z.sm.Disconnect, z.group)
      BY <1>5, <1>7, SendFields
    <2>2. QED
      BY <1>2, <1>4, <2>1 DEF Becomes, Counts, SamePtk, SameGroup
  <1>8. QED
    BY <1>1, <1>6, <1>7

\* The turns are few.
LEMMA RankRange ==
    ASSUME NEW x
    PROVE  /\ Pending(x) \in {1, 2, 4} /\ StateRank(x) \in 0 .. 4 /\ Rank(x) \in 0 .. 6
           /\ Potential(x) \in 0 .. 9 /\ Rank(x) <= Potential(x) /\ Potential(x) <= Rank(x) + 3
  <1>1. Pending(x) \in {1, 2, 4}
    BY DEF Pending
  <1>2. StateRank(x) \in 0 .. 4
    BY DEF StateRank
  <1>3. Rank(x) \in 0 .. 6
    BY <1>1, <1>2 DEF Rank
  <1>4. QED
    BY <1>1, <1>2, <1>3 DEF Potential

\* What a step of the 4-way handshake brings about, if it is one.
Descends(y, x, n) ==
    /\ Bounded(y, n) /\ y.group.state = x.group.state
    /\ y.ev \subseteq x.ev \cup {"DeauthenticationRequest"}
    /\ Rank(y) < Rank(x) /\ Pending(y) <= Rank(x)

\* No request is left that goes before the state.
Served(x) ==
    ~x.sm.Disconnect /\ "DeauthenticationRequest" \notin x.ev /\ Pending(x) = 1

\* The station is disconnected.
LEMMA DisconnectDescends ==
    ASSUME NEW x, Shape(x), NEW n \in Nat, Bounded(x, n), NEW y, y = DISCONNECT(x),
           x.sm.Disconnect \/ (Served(x) /\ StateRank(x) = 3)
    PROVE  Descends(y, x, n)
  <1>1. /\ y.sm.ptk = "DISCONNECT" /\ y.sm.PTK = 0 /\ y.snonce = x.snonce
        /\ y.ev = x.ev \cup {"DeauthenticationRequest"} /\ y.rx = x.rx /\ SameGroup(y, x)
        /\ Counts(y, x.sm.TimeoutCtr, x.sm.timers, FALSE, x.group)
    BY DisconnectFields DEF Becomes
  <1>2. Pending(y) = Pending(x) /\ Rank(y) = Pending(x) + 1
    BY <1>1 DEF Pending, Rank, Counts
  <1>3. Rank(x) = Pending(x) + 2
    BY DEF Rank, Served
  <1>4. x.sm.TimeoutCtr > PairwiseCount => x.rx # "pairwise"
    BY DEF Bounded, Counters
  <1>5. y.sm.Disconnect \in BOOLEAN
    BY <1>1 DEF Counts
  <1>6. Counters(y, n)
    BY <1>1, <1>4, <1>5 DEF Bounded, Counters, Counts, SameGroup, PtkStates
  <1>7. Bounded(y, n)
    BY <1>1, <1>2, <1>6 DEF Bounded, OneRequest, Counts, SameGroup
  <1>8. QED
    BY <1>1, <1>2, <1>3, <1>7, RankRange DEF Descends, Counts

\* It has been.
LEMMA DisconnectedDescends ==
    ASSUME NEW x, Shape(x), NEW n \in Nat, Bounded(x, n), NEW y, y = DISCONNECTED(x),
           ~x.sm.Disconnect,
           "DeauthenticationRequest" \in x.ev \/ (Served(x) /\ x.sm.ptk = "DISCONNECT")
    PROVE  Descends(y, x, n)
  <1>1. /\ y.sm.ptk = "DISCONNECTED" /\ y.sm.PTK = x.sm.PTK /\ y.snonce = x.snonce
        /\ y.ev = x.ev \ {"DeauthenticationRequest"} /\ y.rx = x.rx /\ SameGroup(y, x)
        /\ Counts(y, x.sm.TimeoutCtr, x.sm.timers, x.sm.Disconnect, x.group)
    BY DisconnectedFields DEF Becomes
  <1>2. Pending(y) = Pending(x) /\ StateRank(y) = 1
    BY <1>1 DEF Pending, StateRank, Waiting
  <1>3. Rank(y) = Pending(x)
    BY <1>1, <1>2 DEF Rank, Counts
  <1>4. Rank(x) = Pending(x) + 1
    BY DEF Rank, Served, StateRank, Waiting
  <1>5. Bounded(y, n)
    BY <1>1, <1>2 DEF Bounded, Counters, OneRequest, Counts, SameGroup, PtkStates
  <1>6. QED
    BY <1>1, <1>2, <1>3, <1>4, <1>5, RankRange DEF Descends, Counts

\* Its keys are removed.
LEMMA InitializeDescends ==
    ASSUME NEW x, Shape(x), NEW n \in Nat, Bounded(x, n), NEW y, y = INITIALIZE(x),
           Served(x), x.sm.ptk = "DISCONNECTED"
    PROVE  Descends(y, x, n)
  <1>1. /\ y.sm.ptk = "INITIALIZE" /\ y.sm.PTK = 0 /\ y.snonce = x.snonce
        /\ y.ev = x.ev /\ y.rx = x.rx
        /\ y.sm.grp = x.sm.grp /\ y.sm.GTimeoutCtr = x.sm.GTimeoutCtr
        /\ Recounted(y.group, x.group)
        /\ Counts(y, 0, x.sm.timers, x.sm.Disconnect, y.group)
    BY InitializeFields DEF Becomes
  <1>2. Pending(y) = Pending(x) /\ StateRank(y) = 0 /\ ~y.sm.Disconnect
    BY <1>1 DEF Pending, StateRank, Waiting, Counts, Served
  <1>3. Rank(y) = 0
    BY <1>1, <1>2 DEF Rank, Served
  <1>4. Rank(x) = 1
    BY DEF Rank, Served, StateRank, Waiting
  <1>5. GroupTyped(y.group) /\ y.group.state = x.group.state
    BY <1>1, RecountedTyped DEF Bounded
  <1>6. Bounded(y, n)
    BY <1>1, <1>2, <1>5, CountAssumption DEF Bounded, Counters, OneRequest, Counts, PtkStates
  <1>7. QED
    BY <1>1, <1>2, <1>3, <1>4, <1>5, <1>6 DEF Descends, Served

\* A new association begins.
LEMMA AuthenticationDescends ==
    ASSUME NEW x, Shape(x), NEW n \in Nat, Bounded(x, n), NEW y, y = AUTHENTICATION2(x),
           ~x.sm.Disconnect, "DeauthenticationRequest" \notin x.ev,
           "ReAuthenticationRequest" \in x.ev
    PROVE  Descends(y, x, n)
  <1>1. /\ y.sm.ptk = "AUTHENTICATION2" /\ y.sm.PTK = x.sm.PTK /\ y.snonce = x.snonce
        /\ y.ev = x.ev \ {"ReAuthenticationRequest"} /\ y.rx = x.rx /\ SameGroup(y, x)
        /\ Counts(y, 0, x.sm.timers, x.sm.Disconnect, x.group)
    BY AuthenticationFields DEF Becomes
  <1>2. Pending(y) = 1 /\ StateRank(y) = 1 /\ ~y.sm.Disconnect
    BY <1>1 DEF Pending, StateRank, Waiting, Counts, Bounded, OneRequest
  <1>3. Rank(y) = 1 /\ Rank(x) = 2
    BY <1>1, <1>2 DEF Rank, Pending
  <1>4. Bounded(y, n)
    BY <1>1, <1>2, CountAssumption
       DEF Bounded, Counters, OneRequest, Counts, SameGroup, PtkStates, Pending
  <1>5. QED
    BY <1>1, <1>2, <1>3, <1>4 DEF Descends, Counts

\* The first message is sent, or not once more.
LEMMA StartDescends ==
    ASSUME NEW x, Shape(x), NEW n \in Nat, Bounded(x, n), NEW y, y = PTKSTART(x),
           ~x.sm.Disconnect, "DeauthenticationRequest" \notin x.ev, x.rx # "pairwise",
           \/ "ReAuthenticationRequest" \notin x.ev /\ "PTKRequest" \in x.ev
           \/ Served(x) /\ x.sm.ptk = "AUTHENTICATION2"
           \/ /\ Served(x) /\ x.sm.ptk = "PTKSTART" /\ "TimeoutEvt" \in x.ev
              /\ ~(x.sm.TimeoutCtr > PairwiseCount)
    PROVE  Descends(y, x, n)
  <1>1. /\ y.sm.ptk = "PTKSTART" /\ y.sm.PTK = x.sm.PTK /\ y.snonce = x.snonce
        /\ y.ev = x.ev \ {"PTKRequest", "TimeoutEvt"} /\ y.rx = x.rx /\ SameGroup(y, x)
        /\ Counts(y, x.sm.TimeoutCtr + 1, y.sm.timers, x.sm.Disconnect, x.group)
        /\ y.sm.timers \in {x.sm.timers, x.sm.timers + 1}
    BY StartFields
  <1>2. x.sm.TimeoutCtr \in Nat /\ PairwiseCount \in Nat \ {0} /\ x.sm.timers \in Nat
    BY CountAssumption DEF Bounded, Counters
  <1>3. Pending(y) = 1 /\ ~y.sm.Disconnect /\ "DeauthenticationRequest" \notin y.ev
    BY <1>1 DEF Pending, Counts, Served
  <1>4. Rank(y) = StateRank(y) /\ StateRank(y) \in {0, 3}
    BY <1>1, <1>3 DEF Rank, StateRank, Waiting
  <1>5. Rank(x) = 4 \/ (x.sm.ptk = "AUTHENTICATION2" /\ Rank(x) = 1 /\ x.sm.TimeoutCtr = 0)
    BY DEF Rank, StateRank, Waiting, Served, Pending, Bounded, Counters
  <1>6. x.sm.TimeoutCtr = 0 => StateRank(y) = 0
    BY <1>1, <1>2 DEF StateRank, Waiting, Counts
  <1>7. Bounded(y, n)
    BY <1>1, <1>2, <1>3
       DEF Bounded, Counters, OneRequest, Counts, SameGroup, PtkStates, Waiting
  <1>8. QED
    BY <1>1, <1>3, <1>4, <1>5, <1>6, <1>7 DEF Descends, Counts

\* The PTK is made.
LEMMA CalcDescends ==
    ASSUME NEW x, Shape(x), NEW n \in Nat, Bounded(x, n), NEW y, y = PTKCALCNEGOTIATING(x),
           Served(x), x.sm.ptk = "PTKSTART", x.rx = "pairwise"
    PROVE  Descends(y, x, n)
  <1>1. /\ y.sm.ptk = "PTKCALCNEGOTIATING" /\ y.sm.PTK = x.snonce /\ y.snonce = x.snonce
        /\ y.ev = x.ev /\ y.rx = "none" /\ SameGroup(y, x)
        /\ Counts(y, 0, 0, x.sm.Disconnect, x.group)
    BY CalcFields DEF Becomes
  <1>2. Pending(y) = 1 /\ StateRank(y) = 1 /\ ~y.sm.Disconnect
    BY <1>1 DEF Pending, StateRank, Waiting, Counts, Served
  <1>3. Rank(y) = 1 /\ Rank(x) = 2
    BY <1>1, <1>2 DEF Rank, Served, StateRank, Waiting
  <1>4. Bounded(y, n)
    BY <1>1, <1>2, CountAssumption
       DEF Bounded, Counters, OneRequest, Counts, SameGroup, PtkStates
  <1>5. QED
    BY <1>1, <1>2, <1>3, <1>4 DEF Descends, Counts

\* The third message is sent, or not once more.
LEMMA InstallDescends ==
    ASSUME NEW x, Shape(x), NEW n \in Nat, Bounded(x, n), NEW y, y = PTKINITNEGOTIATING(x),
           Served(x), x.rx # "pairwise",
           \/ x.sm.ptk = "PTKCALCNEGOTIATING"
           \/ /\ x.sm.ptk = "PTKINITNEGOTIATING" /\ "TimeoutEvt" \in x.ev
              /\ ~(x.sm.TimeoutCtr > PairwiseCount)
    PROVE  Descends(y, x, n)
  <1>1. /\ y.sm.ptk = "PTKINITNEGOTIATING" /\ y.sm.PTK = x.sm.PTK /\ y.snonce = x.snonce
        /\ y.ev = x.ev \ {"TimeoutEvt"} /\ y.rx = x.rx /\ SameGroup(y, x)
        /\ Counts(y, x.sm.TimeoutCtr + 1, y.sm.timers, x.sm.Disconnect, x.group)
        /\ y.sm.timers \in {x.sm.timers, x.sm.timers + 1}
    BY InstallFields
  <1>2. x.sm.TimeoutCtr \in Nat /\ PairwiseCount \in Nat \ {0} /\ x.sm.timers \in Nat
    BY CountAssumption DEF Bounded, Counters
  <1>3. Pending(y) = 1 /\ ~y.sm.Disconnect /\ "DeauthenticationRequest" \notin y.ev
    BY <1>1 DEF Pending, Counts, Served
  <1>4. Rank(y) = StateRank(y) /\ StateRank(y) \in {0, 3}
    BY <1>1, <1>3 DEF Rank, StateRank, Waiting
  <1>5. Rank(x) = 4 \/ (Rank(x) = 1 /\ x.sm.TimeoutCtr = 0)
    BY DEF Rank, StateRank, Waiting, Served, Bounded, Counters
  <1>6. x.sm.TimeoutCtr = 0 => StateRank(y) = 0
    BY <1>1, <1>2 DEF StateRank, Waiting, Counts
  <1>7. Bounded(y, n)
    BY <1>1, <1>2, <1>3
       DEF Bounded, Counters, OneRequest, Counts, SameGroup, PtkStates, Waiting
  <1>8. QED
    BY <1>1, <1>3, <1>4, <1>5, <1>6, <1>7 DEF Descends, Counts

\* The port is opened.
LEMMA DoneDescends ==
    ASSUME NEW x, Shape(x), NEW n \in Nat, Bounded(x, n), NEW y, y = PTKINITDONE(x),
           Served(x), x.sm.ptk = "PTKINITNEGOTIATING", x.rx = "pairwise"
    PROVE  Descends(y, x, n)
  <1>1. /\ y.sm.ptk = "PTKINITDONE" /\ y.sm.PTK = x.sm.PTK /\ y.snonce = x.snonce
        /\ y.ev = x.ev /\ y.rx = "none" /\ SameGroup(y, x)
        /\ Counts(y, x.sm.TimeoutCtr, x.sm.timers, x.sm.Disconnect, x.group)
    BY DoneFields DEF Becomes
  <1>2. Pending(y) = 1 /\ StateRank(y) = 0 /\ ~y.sm.Disconnect
    BY <1>1 DEF Pending, StateRank, Waiting, Counts, Served
  <1>3. Rank(y) = 0 /\ Rank(x) = 1
    BY <1>1, <1>2 DEF Rank, Served, StateRank, Waiting
  <1>4. Bounded(y, n)
    BY <1>1, <1>2 DEF Bounded, Counters, OneRequest, Counts, SameGroup, PtkStates
  <1>5. QED
    BY <1>1, <1>2, <1>3, <1>4 DEF Descends, Counts

\* SM_STEP(WPA_PTK) comes nearer to the end of the loop, or does not move.
LEMMA PtkStepDescends ==
    ASSUME NEW x, NEW u, NEW d, NEW q, Coherent(x, u, d, q), NEW n \in Nat, Bounded(x, n),
           NEW y, y = PtkStep(x)
    PROVE  Descends(y, x, n) \/ (y = x /\ Rank(x) = 0)
  <1> DEFINE p == x.sm.ptk
  <1>1. /\ Shape(x) /\ x.sm.Disconnect \in BOOLEAN
        /\ x.rx = "pairwise" =>
              /\ x.ev \cap {"TimeoutEvt", "PTKRequest", "ReAuthenticationRequest"} = {}
              /\ p \notin {"PTKCALCNEGOTIATING", "AUTHENTICATION2"}
    BY DEF Coherent, Sound, Flags, Answered, Bounded, Counters
  <1>2. CASE x.sm.Disconnect
    BY <1>1, <1>2, DisconnectDescends DEF PtkStep
  <1>3. CASE ~x.sm.Disconnect /\ "DeauthenticationRequest" \in x.ev
    BY <1>1, <1>3, DisconnectedDescends DEF PtkStep
  <1>4. CASE /\ ~x.sm.Disconnect /\ "DeauthenticationRequest" \notin x.ev
             /\ "ReAuthenticationRequest" \in x.ev
    BY <1>1, <1>4, AuthenticationDescends DEF PtkStep
  <1>5. CASE /\ ~x.sm.Disconnect /\ "DeauthenticationRequest" \notin x.ev
             /\ "ReAuthenticationRequest" \notin x.ev /\ "PTKRequest" \in x.ev
    BY <1>1, <1>5, StartDescends DEF PtkStep
  <1>6. CASE /\ ~x.sm.Disconnect /\ "DeauthenticationRequest" \notin x.ev
             /\ "ReAuthenticationRequest" \notin x.ev /\ "PTKRequest" \notin x.ev
    <2>1. Served(x) /\ Rank(x) = StateRank(x)
      BY <1>6 DEF Served, Pending, Rank
    <2>2. CASE p = "DISCONNECT"
      BY <1>1, <1>6, <2>1, <2>2, DisconnectedDescends DEF PtkStep
    <2>3. CASE p = "DISCONNECTED"
      BY <1>1, <1>6, <2>1, <2>3, InitializeDescends DEF PtkStep
    <2>4. CASE p = "AUTHENTICATION2"
      BY <1>1, <1>6, <2>1, <2>4, StartDescends DEF PtkStep
    <2>5. CASE p = "PTKCALCNEGOTIATING"
      BY <1>1, <1>6, <2>1, <2>5, InstallDescends DEF PtkStep
    <2>6. CASE p \in Waiting /\ x.rx = "pairwise"
      <3>1. CASE p = "PTKSTART"
        BY <1>1, <1>6, <2>1, <2>6, <3>1, CalcDescends DEF PtkStep, Negotiate
      <3>2. CASE p = "PTKINITNEGOTIATING"
        BY <1>1, <1>6, <2>1, <2>6, <3>2, DoneDescends DEF PtkStep, Negotiate
      <3>3. QED
        BY <2>6, <3>1, <3>2 DEF Waiting
    <2>7. CASE p \in Waiting /\ x.rx # "pairwise" /\ x.sm.TimeoutCtr > PairwiseCount
      <3>1. StateRank(x) = 3
        BY <2>7 DEF StateRank
      <3>2. y = DISCONNECT(x)
        BY <1>6, <2>7 DEF PtkStep, Negotiate, Waiting
      <3>3. QED
        BY <1>1, <2>1, <3>1, <3>2, DisconnectDescends
    <2>8. CASE /\ p \in Waiting /\ x.rx # "pairwise" /\ ~(x.sm.TimeoutCtr > PairwiseCount)
               /\ "TimeoutEvt" \in x.ev
      <3>1. CASE p = "PTKSTART"
        BY <1>1, <1>6, <2>1, <2>8, <3>1, StartDescends DEF PtkStep, Negotiate
      <3>2. CASE p = "PTKINITNEGOTIATING"
        BY <1>1, <1>6, <2>1, <2>8, <3>2, InstallDescends DEF PtkStep, Negotiate
      <3>3. QED
        BY <2>8, <3>1, <3>2 DEF Waiting
    <2>9. CASE /\ p \in Waiting /\ x.rx # "pairwise" /\ ~(x.sm.TimeoutCtr > PairwiseCount)
               /\ "TimeoutEvt" \notin x.ev
      BY <1>6, <2>1, <2>9 DEF PtkStep, Negotiate, Waiting, StateRank
    <2>10. CASE p \notin Waiting \cup {"DISCONNECT", "DISCONNECTED", "AUTHENTICATION2",
                                        "PTKCALCNEGOTIATING"}
      BY <1>6, <2>1, <2>10 DEF PtkStep, Waiting, StateRank
    <2>11. QED
      BY <2>2, <2>3, <2>4, <2>5, <2>6, <2>7, <2>8, <2>9, <2>10
  <1>7. QED
    BY <1>1, <1>2, <1>3, <1>4, <1>5, <1>6

\* What a step of the group key handshake brings about.  Only a station that does
\* not answer has the 4-way handshake go on.
Aside(y, x, n) ==
    /\ Bounded(y, n) /\ y.group.state = x.group.state
    /\ Pending(y) = Pending(x) /\ (Rank(y) <= Rank(x) \/ Rank(y) = 3)
    /\ y.ev \subseteq x.ev /\ "PtkGroupInit" \notin y.ev
    /\ Quiet(x) /\ "PtkGroupInit" \notin x.ev => y = x

\* SM_STEP(WPA_PTK_GROUP).
LEMMA GroupStepAside ==
    ASSUME NEW x, NEW u, NEW d, NEW q, Coherent(x, u, d, q), NEW n \in Nat, Bounded(x, n),
           NEW y, y = GroupStep(x)
    PROVE  Aside(y, x, n)
  <1>1. /\ Shape(x)
        /\ x.sm.GUpdateStationKeys =>
              x.sm.grp = "REKEYNEGOTIATING" /\ "PtkGroupInit" \notin x.ev
    BY DEF Coherent, Sound, Flags
  <1>2. CASE y = IDLE(x) /\ ("PtkGroupInit" \in x.ev \/ ~Quiet(x))
    <2>1. /\ SamePtk(y, x) /\ y.ev = x.ev \ {"PtkGroupInit"} /\ y.rx = x.rx
          /\ y.sm.grp = "IDLE" /\ y.sm.GTimeoutCtr = 0
          /\ Counts(y, x.sm.TimeoutCtr, x.sm.timers, x.sm.Disconnect, x.group)
      BY <1>1, <1>2, IdleFields DEF Becomes, SamePtk
    <2>2. Pending(y) = Pending(x) /\ StateRank(y) = StateRank(x)
      BY <2>1 DEF Pending, StateRank, Counts, SamePtk
    <2>3. Rank(y) = Rank(x)
      BY <2>1, <2>2 DEF Rank, Counts
    <2>4. Bounded(y, n)
      BY <2>1, <2>2, CountAssumption DEF Bounded, Counters, OneRequest, Counts, SamePtk
    <2>5. QED
      BY <1>2, <2>1, <2>2, <2>3, <2>4, RankRange DEF Aside, Counts
  <1>3. CASE /\ y = REKEYESTABLISHED(x) /\ x.sm.grp = "REKEYNEGOTIATING" /\ x.rx = "group"
             /\ "PtkGroupInit" \notin x.ev
    <2>1. /\ SamePtk(y, x) /\ y.ev = x.ev /\ y.rx = "none"
          /\ y.sm.grp = "REKEYESTABLISHED" /\ y.sm.GTimeoutCtr = 0
          /\ Recounted(y.group, x.group)
          /\ Counts(y, x.sm.TimeoutCtr, x.sm.timers, x.sm.Disconnect, y.group)
      BY <1>1, <1>3, EstablishedFields DEF Becomes, SamePtk
    <2>2. Pending(y) = Pending(x) /\ StateRank(y) = StateRank(x)
      BY <1>3, <2>1 DEF Pending, StateRank, Counts, SamePtk
    <2>3. Rank(y) = Rank(x)
      BY <2>1, <2>2 DEF Rank, Counts
    <2>4. GroupTyped(y.group) /\ y.group.state = x.group.state
      BY <2>1, RecountedTyped DEF Bounded
    <2>5. Bounded(y, n)
      BY <2>1, <2>2, <2>4, CountAssumption DEF Bounded, Counters, OneRequest, Counts, SamePtk
    <2>6. ~Quiet(x)
      BY <1>3 DEF Quiet
    <2>7. QED
      BY <1>3, <2>1, <2>2, <2>3, <2>4, <2>5, <2>6, RankRange DEF Aside
  <1>4. CASE /\ y = KEYERROR(x) /\ x.sm.grp = "REKEYNEGOTIATING"
             /\ x.sm.GTimeoutCtr > GroupCount /\ "PtkGroupInit" \notin x.ev
    <2>1. /\ SamePtk(y, x) /\ y.ev = x.ev /\ y.rx = x.rx
          /\ y.sm.grp = "KEYERROR" /\ y.sm.GTimeoutCtr = x.sm.GTimeoutCtr
          /\ Recounted(y.group, x.group)
          /\ Counts(y, x.sm.TimeoutCtr, x.sm.timers, TRUE, y.group)
      BY <1>1, <1>4, ErrorFields DEF Becomes, SamePtk
    <2>2. Pending(y) = Pending(x) /\ Pending(x) = 1
      BY <1>4, <2>1 DEF Pending, Bounded, OneRequest
    <2>3. Rank(y) = 3
      BY <2>1, <2>2 DEF Rank, Counts
    <2>4. GroupTyped(y.group) /\ y.group.state = x.group.state
      BY <2>1, RecountedTyped DEF Bounded
    <2>5. y.sm.Disconnect \in BOOLEAN
      BY <2>1 DEF Counts
    <2>6. Bounded(y, n)
      BY <2>1, <2>2, <2>4, <2>5 DEF Bounded, Counters, OneRequest, Counts, SamePtk
    <2>7. ~Quiet(x)
      BY <1>4 DEF Quiet
    <2>8. QED
      BY <1>4, <2>1, <2>2, <2>3, <2>4, <2>6, <2>7 DEF Aside
  <1>5. CASE /\ y = REKEYNEGOTIATING(x) /\ x.sm.grp = "REKEYNEGOTIATING"
             /\ "TimeoutEvt" \in x.ev /\ "PtkGroupInit" \notin x.ev
    <2>1. /\ SamePtk(y, x) /\ y.rx = x.rx /\ y.ev \in {x.ev, x.ev \ {"TimeoutEvt"}}
          /\ y.sm.grp = "REKEYNEGOTIATING" /\ y.sm.GTimeoutCtr = x.sm.GTimeoutCtr + 1
          /\ Counts(y, x.sm.TimeoutCtr, y.sm.timers, x.sm.Disconnect, x.group)
          /\ y.sm.timers \in {x.sm.timers, x.sm.timers + 1}
      BY <1>1, <1>5, RekeyFields
    <2>2. Pending(y) = Pending(x) /\ Pending(x) = 1
      BY <1>5, <2>1 DEF Pending, Bounded, OneRequest
    <2>3. StateRank(y) <= StateRank(x)
      BY <2>1 DEF StateRank, Counts, SamePtk
    <2>4. Rank(y) <= Rank(x)
      BY <2>1, <2>2, <2>3 DEF Rank, Counts
    <2>5. Bounded(y, n)
      BY <2>1, <2>2 DEF Bounded, Counters, OneRequest, Counts, SamePtk
    <2>6. ~Quiet(x)
      BY <1>5 DEF Quiet
    <2>7. QED
      BY <1>5, <2>1, <2>2, <2>4, <2>5, <2>6 DEF Aside, Counts
  <1>6. CASE y = x /\ "PtkGroupInit" \notin x.ev
    BY <1>6, RankRange DEF Aside
  <1>7. QED
    <2>1. x.sm.grp = "IDLE" => ~x.sm.GUpdateStationKeys
      BY <1>1
    <2>2. CASE "PtkGroupInit" \in x.ev
      BY <1>2, <2>2 DEF GroupStep
    <2>3. CASE "PtkGroupInit" \notin x.ev /\ x.sm.grp = "IDLE"
      BY <1>6, <2>1, <2>3 DEF GroupStep
    <2>4. CASE "PtkGroupInit" \notin x.ev /\ x.sm.grp = "REKEYNEGOTIATING"
      BY <1>3, <1>4, <1>5, <1>6, <2>4 DEF GroupStep
    <2>5. CASE "PtkGroupInit" \notin x.ev /\ x.sm.grp \notin {"IDLE", "REKEYNEGOTIATING"}
      BY <1>2, <2>5 DEF GroupStep, Quiet
    <2>6. QED
      BY <2>2, <2>3, <2>4, <2>5

\* wpa_group_sm_step: a driver that refuses the group key has the station
\* disconnected, once and for all.
LEMMA GsmStepOnce ==
    ASSUME NEW x, Shape(x), NEW n \in Nat, Bounded(x, n), NEW y, y = GsmStep(x)
    PROVE  /\ Bounded(y, n) /\ ~Waited(y.group) /\ y.ev = x.ev
           /\ Waited(x.group) \/ y = x
           /\ \/ (Failed(y.group) <=> Failed(x.group)) /\ Rank(y) = Rank(x)
              \/ Failed(y.group) /\ ~Failed(x.group) /\ Rank(y) = Pending(x) + 2
  <1>1. CASE ~Waited(x.group)
    BY <1>1 DEF GsmStep
  <1>2. CASE Waited(x.group)
    <2>1. /\ SamePtk(y, x) /\ SameGroup(y, x) /\ y.ev = x.ev /\ y.rx = x.rx
          /\ y.sm.TimeoutCtr = x.sm.TimeoutCtr /\ y.sm.timers = x.sm.timers
          /\ y.group = wpa_group_setkeysdone(x.group, x.ok)
          /\ y.sm.Disconnect = (x.sm.Disconnect \/ ~x.ok)
      BY <1>2, GsmFields DEF Becomes, SamePtk
    <2>2. Pending(y) = Pending(x) /\ StateRank(y) = StateRank(x)
      BY <2>1 DEF Pending, StateRank, SamePtk
    <2>3. x.sm.Disconnect \in BOOLEAN /\ y.sm.Disconnect \in BOOLEAN
      BY <2>1 DEF Bounded, Counters
    <2>4. /\ GroupTyped(y.group)
          /\ y.group.state = IF x.ok THEN "SETKEYSDONE" ELSE "FATAL_FAILURE"
      BY <2>1 DEF wpa_group_setkeysdone, Bounded, GroupTyped, GroupFields
    <2>5. Bounded(y, n)
      BY <2>1, <2>2, <2>3, <2>4 DEF Bounded, Counters, OneRequest, SamePtk, SameGroup
    <2>6. ~Failed(x.group) /\ ~Waited(y.group)
      BY <1>2, <2>4 DEF Waited, Failed
    <2>7. CASE x.ok
      <3>1. y.sm.Disconnect = x.sm.Disconnect /\ ~Failed(y.group)
        BY <2>1, <2>3, <2>4, <2>7 DEF Failed
      <3>2. Rank(y) = Rank(x)
        BY <2>1, <2>2, <3>1 DEF Rank
      <3>3. QED
        BY <1>2, <2>1, <2>5, <2>6, <3>1, <3>2
    <2>8. CASE ~x.ok
      <3>1. y.sm.Disconnect /\ Failed(y.group)
        BY <2>1, <2>4, <2>8 DEF Failed
      <3>2. Rank(y) = Pending(x) + 2
        BY <2>2, <3>1 DEF Rank
      <3>3. QED
        BY <1>2, <2>1, <2>5, <2>6, <3>1, <3>2
    <2>9. QED
      BY <2>7, <2>8
  <1>3. QED
    BY <1>1, <1>2

\* Nothing is left to do for the group key handshake and for the group.
Steady(x) == Quiet(x) /\ ~Waited(x.group) /\ "PtkGroupInit" \notin x.ev

\* What a turn of the loop from z to w brings about.
Shortens(w, z, n) ==
    /\ Bounded(w, n) /\ ~Waited(w.group) /\ "PtkGroupInit" \notin w.ev
    /\ "TimeoutEvt" \in w.ev => "TimeoutEvt" \in z.ev
    /\ Potential(w) <= 6 \/ Potential(w) < Potential(z)
    /\ Steady(z) => IF Rank(z) = 0 THEN w = z ELSE Potential(w) < Potential(z)

\* A turn of the loop.
LEMMA TurnShortens ==
    ASSUME NEW z, NEW u, NEW d, NEW q, Coherent(z, u, d, q), NEW n \in Nat, Bounded(z, n),
           NEW w, w = GsmStep(GroupStep(PtkStep(z)))
    PROVE  Shortens(w, z, n)
  <1> DEFINE a == PtkStep(z)
             b == GroupStep(a)
  <1>1. Coherent(a, u, d, q) /\ Stepped(a, z)
    BY PtkStepKeeps
  <1>2. Descends(a, z, n) \/ (a = z /\ Rank(z) = 0)
    BY PtkStepDescends
  <1> HIDE DEF a
  <1>3. Bounded(a, n)
    BY <1>2 DEF Descends
  <1>4. NoTimeout(a)
    BY <1>1 DEF Stepped
  <1>5. Coherent(b, u, d, q)
    BY <1>1, <1>4, GroupStepKeeps
  <1>6. Aside(b, a, n)
    BY <1>1, <1>3, GroupStepAside
  <1>7. w = GsmStep(b)
    BY DEF a
  <1> HIDE DEF b
  <1>8. /\ Bounded(w, n) /\ ~Waited(w.group) /\ w.ev = b.ev
        /\ Waited(b.group) \/ w = b
        /\ \/ (Failed(w.group) <=> Failed(b.group)) /\ Rank(w) = Rank(b)
           \/ Failed(w.group) /\ ~Failed(b.group) /\ Rank(w) = Pending(b) + 2
    BY <1>5, <1>6, <1>7, GsmStepOnce DEF Coherent, Sound, Aside
  <1>9. /\ Rank(w) \in 0 .. 6 /\ Rank(b) \in 0 .. 6 /\ Rank(a) \in 0 .. 6 /\ Rank(z) \in 0 .. 6
        /\ Pending(a) \in {1, 2, 4} /\ Pending(b) = Pending(a)
    BY <1>6, RankRange DEF Aside
  <1>10. /\ Failed(b.group) <=> Failed(z.group)
         /\ Rank(b) <= Rank(a) \/ Rank(b) = 3
         /\ (a = z /\ Rank(z) = 0) \/ (Rank(a) < Rank(z) /\ Pending(a) <= Rank(z))
    BY <1>2, <1>6 DEF Aside, Descends, Failed
  <1>11. Potential(w) <= 6 \/ Potential(w) < Potential(z)
    <2>1. CASE (Failed(w.group) <=> Failed(b.group)) /\ Rank(w) = Rank(b)
      BY <1>9, <1>10, <2>1 DEF Potential
    <2>2. CASE Failed(w.group) /\ ~Failed(b.group) /\ Rank(w) = Pending(b) + 2
      BY <1>9, <2>2 DEF Potential
    <2>3. QED
      BY <1>8, <2>1, <2>2
  <1>12. ASSUME Steady(z)
         PROVE  IF Rank(z) = 0 THEN w = z ELSE Potential(w) < Potential(z)
    <2>1. Quiet(a) /\ "PtkGroupInit" \notin a.ev
      BY <1>1, <1>2, <1>12 DEF Steady, Stepped, Quiet, Descends
    <2>2. b = a
      BY <1>6, <2>1 DEF Aside
    <2>3. CASE a = z /\ Rank(z) = 0
      BY <1>8, <1>12, <2>2, <2>3 DEF Steady
    <2>4. CASE Rank(a) < Rank(z) /\ Pending(a) <= Rank(z)
      <3>1. CASE (Failed(w.group) <=> Failed(b.group)) /\ Rank(w) = Rank(b)
        BY <1>9, <1>10, <2>2, <2>4, <3>1 DEF Potential
      <3>2. CASE Failed(w.group) /\ ~Failed(b.group) /\ Rank(w) = Pending(b) + 2
        BY <1>9, <1>10, <2>2, <2>4, <3>2 DEF Potential
      <3>3. QED
        BY <1>8, <3>1, <3>2
    <2>5. QED
      BY <1>10, <2>3, <2>4
  <1>13. "TimeoutEvt" \in w.ev => "TimeoutEvt" \in z.ev
    BY <1>2, <1>6, <1>8 DEF Aside, Descends
  <1>14. QED
    BY <1>6, <1>8, <1>11, <1>12, <1>13 DEF Shortens, Aside

\* The loop is at its end, or at most k turns from it.
Near(x, k) == Rank(x) = 0 \/ Potential(x) <= k

\* The records of the loop, at first and when only the 4-way handshake moves.
AllBounded(S, u, d, q, n) == \A z \in S : Coherent(z, u, d, q) /\ Bounded(z, n)
AllSteady(S, k) == \A z \in S : Steady(z) /\ Near(z, k)
NoneTimed(S) == \A z \in S : "TimeoutEvt" \notin z.ev

\* A turn for all records.
LEMMA TurnAll ==
    ASSUME NEW u, NEW d, NEW q, NEW n \in Nat, NEW S, AllBounded(S, u, d, q, n)
    PROVE  /\ AllBounded(Turn(S), u, d, q, n)
           /\ \A w \in Turn(S) : \E z \in S : Turned(w, z) /\ Shortens(w, z, n)
           /\ \A k \in Nat : AllSteady(S, k + 1) => AllSteady(Turn(S), k)
           /\ NoneTimed(S) => NoneTimed(Turn(S))
  <1>1. ASSUME NEW w \in Turn(S)
        PROVE  /\ Coherent(w, u, d, q) /\ Bounded(w, n)
               /\ \E z \in S : Turned(w, z) /\ Shortens(w, z, n)
    <2>1. PICK z \in S : w = GsmStep(GroupStep(PtkStep(z)))
      BY DEF Turn
    <2>2. Coherent(z, u, d, q) /\ Bounded(z, n)
      BY DEF AllBounded
    <2>3. Coherent(w, u, d, q) /\ Turned(w, z)
      BY <2>1, <2>2, TurnKeeps
    <2>4. Shortens(w, z, n)
      BY <2>1, <2>2, TurnShortens
    <2>5. QED
      BY <2>3, <2>4 DEF Shortens
  <1>2. ASSUME NEW k \in Nat, AllSteady(S, k + 1), NEW w \in Turn(S)
        PROVE  Steady(w) /\ Near(w, k)
    <2>1. PICK z \in S : Turned(w, z) /\ Shortens(w, z, n)
      BY <1>1
    <2>2. Steady(z) /\ Near(z, k + 1)
      BY <1>2 DEF AllSteady
    <2>3. Steady(w)
      BY <2>1, <2>2 DEF Steady, Turned, Shortens
    <2>4. CASE w = z /\ Rank(z) = 0
      BY <2>3, <2>4 DEF Near
    <2>5. CASE Rank(z) # 0 /\ Potential(w) < Potential(z)
      <3>1. Potential(w) \in 0 .. 9 /\ Potential(z) \in 0 .. 9
        BY RankRange
      <3>2. QED
        BY <2>2, <2>3, <2>5, <3>1 DEF Near
    <2>6. QED
      BY <2>1, <2>2, <2>3, <2>4, <2>5 DEF Shortens
  <1>3. NoneTimed(S) => NoneTimed(Turn(S))
    BY <1>1 DEF NoneTimed, Shortens
  <1>4. QED
    BY <1>1, <1>2, <1>3 DEF AllBounded, AllSteady

\* Three turns bring the group key handshake and the group to an end.
LEMMA FirstTurns ==
    ASSUME NEW u, NEW d, NEW q, NEW n \in Nat, NEW S, AllBounded(S, u, d, q, n)
    PROVE  /\ AllBounded(ThreeTurns(S), u, d, q, n) /\ AllSteady(ThreeTurns(S), 6)
           /\ NoneTimed(S) => NoneTimed(ThreeTurns(S))
  <1> DEFINE A == Turn(S)
             B == Turn(A)
             C == Turn(B)
  <1>1. /\ AllBounded(A, u, d, q, n)
        /\ \A w \in A : \E z \in S : Turned(w, z) /\ Shortens(w, z, n)
        /\ NoneTimed(S) => NoneTimed(A)
    BY TurnAll
  <1> HIDE DEF A
  <1>2. /\ AllBounded(B, u, d, q, n)
        /\ \A w \in B : \E z \in A : Turned(w, z) /\ Shortens(w, z, n)
        /\ NoneTimed(A) => NoneTimed(B)
    BY <1>1, TurnAll
  <1> HIDE DEF B
  <1>3. /\ AllBounded(C, u, d, q, n)
        /\ \A w \in C : \E z \in B : Turned(w, z) /\ Shortens(w, z, n)
        /\ NoneTimed(B) => NoneTimed(C)
    BY <1>2, TurnAll
  <1> HIDE DEF C
  <1>4. \A z : Potential(z) \in 0 .. 9
    BY RankRange
  <1>5. \A w \in A : Late(w) /\ Potential(w) <= 8
    BY <1>1, <1>4 DEF Turned, Shortens
  <1>6. \A w \in B : Passing(w) /\ Potential(w) <= 7
    BY <1>2, <1>4, <1>5 DEF Turned, Shortens
  <1>7. \A w \in C : Steady(w) /\ Potential(w) <= 6
    BY <1>3, <1>4, <1>6 DEF Turned, Shortens, Steady
  <1>8. AllSteady(C, 6)
    BY <1>7 DEF AllSteady, Near
  <1>9. ThreeTurns(S) = C
    BY DEF ThreeTurns, A, B, C
  <1>10. QED
    BY <1>1, <1>2, <1>3, <1>8, <1>9

\* Then every turn is one of the 4-way handshake.
LEMMA LaterTurns ==
    ASSUME NEW u, NEW d, NEW q, NEW n \in Nat, NEW S, AllBounded(S, u, d, q, n),
           NEW k \in Nat, AllSteady(S, k + 3)
    PROVE  /\ AllBounded(ThreeTurns(S), u, d, q, n) /\ AllSteady(ThreeTurns(S), k)
           /\ NoneTimed(S) => NoneTimed(ThreeTurns(S))
  <1> DEFINE A == Turn(S)
             B == Turn(A)
             C == Turn(B)
  <1>1. k + 3 = (k + 2) + 1 /\ k + 2 = (k + 1) + 1 /\ k + 1 \in Nat /\ k + 2 \in Nat
    OBVIOUS
  <1>2. /\ AllBounded(A, u, d, q, n) /\ AllSteady(A, k + 2)
        /\ NoneTimed(S) => NoneTimed(A)
    BY <1>1, TurnAll
  <1> HIDE DEF A
  <1>3. /\ AllBounded(B, u, d, q, n) /\ AllSteady(B, k + 1)
        /\ NoneTimed(A) => NoneTimed(B)
    BY <1>1, <1>2, TurnAll
  <1> HIDE DEF B
  <1>4. /\ AllBounded(C, u, d, q, n) /\ AllSteady(C, k)
        /\ NoneTimed(B) => NoneTimed(C)
    BY <1>3, TurnAll
  <1>5. ThreeTurns(S) = C
    BY DEF ThreeTurns, A, B
  <1> HIDE DEF C
  <1>6. QED
    BY <1>2, <1>3, <1>4, <1>5

\* After nine turns nothing moves any more: the loop has ended.
LEMMA LoopEnds ==
    ASSUME NEW x, NEW u, NEW d, NEW q, Coherent(x, u, d, q), NEW n \in Nat, Bounded(x, n),
           NEW y \in wpa_sm_step(x)
    PROVE  /\ Bounded(y, n) /\ Steady(y) /\ Rank(y) = 0
           /\ "TimeoutEvt" \notin x.ev => "TimeoutEvt" \notin y.ev
  <1> DEFINE A == ThreeTurns({x})
             B == ThreeTurns(A)
             C == ThreeTurns(B)
  <1>1. AllBounded({x}, u, d, q, n) /\ ("TimeoutEvt" \notin x.ev => NoneTimed({x}))
    BY DEF AllBounded, NoneTimed
  <1>2. /\ AllBounded(A, u, d, q, n) /\ AllSteady(A, 3 + 3)
        /\ "TimeoutEvt" \notin x.ev => NoneTimed(A)
    BY <1>1, FirstTurns
  <1> HIDE DEF A
  <1>3. /\ AllBounded(B, u, d, q, n) /\ AllSteady(B, 0 + 3)
        /\ "TimeoutEvt" \notin x.ev => NoneTimed(B)
    BY <1>2, LaterTurns
  <1> HIDE DEF B
  <1>4. /\ AllBounded(C, u, d, q, n) /\ AllSteady(C, 0)
        /\ "TimeoutEvt" \notin x.ev => NoneTimed(C)
    BY <1>3, LaterTurns
  <1>5. y \in C
    BY DEF wpa_sm_step, A, B
  <1> HIDE DEF C
  <1>6. /\ Bounded(y, n) /\ Steady(y) /\ Near(y, 0)
        /\ "TimeoutEvt" \notin x.ev => "TimeoutEvt" \notin y.ev
    BY <1>4, <1>5 DEF AllBounded, AllSteady, NoneTimed
  <1>7. QED
    BY <1>6, RankRange DEF Near

\* So a tenth turn, which the loop of wpa_sm_step takes only while something has
\* changed, would change nothing.
LEMMA LoopSettles ==
    ASSUME NEW x, NEW u, NEW d, NEW q, Coherent(x, u, d, q), NEW n \in Nat, Bounded(x, n),
           NEW y \in wpa_sm_step(x)
    PROVE  Turn({y}) = {y}
  <1>1. Coherent(y, u, d, q)
    BY LoopKeeps
  <1>2. Bounded(y, n) /\ Steady(y) /\ Rank(y) = 0
    BY LoopEnds
  <1> DEFINE w == GsmStep(GroupStep(PtkStep(y)))
  <1>3. Shortens(w, y, n)
    BY <1>1, <1>2, TurnShortens
  <1>4. w = y
    BY <1>2, <1>3 DEF Shortens
  <1>5. Turn({y}) = {w}
    BY DEF Turn
  <1>6. QED
    BY <1>4, <1>5

\* The counters of a station between two handlers; its SNonces are numbered up to n.
Limits(m, n) ==
    /\ m.ptk \in {"none", "INITIALIZE", "PTKSTART", "PTKINITNEGOTIATING", "PTKINITDONE"}
    /\ m.Disconnect \in BOOLEAN /\ m.timers \in Nat /\ m.PTK \in 0 .. n
    /\ m.TimeoutCtr \in 0 .. PairwiseCount /\ m.GTimeoutCtr \in 0 .. GroupCount
    /\ m.grp = "IDLE" => m.GTimeoutCtr = 0

\* A loop that has ended leaves them.
LEMMA EndsLimited ==
    ASSUME NEW x, NEW n \in Nat, Bounded(x, n), Steady(x), Rank(x) = 0
    PROVE  Limits(x.sm, n) /\ GroupTyped(x.group)
  <1>1. PairwiseCount \in Nat /\ GroupCount \in Nat
    BY CountAssumption
  <1>2. ~x.sm.Disconnect /\ Pending(x) = 1 /\ StateRank(x) = 0
    BY RankRange DEF Rank
  <1>3. /\ x.sm.ptk \notin {"DISCONNECT", "DISCONNECTED", "AUTHENTICATION2",
                            "PTKCALCNEGOTIATING"}
        /\ x.sm.ptk \in Waiting => x.rx # "pairwise" /\ ~(x.sm.TimeoutCtr > PairwiseCount)
    BY <1>2 DEF StateRank, Waiting
  <1>4. x.sm.TimeoutCtr \in 0 .. PairwiseCount
    BY <1>1, <1>3 DEF Bounded, Counters
  <1>5. x.sm.GTimeoutCtr \in 0 .. GroupCount
    BY <1>1 DEF Bounded, Counters, Steady, Quiet
  <1>6. QED
    BY <1>3, <1>4, <1>5 DEF Bounded, Counters, Limits, PtkStates

-----------------------------------------------------------------------------
(* The station. *)

\* A frame from the station.
LEMMA SendUp ==
    ASSUME NEW u, NEW d, NEW q, AirOk(u, d, q), NEW f, IsFrame(f), FromSta(u, f),
           f.type = "2/4" /\ f.fresh => NoMic(d), NEW p, p = Air(q, <<f>>)
    PROVE  /\ AirOk(u, d, p) /\ Short(p)
           /\ ~(f.type = "2/4" /\ f.fresh) => \A valid, ptk, k :
                 KeyOk(valid, ptk, k, u, d, q) => KeyOk(valid, ptk, k, u, d, p)
  <1> DEFINE e == Append(q, f)
  <1>1. IsQueue(q) /\ IsQueue(d) /\ Len(q) \in Nat
    BY DEF AirOk, IsQueue
  <1>2. IsQueue(<<>>) /\ <<f>> = Append(<<>>, f)
    BY DEF IsQueue
  <1>3. IsQueue(<<f>>)
    BY <1>2, QueueAppend
  <1>4. q \o <<f>> = e
    <2>1. q \o <<>> = q
      BY <1>1, <1>2, QueueJoin
    <2>2. q \o Append(<<>>, f) = Append(q \o <<>>, f)
      BY <1>1, <1>2, QueueJoin
    <2>3. QED
      BY <1>2, <2>1, <2>2
  <1>5. e = Append(q, f)
    OBVIOUS
  <1> HIDE DEF e
  <1>6. IsQueue(e)
    BY <1>1, <1>5, QueueAppend
  <1>7. Len(e) = Len(q) + 1
    BY <1>1, <1>5, QueueAppend
  <1>8. e[Len(q) + 1] = f
    BY <1>1, <1>5, QueueAppend
  <1>9. \A i \in 1 .. Len(q) : e[i] = q[i]
    BY <1>1, <1>5, QueueAppend
  <1>10. \A i \in 1 .. Len(e) : e[i] = f \/ \E j \in 1 .. Len(q) : e[i] = q[j]
    BY <1>1, <1>7, <1>8, <1>9
  <1>11. UpOk(u, e)
    BY <1>10 DEF AirOk, UpOk
  <1>12. ~(f.type = "2/4" /\ f.fresh) /\ NoAnswer(q) => NoAnswer(e)
    BY <1>10 DEF NoAnswer
  <1>13. AirOk(u, d, e)
    BY <1>6, <1>11, <1>12 DEF AirOk
  <1>14. ASSUME ~(f.type = "2/4" /\ f.fresh), NEW valid, NEW ptk, NEW k,
                KeyOk(valid, ptk, k, u, d, q)
         PROVE  KeyOk(valid, ptk, k, u, d, e)
    BY <1>12, <1>14 DEF KeyOk
  <1>15. IsQueue(p) /\ Part(p, e) /\ Short(p)
    BY <1>1, <1>3, <1>4, QueueAir
  <1>16. Part(d, d)
    <2>1. \A i \in 1 .. Len(d) : i + 0 \in 1 .. Len(d) /\ d[i] = d[i + 0]
      BY <1>1 DEF IsQueue
    <2>2. QED
      BY <2>1 DEF Part
  <1>17. /\ AirOk(u, d, p)
         /\ \A valid, ptk, k : KeyOk(valid, ptk, k, u, d, e) => KeyOk(valid, ptk, k, u, d, p)
    BY <1>1, <1>13, <1>15, <1>16, PartKeeps
  <1>18. QED
    BY <1>14, <1>15, <1>17

\* A queue is a part of itself.
LEMMA PartSelf ==
    ASSUME NEW q, IsQueue(q)
    PROVE  Part(q, q)
  <1>1. \A i \in 1 .. Len(q) : i + 0 \in 1 .. Len(q) /\ q[i] = q[i + 0]
    BY DEF IsQueue
  <1>2. QED
    BY <1>1 DEF Part

\* What a station answers has the validity of the question.
LEMMA ReplyFields ==
    ASSUME NEW m, IsFrame(m), NEW type, NEW mic \in Nat, NEW f, f = Reply(m, type, mic)
    PROVE  IsFrame(f) /\ f.type = type /\ f.mic = mic /\ f.fresh = m.fresh
  BY DEF Reply, IsFrame, FrameFields

\* A station that is gone has no keys, and chooses none.
LEMMA OffKeeps ==
    ASSUME NEW u, NEW d, NEW q, AirOk(u, d, q), NEW w, w = wpa_sm_notify_disassoc(u)
    PROVE  /\ AirOk(w, d, q) /\ w.snonce = u.snonce
           /\ \A valid, ptk, k : KeyOk(valid, ptk, k, u, d, q) => KeyOk(valid, ptk, k, w, d, q)
  <1>1. SupOk(u)
    BY DEF AirOk
  <1>2. /\ w = [f \in SupFields |-> w[f]] /\ w.on = FALSE /\ w.tptk = 0 /\ w.ptk = 0
        /\ w.snonce = u.snonce /\ w.renew = u.renew
        /\ w.on \in BOOLEAN /\ w.renew \in BOOLEAN
    BY <1>1 DEF wpa_sm_notify_disassoc, SupOk, SupFields
  <1>3. SupOk(w)
    <2>1. u.snonce \in Nat /\ u.renew \in BOOLEAN /\ (~u.renew => u.snonce > 0)
      BY <1>1 DEF SupOk
    <2>2. Used(w, w.ptk)
      BY <1>2, <2>1 DEF Used
    <2>3. /\ w.snonce \in Nat /\ w.tptk \in Nat /\ w.ptk \in Nat
          /\ w.on \in BOOLEAN /\ w.renew \in BOOLEAN
          /\ ~w.renew => w.snonce > 0
      BY <1>2, <2>1
    <2>4. QED
      BY <1>2, <2>2, <2>3 DEF SupOk
  <1>4. \A k : (Used(u, k) => Used(w, k)) /\ (Offered(u, k) => Offered(w, k))
    BY <1>2 DEF Used, Offered
  <1>5. DownOk(w, d)
    BY <1>2, <1>4 DEF AirOk, DownOk, Ordered, ToSta
  <1>6. UpOk(w, q)
    BY <1>4 DEF AirOk, UpOk, FromSta
  <1>7. AirOk(w, d, q)
    BY <1>3, <1>5, <1>6 DEF AirOk
  <1>8. \A k : Held(u, k, d) => Held(w, k, d)
    BY <1>2, <1>4 DEF Held
  <1>9. ASSUME NEW valid, NEW ptk, NEW k, KeyOk(valid, ptk, k, u, d, q)
        PROVE  KeyOk(valid, ptk, k, w, d, q)
    BY <1>4, <1>8, <1>9 DEF KeyOk
  <1>10. QED
    BY <1>2, <1>7, <1>9

\* The frame that the station takes next is gone from the air.
LEMMA TakeDown ==
    ASSUME NEW u, NEW d, NEW q, AirOk(u, d, q), d # <<>>
    PROVE  /\ IsFrame(Head(d)) /\ AirOk(u, Tail(d), q)
           /\ \A valid, ptk, k :
                 KeyOk(valid, ptk, k, u, d, q) => KeyOk(valid, ptk, k, u, Tail(d), q)
           /\ ToSta(u, Head(d))
           /\ \A i \in 1 .. Len(Tail(d)) : Ordered(u, Head(d), Tail(d)[i])
           /\ Mic(Head(d)) => NoAnswer(q)
           /\ NoAsk(d) => ~(Head(d).type = "1/4" /\ Head(d).fresh)
           /\ No1of4(d) => Head(d).type # "1/4"
  <1>1. IsQueue(d) /\ IsQueue(q) /\ Part(q, q)
    BY PartSelf DEF AirOk
  <1>2. /\ Len(d) > 0 /\ Head(d) = d[1] /\ IsFrame(d[1])
        /\ IsQueue(Tail(d)) /\ Part(Tail(d), d) /\ Len(Tail(d)) = Len(d) - 1
    BY <1>1, QueueTail
  <1>3. \A i \in 1 .. Len(Tail(d)) : Tail(d)[i] = d[i + 1]
    BY <1>1, QueueTail
  <1>4. Len(d) \in Nat /\ 1 \in 1 .. Len(d)
    BY <1>1, <1>2 DEF IsQueue
  <1>5. /\ AirOk(u, Tail(d), q)
        /\ \A valid, ptk, k :
              KeyOk(valid, ptk, k, u, d, q) => KeyOk(valid, ptk, k, u, Tail(d), q)
    BY <1>1, <1>2, PartKeeps
  <1>6. ToSta(u, d[1])
    BY <1>4 DEF AirOk, DownOk
  <1> DEFINE t == Tail(d)
  <1> HIDE DEF t
  <1>7. ASSUME NEW i \in 1 .. Len(t) PROVE Ordered(u, d[1], t[i])
    <2>1. i + 1 \in 1 .. Len(d) /\ 1 < i + 1 /\ t[i] = d[i + 1]
      BY <1>2, <1>3, <1>4, <1>7 DEF t
    <2>2. QED
      BY <1>4, <2>1 DEF AirOk, DownOk
  <1>8. /\ Mic(d[1]) => NoAnswer(q)
        /\ NoAsk(d) => ~(d[1].type = "1/4" /\ d[1].fresh)
        /\ No1of4(d) => d[1].type # "1/4"
    BY <1>4 DEF AirOk, NoMic, NoAsk, No1of4
  <1>9. QED
    BY <1>2, <1>5, <1>6, <1>7, <1>8 DEF t

\* The station chooses an SNonce and answers 1/4.
LEMMA Takes1of4 ==
    ASSUME NEW u, NEW d, NEW q, AirOk(u, d, q), d # <<>>, u.on, Head(d).type = "1/4",
           NEW n, n = IF u.renew THEN u.snonce + 1 ELSE u.snonce,
           NEW w, w = [u EXCEPT !.snonce = n, !.renew = FALSE, !.tptk = n],
           NEW p, p = Air(q, <<Reply(Head(d), "2/4", n)>>)
    PROVE  /\ AirOk(w, Tail(d), p) /\ Short(p) /\ u.snonce <= w.snonce
           /\ \A valid, ptk, k :
                 KeyOk(valid, ptk, k, u, d, q) => KeyOk(valid, ptk, k, w, Tail(d), p)
  <1> DEFINE m == Head(d)
             t == Tail(d)
             f == Reply(m, "2/4", n)
  <1>1. /\ IsFrame(m) /\ AirOk(u, t, q)
        /\ \A valid, ptk, k : KeyOk(valid, ptk, k, u, d, q) => KeyOk(valid, ptk, k, u, t, q)
        /\ \A i \in 1 .. Len(t) : Ordered(u, m, t[i])
        /\ NoAsk(d) => ~(m.type = "1/4" /\ m.fresh)
        /\ No1of4(d) => m.type # "1/4"
    BY TakeDown
  <1>2. m.type = "1/4"
    OBVIOUS
  <1> HIDE DEF m, t
  <1>3. SupOk(u)
    BY <1>1 DEF AirOk
  <1>4. /\ w = [g \in SupFields |-> w[g]] /\ w.snonce = n /\ w.tptk = n /\ w.ptk = u.ptk
        /\ w.renew = FALSE /\ w.on = u.on /\ w.on \in BOOLEAN /\ w.renew \in BOOLEAN
    BY <1>3 DEF SupOk, SupFields
  <1>5. n \in Nat /\ n > 0 /\ u.snonce \in Nat /\ (~u.renew => n = u.snonce)
        /\ (u.renew => n > u.snonce)
    BY <1>3 DEF SupOk
  <1>6. \A k \in Nat : Used(u, k) => Used(w, k)
    BY <1>4, <1>5 DEF Used
  <1>7. \A k : Offered(u, k) => Offered(w, k)
    BY <1>4, <1>5 DEF Offered
  <1>8. SupOk(w)
    <2>1. Used(w, w.ptk) /\ w.ptk \in Nat
      BY <1>3, <1>4, <1>6 DEF SupOk
    <2>2. QED
      BY <1>4, <1>5, <2>1 DEF SupOk
  <1>9. \A i \in 1 .. Len(t) : t[i].mic \in Nat
    BY <1>1 DEF AirOk, IsQueue, IsFrame
  <1>10. \A i \in 1 .. Len(q) : q[i].mic \in Nat
    BY <1>1 DEF AirOk, IsQueue, IsFrame
  <1>11. DownOk(w, t)
    <2>1. ASSUME NEW i \in 1 .. Len(t), NEW j \in 1 .. Len(t), i < j
          PROVE  Ordered(w, t[i], t[j])
      <3>1. Ordered(u, t[i], t[j])
        BY <1>1, <2>1 DEF AirOk, DownOk
      <3>2. QED
        BY <1>4, <1>5, <3>1 DEF Ordered
    <2>2. ASSUME NEW i \in 1 .. Len(t) PROVE ToSta(w, t[i])
      <3>1. ToSta(u, t[i]) /\ Ordered(u, m, t[i])
        BY <1>1 DEF AirOk, DownOk
      <3>2. t[i].type = "3/4" => t[i].mic = w.tptk
        BY <1>2, <1>4, <1>5, <3>1 DEF Ordered
      <3>3. t[i].type = "1/2" => Used(w, t[i].mic)
        BY <1>6, <1>9, <3>1 DEF ToSta
      <3>4. QED
        BY <3>2, <3>3 DEF ToSta
    <2>3. QED
      BY <2>1, <2>2 DEF DownOk
  <1>12. UpOk(w, q)
    <2>1. ASSUME NEW i \in 1 .. Len(q) PROVE FromSta(w, q[i])
      <3>1. FromSta(u, q[i])
        BY <1>1 DEF AirOk, UpOk
      <3>2. QED
        BY <1>6, <1>7, <1>10, <3>1 DEF FromSta
    <2>2. QED
      BY <2>1 DEF UpOk
  <1>13. AirOk(w, t, q)
    BY <1>1, <1>8, <1>11, <1>12 DEF AirOk
  <1>14. IsFrame(f) /\ f.type = "2/4" /\ f.mic = n /\ f.fresh = m.fresh
    BY <1>1, <1>5, ReplyFields
  <1>15. FromSta(w, f)
    <2>1. Offered(w, n)
      BY <1>4 DEF Offered
    <2>2. QED
      BY <1>14, <2>1 DEF FromSta
  <1>16. f.fresh => NoMic(t)
    BY <1>1, <1>2, <1>14 DEF Ordered, NoMic
  <1>17. p = Air(q, <<f>>)
    BY DEF m
  <1> HIDE DEF f
  <1>18. /\ AirOk(w, t, p) /\ Short(p)
         /\ ~f.fresh => \A valid, ptk, k :
               KeyOk(valid, ptk, k, w, t, q) => KeyOk(valid, ptk, k, w, t, p)
    BY <1>13, <1>14, <1>15, <1>16, <1>17, SendUp
  <1>19. ASSUME NEW valid, NEW ptk, NEW k, KeyOk(valid, ptk, k, u, d, q)
         PROVE  KeyOk(valid, ptk, k, w, t, p)
    <2>1. CASE ~valid
      BY <2>1 DEF KeyOk
    <2>2. CASE valid
      <3>1. ~m.fresh /\ ~Held(u, k, d)
        BY <1>1, <1>2, <1>19, <2>2 DEF KeyOk, Held
      <3>2. Offered(w, k)
        BY <1>7, <1>19, <2>2, <3>1 DEF KeyOk
      <3>3. KeyOk(valid, ptk, k, u, t, q)
        BY <1>1, <1>19
      <3>4. KeyOk(valid, ptk, k, w, t, q)
        BY <1>19, <2>2, <3>1, <3>2, <3>3 DEF KeyOk
      <3>5. QED
        BY <1>14, <1>18, <3>1, <3>4
    <2>3. QED
      BY <2>1, <2>2
  <1>20. u.snonce <= w.snonce
    BY <1>4, <1>5
  <1>21. QED
    BY <1>18, <1>19, <1>20 DEF t

\* What the station makes of the MIC of a 3/4 that it can verify: the PTK is that
\* of the MIC, and there is no temporary one any more.
LEMMA Verifies ==
    ASSUME NEW u, SupOk(u), NEW m, IsFrame(m), u.tptk \in {0, m.mic},
           NEW v, v = Verified(u, m), v.ptk # 0, m.mic = v.ptk
    PROVE  /\ v = [f \in SupFields |-> v[f]] /\ v.tptk = 0 /\ v.ptk = m.mic
           /\ v.snonce = u.snonce /\ v.on = u.on /\ v.on \in BOOLEAN
           /\ v.ptk \in Nat /\ v.ptk <= u.snonce
           /\ u.tptk # 0 => v.ptk = u.tptk
           /\ u.tptk = 0 => v.ptk = u.ptk
  <1>1. /\ u.snonce \in Nat /\ u.tptk \in Nat /\ u.ptk \in Nat /\ u.on \in BOOLEAN
        /\ u.ptk <= u.snonce /\ (u.tptk # 0 => u.tptk = u.snonce)
    BY DEF SupOk, Used
  <1>2. CASE u.tptk # 0
    <2>1. v = [u EXCEPT !.ptk = u.tptk, !.tptk = 0]
      BY <1>2 DEF Verified
    <2>2. /\ v = [f \in SupFields |-> v[f]] /\ v.tptk = 0 /\ v.ptk = u.tptk
          /\ v.snonce = u.snonce /\ v.on = u.on /\ v.on \in BOOLEAN
      BY <2>1 DEF SupOk, SupFields
    <2>3. QED
      BY <1>1, <1>2, <2>2
  <1>3. CASE u.tptk = 0
    <2>1. v = u
      BY <1>3 DEF Verified
    <2>2. QED
      BY <1>1, <1>3, <2>1 DEF SupOk
  <1>4. QED
    BY <1>2, <1>3

\* A station without a temporary PTK that will choose a new SNonce.
LEMMA NothingTemporary ==
    ASSUME NEW w, w = [f \in SupFields |-> w[f]], w.tptk = 0, w.snonce \in Nat,
           w.ptk \in Nat, w.on \in BOOLEAN, w.renew \in BOOLEAN, w.renew, Used(w, w.ptk)
    PROVE  SupOk(w)
  BY DEF SupOk

\* The station takes the PTK with 3/4 and answers.
LEMMA Takes3of4 ==
    ASSUME NEW u, NEW d, NEW q, AirOk(u, d, q), d # <<>>, u.on, Head(d).type = "3/4",
           NEW v, v = Verified(u, Head(d)), v.ptk # 0, Head(d).mic = v.ptk,
           NEW g, NEW w, w = [v EXCEPT !.renew = TRUE, !.msg_3_of_4_ok = TRUE, !.gtk = g],
           NEW p, p = Air(q, <<Reply(Head(d), "4/4", v.ptk)>>)
    PROVE  /\ AirOk(w, Tail(d), p) /\ Short(p)
           /\ \A valid, ptk, k :
                 KeyOk(valid, ptk, k, u, d, q) => KeyOk(valid, ptk, k, w, Tail(d), p)
  <1> DEFINE m == Head(d)
             t == Tail(d)
             f == Reply(m, "4/4", v.ptk)
  <1>1. /\ IsFrame(m) /\ AirOk(u, t, q) /\ ToSta(u, m)
        /\ \A valid, ptk, k : KeyOk(valid, ptk, k, u, d, q) => KeyOk(valid, ptk, k, u, t, q)
        /\ \A i \in 1 .. Len(t) : Ordered(u, m, t[i])
        /\ Mic(m) => NoAnswer(q)
    BY TakeDown
  <1>2. m.type = "3/4" /\ m.mic = v.ptk /\ v = Verified(u, m) /\ Mic(m)
    BY DEF Mic
  <1> HIDE DEF m, t
  <1>3. SupOk(u) /\ u.tptk \in {0, m.mic} /\ NoAnswer(q)
    BY <1>1, <1>2 DEF AirOk, ToSta
  <1>4. /\ v = [h \in SupFields |-> v[h]] /\ v.tptk = 0 /\ v.ptk = m.mic
        /\ v.snonce = u.snonce /\ v.on = u.on /\ v.on \in BOOLEAN
        /\ v.ptk \in Nat /\ v.ptk <= u.snonce
        /\ u.tptk # 0 => v.ptk = u.tptk
        /\ u.tptk = 0 => v.ptk = u.ptk
    BY <1>1, <1>2, <1>3, Verifies
  <1>5. /\ w = [h \in SupFields |-> w[h]] /\ w.tptk = 0 /\ w.ptk = v.ptk
        /\ w.snonce = u.snonce /\ w.on = u.on /\ w.on \in BOOLEAN
        /\ w.renew = TRUE /\ w.renew \in BOOLEAN
    BY <1>4 DEF SupFields
  <1>6. \A k : Used(u, k) => Used(w, k)
    BY <1>5 DEF Used
  <1>7. SupOk(w) /\ Used(w, w.ptk)
    <2>1. u.snonce \in Nat
      BY <1>3 DEF SupOk
    <2>2. Used(w, w.ptk) /\ w.ptk \in Nat
      BY <1>4, <1>5 DEF Used
    <2>3. w.snonce \in Nat /\ w.renew
      BY <1>5, <2>1
    <2>4. QED
      BY <1>5, <2>2, <2>3, NothingTemporary
  <1>8. DownOk(w, t)
    <2>1. ASSUME NEW i \in 1 .. Len(t), NEW j \in 1 .. Len(t), i < j
          PROVE  Ordered(w, t[i], t[j])
      <3>1. Ordered(u, t[i], t[j]) /\ Ordered(u, m, t[i])
        BY <1>1, <2>1 DEF AirOk, DownOk
      <3>2. t[i].type = "1/4" => t[i].fresh /\ ~Mic(t[j])
        BY <1>2, <3>1 DEF Ordered
      <3>3. QED
        BY <3>1, <3>2 DEF Ordered, Mic
    <2>2. ASSUME NEW i \in 1 .. Len(t) PROVE ToSta(w, t[i])
      BY <1>1, <1>5, <1>6 DEF AirOk, DownOk, ToSta
    <2>3. QED
      BY <2>1, <2>2 DEF DownOk
  <1>9. UpOk(w, q)
    BY <1>1, <1>3, <1>6 DEF AirOk, UpOk, FromSta, NoAnswer
  <1>10. AirOk(w, t, q)
    BY <1>1, <1>7, <1>8, <1>9 DEF AirOk
  <1>11. IsFrame(f) /\ f.type = "4/4" /\ f.mic = w.ptk
    BY <1>1, <1>4, <1>5, ReplyFields
  <1>12. FromSta(w, f)
    BY <1>7, <1>11 DEF FromSta
  <1>13. p = Air(q, <<f>>)
    BY DEF m
  <1> HIDE DEF f
  <1>14. /\ AirOk(w, t, p) /\ Short(p)
         /\ \A valid, ptk, k : KeyOk(valid, ptk, k, w, t, q) => KeyOk(valid, ptk, k, w, t, p)
    BY <1>10, <1>11, <1>12, <1>13, SendUp
  <1>15. ASSUME NEW valid, NEW ptk, NEW k, KeyOk(valid, ptk, k, u, d, q)
         PROVE  KeyOk(valid, ptk, k, w, t, p)
    <2>1. CASE ~valid
      BY <2>1 DEF KeyOk
    <2>2. CASE valid
      <3>1. KeyOk(valid, ptk, k, u, t, q) /\ NoAsk(t) /\ ptk \in Keyed /\ k \in Nat
        BY <1>1, <1>15, <2>2 DEF KeyOk
      <3>2. No1of4(t)
        BY <1>1, <1>2, <3>1 DEF Ordered, NoAsk, No1of4
      <3>3. Used(w, k) /\ w.ptk = k
        <4>1. CASE Held(u, k, t)
          <5>1. Used(w, k)
            BY <1>6, <4>1 DEF Held
          <5>2. u.ptk = k /\ u.tptk = 0
            BY <4>1 DEF Held
          <5>3. QED
            BY <1>4, <1>5, <5>1, <5>2
        <4>2. CASE Offered(u, k)
          <5>1. u.tptk = k /\ u.tptk # 0
            BY <1>3, <4>2 DEF Offered, SupOk
          <5>2. QED
            BY <1>4, <1>5, <1>7, <5>1
        <4>3. QED
          BY <2>2, <3>1, <4>1, <4>2 DEF KeyOk
      <3>4. Held(w, k, t)
        BY <1>5, <3>2, <3>3 DEF Held
      <3>5. KeyOk(valid, ptk, k, w, t, q)
        BY <1>3, <3>1, <3>4 DEF KeyOk
      <3>6. QED
        BY <1>14, <3>5
    <2>3. QED
      BY <2>1, <2>2
  <1>16. QED
    BY <1>14, <1>15 DEF t

\* A station with other group keys is as it was.
LEMMA SameSup ==
    ASSUME NEW u, NEW d, NEW q, AirOk(u, d, q), NEW g, NEW w, w = [u EXCEPT !.gtk = g]
    PROVE  /\ AirOk(w, d, q) /\ w.snonce = u.snonce
           /\ \A valid, ptk, k : KeyOk(valid, ptk, k, u, d, q) => KeyOk(valid, ptk, k, w, d, q)
  <1>1. SupOk(u)
    BY DEF AirOk
  <1>2. /\ w = [f \in SupFields |-> w[f]] /\ w.on = u.on /\ w.tptk = u.tptk /\ w.ptk = u.ptk
        /\ w.snonce = u.snonce /\ w.renew = u.renew
        /\ w.on \in BOOLEAN /\ w.renew \in BOOLEAN
    BY <1>1 DEF SupOk, SupFields
  <1>3. \A k : (Used(u, k) => Used(w, k)) /\ (Offered(u, k) => Offered(w, k))
    BY <1>2 DEF Used, Offered
  <1>4. SupOk(w)
    BY <1>1, <1>2, <1>3 DEF SupOk
  <1>5. DownOk(w, d)
    BY <1>2, <1>3 DEF AirOk, DownOk, Ordered, ToSta
  <1>6. UpOk(w, q)
    BY <1>3 DEF AirOk, UpOk, FromSta
  <1>7. AirOk(w, d, q)
    BY <1>4, <1>5, <1>6 DEF AirOk
  <1>8. \A k : Held(u, k, d) => Held(w, k, d)
    BY <1>2, <1>3 DEF Held
  <1>9. ASSUME NEW valid, NEW ptk, NEW k, KeyOk(valid, ptk, k, u, d, q)
        PROVE  KeyOk(valid, ptk, k, w, d, q)
    BY <1>3, <1>8, <1>9 DEF KeyOk
  <1>10. QED
    BY <1>2, <1>7, <1>9

\* A 1/2 never brings a new PTK, and the answer is signed with the one in use.
LEMMA Takes1of2 ==
    ASSUME NEW u, NEW d, NEW q, AirOk(u, d, q), d # <<>>, Head(d).type = "1/2"
    PROVE  /\ Verified(u, Head(d)) = u
           /\ LET p == Air(q, <<Reply(Head(d), "2/2", u.ptk)>>) IN
              /\ AirOk(u, Tail(d), p) /\ Short(p)
              /\ \A valid, ptk, k :
                    KeyOk(valid, ptk, k, u, d, q) => KeyOk(valid, ptk, k, u, Tail(d), p)
           /\ LET p == Air(q, <<Reply(Head(d), "deauth", 0)>>) IN
              /\ AirOk(u, Tail(d), p) /\ Short(p)
              /\ \A valid, ptk, k :
                    KeyOk(valid, ptk, k, u, d, q) => KeyOk(valid, ptk, k, u, Tail(d), p)
  <1> DEFINE m == Head(d)
             t == Tail(d)
             f == Reply(m, "2/2", u.ptk)
             h == Reply(m, "deauth", 0)
  <1>1. /\ IsFrame(m) /\ AirOk(u, t, q) /\ ToSta(u, m) /\ m.type = "1/2"
        /\ \A valid, ptk, k : KeyOk(valid, ptk, k, u, d, q) => KeyOk(valid, ptk, k, u, t, q)
    BY TakeDown
  <1> HIDE DEF m, t
  <1>2. SupOk(u)
    BY <1>1 DEF AirOk
  <1>3. Verified(u, m) = u
    <2>1. m.mic \in Nat /\ u.snonce \in Nat /\ Used(u, m.mic)
      BY <1>1, <1>2 DEF IsFrame, ToSta, SupOk
    <2>2. u.tptk # 0 => m.mic # u.tptk
      BY <1>2, <2>1 DEF SupOk, Used
    <2>3. QED
      BY <2>2 DEF Verified
  <1>4. Used(u, u.ptk) /\ u.ptk \in Nat
    BY <1>2 DEF SupOk
  <1>5. IsFrame(f) /\ f.type = "2/2" /\ f.mic = u.ptk
    BY <1>1, <1>4, ReplyFields
  <1>6. IsFrame(h) /\ h.type = "deauth"
    BY <1>1, ReplyFields
  <1> HIDE DEF f, h
  <1>7. FromSta(u, f) /\ FromSta(u, h)
    BY <1>4, <1>5, <1>6 DEF FromSta
  <1>8. /\ AirOk(u, t, Air(q, <<f>>)) /\ Short(Air(q, <<f>>))
        /\ \A valid, ptk, k :
              KeyOk(valid, ptk, k, u, t, q) => KeyOk(valid, ptk, k, u, t, Air(q, <<f>>))
    BY <1>1, <1>5, <1>7, SendUp
  <1>9. /\ AirOk(u, t, Air(q, <<h>>)) /\ Short(Air(q, <<h>>))
        /\ \A valid, ptk, k :
              KeyOk(valid, ptk, k, u, t, q) => KeyOk(valid, ptk, k, u, t, Air(q, <<h>>))
    BY <1>1, <1>6, <1>7, SendUp
  <1>10. QED
    BY <1>1, <1>3, <1>8, <1>9 DEF m, t, f, h

-----------------------------------------------------------------------------
(* The handlers of the access point, for the station they are about. *)

\* A station and its sm between two handlers.
StaOk(m, u, d, q) ==
    /\ AtRest(m) /\ AirOk(u, d, q) /\ KeyOk(m.PTK_valid, m.ptk, m.PTK, u, d, q)
    /\ Limits(m, u.snonce) /\ Short(d) /\ Short(q)

\* The fields of an sm.
SmTyped(m) ==
    /\ m = [f \in SmFields |-> m[f]] /\ m.PTK \in Nat
    /\ m.PTK_valid \in BOOLEAN /\ m.GUpdateStationKeys \in BOOLEAN

\* A record x to work on, for the sm m.
Begun(x, m, ev, u, d, q) ==
    /\ Sound(x, u, d, q) /\ d \o x.out = d
    /\ x.sm = m /\ x.ev = ev /\ x.rx = "none" /\ x.out = <<>>

\* It is made.
LEMMA WorkSound ==
    ASSUME NEW m, NEW u, NEW d, NEW q, NEW g, NEW ev, NEW ok,
           SmTyped(m),
           AirOk(u, d, q), KeyOk(m.PTK_valid, m.ptk, m.PTK, u, d, q),
           NEW x, x = Work(m, g, ev, ok)
    PROVE  Begun(x, m, ev, u, d, q)
  <1>1. /\ x = [f \in WorkFields |-> x[f]]
        /\ x.sm = m /\ x.ev = ev /\ x.rx = "none" /\ x.out = <<>>
    BY DEF Work, WorkFields
  <1>2. IsQueue(<<>>) /\ IsQueue(d)
    BY DEF IsQueue, AirOk
  <1>3. d \o <<>> = d
    BY <1>2, QueueJoin
  <1>4. Shape(x)
    BY <1>1 DEF Shape, SmTyped
  <1>5. Sound(x, u, d, q)
    BY <1>1, <1>2, <1>3, <1>4 DEF Sound, SmTyped
  <1>6. QED
    BY <1>1, <1>3, <1>5 DEF Begun

\* Its flags are in order.
LEMMA WorkStarts ==
    ASSUME NEW m, NEW u, NEW d, NEW q, NEW g, NEW ev, NEW ok,
           SmTyped(m),
           m.GUpdateStationKeys => m.grp = "REKEYNEGOTIATING",
           m.ptk # "PTKCALCNEGOTIATING", m.PTK_valid => ev \cap Asks = {},
           "PtkGroupInit" \notin ev,
           AirOk(u, d, q), KeyOk(m.PTK_valid, m.ptk, m.PTK, u, d, q),
           NEW x, x = Work(m, g, ev, ok)
    PROVE  Coherent(x, u, d, q) /\ x.sm = m /\ x.ev = ev /\ x.rx = "none"
  <1>1. Begun(x, m, ev, u, d, q)
    BY WorkSound
  <1>2. Flags(x, u, d \o x.out, q)
    BY <1>1 DEF Flags, Begun
  <1>3. QED
    BY <1>1, <1>2 DEF Coherent, Begun

\* Its counters are.
LEMMA WorkBounded ==
    ASSUME NEW m, NEW n \in Nat, Limits(m, n), NEW g, GroupTyped(g), NEW ok, NEW ev,
           ev \subseteq {"TimeoutEvt"} \/ \E ask \in Asks : ev = {ask},
           NEW x, x = Work(m, g, ev, ok)
    PROVE  Bounded(x, n)
  <1>1. x.sm = m /\ x.group = g /\ x.ev = ev /\ x.rx = "none" /\ x.snonce = 0
    BY DEF Work
  <1>2. PairwiseCount \in Nat /\ GroupCount \in Nat
    BY CountAssumption
  <1>3. Counters(x, n)
    BY <1>1, <1>2 DEF Counters, Limits, PtkStates
  <1>4. /\ ~("ReAuthenticationRequest" \in ev /\ "PTKRequest" \in ev)
        /\ "TimeoutEvt" \in ev => "ReAuthenticationRequest" \notin ev /\ "PTKRequest" \notin ev
    BY DEF Asks
  <1>5. ~(x.sm.GTimeoutCtr > GroupCount)
    BY <1>1, <1>2 DEF Limits
  <1>6. OneRequest(x)
    BY <1>1, <1>4, <1>5 DEF OneRequest, Pending
  <1>7. QED
    BY <1>1, <1>3, <1>6 DEF Bounded

\* The handler ends: its frames are on the air.
LEMMA HandlerEnds ==
    ASSUME NEW x, NEW u, NEW d, NEW q, Sound(x, u, d, q), AtRest(x.sm),
           Limits(x.sm, u.snonce), Short(q)
    PROVE  StaOk(x.sm, u, Air(d, x.out), q)
  <1> DEFINE e == d \o x.out
             a == Air(d, x.out)
  <1>1. IsQueue(a) /\ Part(a, e) /\ Short(a)
    BY QueueAir DEF Sound
  <1>2. IsQueue(q) /\ AirOk(u, e, q) /\ KeyOk(x.sm.PTK_valid, x.sm.ptk, x.sm.PTK, u, e, q)
    BY DEF Sound, AirOk
  <1>3. Part(q, q)
    BY <1>2, PartSelf
  <1> HIDE DEF e, a
  <1>4. AirOk(u, a, q) /\ KeyOk(x.sm.PTK_valid, x.sm.ptk, x.sm.PTK, u, a, q)
    BY <1>1, <1>2, <1>3, PartKeeps
  <1>5. QED
    BY <1>1, <1>4 DEF StaOk, a

\* A handler that runs the state machines.
LEMMA HandlerKeeps ==
    ASSUME NEW x, NEW u, NEW d, NEW q, Coherent(x, u, d, q), Ready(x),
           Bounded(x, u.snonce), Short(q), NEW y \in wpa_sm_step(x)
    PROVE  StaOk(y.sm, u, Air(d, y.out), q) /\ Shape(y) /\ GroupTyped(y.group)
  <1>1. Sound(y, u, d, q) /\ AtRest(y.sm)
    BY LoopKeeps DEF Coherent
  <1>2. u.snonce \in Nat
    BY DEF Coherent, Sound, AirOk, SupOk
  <1>3. Bounded(y, u.snonce) /\ Steady(y) /\ Rank(y) = 0
    BY <1>2, LoopEnds
  <1>4. Limits(y.sm, u.snonce) /\ GroupTyped(y.group)
    BY <1>2, <1>3, EndsLimited
  <1>5. QED
    BY <1>1, <1>4, HandlerEnds DEF Sound

\* A timeout, or the second part of a request for a group key.
LEMMA WakeKeeps ==
    ASSUME NEW m, NEW u, NEW d, NEW q, StaOk(m, u, d, q),
           NEW g, GroupTyped(g), NEW ok,
           NEW ev, ev \subseteq {"TimeoutEvt"}, NEW y \in wpa_sm_step(Work(m, g, ev, ok))
    PROVE  StaOk(y.sm, u, Air(d, y.out), q) /\ GroupTyped(y.group)
  <1> DEFINE x == Work(m, g, ev, ok)
  <1>1. ev \cap Asks = {} /\ "PtkGroupInit" \notin ev
    BY DEF Asks
  <1>2. /\ SmTyped(m) /\ m.ptk # "PTKCALCNEGOTIATING" /\ (m.ptk \in Keyed => m.PTK_valid)
        /\ m.GUpdateStationKeys => m.grp = "REKEYNEGOTIATING"
        /\ AirOk(u, d, q) /\ KeyOk(m.PTK_valid, m.ptk, m.PTK, u, d, q)
        /\ Limits(m, u.snonce) /\ Short(q) /\ u.snonce \in Nat
    BY DEF StaOk, AtRest, SmTyped, AirOk, SupOk
  <1>3. x = Work(m, g, ev, ok)
    OBVIOUS
  <1>4. y \in wpa_sm_step(x)
    OBVIOUS
  <1> HIDE DEF x
  <1>5. Coherent(x, u, d, q) /\ x.sm = m
    BY <1>1, <1>2, <1>3, WorkStarts
  <1>6. Ready(x)
    BY <1>2, <1>5 DEF Ready, HasKey
  <1>7. Bounded(x, u.snonce)
    BY <1>2, <1>3, WorkBounded
  <1>8. QED
    BY <1>2, <1>4, <1>5, <1>6, <1>7, HandlerKeeps

\* The access point takes its PTK away and asks for another, or disconnects.
LEMMA DropKeeps ==
    ASSUME NEW m, NEW u, NEW d, NEW q, AirOk(u, d, q), Short(q),
           NEW g, GroupTyped(g), NEW ok, SmTyped(m), ~m.PTK_valid, Limits(m, u.snonce),
           m.GUpdateStationKeys => m.grp = "REKEYNEGOTIATING",
           m.ptk # "PTKCALCNEGOTIATING",
           NEW ask \in Asks, NEW y \in wpa_sm_step(Work(m, g, {ask}, ok))
    PROVE  StaOk(y.sm, u, Air(d, y.out), q) /\ Shape(y) /\ GroupTyped(y.group)
  <1> DEFINE ev == {ask}
             x == Work(m, g, ev, ok)
  <1>1. /\ "PtkGroupInit" \notin ev /\ ev \cap Asks # {}
        /\ \E a \in Asks : ev = {a}
    BY DEF Asks
  <1>2. KeyOk(m.PTK_valid, m.ptk, m.PTK, u, d, q)
    BY DEF KeyOk
  <1>3. y \in wpa_sm_step(x)
    OBVIOUS
  <1>4. x = Work(m, g, ev, ok)
    OBVIOUS
  <1> HIDE DEF ev, x
  <1>5. Coherent(x, u, d, q) /\ x.ev = ev
    BY <1>1, <1>2, <1>4, WorkStarts
  <1>6. Ready(x)
    BY <1>1, <1>5 DEF Ready
  <1>7. u.snonce \in Nat
    BY DEF AirOk, SupOk
  <1>8. Bounded(x, u.snonce)
    BY <1>1, <1>4, <1>7, WorkBounded
  <1>9. QED
    BY <1>3, <1>5, <1>6, <1>8, HandlerKeeps

\* A frame from the station is taken.
LEMMA TakeUp ==
    ASSUME NEW m, NEW u, NEW d, NEW q, StaOk(m, u, d, q), q # <<>>
    PROVE  /\ StaOk(m, u, d, Tail(q)) /\ IsFrame(Head(q)) /\ FromSta(u, Head(q))
           /\ Head(q).type = "2/4" /\ Head(q).fresh => NoMic(d)
  <1>1. IsQueue(d) /\ IsQueue(q) /\ Part(d, d) /\ AirOk(u, d, q)
    BY PartSelf DEF StaOk, AirOk
  <1>2. /\ Len(q) > 0 /\ Head(q) = q[1] /\ IsFrame(q[1])
        /\ IsQueue(Tail(q)) /\ Part(Tail(q), q) /\ (Short(q) => Short(Tail(q)))
    BY <1>1, QueueTail
  <1>3. 1 \in 1 .. Len(q)
    BY <1>1, <1>2 DEF IsQueue
  <1>4. StaOk(m, u, d, Tail(q))
    BY <1>1, <1>2, PartKeeps DEF StaOk
  <1>5. FromSta(u, q[1]) /\ (q[1].type = "2/4" /\ q[1].fresh => NoMic(d))
    BY <1>1, <1>3 DEF AirOk, UpOk, NoAnswer
  <1>6. QED
    BY <1>2, <1>4, <1>5

\* A frame to the station is lost.
LEMMA LossKeeps ==
    ASSUME NEW m, NEW u, NEW d, NEW q, StaOk(m, u, d, q), d # <<>>
    PROVE  StaOk(m, u, Tail(d), q)
  <1>1. Short(Tail(d))
    BY QueueTail DEF StaOk, AirOk
  <1>2. QED
    BY <1>1, TakeDown DEF StaOk

\* Fields of an sm that nothing here depends on may change.
LEMMA SmLike ==
    ASSUME NEW m, NEW u, NEW d, NEW q, StaOk(m, u, d, q), NEW w,
           w = [f \in SmFields |-> w[f]], w.ptk = m.ptk, w.PTK = m.PTK,
           w.PTK_valid = m.PTK_valid, w.PTK_valid \in BOOLEAN, w.grp = m.grp,
           Limits(w, u.snonce), w.GUpdateStationKeys \in BOOLEAN,
           w.GUpdateStationKeys => w.grp = "REKEYNEGOTIATING"
    PROVE  StaOk(w, u, d, q)
  BY DEF StaOk, AtRest

\* A station that is not known.
LEMMA NoSmOk ==
    ASSUME NEW u, NEW d, NEW q, AirOk(u, d, q), Short(d), Short(q)
    PROVE  StaOk(NoSm, u, d, q)
  <1>1. /\ NoSm = [f \in SmFields |-> NoSm[f]] /\ NoSm.PTK = 0 /\ ~NoSm.PTK_valid
        /\ NoSm.ptk = "none" /\ NoSm.grp = "IDLE" /\ ~NoSm.GUpdateStationKeys
        /\ NoSm.PTK_valid \in BOOLEAN /\ NoSm.GUpdateStationKeys \in BOOLEAN
    BY DEF NoSm, NewSm, SmFields
  <1>2. /\ NoSm.Disconnect = FALSE /\ NoSm.timers = 0 /\ NoSm.TimeoutCtr = 0
        /\ NoSm.GTimeoutCtr = 0
    BY DEF NoSm, NewSm
  <1>3. NoSm.Disconnect \in BOOLEAN /\ u.snonce \in Nat
    BY <1>2 DEF AirOk, SupOk
  <1>4. Limits(NoSm, u.snonce)
    BY <1>1, <1>2, <1>3, CountAssumption DEF Limits
  <1>5. QED
    BY <1>1, <1>4 DEF StaOk, AtRest, KeyOk, Keyed

\* The sm n has the counters of m.
SameCounters(n, m) ==
    /\ n.Disconnect = m.Disconnect /\ n.timers = m.timers
    /\ n.TimeoutCtr = m.TimeoutCtr /\ n.GTimeoutCtr = m.GTimeoutCtr

\* wpa_group_update_sta: the group key is sent under the PTK of an open port.
LEMMA UpdateKeeps ==
    ASSUME NEW m, NEW u, NEW d, NEW q, StaOk(m, u, d, q), NEW g, NEW ok,
           NEW x, x = wpa_group_update_sta(m, g, ok)
    PROVE  StaOk(x.sm, u, Air(d, x.out), q)
  <1> DEFINE b == m.ptk = "PTKINITDONE"
             n == [m EXCEPT !.GUpdateStationKeys = b]
             ev == {}
             w == Work(n, g, ev, ok)
  <1>1. /\ AtRest(m) /\ AirOk(u, d, q) /\ KeyOk(m.PTK_valid, m.ptk, m.PTK, u, d, q)
        /\ Limits(m, u.snonce) /\ Short(q)
    BY DEF StaOk
  <1>2. b \in BOOLEAN
    OBVIOUS
  <1>3. x = IF w.sm.GUpdateStationKeys /\ m.grp = "IDLE" THEN REKEYNEGOTIATING(w) ELSE w
    BY DEF wpa_group_update_sta
  <1>4. b <=> m.ptk = "PTKINITDONE"
    OBVIOUS
  <1> HIDE DEF b
  <1>5. /\ n = [f \in SmFields |-> n[f]] /\ n.PTK = m.PTK /\ n.PTK_valid = m.PTK_valid
        /\ n.ptk = m.ptk /\ n.grp = m.grp /\ n.GUpdateStationKeys = b
        /\ SameCounters(n, m)
    BY <1>1, <1>2 DEF AtRest, SmFields, SameCounters
  <1> HIDE DEF n
  <1>6. /\ SmTyped(n) /\ KeyOk(n.PTK_valid, n.ptk, n.PTK, u, d, q)
    BY <1>1, <1>2, <1>5 DEF AtRest, SmTyped
  <1>7. w = Work(n, g, ev, ok)
    OBVIOUS
  <1> HIDE DEF w, ev
  <1>8. Begun(w, n, ev, u, d, q)
    BY <1>1, <1>6, <1>7, WorkSound
  <1>9. Sound(w, u, d, q) /\ w.sm = n /\ d \o w.out = d
    BY <1>8 DEF Begun
  <1>10. CASE b /\ m.grp = "IDLE"
    <2>1. x = REKEYNEGOTIATING(w)
      BY <1>3, <1>5, <1>9, <1>10
    <2>2. w.sm.PTK_valid => Held(u, w.sm.PTK, d \o w.out)
      BY <1>4, <1>5, <1>6, <1>9, <1>10 DEF KeyOk
    <2>3. /\ Sound(x, u, d, q) /\ SamePtk(x, w) /\ x.sm.grp = "REKEYNEGOTIATING"
      BY <1>9, <2>1, <2>2, RekeyKeeps
    <2>4. AtRest(x.sm)
      BY <1>1, <1>5, <1>9, <2>3 DEF AtRest, SamePtk, Sound, Shape
    <2>5. /\ x.sm.GTimeoutCtr = w.sm.GTimeoutCtr + 1
          /\ Counts(x, w.sm.TimeoutCtr, x.sm.timers, w.sm.Disconnect, w.group)
          /\ x.sm.timers \in {w.sm.timers, w.sm.timers + 1}
      BY <1>9, <2>1, RekeyFields DEF Sound
    <2>6. Limits(x.sm, u.snonce)
      BY <1>1, <1>5, <1>9, <1>10, <2>3, <2>5, CountAssumption
         DEF Limits, Counts, SamePtk, SameCounters
    <2>7. QED
      BY <1>1, <2>3, <2>4, <2>6, HandlerEnds
  <1>11. CASE ~(b /\ m.grp = "IDLE")
    <2>1. x = w
      BY <1>3, <1>5, <1>9, <1>11
    <2>2. AtRest(x.sm)
      BY <1>1, <1>2, <1>5, <1>9, <1>11, <2>1 DEF AtRest
    <2>3. Limits(x.sm, u.snonce)
      BY <1>1, <1>5, <1>9, <2>1 DEF Limits, SameCounters
    <2>4. QED
      BY <1>1, <1>9, <2>1, <2>2, <2>3, HandlerEnds
  <1>12. QED
    BY <1>10, <1>11

\* A station is marked for disconnection.
LEMMA MarkedKeeps ==
    ASSUME NEW m, NEW u, NEW d, NEW q, StaOk(m, u, d, q), NEW w,
           w = [m EXCEPT !.Disconnect = TRUE]
    PROVE  StaOk(w, u, d, q)
  <1>1. AtRest(m)
    BY DEF StaOk
  <1>2. /\ w = [f \in SmFields |-> w[f]] /\ w.ptk = m.ptk /\ w.PTK = m.PTK
        /\ w.PTK_valid = m.PTK_valid /\ w.grp = m.grp
        /\ w.GUpdateStationKeys = m.GUpdateStationKeys
    BY <1>1 DEF AtRest, SmFields
  <1>3. w.PTK_valid \in BOOLEAN /\ w.GUpdateStationKeys \in BOOLEAN
    BY <1>1, <1>2 DEF AtRest
  <1>4. w.GUpdateStationKeys => w.grp = "REKEYNEGOTIATING"
    BY <1>1, <1>2 DEF AtRest
  <1>5. /\ w.Disconnect = TRUE /\ w.timers = m.timers
        /\ w.TimeoutCtr = m.TimeoutCtr /\ w.GTimeoutCtr = m.GTimeoutCtr
    BY <1>1 DEF AtRest, SmFields
  <1>6. w.Disconnect \in BOOLEAN
    BY <1>5
  <1>7. Limits(w, u.snonce)
    BY <1>2, <1>5, <1>6 DEF StaOk, Limits
  <1>8. QED
    BY <1>2, <1>3, <1>4, <1>7, SmLike

\* An answer is received: all replay counters on their way become invalid, and
\* with them what the station had offered earlier.
LEMMA AnswerKeeps ==
    ASSUME NEW m, NEW u, NEW d, NEW q, StaOk(m, u, d, q), q # <<>>,
           NEW f, f = Head(q), f.fresh,
           \/ f.type = "2/4" /\ m.ptk = "PTKSTART"
           \/ f.type = "4/4" /\ m.ptk = "PTKINITNEGOTIATING" /\ m.PTK_valid /\ f.mic = m.PTK
           \/ f.type = "2/2" /\ m.PTK_valid,
           NEW n, SmTyped(n), n.ptk = m.ptk, n.PTK = m.PTK, n.PTK_valid = m.PTK_valid,
           n.grp = m.grp, n.GUpdateStationKeys = m.GUpdateStationKeys,
           Limits(n, u.snonce), NEW g, GroupTyped(g), NEW ok,
           NEW rx, rx = IF f.type = "2/2" THEN "group" ELSE "pairwise",
           NEW y \in wpa_sm_step([Work(n, g, {}, ok) EXCEPT !.snonce = f.mic, !.rx = rx])
    PROVE  /\ StaOk(y.sm, u, Air(MarkInvalid(d), y.out), MarkInvalid(Tail(q)))
           /\ GroupTyped(y.group)
  <1> DEFINE e == MarkInvalid(d)
             t == Tail(q)
             p == MarkInvalid(t)
             ev == {}
             w == Work(n, g, ev, ok)
             x == [w EXCEPT !.snonce = f.mic, !.rx = rx]
  <1>1. /\ StaOk(m, u, d, t) /\ IsFrame(f) /\ FromSta(u, f) /\ (f.type = "2/4" => NoMic(d))
    BY TakeUp
  <1> HIDE DEF t
  <1>2. /\ AtRest(m) /\ AirOk(u, d, t) /\ KeyOk(m.PTK_valid, m.ptk, m.PTK, u, d, t)
    BY <1>1 DEF StaOk
  <1>3. f.type = "2/4" => ~m.PTK_valid
    BY <1>2 DEF KeyOk, Keyed
  <1>4. NoMic(d) \/ NoAsk(d)
    BY <1>1, <1>2 DEF KeyOk
  <1>5. /\ AirOk(u, e, p) /\ NoAsk(e) /\ NoAnswer(p)
        /\ (NoMic(d) => NoMic(e)) /\ (No1of4(d) => No1of4(e))
    BY <1>2, <1>4, MarkKeeps
  <1> HIDE DEF e, p
  <1>6. \A k : Held(u, k, d) => Held(u, k, e)
    BY <1>5 DEF Held
  <1>7. KeyOk(n.PTK_valid, n.ptk, n.PTK, u, e, p)
    BY <1>2, <1>5, <1>6 DEF KeyOk
  <1>8. w = Work(n, g, ev, ok)
    OBVIOUS
  <1>9. y \in wpa_sm_step(x) /\ ev = {}
    OBVIOUS
  <1>10. x = [w EXCEPT !.snonce = f.mic, !.rx = rx]
    OBVIOUS
  <1> HIDE DEF ev, w, x
  <1>11. Begun(w, n, ev, u, e, p)
    BY <1>5, <1>7, <1>8, WorkSound
  <1>12. Shape(w) /\ w.sm = n /\ w.ev = {} /\ e \o w.out = e /\ Sound(w, u, e, p)
    BY <1>9, <1>11 DEF Begun, Sound
  <1>13. /\ x = [h \in WorkFields |-> x[h]] /\ x.sm = n /\ x.ev = {} /\ x.out = w.out
         /\ x.snonce = f.mic /\ x.rx = rx
    BY <1>10, <1>12 DEF Shape, WorkFields
  <1>14. Shape(x)
    BY <1>13 DEF Shape, SmTyped
  <1>15. Sound(x, u, e, p) /\ e \o x.out = e
    BY <1>12, <1>13, <1>14 DEF Sound
  <1>16. Used(u, n.PTK) => ~Offered(u, n.PTK)
    BY <1>2 DEF Used, Offered, AirOk, SupOk
  <1>17. f.type = "4/4" => Used(u, n.PTK)
    BY <1>1 DEF FromSta
  <1>18. f.type = "4/4" => Held(u, n.PTK, e)
    BY <1>7, <1>16, <1>17 DEF KeyOk
  <1>19. f.type = "2/4" => Offered(u, f.mic) /\ NoMic(e)
    BY <1>1, <1>5 DEF FromSta
  <1>20. x.rx = "pairwise" => Answered(x, u, e, p)
    BY <1>5, <1>13, <1>18, <1>19 DEF Answered
  <1>21. Flags(x, u, e \o x.out, p)
    BY <1>2, <1>13, <1>15, <1>20 DEF Flags, AtRest
  <1>22. Coherent(x, u, e, p)
    BY <1>15, <1>21 DEF Coherent
  <1>23. Ready(x)
    BY <1>2, <1>13 DEF Ready, HasKey, AtRest
  <1>24. Short(p)
    BY <1>1, QueueMark DEF p, StaOk, AirOk, Short
  <1>25. u.snonce \in Nat /\ f.mic \in 0 .. u.snonce
    <2>1. u.snonce \in Nat /\ f.mic \in Nat
      BY <1>1, <1>2 DEF AirOk, SupOk, IsFrame
    <2>2. Offered(u, f.mic) \/ Used(u, f.mic)
      BY <1>1 DEF FromSta
    <2>3. QED
      BY <2>1, <2>2 DEF Offered, Used
  <1>26. Bounded(w, u.snonce) /\ x.group = w.group
    <2>1. ev \subseteq {"TimeoutEvt"}
      BY <1>9
    <2>2. Bounded(w, u.snonce)
      BY <1>8, <1>25, <2>1, WorkBounded
    <2>3. QED
      BY <1>10, <1>12, <2>2 DEF Shape, WorkFields
  <1>27. Bounded(x, u.snonce)
    <2>1. n.TimeoutCtr \in 0 .. PairwiseCount /\ PairwiseCount \in Nat
      BY CountAssumption DEF Limits
    <2>2. Counters(x, u.snonce)
      BY <1>12, <1>13, <1>25, <1>26, <2>1 DEF Bounded, Counters
    <2>3. OneRequest(x)
      BY <1>12, <1>13, <1>26 DEF Bounded, OneRequest, Pending
    <2>4. QED
      BY <1>26, <2>2, <2>3 DEF Bounded
  <1>28. StaOk(y.sm, u, Air(e, y.out), p) /\ GroupTyped(y.group)
    BY <1>9, <1>22, <1>23, <1>24, <1>27, HandlerKeeps
  <1>29. QED
    BY <1>28 DEF e, p, t

\* An sm without its PTK.
Stripped(m) == [m EXCEPT !.PTK_valid = FALSE, !.PTK = 0, !.ptk_rekey = FALSE]

\* wpa_remove_ptk before the loop.
LEMMA RemoveFirst ==
    ASSUME NEW m, SmTyped(m), NEW g, NEW ev, NEW ok
    PROVE  wpa_remove_ptk(Work(m, g, ev, ok)) = Work(Stripped(m), g, ev, ok)
  <1> DEFINE w == Work(m, g, ev, ok)
             n == Stripped(m)
  <1>1. /\ w = [f \in WorkFields |-> w[f]] /\ w.sm = m /\ w.group = g /\ w.ev = ev
        /\ w.rx = "none" /\ w.out = <<>>
    BY DEF Work, WorkFields
  <1>2. Put(w, n, g, ev, "none", <<>>) = Work(n, g, ev, ok)
    <2> DEFINE a == Put(w, n, g, ev, "none", <<>>)
               b == Work(n, g, ev, ok)
    <2>1. /\ b = [f \in WorkFields |-> b[f]] /\ b.sm = n /\ b.group = g /\ b.ev = ev
          /\ b.rx = "none" /\ b.out = <<>> /\ b.snonce = 0 /\ b.ok = ok
      BY DEF Work, WorkFields
    <2>2. w.snonce = 0 /\ w.ok = ok
      BY DEF Work
    <2> HIDE DEF w, b, n
    <2>3. /\ a = [f \in WorkFields |-> a[f]] /\ a.sm = n /\ a.group = g /\ a.ev = ev
          /\ a.rx = "none" /\ a.out = <<>> /\ a.snonce = 0 /\ a.ok = ok
      BY <1>1, <2>2 DEF Put, WorkFields
    <2> HIDE DEF a
    <2>4. \A f \in WorkFields : a[f] = b[f]
      BY <2>1, <2>3 DEF WorkFields
    <2>5. a = b
      BY <2>1, <2>3, <2>4
    <2>6. QED
      BY <2>5 DEF a, b
  <1> HIDE DEF w
  <1>3. wpa_remove_ptk(w) = Put(w, n, g, ev, "none", <<>>)
    BY <1>1 DEF wpa_remove_ptk, Put, Stripped, SmTyped, WorkFields, SmFields
  <1>4. QED
    BY <1>2, <1>3 DEF w

\* What is left.
LEMMA StrippedFields ==
    ASSUME NEW m, AtRest(m), NEW n, n = Stripped(m)
    PROVE  /\ SmTyped(n) /\ ~n.PTK_valid /\ n.ptk # "PTKCALCNEGOTIATING"
           /\ n.GUpdateStationKeys => n.grp = "REKEYNEGOTIATING"
           /\ \A k \in Nat : Limits(m, k) => Limits(n, k)
  <1>1. /\ n = [f \in SmFields |-> n[f]] /\ n.PTK = 0 /\ n.PTK_valid = FALSE
        /\ n.ptk = m.ptk /\ n.grp = m.grp /\ n.GUpdateStationKeys = m.GUpdateStationKeys
        /\ SameCounters(n, m)
    BY DEF AtRest, SmFields, Stripped, SameCounters
  <1>2. n.PTK_valid \in BOOLEAN /\ ~n.PTK_valid
    BY <1>1
  <1>3. SmTyped(n)
    BY <1>1, <1>2 DEF SmTyped, AtRest
  <1>4. \A k \in Nat : Limits(m, k) => Limits(n, k)
    BY <1>1 DEF Limits, SameCounters
  <1>5. QED
    BY <1>1, <1>2, <1>3, <1>4 DEF AtRest

\* The station leaves: the event WPA_DISASSOC or WPA_DEAUTH.
LEMMA LeaveKeeps ==
    ASSUME NEW m, NEW u, NEW d, NEW q, AtRest(m), AirOk(u, d, q), Limits(m, u.snonce),
           Short(q), NEW g, GroupTyped(g), NEW ok,
           NEW y \in wpa_sm_step(wpa_remove_ptk(Work(m, g, {"DeauthenticationRequest"}, ok)))
    PROVE  StaOk(y.sm, u, Air(d, y.out), q) /\ Shape(y) /\ GroupTyped(y.group)
  <1> DEFINE n == Stripped(m)
  <1>1. SmTyped(m)
    BY DEF AtRest, SmTyped
  <1>2. y \in wpa_sm_step(Work(n, g, {"DeauthenticationRequest"}, ok))
    BY <1>1, RemoveFirst
  <1>3. /\ SmTyped(n) /\ ~n.PTK_valid /\ n.ptk # "PTKCALCNEGOTIATING"
        /\ n.GUpdateStationKeys => n.grp = "REKEYNEGOTIATING"
        /\ Limits(n, u.snonce)
    BY StrippedFields DEF AirOk, SupOk
  <1> HIDE DEF n
  <1>4. "DeauthenticationRequest" \in Asks
    BY DEF Asks
  <1>5. QED
    BY <1>2, <1>3, <1>4, DropKeeps

\* A station that associates has no keys and finds no frames on the air.
LEMMA NewSupOk ==
    ASSUME NEW u, SupOk(u), NEW w,
           w = [u EXCEPT !.on = TRUE, !.tptk = 0, !.ptk = 0, !.renew = TRUE, !.gtk = <<0, 0>>]
    PROVE  AirOk(w, <<>>, <<>>)
  <1>1. /\ w = [f \in SupFields |-> w[f]] /\ w.tptk = 0 /\ w.snonce = u.snonce
        /\ w.ptk = 0 /\ w.on = TRUE /\ w.renew = TRUE
    BY DEF SupOk, SupFields
  <1>2. w.on \in BOOLEAN /\ w.renew \in BOOLEAN /\ w.renew
    BY <1>1
  <1>3. w.snonce \in Nat /\ w.ptk \in Nat
    BY <1>1 DEF SupOk
  <1>4. Used(w, w.ptk)
    BY <1>1, <1>2, <1>3 DEF Used
  <1>5. SupOk(w)
    BY <1>1, <1>2, <1>3, <1>4, NothingTemporary
  <1>6. Len(<<>>) = 0 /\ 1 .. 0 = {} /\ IsQueue(<<>>)
    BY DEF IsQueue
  <1>7. DownOk(w, <<>>) /\ UpOk(w, <<>>) /\ NoMic(<<>>)
    BY <1>6 DEF DownOk, UpOk, NoMic
  <1>8. QED
    BY <1>5, <1>6, <1>7 DEF AirOk

\* The second event of an association.
LEMMA ReauthKeeps ==
    ASSUME NEW w, NEW u, NEW d, NEW q, Coherent(w, u, d, q), Keyless(w), NEW known,
           Bounded(w, u.snonce), Steady(w), Rank(w) = 0, "TimeoutEvt" \notin w.ev,
           NEW x, x = Reauth(w, known)
    PROVE  Coherent(x, u, d, q) /\ Ready(x) /\ Bounded(x, u.snonce)
  <1> DEFINE b == known /\ w.sm.GUpdateStationKeys
             m == IF b THEN [w.sm EXCEPT !.GUpdateStationKeys = FALSE] ELSE w.sm
             gd == [w.group EXCEPT !.GKeyDoneStations =
                       IF w.sm.GUpdateStationKeys THEN @ - 1 ELSE @]
             g == IF b THEN gd ELSE w.group
             ev == (IF b THEN w.ev \cup {"PtkGroupInit"} ELSE w.ev)
                      \cup {"ReAuthenticationRequest"}
  <1>1. Shape(w)
    BY DEF Coherent, Sound
  <1>2. b => x = [[GroupDone(w) EXCEPT !.ev = @ \cup {"PtkGroupInit"}]
                     EXCEPT !.ev = @ \cup {"ReAuthenticationRequest"}]
    BY DEF Reauth
  <1>3. ~b => x = [w EXCEPT !.ev = @ \cup {"ReAuthenticationRequest"}]
    BY DEF Reauth
  <1>4. x = Put(w, m, g, ev, w.rx, w.out)
    <2>1. CASE b
      <3> DEFINE m1 == [w.sm EXCEPT !.GUpdateStationKeys = FALSE]
                 e1 == w.ev \cup {"PtkGroupInit"}
      <3>1. GroupDone(w) = Put(w, m1, gd, w.ev, w.rx, w.out)
        BY <1>1 DEF Put, Shape, WorkFields, SmFields, GroupDone
      <3>2. m = m1 /\ g = gd /\ ev = e1 \cup {"ReAuthenticationRequest"}
        BY <2>1
      <3> HIDE DEF m1, gd
      <3>3. [[Put(w, m1, gd, w.ev, w.rx, w.out) EXCEPT !.ev = @ \cup {"PtkGroupInit"}]
                EXCEPT !.ev = @ \cup {"ReAuthenticationRequest"}]
            = Put(w, m1, gd, e1 \cup {"ReAuthenticationRequest"}, w.rx, w.out)
        BY <1>1 DEF Put, Shape, WorkFields
      <3>4. QED
        BY <1>2, <2>1, <3>1, <3>2, <3>3
    <2>2. CASE ~b
      BY <1>1, <1>3, <2>2 DEF Put, Shape, WorkFields, SmFields
    <2>3. QED
      BY <2>1, <2>2
  <1>5. /\ m = [f \in SmFields |-> m[f]] /\ m.ptk = w.sm.ptk /\ m.PTK = w.sm.PTK
        /\ m.PTK_valid = w.sm.PTK_valid /\ m.grp = w.sm.grp
        /\ m.GUpdateStationKeys = (w.sm.GUpdateStationKeys /\ ~b)
        /\ SameCounters(m, w.sm)
    BY <1>1 DEF Shape, SmFields, SameCounters
  <1>6. /\ "ReAuthenticationRequest" \in ev /\ ("TimeoutEvt" \in ev => "TimeoutEvt" \in w.ev)
        /\ ("PtkGroupInit" \in ev => "PtkGroupInit" \in w.ev \/ b)
        /\ ("PTKRequest" \in ev => "PTKRequest" \in w.ev)
    OBVIOUS
  <1>7. GroupTyped(g)
    <2>1. GroupTyped(w.group)
      BY DEF Bounded
    <2>2. Recounted(gd, w.group)
      BY DEF Recounted
    <2> HIDE DEF gd
    <2>3. QED
      BY <2>1, <2>2, RecountedTyped
  <1> HIDE DEF m, g, ev
  <1>8. m.PTK_valid \in BOOLEAN /\ m.GUpdateStationKeys \in BOOLEAN
    BY <1>1, <1>5 DEF Shape
  <1>9. Becomes(x, w, m.ptk, m.PTK, m.PTK_valid, ev, w.rx, w.out) /\ x.sm = m /\ x.group = g
    BY <1>1, <1>4, <1>5, <1>8, PutFields
  <1>10. Sound(x, u, d, q)
    BY <1>5, <1>9 DEF Coherent, Sound, Becomes
  <1>11. /\ x.ev = ev /\ x.rx = w.rx /\ x.out = w.out
    BY <1>9 DEF Becomes
  <1>12. ~x.sm.PTK_valid /\ x.rx # "pairwise"
    BY <1>5, <1>9, <1>11 DEF Keyless
  <1>13. x.sm.GUpdateStationKeys => w.sm.GUpdateStationKeys /\ ~b
    BY <1>5, <1>9
  <1> HIDE DEF b
  <1>14. Flags(x, u, d \o x.out, q)
    BY <1>5, <1>6, <1>9, <1>11, <1>12, <1>13 DEF Coherent, Flags
  <1>15. Ready(x)
    BY <1>6, <1>11 DEF Ready, Asks
  <1>16. "PTKRequest" \notin w.ev /\ ~(w.sm.GTimeoutCtr > GroupCount)
    <2>1. "PTKRequest" \notin w.ev
      BY RankRange DEF Rank, Pending
    <2>2. ~(w.sm.GTimeoutCtr > GroupCount)
      BY CountAssumption DEF Steady, Quiet, Bounded, Counters
    <2>3. QED
      BY <2>1, <2>2
  <1>17. OneRequest(x)
    BY <1>5, <1>6, <1>9, <1>11, <1>16 DEF OneRequest, SameCounters
  <1>18. Counters(x, u.snonce)
    BY <1>5, <1>9, <1>11 DEF Bounded, Counters, SameCounters, Becomes
  <1>19. QED
    BY <1>7, <1>9, <1>10, <1>14, <1>15, <1>17, <1>18 DEF Coherent, Bounded

\* An association, whatever was known of the station.
LEMMA AssociateKeeps ==
    ASSUME NEW m, AtRest(m), NEW u, AirOk(u, <<>>, <<>>), Limits(m, u.snonce),
           NEW g, GroupTyped(g), NEW ok, NEW known,
           NEW w \in wpa_sm_step(wpa_remove_ptk(Work(m, g, {}, ok))),
           NEW x \in wpa_sm_step(Reauth(w, known))
    PROVE  StaOk(x.sm, u, Air(<<>>, x.out), <<>>) /\ GroupTyped(x.group)
  <1> DEFINE n == Stripped(m)
             ev == {}
             v == Work(n, g, ev, ok)
             r == Reauth(w, known)
             d == <<>>
  <1>1. SmTyped(m)
    BY DEF AtRest, SmTyped
  <1>2. w \in wpa_sm_step(v)
    BY <1>1, RemoveFirst
  <1>3. /\ SmTyped(n) /\ ~n.PTK_valid /\ n.ptk # "PTKCALCNEGOTIATING"
        /\ n.GUpdateStationKeys => n.grp = "REKEYNEGOTIATING"
    BY StrippedFields
  <1>4. Limits(n, u.snonce) /\ u.snonce \in Nat
    BY StrippedFields DEF AirOk, SupOk
  <1> HIDE DEF n
  <1>5. "PtkGroupInit" \notin ev
    OBVIOUS
  <1>6. "TimeoutEvt" \notin ev /\ ev \subseteq {"TimeoutEvt"}
    OBVIOUS
  <1>7. Short(d)
    BY CountAssumption DEF Short
  <1>8. v = Work(n, g, ev, ok) /\ r = Reauth(w, known) /\ x \in wpa_sm_step(r) /\ AirOk(u, d, d)
    OBVIOUS
  <1> HIDE DEF ev, v, r, d
  <1>9. KeyOk(n.PTK_valid, n.ptk, n.PTK, u, d, d)
    BY <1>3 DEF KeyOk
  <1>10. Coherent(v, u, d, d) /\ v.sm = n /\ v.ev = ev /\ v.rx = "none"
    BY <1>3, <1>5, <1>8, <1>9, WorkStarts
  <1>11. Keyless(v)
    BY <1>3, <1>10 DEF Keyless
  <1>12. Coherent(w, u, d, d) /\ Keyless(w)
    BY <1>2, <1>10, <1>11, LoopKeeps
  <1>13. Bounded(v, u.snonce)
    BY <1>4, <1>6, <1>8, WorkBounded
  <1>14. /\ Bounded(w, u.snonce) /\ Steady(w) /\ Rank(w) = 0
         /\ "TimeoutEvt" \notin w.ev
    BY <1>2, <1>4, <1>6, <1>10, <1>13, LoopEnds
  <1>15. Coherent(r, u, d, d) /\ Ready(r) /\ Bounded(r, u.snonce)
    BY <1>8, <1>12, <1>14, ReauthKeeps
  <1>16. StaOk(x.sm, u, Air(d, x.out), d) /\ GroupTyped(x.group)
    BY <1>7, <1>8, <1>15, HandlerKeeps
  <1>17. QED
    BY <1>16 DEF d

-----------------------------------------------------------------------------
(* All stations. *)

Fine(ms, us, ds, qs) ==
    /\ DOMAIN ms = Stations /\ DOMAIN us = Stations
    /\ DOMAIN ds = Stations /\ DOMAIN qs = Stations
    /\ \A s \in Stations : StaOk(ms[s], us[s], ds[s], qs[s])

\* The inductive invariant.
KeyInv == Fine(sms, sup, down, up) /\ GroupTyped(group)

\* From one state to the next.
LEMMA KeyInvNext ==
    ASSUME Fine(sms', sup', down', up'), GroupTyped(group')
    PROVE  KeyInv'
  BY DEF KeyInv, GroupTyped

\* One station moves; a fatal failure marks the others.
LEMMA OneMoves ==
    ASSUME NEW ms, NEW us, NEW ds, NEW qs, Fine(ms, us, ds, qs), NEW s \in Stations,
           NEW nms, NEW nus, NEW nds, NEW nqs,
           DOMAIN nms = Stations, DOMAIN nus = Stations,
           DOMAIN nds = Stations, DOMAIN nqs = Stations,
           StaOk(nms[s], nus[s], nds[s], nqs[s]),
           \A t \in Stations \ {s} :
              /\ nus[t] = us[t] /\ nds[t] = ds[t] /\ nqs[t] = qs[t]
              /\ nms[t] \in {ms[t], Marked(ms)[t]}
    PROVE  Fine(nms, nus, nds, nqs)
  <1>1. ASSUME NEW t \in Stations PROVE StaOk(nms[t], nus[t], nds[t], nqs[t])
    <2>1. StaOk(ms[t], us[t], ds[t], qs[t])
      BY DEF Fine
    <2>2. Marked(ms)[t] \in {ms[t], [ms[t] EXCEPT !.Disconnect = TRUE]}
      BY DEF Marked
    <2>3. StaOk([ms[t] EXCEPT !.Disconnect = TRUE], us[t], ds[t], qs[t])
      BY <2>1, MarkedKeeps
    <2>4. CASE t = s
      BY <2>4
    <2>5. CASE t # s
      <3>1. /\ nus[t] = us[t] /\ nds[t] = ds[t] /\ nqs[t] = qs[t]
            /\ nms[t] = ms[t] \/ nms[t] = [ms[t] EXCEPT !.Disconnect = TRUE]
        BY <2>2, <2>5
      <3>2. QED
        BY <2>1, <2>3, <3>1
    <2>6. QED
      BY <2>4, <2>5
  <1>2. QED
    BY <1>1 DEF Fine

\* All stations are marked.
LEMMA AllMarked ==
    ASSUME NEW ms, NEW us, NEW ds, NEW qs, Fine(ms, us, ds, qs)
    PROVE  Fine(Marked(ms), us, ds, qs)
  <1>1. DOMAIN Marked(ms) = Stations
    BY DEF Marked
  <1>2. ASSUME NEW t \in Stations PROVE StaOk(Marked(ms)[t], us[t], ds[t], qs[t])
    <2>1. StaOk(ms[t], us[t], ds[t], qs[t])
      BY DEF Fine
    <2>2. Marked(ms)[t] = ms[t] \/ Marked(ms)[t] = [ms[t] EXCEPT !.Disconnect = TRUE]
      BY DEF Marked
    <2>3. StaOk([ms[t] EXCEPT !.Disconnect = TRUE], us[t], ds[t], qs[t])
      BY <2>1, MarkedKeeps
    <2>4. QED
      BY <2>1, <2>2, <2>3
  <1>3. QED
    BY <1>1, <1>2 DEF Fine

\* The group key is replaced or installed.
LEMMA SetkeysTyped ==
    ASSUME NEW g, GroupTyped(g), NEW h,
           (\E n : h = wpa_group_setkeys(g, n)) \/ (\E ok : h = wpa_group_setkeysdone(g, ok))
    PROVE  GroupTyped(h)
  <1>1. CASE \E n : h = wpa_group_setkeys(g, n)
    <2>1. PICK n : h = wpa_group_setkeys(g, n)
      BY <1>1
    <2>2. h = [f \in GroupFields |-> h[f]] /\ h.state = "SETKEYS" /\ h.GN = 3 - g.GN
      BY <2>1 DEF wpa_group_setkeys, GroupTyped, GroupFields
    <2>3. g.GN = 1 \/ g.GN = 2
      BY DEF GroupTyped
    <2>4. QED
      BY <2>2, <2>3 DEF GroupTyped
  <1>2. CASE \E ok : h = wpa_group_setkeysdone(g, ok)
    BY <1>2 DEF wpa_group_setkeysdone, GroupTyped, GroupFields
  <1>3. QED
    BY <1>1, <1>2

\* wpa_rekey_gtk.
LEMMA RekeyAll ==
    ASSUME NEW ms, NEW us, NEW ds, NEW qs, Fine(ms, us, ds, qs),
           NEW g, GroupTyped(g), NEW ok,
           NEW r, r = wpa_rekey_gtk(ms, g, ds, ok)
    PROVE  Fine(r.sms, us, r.down, qs) /\ GroupTyped(r.group)
  <1> DEFINE g0  == IF Waited(g) THEN wpa_group_setkeysdone(g, ok) ELSE g
             hit == {s \in Stations : ms[s].ptk = "PTKINITDONE"}
             n   == Cardinality(hit)
             g1  == wpa_group_setkeys(g0, n)
             g2  == IF hit = {} THEN wpa_group_setkeysdone(g1, ok) ELSE g1
             x   == [s \in Stations |-> wpa_group_update_sta(ms[s], g1, ok)]
             moved == [s \in Stations |-> x[s].sm]
             sent  == [s \in Stations |-> Air(ds[s], x[s].out)]
  <1>1. Failed(g) => g0 = g
    BY DEF Failed, Waited
  <1>2. \/ r.sms = ms /\ r.down = ds
        \/ r.sms = Marked(ms) /\ r.down = ds
        \/ r.sms \in {moved, Marked(moved)} /\ r.down = sent
    <2>1. CASE Failed(g)
      BY <1>1, <2>1 DEF wpa_rekey_gtk
    <2>2. CASE ~Failed(g) /\ Failed(g0)
      BY <2>2 DEF wpa_rekey_gtk
    <2>3. CASE ~Failed(g) /\ ~Failed(g0)
      BY <2>3 DEF wpa_rekey_gtk
    <2>4. QED
      BY <2>1, <2>2, <2>3
  <1>3. GroupTyped(r.group)
    <2>1. r.group \in {g, g0, g2}
      <3>1. CASE Failed(g)
        BY <1>1, <3>1 DEF wpa_rekey_gtk
      <3>2. CASE ~Failed(g) /\ Failed(g0)
        BY <3>2 DEF wpa_rekey_gtk
      <3>3. CASE ~Failed(g) /\ ~Failed(g0)
        BY <3>3 DEF wpa_rekey_gtk
      <3>4. QED
        BY <3>1, <3>2, <3>3
    <2>2. /\ g0 = g \/ g0 = wpa_group_setkeysdone(g, ok)
          /\ g1 = wpa_group_setkeys(g0, n)
          /\ g2 = g1 \/ g2 = wpa_group_setkeysdone(g1, ok)
      OBVIOUS
    <2> HIDE DEF g0, n, g1, g2
    <2>3. GroupTyped(g0)
      BY <2>2, SetkeysTyped
    <2>4. GroupTyped(g1)
      BY <2>2, <2>3, SetkeysTyped
    <2>5. GroupTyped(g2)
      BY <2>2, <2>4, SetkeysTyped
    <2>6. QED
      BY <2>1, <2>3, <2>5
  <1> HIDE DEF g1
  <1>4. ASSUME NEW s \in Stations PROVE StaOk(moved[s], us[s], sent[s], qs[s])
    <2> DEFINE y == wpa_group_update_sta(ms[s], g1, ok)
    <2>1. StaOk(ms[s], us[s], ds[s], qs[s])
      BY DEF Fine
    <2>2. moved[s] = y.sm /\ sent[s] = Air(ds[s], y.out)
      OBVIOUS
    <2>3. StaOk(y.sm, us[s], Air(ds[s], y.out), qs[s])
      BY <2>1, UpdateKeeps
    <2> HIDE DEF y, moved, sent
    <2>4. QED
      BY <2>2, <2>3
  <1>5. DOMAIN moved = Stations /\ DOMAIN sent = Stations
    OBVIOUS
  <1> HIDE DEF x, moved, sent
  <1>6. Fine(moved, us, sent, qs)
    BY <1>4, <1>5 DEF Fine
  <1>7. Fine(Marked(moved), us, sent, qs) /\ Fine(Marked(ms), us, ds, qs)
    BY <1>6, AllMarked
  <1>8. QED
    BY <1>2, <1>3, <1>6, <1>7

-----------------------------------------------------------------------------
(* The actions. *)

\* f has v for s, and what g has for the others.
Only(s, f, g, v) ==
    DOMAIN f = Stations /\ f[s] = v /\ \A t \in Stations \ {s} : f[t] = g[t]

\* So it is when nothing changes, and after an assignment for s.
LEMMA OnlyOne ==
    ASSUME NEW s \in Stations, NEW g, DOMAIN g = Stations
    PROVE  Only(s, g, g, g[s]) /\ \A v : Only(s, [g EXCEPT ![s] = v], g, v)
  BY DEF Only

\* A step of one station.
LEMMA StaMoves ==
    ASSUME NEW s \in Stations, NEW ms, NEW us, NEW ds, NEW qs, Fine(ms, us, ds, qs),
           NEW m, NEW u, NEW d, NEW q, StaOk(m, u, d, q),
           Only(s, sms', ms, m) \/ Only(s, sms', Marked(ms), m),
           Only(s, sup', us, u), Only(s, down', ds, d), Only(s, up', qs, q),
           GroupTyped(group')
    PROVE  KeyInv'
  <1>1. /\ DOMAIN sms' = Stations /\ DOMAIN sup' = Stations
        /\ DOMAIN down' = Stations /\ DOMAIN up' = Stations
        /\ sms'[s] = m /\ sup'[s] = u /\ down'[s] = d /\ up'[s] = q
    BY DEF Only
  <1>2. \A t \in Stations \ {s} :
           /\ sup'[t] = us[t] /\ down'[t] = ds[t] /\ up'[t] = qs[t]
           /\ sms'[t] \in {ms[t], Marked(ms)[t]}
    BY DEF Only
  <1>3. StaOk(sms'[s], sup'[s], down'[s], up'[s])
    BY <1>1
  <1>4. Fine(sms', sup', down', up')
    BY <1>1, <1>2, <1>3, OneMoves
  <1>5. QED
    BY <1>4, KeyInvNext

\* A handler of the access point commits what it did.
LEMMA CommitKeeps ==
    ASSUME NEW s \in Stations, NEW ms, NEW us, NEW ds, NEW qs, Fine(ms, us, ds, qs),
           NEW x, Commit(s, ms, x), GroupTyped(x.group),
           NEW u, NEW d, NEW q, StaOk(x.sm, u, d, q),
           Only(s, sup', us, u), Only(s, down', ds, d), Only(s, up', qs, q)
    PROVE  KeyInv'
  <1>1. DOMAIN ms = Stations /\ DOMAIN Marked(ms) = Stations
    BY DEF Fine, Marked
  <1>2. \/ sms' = [ms EXCEPT ![s] = x.sm]
        \/ sms' = [Marked(ms) EXCEPT ![s] = x.sm]
    BY DEF Commit
  <1>3. Only(s, sms', ms, x.sm) \/ Only(s, sms', Marked(ms), x.sm)
    BY <1>1, <1>2, OnlyOne
  <1>4. GroupTyped(group')
    BY DEF Commit
  <1>5. QED
    BY <1>3, <1>4, StaMoves

\* What the invariant says of one station.
LEMMA StaFacts ==
    ASSUME KeyInv, NEW s \in Stations
    PROVE  /\ StaOk(sms[s], sup[s], down[s], up[s]) /\ AtRest(sms[s])
           /\ AirOk(sup[s], down[s], up[s]) /\ SupOk(sup[s])
           /\ KeyOk(sms[s].PTK_valid, sms[s].ptk, sms[s].PTK, sup[s], down[s], up[s])
           /\ Fine(sms, sup, down, up)
           /\ DOMAIN sms = Stations /\ DOMAIN sup = Stations
           /\ DOMAIN down = Stations /\ DOMAIN up = Stations
           /\ Limits(sms[s], sup[s].snonce) /\ sup[s].snonce \in Nat
           /\ Short(down[s]) /\ Short(up[s]) /\ GroupTyped(group)
  <1>1. StaOk(sms[s], sup[s], down[s], up[s])
    BY DEF KeyInv, Fine
  <1>2. SupOk(sup[s])
    BY <1>1 DEF StaOk, AirOk
  <1>3. QED
    BY <1>1, <1>2 DEF KeyInv, Fine, StaOk, SupOk

\* Timeouts change only the timers before the loop.
LEMMA TimeoutKeeps ==
    ASSUME KeyInv, NEW s \in Stations, Timeout(s)
    PROVE  KeyInv'
  <1> DEFINE a == sms[s]
             m == [a EXCEPT !.timers = @ - 1]
             ev == {"TimeoutEvt"}
  <1>1. /\ StaOk(a, sup[s], down[s], up[s]) /\ AtRest(a) /\ Fine(sms, sup, down, up)
        /\ DOMAIN sup = Stations /\ DOMAIN down = Stations /\ DOMAIN up = Stations
        /\ Limits(a, sup[s].snonce) /\ GroupTyped(group)
    BY StaFacts
  <1>2. PICK ok \in Oks : \E x \in wpa_sm_step(Work(m, group, ev, ok)) :
           Commit(s, sms, x) /\ down' = [down EXCEPT ![s] = Air(down[s], x.out)]
    BY DEF Timeout
  <1>3. sup' = sup /\ up' = up /\ a.timers > 0
    BY DEF Timeout
  <1> HIDE DEF a
  <1>4. /\ m = [f \in SmFields |-> m[f]] /\ m.ptk = a.ptk /\ m.PTK = a.PTK
        /\ m.PTK_valid = a.PTK_valid /\ m.grp = a.grp
        /\ m.GUpdateStationKeys = a.GUpdateStationKeys
        /\ m.timers = a.timers - 1 /\ m.Disconnect = a.Disconnect
        /\ m.TimeoutCtr = a.TimeoutCtr /\ m.GTimeoutCtr = a.GTimeoutCtr
    BY <1>1 DEF AtRest, SmFields
  <1> HIDE DEF m
  <1>5. /\ m.PTK_valid \in BOOLEAN /\ m.GUpdateStationKeys \in BOOLEAN
        /\ m.GUpdateStationKeys => m.grp = "REKEYNEGOTIATING"
    BY <1>1, <1>4 DEF AtRest
  <1>6. StaOk(m, sup[s], down[s], up[s])
    <2>1. Limits(m, sup[s].snonce)
      BY <1>1, <1>3, <1>4 DEF Limits
    <2>2. QED
      BY <1>1, <1>4, <1>5, <2>1, SmLike
  <1>7. ev \subseteq {"TimeoutEvt"}
    OBVIOUS
  <1> HIDE DEF ev
  <1>8. PICK x \in wpa_sm_step(Work(m, group, ev, ok)) :
           Commit(s, sms, x) /\ down' = [down EXCEPT ![s] = Air(down[s], x.out)]
    BY <1>2
  <1>9. StaOk(x.sm, sup[s], Air(down[s], x.out), up[s]) /\ GroupTyped(x.group)
    BY <1>1, <1>8, <1>6, <1>7, WakeKeeps
  <1>10. /\ Only(s, sup', sup, sup[s]) /\ Only(s, up', up, up[s])
        /\ Only(s, down', down, Air(down[s], x.out))
    BY <1>1, <1>8, <1>3, OnlyOne
  <1>11. QED
    BY <1>1, <1>8, <1>9, <1>10, CommitKeeps

\* A new PTK is asked for, by the timer or by the station.
LEMMA PtkRequestKeeps ==
    ASSUME KeyInv, NEW s \in Stations, RekeyPtk(s) \/ ReceivePtkRequest(s)
    PROVE  KeyInv'
  <1> DEFINE a == sms[s]
  <1>1. /\ StaOk(a, sup[s], down[s], up[s]) /\ AtRest(a) /\ Fine(sms, sup, down, up)
        /\ DOMAIN sup = Stations /\ DOMAIN down = Stations /\ DOMAIN up = Stations
        /\ Limits(a, sup[s].snonce) /\ GroupTyped(group)
    BY StaFacts
  <1>2. ASSUME NEW m, SmTyped(m), ~m.PTK_valid, m.ptk = a.ptk, m.grp = a.grp,
               m.GUpdateStationKeys = a.GUpdateStationKeys, Limits(m, sup[s].snonce),
               NEW p, AirOk(sup[s], down[s], p), Short(p), Only(s, up', up, p), sup' = sup,
               NEW ok, NEW x \in wpa_sm_step(Work(m, group, {"PTKRequest"}, ok)),
               Commit(s, sms, x), down' = [down EXCEPT ![s] = Air(down[s], x.out)]
        PROVE  KeyInv'
    <2>1. /\ m.ptk # "PTKCALCNEGOTIATING"
          /\ m.GUpdateStationKeys => m.grp = "REKEYNEGOTIATING"
      BY <1>1, <1>2 DEF AtRest
    <2>2. "PTKRequest" \in Asks
      BY DEF Asks
    <2>3. StaOk(x.sm, sup[s], Air(down[s], x.out), p) /\ GroupTyped(x.group)
      BY <1>1, <1>2, <2>1, <2>2, DropKeeps
    <2>4. Only(s, sup', sup, sup[s]) /\ Only(s, down', down, Air(down[s], x.out))
      BY <1>1, <1>2, OnlyOne
    <2>5. QED
      BY <1>1, <1>2, <2>3, <2>4, CommitKeeps
  <1>3. ASSUME NEW m, m = [a EXCEPT !.ptk_rekey = FALSE, !.PTK_valid = FALSE]
                      \/ m = [a EXCEPT !.timers = 0, !.PTK_valid = FALSE]
        PROVE  /\ SmTyped(m) /\ ~m.PTK_valid /\ m.ptk = a.ptk /\ m.grp = a.grp
               /\ m.GUpdateStationKeys = a.GUpdateStationKeys /\ Limits(m, sup[s].snonce)
    <2> HIDE DEF a
    <2>1. /\ m = [f \in SmFields |-> m[f]] /\ m.PTK = a.PTK /\ m.PTK_valid = FALSE
          /\ m.ptk = a.ptk /\ m.grp = a.grp /\ m.GUpdateStationKeys = a.GUpdateStationKeys
          /\ m.timers \in {a.timers, 0} /\ m.Disconnect = a.Disconnect
          /\ m.TimeoutCtr = a.TimeoutCtr /\ m.GTimeoutCtr = a.GTimeoutCtr
      BY <1>1, <1>3 DEF AtRest, SmFields
    <2>2. m.PTK_valid \in BOOLEAN /\ ~m.PTK_valid
      BY <2>1
    <2>3. Limits(m, sup[s].snonce)
      BY <1>1, <2>1 DEF Limits
    <2>4. QED
      BY <1>1, <2>1, <2>2, <2>3 DEF AtRest, SmTyped
  <1>4. CASE RekeyPtk(s)
    <2> DEFINE m == [a EXCEPT !.ptk_rekey = FALSE, !.PTK_valid = FALSE]
    <2>1. PICK ok \in Oks : \E x \in wpa_sm_step(Work(m, group, {"PTKRequest"}, ok)) :
             Commit(s, sms, x) /\ down' = [down EXCEPT ![s] = Air(down[s], x.out)]
      BY <1>4 DEF RekeyPtk
    <2>2. sup' = sup /\ up' = up
      BY <1>4 DEF RekeyPtk
    <2>3. Only(s, up', up, up[s])
      BY <1>1, <2>2, OnlyOne
    <2>4. /\ SmTyped(m) /\ ~m.PTK_valid /\ m.ptk = a.ptk /\ m.grp = a.grp
          /\ m.GUpdateStationKeys = a.GUpdateStationKeys /\ Limits(m, sup[s].snonce)
      BY <1>3
    <2> HIDE DEF a, m
    <2>5. AirOk(sup[s], down[s], up[s]) /\ Short(up[s])
      BY <1>1 DEF StaOk
    <2>6. QED
      BY <1>2, <2>1, <2>2, <2>3, <2>4, <2>5
  <1>5. CASE ReceivePtkRequest(s)
    <2> DEFINE m == [a EXCEPT !.timers = 0, !.PTK_valid = FALSE]
    <2>1. PICK ok \in Oks : \E x \in wpa_sm_step(Work(m, group, {"PTKRequest"}, ok)) :
             Commit(s, sms, x) /\ down' = [down EXCEPT ![s] = Air(down[s], x.out)]
      BY <1>5 DEF ReceivePtkRequest
    <2>2. sup' = sup /\ up' = [up EXCEPT ![s] = Tail(up[s])] /\ up[s] # <<>>
      BY <1>5 DEF ReceivePtkRequest
    <2>3. Only(s, up', up, Tail(up[s]))
      BY <1>1, <2>2, OnlyOne
    <2>4. /\ SmTyped(m) /\ ~m.PTK_valid /\ m.ptk = a.ptk /\ m.grp = a.grp
          /\ m.GUpdateStationKeys = a.GUpdateStationKeys /\ Limits(m, sup[s].snonce)
      BY <1>3
    <2> HIDE DEF a, m
    <2>5. AirOk(sup[s], down[s], Tail(up[s])) /\ Short(Tail(up[s]))
      BY <1>1, <2>2, TakeUp DEF StaOk
    <2>6. QED
      BY <1>2, <2>1, <2>2, <2>3, <2>4, <2>5
  <1>6. QED
    BY <1>4, <1>5

\* An answer that is accepted.
LEMMA ReceiveAnswerKeeps ==
    ASSUME KeyInv, NEW s \in Stations, ReceiveAnswer(s)
    PROVE  KeyInv'
  <1> DEFINE a == sms[s]
             q == up[s]
             f == Head(q)
             n == IF f.type = "2/4" THEN a ELSE [a EXCEPT !.timers = 0]
             rx == IF f.type = "2/2" THEN "group" ELSE "pairwise"
  <1>1. /\ StaOk(a, sup[s], down[s], q) /\ AtRest(a) /\ Fine(sms, sup, down, up)
        /\ DOMAIN sup = Stations /\ DOMAIN down = Stations /\ DOMAIN up = Stations
        /\ Limits(a, sup[s].snonce) /\ GroupTyped(group)
    BY StaFacts
  <1>2. PICK ok \in Oks :
           \E x \in wpa_sm_step([Work(n, group, {}, ok) EXCEPT !.snonce = f.mic, !.rx = rx]) :
              /\ Commit(s, sms, x)
              /\ down' = [down EXCEPT ![s] = Air(MarkInvalid(down[s]), x.out)]
    BY DEF ReceiveAnswer
  <1>3. q # <<>> /\ f.type \in Answers /\ Accepted(s, f)
    BY DEF ReceiveAnswer
  <1>4. sup' = sup /\ up' = [up EXCEPT ![s] = MarkInvalid(Tail(q))]
    BY DEF ReceiveAnswer
  <1>5. /\ f.fresh
        /\ \/ f.type = "2/4" /\ a.ptk = "PTKSTART"
           \/ f.type = "4/4" /\ a.ptk = "PTKINITNEGOTIATING" /\ a.PTK_valid /\ f.mic = a.PTK
           \/ f.type = "2/2" /\ a.PTK_valid
    BY <1>3 DEF Accepted, MicOk, Answers, Requests
  <1>6. f = Head(q) /\ rx = IF f.type = "2/2" THEN "group" ELSE "pairwise"
    OBVIOUS
  <1> HIDE DEF a, q, f, rx
  <1>7. /\ n = [h \in SmFields |-> n[h]] /\ n.ptk = a.ptk /\ n.PTK = a.PTK
        /\ n.PTK_valid = a.PTK_valid /\ n.grp = a.grp
        /\ n.GUpdateStationKeys = a.GUpdateStationKeys
        /\ n.timers \in {a.timers, 0} /\ n.Disconnect = a.Disconnect
        /\ n.TimeoutCtr = a.TimeoutCtr /\ n.GTimeoutCtr = a.GTimeoutCtr
    <2>1. CASE f.type = "2/4"
      BY <1>1, <2>1 DEF AtRest
    <2>2. CASE f.type # "2/4"
      BY <1>1, <2>2 DEF AtRest, SmFields
    <2>3. QED
      BY <2>1, <2>2
  <1> HIDE DEF n
  <1>8. SmTyped(n) /\ Limits(n, sup[s].snonce)
    BY <1>1, <1>7 DEF AtRest, SmTyped, Limits
  <1>9. PICK x \in wpa_sm_step([Work(n, group, {}, ok) EXCEPT !.snonce = f.mic, !.rx = rx]) :
           /\ Commit(s, sms, x)
           /\ down' = [down EXCEPT ![s] = Air(MarkInvalid(down[s]), x.out)]
    BY <1>2
  <1>10. /\ StaOk(x.sm, sup[s], Air(MarkInvalid(down[s]), x.out), MarkInvalid(Tail(q)))
         /\ GroupTyped(x.group)
    BY <1>1, <1>3, <1>5, <1>6, <1>7, <1>8, AnswerKeeps
  <1>11. /\ Only(s, sup', sup, sup[s]) /\ Only(s, up', up, MarkInvalid(Tail(q)))
         /\ Only(s, down', down, Air(MarkInvalid(down[s]), x.out))
    BY <1>1, <1>4, <1>9, OnlyOne
  <1>12. QED
    BY <1>1, <1>9, <1>10, <1>11, CommitKeeps

\* The station has left.
LEMMA ReceiveLeaveKeeps ==
    ASSUME KeyInv, NEW s \in Stations, ReceiveLeave(s)
    PROVE  KeyInv'
  <1> DEFINE a == sms[s]
             m == [a EXCEPT !.assoc = FALSE]
             q == Tail(up[s])
  <1>1. /\ StaOk(a, sup[s], down[s], up[s]) /\ AtRest(a) /\ Fine(sms, sup, down, up)
        /\ DOMAIN sup = Stations /\ DOMAIN down = Stations /\ DOMAIN up = Stations
        /\ DOMAIN sms = Stations /\ Limits(a, sup[s].snonce) /\ GroupTyped(group)
    BY StaFacts
  <1>2. up[s] # <<>> /\ sup' = sup /\ up' = [up EXCEPT ![s] = q]
    BY DEF ReceiveLeave
  <1>3. StaOk(a, sup[s], down[s], q)
    BY <1>1, <1>2, TakeUp
  <1>4. AirOk(sup[s], down[s], q) /\ Short(q)
    BY <1>3 DEF StaOk
  <1>5. Only(s, sup', sup, sup[s]) /\ Only(s, up', up, q)
    BY <1>1, <1>2, OnlyOne
  <1>6. CASE ~Known(s)
    <2>1. sms' = sms /\ down' = down /\ group' = group
      BY <1>6 DEF ReceiveLeave
    <2>2. Only(s, sms', sms, a) /\ Only(s, down', down, down[s])
      BY <1>1, <2>1, OnlyOne
    <2> HIDE DEF a, q
    <2>3. QED
      BY <1>1, <1>3, <1>5, <2>1, <2>2, StaMoves
  <1>7. CASE Known(s)
    <2> DEFINE ev == {"DeauthenticationRequest"}
    <2>1. PICK ok \in Oks :
             \E x \in wpa_sm_step(wpa_remove_ptk(Work(m, group, ev, ok))) :
                /\ Commit(s, sms, x) \/ Commit(s, sms, [GroupDone(x) EXCEPT !.sm = NoSm])
                /\ down' = [down EXCEPT ![s] = Air(down[s], x.out)]
      BY <1>7 DEF ReceiveLeave
    <2> HIDE DEF a, q
    <2>2. /\ m = [f \in SmFields |-> m[f]] /\ m.ptk = a.ptk /\ m.PTK = a.PTK
          /\ m.PTK_valid = a.PTK_valid /\ m.grp = a.grp
          /\ m.GUpdateStationKeys = a.GUpdateStationKeys /\ SameCounters(m, a)
      BY <1>1 DEF AtRest, SmFields, SameCounters
    <2> HIDE DEF m
    <2>3. AtRest(m) /\ Limits(m, sup[s].snonce)
      BY <1>1, <2>2 DEF AtRest, Limits, SameCounters
    <2>4. PICK x \in wpa_sm_step(wpa_remove_ptk(Work(m, group, ev, ok))) :
             /\ Commit(s, sms, x) \/ Commit(s, sms, [GroupDone(x) EXCEPT !.sm = NoSm])
             /\ down' = [down EXCEPT ![s] = Air(down[s], x.out)]
      BY <2>1
    <2>5. StaOk(x.sm, sup[s], Air(down[s], x.out), q) /\ Shape(x) /\ GroupTyped(x.group)
      BY <1>1, <1>4, <2>3, <2>4, LeaveKeeps
    <2>6. Only(s, down', down, Air(down[s], x.out))
      BY <1>1, <2>4, OnlyOne
    <2>7. CASE Commit(s, sms, x)
      BY <1>1, <1>5, <2>5, <2>6, <2>7, CommitKeeps
    <2>8. CASE Commit(s, sms, [GroupDone(x) EXCEPT !.sm = NoSm])
      <3>1. \/ sms' = [sms EXCEPT ![s] = NoSm]
            \/ sms' = [Marked(sms) EXCEPT ![s] = NoSm]
        <4> DEFINE y == GroupDone(x)
                   z == [y EXCEPT !.sm = NoSm]
        <4>1. "sm" \in DOMAIN y
          BY <2>5 DEF Shape, WorkFields, GroupDone
        <4>2. Commit(s, sms, z)
          BY <2>8
        <4> HIDE DEF y
        <4>3. z.sm = NoSm
          BY <4>1
        <4> HIDE DEF z
        <4>4. QED
          BY <4>2, <4>3 DEF Commit
      <3>2. DOMAIN Marked(sms) = Stations
        BY DEF Marked
      <3>3. Only(s, sms', sms, NoSm) \/ Only(s, sms', Marked(sms), NoSm)
        BY <1>1, <3>1, <3>2, OnlyOne
      <3>4. /\ AirOk(sup[s], Air(down[s], x.out), q)
            /\ Short(Air(down[s], x.out)) /\ Short(q)
        BY <2>5 DEF StaOk
      <3>5. StaOk(NoSm, sup[s], Air(down[s], x.out), q)
        BY <3>4, NoSmOk
      <3>6. GroupTyped(group')
        <4>1. group' = GroupDone(x).group
          BY <2>5, <2>8 DEF Commit, Shape, WorkFields, GroupDone
        <4>2. Recounted(GroupDone(x).group, x.group)
          BY <2>5 DEF Recounted, GroupDone, Shape, WorkFields
        <4>3. QED
          BY <2>5, <4>1, <4>2, RecountedTyped
      <3>7. QED
        BY <1>1, <1>5, <2>6, <3>3, <3>5, <3>6, StaMoves
    <2>9. QED
      BY <2>4, <2>7, <2>8
  <1>8. QED
    BY <1>6, <1>7

\* A station associates, or does so again.
LEMMA JoinKeeps ==
    ASSUME KeyInv, NEW s \in Stations, Associate(s)
    PROVE  KeyInv'
  <1> DEFINE a == sms[s]
             k == sup[s]
             m == IF Known(s) THEN [a EXCEPT !.assoc = TRUE] ELSE NewSm
             u == [k EXCEPT !.on = TRUE, !.tptk = 0, !.ptk = 0, !.renew = TRUE,
                            !.gtk = <<0, 0>>]
  <1>1. /\ AtRest(a) /\ SupOk(k) /\ Fine(sms, sup, down, up)
        /\ DOMAIN sup = Stations /\ DOMAIN down = Stations /\ DOMAIN up = Stations
        /\ Limits(a, k.snonce) /\ k.snonce \in Nat /\ GroupTyped(group)
    BY StaFacts
  <1>2. PICK ok \in Oks :
           \E w \in wpa_sm_step(wpa_remove_ptk(Work(m, group, {}, ok))) :
              \E x \in wpa_sm_step(Reauth(w, a.assoc)) :
                 Commit(s, sms, x) /\ down' = [down EXCEPT ![s] = Air(<<>>, x.out)]
    BY DEF Associate
  <1>3. sup' = [sup EXCEPT ![s] = u]
    BY <1>1 DEF Associate
  <1>4. up' = [up EXCEPT ![s] = <<>>]
    BY DEF Associate
  <1>5. AtRest(m) /\ Limits(m, k.snonce)
    <2>1. CASE Known(s)
      <3> DEFINE b == [a EXCEPT !.assoc = TRUE]
      <3>1. m = b
        BY <2>1
      <3> HIDE DEF a, m
      <3>2. /\ b = [f \in SmFields |-> b[f]] /\ b.ptk = a.ptk /\ b.PTK = a.PTK
            /\ b.PTK_valid = a.PTK_valid /\ b.grp = a.grp
            /\ b.GUpdateStationKeys = a.GUpdateStationKeys /\ SameCounters(b, a)
        BY <1>1 DEF AtRest, SmFields, SameCounters
      <3> HIDE DEF b
      <3>3. AtRest(b) /\ Limits(b, k.snonce)
        BY <1>1, <3>2 DEF AtRest, Limits, SameCounters
      <3>4. QED
        BY <3>1, <3>3
    <2>2. CASE ~Known(s)
      <3>1. m = NewSm
        BY <2>2
      <3> HIDE DEF m
      <3>2. /\ NewSm = [f \in SmFields |-> NewSm[f]] /\ NewSm.PTK = 0 /\ ~NewSm.PTK_valid
            /\ NewSm.ptk = "INITIALIZE" /\ NewSm.grp = "IDLE" /\ ~NewSm.GUpdateStationKeys
            /\ NewSm.PTK_valid \in BOOLEAN /\ NewSm.GUpdateStationKeys \in BOOLEAN
        BY DEF NewSm, SmFields
      <3>3. AtRest(NewSm)
        BY <3>2 DEF AtRest, Keyed
      <3>4. /\ NewSm.timers = 0 /\ NewSm.TimeoutCtr = 0 /\ NewSm.GTimeoutCtr = 0
            /\ NewSm.Disconnect \in BOOLEAN
        BY DEF NewSm
      <3>5. Limits(NewSm, k.snonce)
        BY <1>1, <3>2, <3>4, CountAssumption DEF Limits
      <3>6. QED
        BY <3>1, <3>3, <3>5
    <2>3. QED
      BY <2>1, <2>2
  <1> HIDE DEF a, k, m
  <1>6. AirOk(u, <<>>, <<>>) /\ u.snonce = k.snonce
    BY <1>1, NewSupOk DEF SupOk, SupFields
  <1> HIDE DEF u
  <1>7. PICK w \in wpa_sm_step(wpa_remove_ptk(Work(m, group, {}, ok))) :
           \E x \in wpa_sm_step(Reauth(w, a.assoc)) :
              Commit(s, sms, x) /\ down' = [down EXCEPT ![s] = Air(<<>>, x.out)]
    BY <1>2
  <1>8. PICK x \in wpa_sm_step(Reauth(w, a.assoc)) :
           Commit(s, sms, x) /\ down' = [down EXCEPT ![s] = Air(<<>>, x.out)]
    BY <1>7
  <1>9. StaOk(x.sm, u, Air(<<>>, x.out), <<>>) /\ GroupTyped(x.group)
    BY <1>1, <1>5, <1>6, AssociateKeeps
  <1>10. /\ Only(s, sup', sup, u) /\ Only(s, up', up, <<>>)
         /\ Only(s, down', down, Air(<<>>, x.out))
    BY <1>1, <1>3, <1>4, <1>8, OnlyOne
  <1>11. QED
    BY <1>1, <1>8, <1>9, <1>10, CommitKeeps

\* The group key is replaced, by the timer or because a station asks for it.
LEMMA GtkKeeps ==
    ASSUME KeyInv, RekeyGtk \/ \E s \in Stations : ReceiveGtkRequest(s)
    PROVE  KeyInv'
  <1>1. CASE RekeyGtk
    <2>1. PICK ok \in Oks : LET r == wpa_rekey_gtk(sms, group, down, ok)
                            IN  sms' = r.sms /\ group' = r.group /\ down' = r.down
      BY <1>1 DEF RekeyGtk
    <2>2. sup' = sup /\ up' = up
      BY <1>1 DEF RekeyGtk
    <2> DEFINE r == wpa_rekey_gtk(sms, group, down, ok)
    <2>3. Fine(r.sms, sup, r.down, up) /\ GroupTyped(r.group)
      BY RekeyAll DEF KeyInv
    <2>4. sms' = r.sms /\ group' = r.group /\ down' = r.down
      BY <2>1
    <2> HIDE DEF r
    <2>5. Fine(sms', sup', down', up') /\ GroupTyped(group')
      BY <2>2, <2>3, <2>4
    <2>6. QED
      BY <2>5, KeyInvNext
  <1>2. ASSUME NEW s \in Stations, ReceiveGtkRequest(s) PROVE KeyInv'
    <2> DEFINE a == sms[s]
               m == [a EXCEPT !.timers = 0]
               ms == [sms EXCEPT ![s] = m]
               q == Tail(up[s])
               qs == [up EXCEPT ![s] = q]
    <2>1. /\ StaOk(a, sup[s], down[s], up[s]) /\ AtRest(a) /\ Fine(sms, sup, down, up)
          /\ DOMAIN sup = Stations /\ DOMAIN down = Stations /\ DOMAIN up = Stations
          /\ DOMAIN sms = Stations /\ Limits(a, sup[s].snonce) /\ GroupTyped(group)
      BY StaFacts
    <2>2. PICK ok \in Oks : LET r == wpa_rekey_gtk(ms, group, down, ok) IN
             \E x \in wpa_sm_step(Work(r.sms[s], r.group, {}, ok)) :
                Commit(s, r.sms, x) /\ down' = [r.down EXCEPT ![s] = Air(r.down[s], x.out)]
      BY <1>2 DEF ReceiveGtkRequest
    <2>3. up[s] # <<>> /\ sup' = sup /\ up' = qs
      BY <1>2 DEF ReceiveGtkRequest
    <2>4. StaOk(a, sup[s], down[s], q)
      BY <2>1, <2>3, TakeUp
    <2>5. ms = [sms EXCEPT ![s] = m] /\ qs = [up EXCEPT ![s] = q]
      OBVIOUS
    <2> HIDE DEF a, q, ms, qs
    <2>6. /\ m = [f \in SmFields |-> m[f]] /\ m.ptk = a.ptk /\ m.PTK = a.PTK
          /\ m.PTK_valid = a.PTK_valid /\ m.grp = a.grp
          /\ m.GUpdateStationKeys = a.GUpdateStationKeys
          /\ m.timers = 0 /\ m.Disconnect = a.Disconnect
          /\ m.TimeoutCtr = a.TimeoutCtr /\ m.GTimeoutCtr = a.GTimeoutCtr
      BY <2>1 DEF AtRest, SmFields
    <2> HIDE DEF m
    <2>7. /\ m.PTK_valid \in BOOLEAN /\ m.GUpdateStationKeys \in BOOLEAN
          /\ m.GUpdateStationKeys => m.grp = "REKEYNEGOTIATING"
      BY <2>1, <2>6 DEF AtRest
    <2>8. StaOk(m, sup[s], down[s], q)
      <3>1. Limits(m, sup[s].snonce)
        BY <2>1, <2>6 DEF Limits
      <3>2. QED
        BY <2>4, <2>6, <2>7, <3>1, SmLike
    <2>9. /\ DOMAIN ms = Stations /\ DOMAIN qs = Stations /\ ms[s] = m /\ qs[s] = q
          /\ \A t \in Stations \ {s} : ms[t] = sms[t] /\ qs[t] = up[t]
      BY <2>1, <2>5
    <2>10. StaOk(ms[s], sup[s], down[s], qs[s])
      BY <2>8, <2>9
    <2>11. Fine(ms, sup, down, qs)
      BY <2>1, <2>9, <2>10, OneMoves
    <2> DEFINE r == wpa_rekey_gtk(ms, group, down, ok)
               rs == r.sms
               rd == r.down
               rg == r.group
               b == rs[s]
               ev == {}
    <2>12. Fine(rs, sup, rd, qs) /\ GroupTyped(rg)
      BY <2>1, <2>11, RekeyAll
    <2>13. PICK x \in wpa_sm_step(Work(b, rg, ev, ok)) :
              Commit(s, rs, x) /\ down' = [rd EXCEPT ![s] = Air(rd[s], x.out)]
      BY <2>2
    <2>14. ev \subseteq {"TimeoutEvt"}
      OBVIOUS
    <2> HIDE DEF r, rs, rd, rg, ev
    <2>15. /\ StaOk(b, sup[s], rd[s], q) /\ DOMAIN rd = Stations /\ DOMAIN rs = Stations
      BY <2>9, <2>12 DEF Fine
    <2> HIDE DEF b
    <2>16. StaOk(x.sm, sup[s], Air(rd[s], x.out), q) /\ GroupTyped(x.group)
      BY <2>12, <2>13, <2>14, <2>15, WakeKeeps
    <2>17. /\ Only(s, sup', sup, sup[s]) /\ Only(s, up', qs, q)
           /\ Only(s, down', rd, Air(rd[s], x.out))
      BY <2>1, <2>3, <2>9, <2>13, <2>15, OnlyOne
    <2>18. QED
      BY <2>12, <2>13, <2>16, <2>17, CommitKeeps
  <1>3. QED
    BY <1>1, <1>2

\* The sm of a station is touched or forgotten without a step of its machines.
LEMMA ForgetKeeps ==
    ASSUME KeyInv, NEW s \in Stations, Inactive(s) \/ Free(s)
    PROVE  KeyInv'
  <1> DEFINE a == sms[s]
             m == [a EXCEPT !.assoc = FALSE]
  <1>1. /\ StaOk(a, sup[s], down[s], up[s]) /\ AtRest(a) /\ Fine(sms, sup, down, up)
        /\ AirOk(sup[s], down[s], up[s])
        /\ DOMAIN sup = Stations /\ DOMAIN down = Stations /\ DOMAIN up = Stations
        /\ DOMAIN sms = Stations /\ Limits(a, sup[s].snonce)
        /\ Short(down[s]) /\ Short(up[s]) /\ GroupTyped(group)
    BY StaFacts
  <1>2. sup' = sup /\ down' = down /\ up' = up
    BY DEF Inactive, Free
  <1>3. sms' = [sms EXCEPT ![s] = m] \/ sms' = [sms EXCEPT ![s] = NoSm]
    BY DEF Inactive, Free
  <1>4. StaOk(NoSm, sup[s], down[s], up[s])
    BY <1>1, NoSmOk
  <1> HIDE DEF a
  <1>5. /\ m = [f \in SmFields |-> m[f]] /\ m.ptk = a.ptk /\ m.PTK = a.PTK
        /\ m.PTK_valid = a.PTK_valid /\ m.grp = a.grp
        /\ m.GUpdateStationKeys = a.GUpdateStationKeys /\ SameCounters(m, a)
    BY <1>1 DEF AtRest, SmFields, SameCounters
  <1> HIDE DEF m
  <1>6. /\ m.PTK_valid \in BOOLEAN /\ m.GUpdateStationKeys \in BOOLEAN
        /\ m.GUpdateStationKeys => m.grp = "REKEYNEGOTIATING"
    BY <1>1, <1>5 DEF AtRest
  <1>7. StaOk(m, sup[s], down[s], up[s])
    <2>1. Limits(m, sup[s].snonce)
      BY <1>1, <1>5 DEF Limits, SameCounters
    <2>2. QED
      BY <1>1, <1>5, <1>6, <2>1, SmLike
  <1>8. Only(s, sms', sms, m) \/ Only(s, sms', sms, NoSm)
    BY <1>1, <1>3, OnlyOne
  <1>9. Only(s, sup', sup, sup[s]) /\ Only(s, down', down, down[s]) /\ Only(s, up', up, up[s])
    BY <1>1, <1>2, OnlyOne
  <1>10. GroupTyped(group')
    <2>1. group' = group \/ Recounted(group', group)
      BY DEF Inactive, Free, GroupDone, Work, Recounted
    <2>2. QED
      BY <1>1, <2>1, RecountedTyped
  <1>11. QED
    BY <1>1, <1>4, <1>7, <1>8, <1>9, <1>10, StaMoves

\* Frames are lost or dropped.
LEMMA LostKeeps ==
    ASSUME KeyInv, NEW s \in Stations, LoseDown(s) \/ LoseUp(s) \/ ReceiveDropped(s)
    PROVE  KeyInv'
  <1> DEFINE a == sms[s]
             u == sup[s]
             d == down[s]
             q == up[s]
  <1>1. /\ StaOk(a, u, d, q) /\ Fine(sms, sup, down, up)
        /\ DOMAIN sup = Stations /\ DOMAIN down = Stations /\ DOMAIN up = Stations
        /\ DOMAIN sms = Stations /\ GroupTyped(group)
    BY StaFacts
  <1>2. /\ sms' = sms /\ sup' = sup /\ group' = group
        /\ \/ d # <<>> /\ down' = [down EXCEPT ![s] = Tail(d)] /\ up' = up
           \/ q # <<>> /\ down' = down /\ up' = [up EXCEPT ![s] = Tail(q)]
    BY DEF LoseDown, LoseUp, ReceiveDropped
  <1>3. Only(s, sms', sms, a) /\ Only(s, sup', sup, u)
    BY <1>1, <1>2, OnlyOne
  <1>4. \/ d # <<>> /\ Only(s, down', down, Tail(d)) /\ Only(s, up', up, q)
        \/ q # <<>> /\ Only(s, down', down, d) /\ Only(s, up', up, Tail(q))
    BY <1>1, <1>2, OnlyOne
  <1> HIDE DEF a, u, d, q
  <1>5. (d # <<>> => StaOk(a, u, Tail(d), q)) /\ (q # <<>> => StaOk(a, u, d, Tail(q)))
    BY <1>1, LossKeeps, TakeUp
  <1>6. QED
    BY <1>1, <1>2, <1>3, <1>4, <1>5, StaMoves

\* The access point does not notice what the station does.
LEMMA SupMoves ==
    ASSUME KeyInv, NEW s \in Stations, NEW u, NEW d, NEW q,
           sms' = sms, group' = group,
           Only(s, sup', sup, u), Only(s, down', down, d), Only(s, up', up, q),
           AirOk(u, d, q), Short(d), Short(q), sup[s].snonce <= u.snonce,
           \A valid, ptk, k : KeyOk(valid, ptk, k, sup[s], down[s], up[s])
                                 => KeyOk(valid, ptk, k, u, d, q)
    PROVE  KeyInv'
  <1> DEFINE a == sms[s]
  <1>1. /\ AtRest(a) /\ KeyOk(a.PTK_valid, a.ptk, a.PTK, sup[s], down[s], up[s])
        /\ Fine(sms, sup, down, up) /\ DOMAIN sms = Stations
        /\ Limits(a, sup[s].snonce) /\ sup[s].snonce \in Nat /\ GroupTyped(group)
    BY StaFacts
  <1>2. Only(s, sms', sms, a)
    BY <1>1, OnlyOne
  <1> HIDE DEF a
  <1>3. u.snonce \in Nat
    BY DEF AirOk, SupOk
  <1>4. Limits(a, u.snonce)
    BY <1>1, <1>3 DEF Limits
  <1>5. StaOk(a, u, d, q)
    BY <1>1, <1>4 DEF StaOk
  <1>6. QED
    BY <1>1, <1>2, <1>5, StaMoves

\* The station sends without having been asked.
LEMMA SpeaksKeeps ==
    ASSUME KeyInv, NEW s \in Stations, KeyRequest(s) \/ Leave(s)
    PROVE  KeyInv'
  <1> DEFINE u == sup[s]
             d == down[s]
             q == up[s]
             w == wpa_sm_notify_disassoc(u)
  <1>1. /\ AirOk(u, d, q) /\ SupOk(u)
        /\ DOMAIN sup = Stations /\ DOMAIN down = Stations /\ DOMAIN up = Stations
        /\ Short(d) /\ u.snonce \in Nat
    BY StaFacts
  <1>2. sms' = sms /\ down' = down /\ group' = group
    BY DEF KeyRequest, Leave
  <1>3. Only(s, down', down, d)
    BY <1>1, <1>2, OnlyOne
  <1>4. CASE KeyRequest(s)
    <2>1. PICK kind \in Requests : up' = [up EXCEPT ![s] = Air(q, <<Frame(kind, u.ptk, 0, 0)>>)]
      BY <1>4 DEF KeyRequest
    <2>2. sup' = sup
      BY <1>4 DEF KeyRequest
    <2> DEFINE f == Frame(kind, u.ptk, 0, 0)
               p == Air(q, <<f>>)
    <2>3. Only(s, sup', sup, u) /\ Only(s, up', up, p)
      BY <1>1, <2>1, <2>2, OnlyOne
    <2> HIDE DEF u, d, q
    <2>4. IsFrame(f) /\ f.type = kind /\ f.mic = u.ptk
      BY <1>1 DEF Frame, IsFrame, FrameFields, SupOk
    <2> HIDE DEF f
    <2>5. FromSta(u, f) /\ f.type # "2/4"
      BY <1>1, <2>4 DEF FromSta, SupOk, Requests
    <2>6. /\ AirOk(u, d, p) /\ Short(p)
          /\ \A valid, ptk, k : KeyOk(valid, ptk, k, u, d, q) => KeyOk(valid, ptk, k, u, d, p)
      BY <1>1, <2>4, <2>5, SendUp
    <2>7. u.snonce <= u.snonce
      BY <1>1
    <2> HIDE DEF p
    <2>8. QED
      BY <1>1, <1>2, <1>3, <2>3, <2>6, <2>7, SupMoves DEF u, d, q
  <1>5. CASE Leave(s)
    <2>1. PICK how \in {"deauth", "disassoc"} :
             up' = [up EXCEPT ![s] = Air(q, <<Frame(how, 0, 0, 0)>>)]
      BY <1>5 DEF Leave
    <2>2. sup' = [sup EXCEPT ![s] = w]
      BY <1>5 DEF Leave
    <2> DEFINE f == Frame(how, 0, 0, 0)
               p == Air(q, <<f>>)
    <2>3. Only(s, sup', sup, w) /\ Only(s, up', up, p)
      BY <1>1, <2>1, <2>2, OnlyOne
    <2> HIDE DEF u, d, q
    <2>4. /\ AirOk(w, d, q) /\ w.snonce = u.snonce
          /\ \A valid, ptk, k : KeyOk(valid, ptk, k, u, d, q) => KeyOk(valid, ptk, k, w, d, q)
      BY <1>1, OffKeeps
    <2> HIDE DEF w
    <2>5. IsFrame(f) /\ f.type = how
      BY DEF Frame, IsFrame, FrameFields
    <2> HIDE DEF f
    <2>6. FromSta(w, f) /\ f.type # "2/4"
      BY <2>5 DEF FromSta
    <2>7. /\ AirOk(w, d, p) /\ Short(p)
          /\ \A valid, ptk, k : KeyOk(valid, ptk, k, w, d, q) => KeyOk(valid, ptk, k, w, d, p)
      BY <2>4, <2>5, <2>6, SendUp
    <2>8. \A valid, ptk, k : KeyOk(valid, ptk, k, u, d, q) => KeyOk(valid, ptk, k, w, d, p)
      BY <2>4, <2>7
    <2>9. u.snonce <= w.snonce
      BY <1>1, <2>4
    <2> HIDE DEF p
    <2>10. QED
      BY <1>1, <1>2, <1>3, <2>3, <2>7, <2>8, <2>9, SupMoves DEF u, d, q
  <1>6. QED
    BY <1>4, <1>5

\* The station takes a frame.
LEMMA SupKeeps ==
    ASSUME KeyInv, NEW s \in Stations, wpa_sm_rx_eapol(s)
    PROVE  KeyInv'
  <1> DEFINE u == sup[s]
             d == down[s]
             q == up[s]
             m == Head(d)
  <1>1. /\ AirOk(u, d, q) /\ SupOk(u)
        /\ DOMAIN sup = Stations /\ DOMAIN down = Stations /\ DOMAIN up = Stations
        /\ Short(d) /\ u.snonce \in Nat
    BY StaFacts
  <1>2. d # <<>> /\ u.on
    BY DEF wpa_sm_rx_eapol
  <1>3. ASSUME NEW w, NEW frames, Take(s, w, frames), AirOk(w, Tail(d), Air(q, frames)),
               Short(Air(q, frames)), u.snonce <= w.snonce,
               \A valid, ptk, k :
                  KeyOk(valid, ptk, k, u, d, q) => KeyOk(valid, ptk, k, w, Tail(d), Air(q, frames))
        PROVE  KeyInv'
    <2>1. /\ sms' = sms /\ group' = group
          /\ sup' = [sup EXCEPT ![s] = w] /\ down' = [down EXCEPT ![s] = Tail(d)]
          /\ up' = [up EXCEPT ![s] = Air(q, frames)]
      BY <1>3 DEF Take
    <2>2. /\ Only(s, sup', sup, w) /\ Only(s, down', down, Tail(d))
          /\ Only(s, up', up, Air(q, frames))
      BY <1>1, <2>1, OnlyOne
    <2> DEFINE e == Tail(d)
               p == Air(q, frames)
    <2>3. /\ AirOk(w, e, p) /\ Only(s, down', down, e) /\ Only(s, up', up, p)
          /\ \A valid, ptk, k : KeyOk(valid, ptk, k, sup[s], down[s], up[s])
                                   => KeyOk(valid, ptk, k, w, e, p)
          /\ Short(p) /\ sup[s].snonce <= w.snonce
      BY <1>3, <2>2
    <2>4. Short(e)
      BY <1>1, <1>2, QueueTail DEF AirOk
    <2> HIDE DEF e, p
    <2>5. QED
      BY <2>1, <2>2, <2>3, <2>4, SupMoves
  <1>4. CASE m.type = "1/4" /\ Process1of4(s, m)
    <2> DEFINE n == IF u.renew THEN u.snonce + 1 ELSE u.snonce
               w == [u EXCEPT !.snonce = n, !.renew = FALSE, !.tptk = n]
    <2>1. Take(s, w, <<Reply(m, "2/4", n)>>)
      BY <1>4 DEF Process1of4
    <2> HIDE DEF u, d, q
    <2>2. /\ AirOk(w, Tail(d), Air(q, <<Reply(m, "2/4", n)>>))
          /\ Short(Air(q, <<Reply(m, "2/4", n)>>)) /\ u.snonce <= w.snonce
          /\ \A valid, ptk, k : KeyOk(valid, ptk, k, u, d, q)
                => KeyOk(valid, ptk, k, w, Tail(d), Air(q, <<Reply(m, "2/4", n)>>))
      BY <1>1, <1>2, <1>4, Takes1of4
    <2> HIDE DEF m, n, w
    <2>3. QED
      BY <1>3, <2>1, <2>2
  <1>5. CASE m.type = "3/4" /\ Process3of4(s, m)
    <2> DEFINE v == Verified(u, m)
               g == [v.gtk EXCEPT ![m.idx] = m.gtk]
               w == [v EXCEPT !.renew = TRUE, !.msg_3_of_4_ok = TRUE, !.gtk = g]
    <2>1. /\ v.ptk # 0 /\ m.mic = v.ptk
          /\ Take(s, [v EXCEPT !.renew = TRUE, !.msg_3_of_4_ok = TRUE, !.gtk[m.idx] = m.gtk],
                  <<Reply(m, "4/4", v.ptk)>>)
      BY <1>5 DEF Process3of4
    <2>2. IsFrame(m) /\ ToSta(u, m)
      BY <1>1, <1>2, TakeDown
    <2>3. v = [f \in SupFields |-> v[f]] /\ v.snonce = u.snonce
      BY <1>1, <1>5, <2>1, <2>2, Verifies DEF ToSta
    <2> HIDE DEF u, d, q
    <2>4. /\ AirOk(w, Tail(d), Air(q, <<Reply(m, "4/4", v.ptk)>>))
          /\ Short(Air(q, <<Reply(m, "4/4", v.ptk)>>))
          /\ \A valid, ptk, k : KeyOk(valid, ptk, k, u, d, q)
                => KeyOk(valid, ptk, k, w, Tail(d), Air(q, <<Reply(m, "4/4", v.ptk)>>))
      BY <1>1, <1>2, <1>5, <2>1, Takes3of4
    <2> HIDE DEF v, m
    <2>5. w = [v EXCEPT !.renew = TRUE, !.msg_3_of_4_ok = TRUE, !.gtk[m.idx] = m.gtk]
      BY <2>3 DEF SupFields
    <2>6. Take(s, w, <<Reply(m, "4/4", v.ptk)>>)
      BY <2>1, <2>5
    <2>7. u.snonce <= w.snonce
      <3>1. w.snonce = v.snonce
        BY <2>3 DEF SupFields
      <3> HIDE DEF w
      <3>2. QED
        BY <1>1, <2>3, <3>1
    <2> HIDE DEF w
    <2>8. QED
      BY <1>3, <2>4, <2>6, <2>7
  <1>6. CASE m.type = "1/2" /\ Process1of2(s, m)
    <2> DEFINE g == [u.gtk EXCEPT ![m.idx] = m.gtk]
               w == [u EXCEPT !.gtk = g]
               o == wpa_sm_notify_disassoc(u)
               e == Tail(d)
               f == <<Reply(m, "2/2", u.ptk)>>
               h == <<Reply(m, "deauth", 0)>>
    <2>1. /\ Verified(u, m) = u /\ AirOk(u, e, Air(q, f)) /\ AirOk(u, e, Air(q, h))
          /\ Short(Air(q, f)) /\ Short(Air(q, h))
          /\ \A valid, ptk, k :
                KeyOk(valid, ptk, k, u, d, q) => /\ KeyOk(valid, ptk, k, u, e, Air(q, f))
                                                 /\ KeyOk(valid, ptk, k, u, e, Air(q, h))
      BY <1>1, <1>2, <1>6, Takes1of2
    <2>2. Take(s, w, f) \/ Take(s, o, h)
      BY <1>6, <2>1 DEF Process1of2
    <2> HIDE DEF u, d, q, m, g, e, f, h
    <2>3. /\ AirOk(w, e, Air(q, f)) /\ AirOk(o, e, Air(q, h))
          /\ w.snonce = u.snonce /\ o.snonce = u.snonce
          /\ \A valid, ptk, k :
                /\ KeyOk(valid, ptk, k, u, e, Air(q, f)) => KeyOk(valid, ptk, k, w, e, Air(q, f))
                /\ KeyOk(valid, ptk, k, u, e, Air(q, h)) => KeyOk(valid, ptk, k, o, e, Air(q, h))
      BY <2>1, SameSup, OffKeeps
    <2> HIDE DEF w, o
    <2>4. \A valid, ptk, k :
             KeyOk(valid, ptk, k, u, d, q) => /\ KeyOk(valid, ptk, k, w, e, Air(q, f))
                                              /\ KeyOk(valid, ptk, k, o, e, Air(q, h))
      BY <2>1, <2>3
    <2>5. u.snonce <= w.snonce /\ u.snonce <= o.snonce
      BY <1>1, <2>3
    <2>6. QED
      BY <1>3, <2>1, <2>2, <2>3, <2>4, <2>5 DEF e
  <1>7. CASE m.type = "deauth" /\ Take(s, wpa_sm_notify_disassoc(u), <<>>)
    <2> DEFINE o == wpa_sm_notify_disassoc(u)
               e == Tail(d)
               p == Air(q, <<>>)
    <2> HIDE DEF u, d, q, m
    <2>1. /\ AirOk(u, e, q)
          /\ \A valid, ptk, k : KeyOk(valid, ptk, k, u, d, q) => KeyOk(valid, ptk, k, u, e, q)
      BY <1>1, <1>2, TakeDown
    <2>2. IsQueue(p) /\ Part(p, q) /\ IsQueue(e) /\ Part(e, e) /\ Short(p)
      <3>1. IsQueue(q) /\ IsQueue(<<>>) /\ IsQueue(e)
        BY <1>1, <2>1 DEF AirOk, IsQueue
      <3>2. q \o <<>> = q
        BY <3>1, QueueJoin
      <3>3. QED
        BY <3>1, <3>2, QueueAir, PartSelf
    <2> HIDE DEF e, p
    <2>3. /\ AirOk(u, e, p)
          /\ \A valid, ptk, k : KeyOk(valid, ptk, k, u, e, q) => KeyOk(valid, ptk, k, u, e, p)
      BY <2>1, <2>2, PartKeeps
    <2>4. /\ AirOk(o, e, p) /\ o.snonce = u.snonce
          /\ \A valid, ptk, k : KeyOk(valid, ptk, k, u, e, p) => KeyOk(valid, ptk, k, o, e, p)
      BY <2>3, OffKeeps
    <2>5. Take(s, o, <<>>)
      BY <1>7
    <2> HIDE DEF o
    <2>6. \A valid, ptk, k : KeyOk(valid, ptk, k, u, d, q) => KeyOk(valid, ptk, k, o, e, p)
      BY <2>1, <2>3, <2>4
    <2>7. u.snonce <= o.snonce
      BY <1>1, <2>4
    <2>8. QED
      BY <1>3, <2>2, <2>4, <2>5, <2>6, <2>7 DEF e, p
  <1>8. QED
    BY <1>4, <1>5, <1>6, <1>7 DEF wpa_sm_rx_eapol

-----------------------------------------------------------------------------
(* The theorems. *)

\* At first no station is known and nothing is on the air.
LEMMA KeyInvInit == Init => KeyInv
  <1> SUFFICES ASSUME Init PROVE KeyInv
    OBVIOUS
  <1> DEFINE u == [on |-> FALSE, snonce |-> 0, renew |-> TRUE, tptk |-> 0, ptk |-> 0,
                   msg_3_of_4_ok |-> FALSE, gtk |-> <<0, 0>>]
  <1>1. /\ DOMAIN sms = Stations /\ DOMAIN sup = Stations
        /\ DOMAIN down = Stations /\ DOMAIN up = Stations
        /\ \A s \in Stations : sms[s] = NoSm /\ sup[s] = u /\ down[s] = <<>> /\ up[s] = <<>>
    BY DEF Init
  <1>2. /\ u = [f \in SupFields |-> u[f]] /\ u.tptk = 0 /\ u.snonce = 0 /\ u.ptk = 0
        /\ u.on = FALSE /\ u.renew = TRUE
    BY DEF SupFields
  <1> HIDE DEF u
  <1>3. u.on \in BOOLEAN /\ u.renew \in BOOLEAN /\ u.renew
    BY <1>2
  <1>4. Used(u, u.ptk) /\ u.snonce \in Nat /\ u.ptk \in Nat
    BY <1>2, <1>3 DEF Used
  <1>5. SupOk(u)
    BY <1>2, <1>3, <1>4, NothingTemporary
  <1>6. Len(<<>>) = 0 /\ 1 .. 0 = {} /\ IsQueue(<<>>)
    BY DEF IsQueue
  <1>7. DownOk(u, <<>>) /\ UpOk(u, <<>>) /\ NoMic(<<>>)
    BY <1>6 DEF DownOk, UpOk, NoMic
  <1>8. AirOk(u, <<>>, <<>>)
    BY <1>5, <1>6, <1>7 DEF AirOk
  <1>9. StaOk(NoSm, u, <<>>, <<>>)
    <2>1. Short(<<>>)
      BY <1>6, CountAssumption DEF Short
    <2>2. QED
      BY <1>8, <2>1, NoSmOk
  <1>10. GroupTyped(group)
    BY DEF Init, GroupTyped, GroupFields
  <1>11. QED
    BY <1>1, <1>9, <1>10 DEF KeyInv, Fine

\* Every step keeps the invariant.
LEMMA KeyInvStep == KeyInv /\ [Next]_vars => KeyInv'
  <1> SUFFICES ASSUME KeyInv, [Next]_vars PROVE KeyInv'
    OBVIOUS
  <1>1. CASE UNCHANGED vars
    <2>1. Fine(sms', sup', down', up') /\ GroupTyped(group')
      BY <1>1 DEF vars, KeyInv
    <2>2. QED
      BY <2>1, KeyInvNext
  <1>2. CASE Next
    BY <1>2, TimeoutKeeps, PtkRequestKeeps, ReceiveAnswerKeeps, ReceiveLeaveKeeps, JoinKeeps,
       GtkKeeps, ForgetKeeps, LostKeeps, SpeaksKeeps, SupKeeps DEF Next, Receive
  <1>3. QED
    BY <1>1, <1>2

\* The two sides of every 4-way handshake, and the frames between them, are in
\* agreement in every state.
THEOREM KeysInvariance == Spec => []KeyInv
  BY KeyInvInit, KeyInvStep, PTL DEF Spec

\* While the port of an associated station is open the authenticator has the PTK
\* that the station itself uses, whatever was lost, repeated or begun again, for
\* any number of stations, any retry limits and any number of frames on the air
\* (wpa_auth.c installs the PTK from the last SNonce it accepted, wpa.c the one it
\* offered when it verifies 3/4).
THEOREM KeysEqual == Spec => []KeysAgree
  <1>1. KeyInv => KeysAgree
    <2> SUFFICES ASSUME KeyInv, NEW s \in Stations, sms[s].ptk = "PTKINITDONE", sup[s].on
                 PROVE  sms[s].PTK_valid /\ sup[s].ptk = sms[s].PTK
      BY DEF KeysAgree
    <2>1. /\ AtRest(sms[s])
          /\ KeyOk(sms[s].PTK_valid, sms[s].ptk, sms[s].PTK, sup[s], down[s], up[s])
      BY StaFacts
    <2>2. sms[s].PTK_valid
      BY <2>1 DEF AtRest, Keyed
    <2>3. QED
      BY <2>1, <2>2 DEF KeyOk, Held
  <1>2. QED
    BY <1>1, KeysInvariance, PTL

\* Between two handlers the machines of every station rest, their counters are
\* within their limits and no key is newer than the last that the station chose,
\* for any number of stations and any limits: nine turns of the loop of
\* wpa_sm_step always reach the end of a handler's work, and the group counts no
\* fewer than no stations and no more than there are.
THEOREM TypeCorrect == Spec => []TypeOK
  <1>1. ASSUME KeyInv, group.GKeyDoneStations \in 0 .. Cardinality(Stations)
        PROVE  TypeOK
    <2>1. ASSUME NEW s \in Stations
          PROVE  /\ AtRest(sms[s]) /\ Limits(sms[s], sup[s].snonce)
                 /\ Short(down[s]) /\ Short(up[s])
      BY <1>1, StaFacts
    <2>2. GroupTyped(group)
      BY <1>1 DEF KeyInv
    <2>3. QED
      BY <1>1, <2>1, <2>2 DEF TypeOK, AtRest, Limits, Short, GroupTyped
  <1>2. QED
    BY <1>1, KeysInvariance, CountInRange, PTL

=============================================================================
