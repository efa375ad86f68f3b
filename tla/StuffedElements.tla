--------------------------- MODULE StuffedElements --------------------------
(***************************************************************************)
(* The way of one frame through its elements, with the widths and the      *)
(* limits of the code: main.c cuts a slice off the message and packs it    *)
(* into vendor IEs (get_n_ies_reqd, split_data, create_vendor_ie), the     *)
(* kernel puts them between its own, hostapd walks the frame and collects  *)
(* the stuffed ones into ten slots, joins them, prints a csv line of at    *)
(* most 499 characters for tcpclient, and answers with an ack IE that the  *)
(* client's get_ack finds by the same kind of walk.                        *)
(*                                                                         *)
(* An element is known by its offset in the frame, its length byte (modulo *)
(* 256) and the bytes it really holds.  Its data is a slice of the message *)
(* for IE1..N, characters for IE0 and the ack.  A walk that follows a wrong*)
(* length byte lands where no element starts: it is "lost".                *)
(***************************************************************************)
EXTENDS Integers, Sequences, SequencesExt

CONSTANTS
    MsgLens,     \* lengths of the messages
    Seqs,        \* sequence numbers
    FragMax,     \* ies_max_data_size
    ChunkMax,    \* data bytes of a vendor IE, 252 as built
    SlotMax,     \* stuffed_data[10]
    CsvMax,      \* calloc(500)
    LineMax,     \* longest line of the prompt: fgets(.., 200, ..) reads 199
    Before,      \* length bytes of the elements before the stuffed ones in a
    After        \* frame (SSID, rates, ...), and of those after

ASSUME LensAreNat == MsgLens \subseteq Nat \ {0}
ASSUME SeqsFitEightDigits == Seqs \subseteq 0 .. 99999999
ASSUME LimitsAreNat ==
    {FragMax, ChunkMax, SlotMax, CsvMax, LineMax} \subseteq Nat \ {0}
ASSUME OthersFitAByte == \A i \in DOMAIN Before : Before[i] \in 0 .. 255
ASSUME AfterFitAByte == \A i \in DOMAIN After : After[i] \in 0 .. 255

VARIABLES
    stage,         \* "read", "pack", "walk", "join", "relay", "heard", "lost"
    msg_len,       \* the message, of which this frame takes the first slice
    seq_num,
    data_len,      \* strlen(data), the slice
    n_ies,
    ies,           \* the elements packed so far, then those of the frame
    pos,           \* hostapd's offset into the frame
    slots,         \* stuffed_data: the elements collected
    record,        \* what hostapd makes of them
    ack            \* ack_seq_num at the client

vars == <<stage, msg_len, seq_num, data_len, n_ies, ies, pos, slots, record, ack>>

Least(a, b) == IF a <= b THEN a ELSE b
Byte(n) == n % 256

-----------------------------------------------------------------------------
(* Numbers as text. *)

\* sprintf("%d")
Decimal[n \in Nat] == IF n < 10 THEN <<n>> ELSE Append(Decimal[n \div 10], n % 10)

\* sprintf("%08d")
Decimal8(n) == LET d == Decimal[n] IN [i \in 1 .. 8 - Len(d) |-> 0] \o d

\* atoi
atoi(s) == FoldLeft(LAMBDA v, d : 10 * v + d, 0, s)

\* data_origin_ts_str: eighteen digits nobody converts back.
Timestamp == [i \in 1 .. 18 |-> 7]

-----------------------------------------------------------------------------
(* Elements. *)

\* A vendor IE for n bytes of data: id, length, OUI, data.  stuffed is what
\* hostapd sees by the OUI; data is a slice [from, len] or characters.
create_vendor_ie(data, n) ==
    [stuffed |-> TRUE, elen |-> Byte(3 + n), size |-> 2 + 3 + n, data |-> data]

Other(elen) ==
    [stuffed |-> FALSE, elen |-> elen, size |-> 2 + elen, data |-> <<>>]

Others(lens) == [i \in DOMAIN lens |-> Other(lens[i])]

Size(els) == FoldLeft(LAMBDA v, e : v + e.size, 0, els)

\* The offset at which element i of a frame starts.
Offset(els, i) == Size(SubSeq(els, 1, i - 1))

\* Which elements start at offset p: one, or none after a wrong length byte.
StartsAt(els, p) == {i \in DOMAIN els : Offset(els, i) = p}

-----------------------------------------------------------------------------

Init ==
    /\ stage = "read"
    /\ msg_len \in MsgLens /\ seq_num \in Seqs
    /\ data_len = 0 /\ n_ies = 0
    /\ ies = <<>> /\ pos = 0 /\ slots = <<>>
    /\ record = <<>>
    /\ ack = -1

TakeAll(len) == len   \* mutant: the message is not cut

\* The part of the message that goes into this frame.
Take(len) == Least(len, FragMax)

get_n_ies_reqd(len) ==
    IF len % ChunkMax = 0 THEN len \div ChunkMax ELSE len \div ChunkMax + 1

\* IE0 holds the sequence number, the timestamp and the more-fragment bit.
BuildFirst ==
    /\ stage = "read"
    /\ data_len' = Take(msg_len)
    /\ n_ies' = get_n_ies_reqd(Take(msg_len))
    /\ ies' = <<create_vendor_ie(
                   Decimal8(seq_num) \o Timestamp
                       \o <<IF msg_len > FragMax THEN 1 ELSE 0>>, 27)>>
    /\ stage' = "pack"
    /\ UNCHANGED <<msg_len, seq_num, pos, slots, record, ack>>

ChunkLastFull(i) ==   \* mutant: the last chunk is taken from the end of the data
    [from |-> IF i < n_ies THEN (i - 1) * ChunkMax ELSE data_len - ChunkMax,
     len |-> IF i < n_ies THEN ChunkMax ELSE data_len - (n_ies - 1) * ChunkMax]

\* Chunk i of split_data: all are full but the last, which has the rest.
Chunk(i) ==
    [from |-> (i - 1) * ChunkMax,
     len |-> IF i < n_ies THEN ChunkMax ELSE data_len - (n_ies - 1) * ChunkMax]

\* The loop over create_vendor_ie.
PackChunk ==
    /\ stage = "pack"
    /\ Len(ies) <= n_ies
    /\ ies' = Append(ies, create_vendor_ie(Chunk(Len(ies)), Chunk(Len(ies)).len))
    /\ UNCHANGED <<stage, msg_len, seq_num, data_len, n_ies, pos, slots, record, ack>>

\* The kernel builds the probe request, and hostapd starts on it.
Transmit ==
    /\ stage = "pack"
    /\ Len(ies) = n_ies + 1
    /\ ies' = Others(Before) \o ies \o Others(After)
    /\ pos' = 0
    /\ stage' = "walk"
    /\ UNCHANGED <<msg_len, seq_num, data_len, n_ies, slots, record, ack>>

-----------------------------------------------------------------------------
(* hostapd *)

Left == Size(ies) - pos

\* The elements whose length byte stays within the frame.
Whole == {i \in StartsAt(ies, pos) : ies[i].elen <= Left - 2}

\* A stuffed element goes to the next slot; one of less than four bytes is
\* passed over (ieee802_11_parse_vendor_specific).
Collect(e) ==
    IF e.stuffed /\ e.elen >= 4
    THEN Append(slots, [len |-> e.elen, data |-> e.data]) ELSE slots

\* One turn of ieee802_11_parse_elems.  Where no element starts, or one reaches
\* beyond the frame, it is at best ParseFailed.
ParseElement ==
    /\ stage = "walk"
    /\ Left > 0
    /\ IF Left >= 2 /\ Whole # {}
       THEN LET e == ies[CHOOSE i \in Whole : TRUE] IN
            slots' = Collect(e) /\ pos' = pos + 2 + e.elen /\ UNCHANGED stage
       ELSE stage' = "lost" /\ UNCHANGED <<slots, pos>>
    /\ UNCHANGED <<msg_len, seq_num, data_len, n_ies, ies, record, ack>>

ParseDone ==
    /\ stage = "walk"
    /\ Left = 0
    /\ stage' = "join"
    /\ UNCHANGED <<msg_len, seq_num, data_len, n_ies, ies, pos, slots, record, ack>>

\* ies_len, the printed data_length.
SlotsLen == FoldLeft(LAMBDA v, s : v + s.len - 3, 0, Tail(slots))

\* The csv line but for its data: MAC address, timestamps, numbers, commas.
CsvPrefix == 17 + 1 + 18 + 1 + 18 + 1 + 8 + 3 + 1 + 1 + Len(Decimal[SlotsLen]) + 1

KeptUncut == SlotsLen   \* mutant: sprintf instead of snprintf

\* What snprintf leaves of the data.
Kept == Least(CsvPrefix + SlotsLen, CsvMax - 1) - CsvPrefix

\* handle_probe_req joins the slots and takes IE0 apart, by position.  The
\* record keeps the pieces of data in order.
Join ==
    /\ stage = "join"
    /\ slots # <<>>
    /\ LET head == Head(slots).data IN
       record' = [seq |-> SubSeq(head, 1, 8), ts |-> SubSeq(head, 9, 26),
                  mfb |-> head[27], pieces |-> [i \in 1 .. Len(slots) - 1 |->
                                                   slots[i + 1].data],
                  data_length |-> SlotsLen, kept |-> Kept]
    /\ stage' = "relay"
    /\ UNCHANGED <<msg_len, seq_num, data_len, n_ies, ies, pos, slots, ack>>

AckElementLong(n) ==   \* mutant: ie_ack[1] = ie_ack_len
    LET text == Decimal[n] IN
    [stuffed |-> TRUE, elen |-> Byte(Len(text) + 5), size |-> 5 + Len(text),
     data |-> text]

\* ie_ack
AckElement(n) == create_vendor_ie(Decimal[n], Len(Decimal[n]))

\* get_ack and extract_ack_from_vendor_ie: the walk over the elements els of a
\* response, from offset p, and the number it leaves behind.
AckWalk(els) ==
    LET Walk[p \in 0 .. Size(els), cur \in Nat \cup {-1}] ==
            IF Size(els) - p < 2 THEN cur
            ELSE IF StartsAt(els, p) = {} THEN -1
            ELSE LET e == els[CHOOSE i \in StartsAt(els, p) : TRUE]
                     q == p + e.elen + 2 IN
                 IF Size(els) - p < e.elen \/ q > Size(els) THEN -1
                 ELSE Walk[q, IF e.stuffed /\ e.elen >= 4
                              THEN atoi(SubSeq(e.data, 1, e.elen - 3)) ELSE cur]
    IN Walk[0, -1]

\* The response carries hostapd's own elements and the ack IE at the end.
Respond ==
    /\ stage = "relay"
    /\ ack' = AckWalk(Append(Others(Before), AckElement(atoi(record.seq))))
    /\ stage' = "heard"
    /\ UNCHANGED <<msg_len, seq_num, data_len, n_ies, ies, pos, slots, record>>

Next ==
    \/ BuildFirst \/ PackChunk \/ Transmit
    \/ ParseElement \/ ParseDone
    \/ Join \/ Respond

Spec == Init /\ [][Next]_vars

-----------------------------------------------------------------------------
(* Properties. *)

\* The elements of a frame never outnumber the slots that hostapd keeps them
\* in.  (ieee802_11_common.c:171 does not test n_stuffed_ies; that seven
\* elements are enough follows from main.c:129 and utils.c:231.)
SlotsSuffice == Len(slots) <= SlotMax

\* For every length of the slice, multiples of 252 and the full frame included,
\* hostapd finds every element where it is, and the pieces it joins are the
\* slice: in order, without a gap, as long as data_length says; IE0 gives back
\* the sequence number and the bit.  (utils.c:67-93, 206-237, main.c:165-220;
\* ieee802_11_common.c:170-226; beacon.c:747-795.)
Reassembled ==
    /\ stage # "lost"
    /\ stage \in {"relay", "heard"} =>
          /\ \A i \in DOMAIN record.pieces :
                record.pieces[i].from =
                    FoldLeft(LAMBDA v, p : v + p.len, 0, SubSeq(record.pieces, 1, i - 1))
          /\ record.data_length = data_len
          /\ FoldLeft(LAMBDA v, p : v + p.len, 0, record.pieces) = data_len
          /\ atoi(record.seq) = seq_num
          /\ record.mfb = 1 <=> msg_len > FragMax

\* The csv line cuts the data of long frames while data_length still gives the
\* whole length; it never grows past its buffer, and it leaves alone every line
\* that can come from the prompt.  (beacon.c:840-848, main.c:76-78.)
RecordFits ==
    stage \in {"relay", "heard"} =>
        /\ record.kept <= record.data_length
        /\ CsvPrefix + record.kept < CsvMax
        /\ data_len <= LineMax => record.kept = data_len

\* The number the client reads out of the ack IE is the one it sent, whatever
\* its number of digits.  (beacon.c:811-837, utils.c:96-117, 153-177.)
AckReadBack == stage = "heard" => ack = seq_num
=============================================================================
