----------------------------- MODULE PcapStream -----------------------------
(***************************************************************************)
(* From a capture to the stream of packets that the emulator reads: a MAWI *)
(* trace that was downloaded in part is cut (scripts/mawi_slice.py), its   *)
(* records are parsed (dgrade/pcap.py) and put in the order of their       *)
(* times (g2_mawi.load_day); PeerRush captures are whole, and several are  *)
(* laid over each other (g1_netbeacon.build_stream).                       *)
(*                                                                         *)
(* A record is its time, its captured length and what the parser looks at  *)
(* in it: vlan, type ("ipv4" or another), ihl5, frag, proto.  The file is  *)
(* the records one after the other, the last one perhaps cut.              *)
(***************************************************************************)
EXTENDS Integers, SequencesExt, FiniteSetsExt, TLC

CONSTANTS
    Days,           \* MAWI traces: sequences of records
    Cuts,           \* bytes of the last record that the download lacks
    Seconds,        \* the slice that is asked for, in the unit of the times
    Captures,       \* sequences of PeerRush captures
    AddressSpace    \* the addresses of one capture in the stream: 1 << 24

RecordHeader == 16

VARIABLES
    files,          \* the captures that become one stream
    cut,            \* bytes missing of the last record; -1 for PeerRush
    step,           \* "slice", "read" or "done"
    at, ends,       \* slice_pcap: records read so far, records kept
    stats,          \* what read_pcap has counted of each file
    stream          \* the packets: [file, rec, ts, src]

pcapVars == <<files, cut, step, at, ends, stats, stream>>

IsDay == cut # -1
raw == files[1]

Whole(i) == i < Len(raw) \/ cut <= 0

\* pos + 16 <= len(raw): the header of record i is all there.
HeaderThere(i) == i < Len(raw) \/ cut <= raw[i].caplen

PcapInit ==
    /\ \/ files \in {<<d>> : d \in Days} /\ cut \in Cuts /\ step = "slice"
       \/ files \in Captures /\ cut = -1 /\ step = "read"
    /\ at = 0 /\ ends = 0 /\ stats = <<>> /\ stream = <<>>

-----------------------------------------------------------------------------
(* slice_pcap.                                                             *)

\* Slip: a record whose header is there is taken to be there.
HeaderOnly(i) == HeaderThere(i)

Readable(i) == HeaderThere(i) /\ Whole(i)

\* Slip: the slice ends before the first record that is out of the window.
KeptAsPrefix(i) ==
    IF ends = i - 1 /\ raw[i].ts - raw[1].ts <= Seconds THEN i ELSE ends

\* kept_end: after the last record so far that lies in the window.
KeptEnd(i) == IF raw[i].ts - raw[1].ts <= Seconds THEN i ELSE ends

SliceRecord ==
    /\ step = "slice" /\ at < Len(raw) /\ Readable(at + 1)
    /\ at' = at + 1 /\ ends' = KeptEnd(at + 1)
    /\ UNCHANGED <<files, cut, step, stats, stream>>

\* A trace without a whole record has no first time; the script fails there.
SliceEnd ==
    /\ step = "slice" /\ at > 0
    /\ at < Len(raw) => ~ Readable(at + 1)
    /\ step' = "read"
    /\ UNCHANGED <<files, cut, at, ends, stats, stream>>

-----------------------------------------------------------------------------
(* read_pcap: a record goes into the first class that fits.                *)

EtherLen(r) == IF r.vlan THEN 18 ELSE 14

\* The type of a tagged frame is read only if the tag is in the record.
TypeSeen(r) == IF r.caplen >= EtherLen(r) THEN r.type ELSE "none"

IpLen(r) == r.caplen - EtherLen(r)

\* Slip: as much is asked of TCP as of UDP.
NeedPorts(r) == 28

Need(r) == IF r.proto = "tcp" THEN 40 ELSE 28

Class(r) ==
    CASE TypeSeen(r) # "ipv4" \/ IpLen(r) < 20 -> "not_ipv4"
      [] ~ r.ihl5 -> "ip_options"
      [] r.frag -> "fragment"
      [] r.proto \notin {"tcp", "udp"} -> "not_tcp_udp"
      [] IpLen(r) < Need(r) -> "truncated"
      [] OTHER -> "kept"

Classes == {"not_ipv4", "ip_options", "fragment", "not_tcp_udp", "truncated", "kept"}

Records(k) == 1 .. (IF IsDay THEN ends ELSE Len(files[k]))
Kept(k) == SelectSeq([i \in Records(k) |-> i], LAMBDA i : Class(files[k][i]) = "kept")

\* Slip: the address is moved, but not cut to its low bits.
Moved(k, src) == src + k * AddressSpace

\* build_stream keeps the low bits of an address, and a prefix per capture.
Split(k, src) == (src % AddressSpace) + k * AddressSpace

Packets(k) ==
    LET first == Min({files[k][i].ts : i \in Range(Kept(k))})
    IN [p \in DOMAIN Kept(k) |->
           LET r == files[k][Kept(k)[p]] IN
           [file |-> k, rec |-> Kept(k)[p], ts |-> r.ts - first, src |-> IF IsDay THEN r.src ELSE Split(k, r.src)]]

\* A stable sort of the packets, file after file.
Before(p, q) ==
    \/ p.ts < q.ts
    \/ p.ts = q.ts /\ (p.file < q.file \/ (p.file = q.file /\ p.rec < q.rec))

\* A capture of which nothing is kept has no first packet; numpy raises.
Read ==
    /\ step = "read" /\ \A k \in DOMAIN files : Kept(k) # <<>>
    /\ stats' = [k \in DOMAIN files |->
                    [c \in Classes |-> Cardinality({i \in Records(k) : Class(files[k][i]) = c})]]
    /\ stream' = SortSeq(FlattenSeq([k \in DOMAIN files |-> Packets(k)]), Before)
    /\ step' = "done"
    /\ UNCHANGED <<files, cut, at, ends>>

PcapNext == SliceRecord \/ SliceEnd \/ Read

PcapSpec == PcapInit /\ [][PcapNext]_pcapVars
-----------------------------------------------------------------------------
(* Properties.                                                             *)

Record(p) == files[p.file][p.rec]
InStream(k, i) == \E p \in Range(stream) : p.file = k /\ p.rec = i

\* The last byte of a header field that read_pcap takes of a packet: l4 + 15 of
\* TCP, l4 + 5 of UDP.
FieldsUpTo(r) == EtherLen(r) + 20 + (IF r.proto = "tcp" THEN 16 ELSE 6)

\* Every field of a packet comes from the bytes of the packet's own record, and
\* those were all downloaded.
ReadsOwnBytes ==
    \A p \in Range(stream) : (IsDay => Whole(p.rec)) /\ FieldsUpTo(Record(p)) <= Record(p).caplen

\* "Keeps only what NetBeacon's parser accepts ... Everything else is counted
\* and dropped."
AcceptedByParser(r) == r.type = "ipv4" /\ r.ihl5 /\ ~ r.frag /\ r.proto \in {"tcp", "udp"}

\* "Keeps the packets whose timestamp is within SECONDS of the first packet":
\* none that was downloaded whole is missing, though the times of a trace go
\* back; the others are counted once; the emulator gets its packets in time.
SliceCoversWindow ==
    step = "done" =>
       /\ IsDay => \A i \in DOMAIN raw :
             Whole(i) /\ raw[i].ts - raw[1].ts <= Seconds /\ Class(raw[i]) = "kept" => InStream(1, i)
       /\ \A k \in DOMAIN files :
             /\ FoldSet(LAMBDA c, n : n + stats[k][c], 0, Classes) = Cardinality(Records(k))
             /\ \A i \in Records(k) : InStream(k, i) => AcceptedByParser(files[k][i])
       /\ \A n \in DOMAIN stream \ {1} : stream[n - 1].ts <= stream[n].ts

\* "Split by capture": no address occurs in the packets of two captures, so no
\* flow has two labels.
CapturesStayApart ==
    \A p, q \in Range(stream) : p.src = q.src => p.file = q.file
=============================================================================
