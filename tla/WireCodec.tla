------------------------------- MODULE WireCodec -------------------------------
(***************************************************************************)
(* The bytes on the wire: what every codec writes for a payload, what it   *)
(* refuses to write, and what it reads back from bytes of any origin.  A   *)
(* packet is a sequence of bytes.  Hashes, XOR sums and the checksum of a  *)
(* delta are taken as given, they are bytes like any others.               *)
(***************************************************************************)
EXTENDS Integers, Sequences

CONSTANT Crc(_)  \* crc_hqx from 0xFFFF

Byte == 0 .. 255

\* _bounded: the value can be written.
Bounded(value, low, high) == low <= value /\ value <= high

\* The value of a field of 32 bits, compared in halves.
FitsLong(n) == n >= 0 /\ n \div 65536 <= 65535

\* The bytes of a number, the most significant first, are High, Low for 16
\* bits and Uppermost, Upper, Lower, Low for 32.
High(n) == n \div 256
Low(n) == n % 256
Uppermost(n) == n \div 16777216
Upper(n) == (n \div 65536) % 256
Lower(n) == (n \div 256) % 256

ReadWord(high, low) == high * 256 + low

ReadLong(a, b, c, d) == a * 16777216 + b * 65536 + c * 256 + d

\* What a decoder returns where it raises a WireFormatError.
Refused == [kind |-> "refused"]

\* b"".join: a header, and records that all have the same width.
Framed(header, records, width) ==
    [i \in 1 .. Len(header) + width * Len(records) |->
        IF i <= Len(header) THEN header[i]
        ELSE LET at == i - Len(header) - 1
             IN  records[(at \div width) + 1][(at % width) + 1]]

\* The records behind a header, cut at their offsets.
Cut(data, header, width, count) ==
    [k \in 1 .. count |-> [j \in 1 .. width |-> data[header + width * (k - 1) + j]]]

-----------------------------------------------------------------------------
\* One versioned cell: 13 bytes, of which two are the checksum of the others.

DeltaWidth == 13

StateOf(code) == IF code = 0 THEN "free" ELSE "blocked"

CodeOf(state) == IF state = "free" THEN 0 ELSE 1

\* The checks at the start of encode_delta.
DeltaFits(u) ==
    /\ Bounded(u.sender, 0, 255) /\ Bounded(u.x, 0, 255) /\ Bounded(u.y, 0, 255)
    /\ Bounded(u.version, 0, 65535) /\ FitsLong(u.time)
    /\ u.state \in {"free", "blocked"}

\* A payload says whether it wants an ACK (it has a task key, which is derived
\* from the update and the receiver) and whether it is a repair.
DeltaBody(p) ==
    <<16 + (IF p.ack THEN 1 ELSE 0) + (IF p.repair THEN 2 ELSE 0),
      p.update.sender, p.update.x, p.update.y, CodeOf(p.update.state),
      High(p.update.version), Low(p.update.version), Uppermost(p.update.time),
      Upper(p.update.time), Lower(p.update.time), Low(p.update.time)>>

Sealed(b, crc) ==
    <<b[1], b[2], b[3], b[4], b[5], b[6], b[7], b[8], b[9], b[10], b[11], High(crc), Low(crc)>>

Unsealed(b) == <<b[1], b[2], b[3], b[4], b[5], b[6], b[7], b[8], b[9], b[10], b[11]>>

EncodeDelta(p) == Sealed(DeltaBody(p), Crc(DeltaBody(p)))

Updated(data) ==
    [sender |-> data[2], x |-> data[3], y |-> data[4], state |-> StateOf(data[5]),
     version |-> ReadWord(data[6], data[7]),
     time |-> ReadLong(data[8], data[9], data[10], data[11])]

\* decode_delta, after the length: checksum, version and flags, state.
DeltaReads(data) ==
    /\ Len(data) = DeltaWidth
    /\ ReadWord(data[12], data[13]) = Crc(Unsealed(data))
    /\ data[1] \in 16 .. 19
    /\ data[5] \in {0, 1}

DecodeDelta(data) ==
    IF DeltaReads(data)
    THEN [update |-> Updated(data), ack |-> (data[1] % 2) = 1, repair |-> data[1] >= 18]
    ELSE Refused

-----------------------------------------------------------------------------
\* A patch: a header of four bytes and deltas without flags.

Plain(u) == [update |-> u, ack |-> FALSE, repair |-> FALSE]

PatchFits(updates) ==
    Bounded(Len(updates), 0, 65535) /\ \A i \in DOMAIN updates : DeltaFits(updates[i])

EncodePatch(updates) ==
    Framed(<<1, 0, High(Len(updates)), Low(Len(updates))>>,
           [i \in DOMAIN updates |-> EncodeDelta(Plain(updates[i]))], DeltaWidth)

\* The flags of a delta in a patch are read and dropped.
DecodePatch(data) ==
    LET count == ReadWord(data[3], data[4])
        records == Cut(data, 4, DeltaWidth, count)
    IN  IF Len(data) < 4 THEN Refused
        ELSE IF data[1] # 1 \/ data[2] # 0 \/ Len(data) # 4 + DeltaWidth * count THEN Refused
        ELSE IF \E i \in 1 .. count : ~DeltaReads(records[i]) THEN Refused
        ELSE [i \in 1 .. count |-> Updated(records[i])]

-----------------------------------------------------------------------------
\* A query: a header of 16 bytes and six bytes per cell, in which the fields
\* x:6 y:6 version:8 time:16 source:6 state:2 lie behind four zero bits.  They
\* meet the borders of bytes but for x and for source and state.

EntryWidth == 6

StampCodes == <<"unknown", "free", "blocked">>

EntryFits(e) ==
    /\ Bounded(e.x, 0, 63) /\ Bounded(e.y, 0, 63)
    /\ Bounded(e.version, 0, 255)
    /\ Bounded(e.time, -1, 65534)
    /\ Bounded(e.source, -1, 62)
    /\ e.state \in {"unknown", "free", "blocked"}

StampCode(state) == CHOOSE code \in 0 .. 2 : StampCodes[code + 1] = state

SourceCode(source) == IF source = -1 THEN 63 ELSE source

EncodeEntry(e) ==
    <<e.x \div 4, (e.x % 4) * 64 + e.y, e.version, High(e.time + 1), Low(e.time + 1),
      SourceCode(e.source) * 4 + StampCode(e.state)>>

EntryReads(data) == data[1] < 16 /\ data[6] % 4 < 3

DecodeEntry(data) ==
    IF EntryReads(data)
    THEN [x |-> data[1] * 4 + data[2] \div 64, y |-> data[2] % 64, version |-> data[3],
          time |-> ReadWord(data[4], data[5]) - 1,
          source |-> IF data[6] \div 4 = 63 THEN -1 ELSE data[6] \div 4,
          state |-> StampCodes[(data[6] % 4) + 1]]
    ELSE Refused

QueryFits(q) ==
    Bounded(Len(q.entries), 0, 65535) /\ \A i \in DOMAIN q.entries : EntryFits(q.entries[i])

EncodeQuery(q) ==
    Framed(<<1, (IF q.regional THEN 1 ELSE 0) + (IF q.action THEN 2 ELSE 0),
             High(Len(q.entries)), Low(Len(q.entries)), 0, 0, 0, 0, 0, 0, 0, 0, 0, 0, 0, 0>>,
           [i \in DOMAIN q.entries |-> EncodeEntry(q.entries[i])], EntryWidth)

DecodeQuery(data) ==
    LET count == ReadWord(data[3], data[4])
        records == Cut(data, 16, EntryWidth, count)
    IN  IF Len(data) < 16 THEN Refused
        ELSE IF \/ data[1] # 1 \/ data[2] > 3 \/ \E i \in 5 .. 16 : data[i] # 0
                \/ Len(data) # 16 + EntryWidth * count
        THEN Refused
        ELSE IF \E i \in 1 .. count : ~EntryReads(records[i]) THEN Refused
        ELSE [entries |-> [i \in 1 .. count |-> DecodeEntry(records[i])],
              regional |-> data[2] % 2 = 1, action |-> data[2] >= 2]

-----------------------------------------------------------------------------
\* The payloads of the reconciliation baselines.

ScuttleFits(maxima) ==
    /\ Len(maxima) <= 256
    /\ \A i \in DOMAIN maxima : FitsLong(maxima[i])

EncodeScuttle(maxima, reply) ==
    Framed(<<1, IF reply THEN 1 ELSE 0, High(Len(maxima)), Low(Len(maxima))>>,
           [i \in DOMAIN maxima |-> <<i - 1, Uppermost(maxima[i]), Upper(maxima[i]),
                                     Lower(maxima[i]), Low(maxima[i])>>], 5)

\* Sources must come in order, so that a digest has one encoding.
DecodeScuttle(data) ==
    LET count == ReadWord(data[3], data[4])
        records == Cut(data, 4, 5, count)
    IN  IF Len(data) < 4 THEN Refused
        ELSE IF data[1] # 1 \/ data[2] > 1 \/ Len(data) # 4 + 5 * count THEN Refused
        ELSE IF \E i \in 1 .. count : records[i][1] # i - 1 THEN Refused
        ELSE [maxima |-> [i \in 1 .. count |->
                ReadLong(records[i][2], records[i][3], records[i][4], records[i][5])],
              reply |-> data[2] = 1]

HashWidth == 16

NodeFits(node) == Bounded(node, 1, 65535)

EncodeProbe(node, digest) == <<1, 0, High(node), Low(node)>> \o digest

DecodeProbe(data) ==
    IF Len(data) # 20 THEN Refused
    ELSE IF data[1] # 1 \/ data[2] # 0 \/ ReadWord(data[3], data[4]) < 1 THEN Refused
    ELSE [node |-> ReadWord(data[3], data[4]), digest |-> SubSeq(data, 5, 20)]

ChildrenFit(node, digests) == NodeFits(node) /\ Bounded(Len(digests), 1, 255)

EncodeChildren(node, digests) ==
    Framed(<<1, Len(digests), High(node), Low(node)>>, digests, HashWidth)

DecodeChildren(data) ==
    IF Len(data) < 4 THEN Refused
    ELSE IF data[1] # 1 \/ data[2] < 1 \/ ReadWord(data[3], data[4]) < 1
            \/ Len(data) # 4 + HashWidth * data[2]
    THEN Refused
    ELSE [node |-> ReadWord(data[3], data[4]), digests |-> Cut(data, 4, HashWidth, data[2])]

EncodeMatch(node) == <<1, 0, High(node), Low(node)>>

DecodeMatch(data) ==
    IF Len(data) # 4 THEN Refused
    ELSE IF data[1] # 1 \/ data[2] # 0 \/ ReadWord(data[3], data[4]) < 1 THEN Refused
    ELSE [node |-> ReadWord(data[3], data[4])]

SketchFits(s) ==
    /\ Bounded(s.hashes, 2, 255)
    /\ Bounded(Len(s.cells), s.hashes, 65535)
    /\ \A i \in DOMAIN s.cells : Bounded(s.cells[i].count, -32768, 32767)

\* The count of a cell is signed; key and checksum are XOR sums of 21 bytes.
EncodeSketch(s) ==
    Framed(<<1, s.hashes, High(Len(s.cells)), Low(Len(s.cells)),
             Uppermost(s.seed), Upper(s.seed), Lower(s.seed), Low(s.seed)>>,
           [i \in DOMAIN s.cells |->
               <<High(s.cells[i].count % 65536), Low(s.cells[i].count)>> \o s.cells[i].sums], 23)

Signed(n) == IF n < 32768 THEN n ELSE n - 65536

DecodeSketch(data) ==
    LET count == ReadWord(data[3], data[4])
        records == Cut(data, 8, 23, count)
    IN  IF Len(data) < 8 THEN Refused
        ELSE IF data[1] # 1 \/ data[2] < 2 \/ count < data[2] \/ Len(data) # 8 + 23 * count
        THEN Refused
        ELSE [hashes |-> data[2], seed |-> ReadLong(data[5], data[6], data[7], data[8]),
              cells |-> [i \in 1 .. count |->
                [count |-> Signed(ReadWord(records[i][1], records[i][2])),
                 sums |-> SubSeq(records[i], 3, 23)]]]

=============================================================================
