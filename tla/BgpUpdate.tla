----------------------------- MODULE BgpUpdate -----------------------------
(***************************************************************************)
(* What the BGP listener reads in the body of an UPDATE message            *)
(* (ParseUpdate), and what a speaker writes there (EncodeUpdate) to say    *)
(* that routes were withdrawn or announced (Announced).                    *)
(*                                                                         *)
(* The listener reports a prefix as text: here it is the number of bits    *)
(* and the octets that the text shows.  Hashes of attributes are taken to  *)
(* be free of collisions: a path is the bag of what is hashed, kept in a   *)
(* set so that {} stands for the hash 0 of "no path".                      *)
(***************************************************************************)
EXTENDS Naturals, Sequences, SequencesExt

Change(prefix, path) == [prefix |-> prefix, path |-> path]
NoPath == {}

U16(high, low) == 256 * high + low
Bytes(n) == <<n \div 256, n % 256>>
OctetsFor(bits) == (bits + 7) \div 8

\* The count bytes of data that follow the first pos ones.
Slice(data, pos, count) == SubSeq(data, pos + 1, pos + count)

-----------------------------------------------------------------------------
(* What the speaker says *)

Byte == {n \in Nat : n < 256}
Word == {n \in Nat : n < 256 * 256}

\* An IPv4 prefix, with zeros in the octets that are not written.
IPv4Prefix ==
    {prefix \in [bits : 0 .. 32, octets : [1 .. 4 -> Byte]] :
        \A i \in 1 .. 4 : i > OctetsFor(prefix.bits) => prefix.octets[i] = 0}

\* A path attribute.  Its length takes two bytes if it is extended.
Attribute ==
    {attr \in [type : Byte, value : Seq(Byte), extended : BOOLEAN] :
        Len(attr.value) \in IF attr.extended THEN Word ELSE Byte}

\* What matters of the attributes, in no order.
PathOf(attrs) ==
    IF attrs = <<>> THEN NoPath
    ELSE {ToBag([i \in DOMAIN attrs |-> [type |-> attrs[i].type,
                                         value |-> attrs[i].value]])}

\* An update has sequences of prefixes to withdraw and to announce, and the
\* attributes of the announced ones.
Announced(update) ==
    [i \in DOMAIN update.withdrawn |-> Change(update.withdrawn[i], NoPath)]
      \o [i \in DOMAIN update.nlri |-> Change(update.nlri[i], PathOf(update.attrs))]

EncodePrefix(prefix) ==
    <<prefix.bits>> \o SubSeq(prefix.octets, 1, OctetsFor(prefix.bits))

\* Flags (well-known transitive, perhaps extended), type, length, value.
EncodeAttr(attr) ==
    (IF attr.extended THEN <<80, attr.type>> \o Bytes(Len(attr.value))
                      ELSE <<64, attr.type, Len(attr.value)>>) \o attr.value

EncodeAll(Encode(_), items) ==
    FlattenSeq([i \in DOMAIN items |-> Encode(items[i])])

EncodeUpdate(update) ==
    LET withdrawn == EncodeAll(EncodePrefix, update.withdrawn)
        attrs == EncodeAll(EncodeAttr, update.attrs)
    IN  Bytes(Len(withdrawn)) \o withdrawn \o Bytes(Len(attrs)) \o attrs
          \o EncodeAll(EncodePrefix, update.nlri)

\* An update that a speaker may send: a message, header included, has a length
\* of two bytes.
WellFormed(update) ==
    /\ update.withdrawn \in Seq(IPv4Prefix) /\ update.nlri \in Seq(IPv4Prefix)
    /\ update.attrs \in Seq(Attribute)
    /\ 19 + Len(EncodeUpdate(update)) \in Word

-----------------------------------------------------------------------------
(* What the listener reads *)

\* Missing octets are zero; more than 32 bits are read as IPv6.
PrefixOf(bits, bytes) ==
    [bits |-> bits,
     octets |-> [i \in 1 .. IF bits <= 32 THEN 4 ELSE 16 |->
                   IF i <= Len(bytes) THEN bytes[i] ELSE 0]]

\* Mutant: bits / 8 is not rounded up.
ParseNlriRoundedDown(data) ==
    LET from[pos \in 0 .. Len(data)] ==
          IF pos = Len(data) \/ pos + 1 + data[pos + 1] \div 8 > Len(data)
          THEN <<>>
          ELSE LET bits == data[pos + 1]
               IN  <<PrefixOf(bits, Slice(data, pos + 1, bits \div 8))>>
                     \o from[pos + 1 + bits \div 8]
    IN  from[0]

\* A prefix that is cut off ends the list.
ParseNlri(data) ==
    LET from[pos \in 0 .. Len(data)] ==
          IF \/ pos = Len(data)
             \/ pos + 1 + OctetsFor(data[pos + 1]) > Len(data)
          THEN <<>>
          ELSE LET bits == data[pos + 1]
                   octets == OctetsFor(bits)
               IN  <<PrefixOf(bits, Slice(data, pos + 1, octets))>>
                     \o from[pos + 1 + octets]
    IN  from[0]

\* The types and values of the attributes, in no order.  The last value may
\* be cut off.
HashAttributes(attrs) ==
    LET Extended(pos) == (attrs[pos + 1] \div 16) % 2 = 1
        Header(pos) == IF Extended(pos) THEN 4 ELSE 3
        End(pos) ==
            LET length == IF Extended(pos)
                          THEN U16(attrs[pos + 3], attrs[pos + 4])
                          ELSE attrs[pos + 3]
            IN  IF pos + Header(pos) + length < Len(attrs)
                THEN pos + Header(pos) + length ELSE Len(attrs)
        from[pos \in 0 .. Len(attrs)] ==
          IF pos + 3 > Len(attrs) \/ pos + Header(pos) > Len(attrs)
          THEN <<>>
          ELSE <<[type |-> attrs[pos + 2],
                  value |-> SubSeq(attrs, pos + Header(pos) + 1, End(pos))]>>
                 \o from[End(pos)]
    IN  ToBag(from[0])

\* The part of a payload that starts at pos with its length in two bytes.
\* A length that does not fit is passed over and its part not read.
Part(payload, pos) ==
    LET length == U16(payload[pos + 1], payload[pos + 2])
        fits == length > 0 /\ pos + 2 + length <= Len(payload)
    IN  [data |-> IF fits THEN Slice(payload, pos + 2, length) ELSE <<>>,
         next |-> pos + 2 + IF fits THEN length ELSE 0]

ChangesOf(data, path) ==
    LET prefixes == ParseNlri(data)
    IN  [i \in DOMAIN prefixes |-> Change(prefixes[i], path)]

\* Withdrawals first, then the announcements with the path of all of them.
ParseUpdate(payload) ==
    IF Len(payload) < 2 THEN <<>>
    ELSE LET withdrawn == Part(payload, 0)
             withdrawals == ChangesOf(withdrawn.data, NoPath)
         IN  IF withdrawn.next + 2 > Len(payload) THEN withdrawals
             ELSE LET attrs == Part(payload, withdrawn.next)
                      path == IF attrs.data = <<>> THEN NoPath
                              ELSE {HashAttributes(attrs.data)}
                      nlri == SubSeq(payload, attrs.next + 1, Len(payload))
                  IN  withdrawals \o ChangesOf(nlri, path)

=============================================================================
