---------------------------- MODULE StrictParsers ----------------------------
(***************************************************************************)
(* The hand-written decoders on the trust path, over real bytes: the DER   *)
(* and CBOR readers of the attestation verifiers, and the conversion of    *)
(* DER ECDSA signatures to r || s in the broker's key custody and in the   *)
(* Android and iOS key stores.  A decoder either returns a value or throws *)
(* (Bad); bytes are 0..255 and sequences count from 1.                     *)
(***************************************************************************)
EXTENDS Integers, Sequences, SequencesExt, FiniteSets

CONSTANTS MaxDepth, MaxNodes,    \* DerLimits and CborLimits (maxItems)
          Width,                 \* bytes of a coordinate, 32 for P-256
          Octets,                \* bytes that inputs are made of
          Fills,                 \* bounds: how many filler bytes follow a head
          HeadLength

VARIABLES wire,                  \* the input: its kind and its bytes
          decoded                \* what the decoder made of it, Pending before

parseVars == <<wire, decoded>>

Bad == [ok |-> FALSE]
Pending == [ok |-> FALSE, pending |-> TRUE]
High(b) == b >= 128
Bytes(b, p, n) == SubSeq(b, p, p + n - 1)

\* Big-endian digits as a number (only ever for short ones).
Number(digits) == FoldLeft(LAMBDA v, d : v * 256 + d, 0, digits)
Zeros(n) == [i \in 1..n |-> 0]
-----------------------------------------------------------------------------
(* DER.                                                                    *)

RECURSIVE HighTag(_, _, _, _)

\* Base 128; the guard is value * 128 + d > 0x0fffffff without overflowing.
HighTag(b, p, value, count) ==
    IF p > Len(b) \/ (count = 0 /\ b[p] = 128) THEN Bad
    ELSE LET d == b[p] % 128 IN
         IF value > (268435455 - d) \div 128 THEN Bad
         ELSE IF ~High(b[p])
              THEN IF value * 128 + d < 31 THEN Bad
                   ELSE [ok |-> TRUE, tag |-> value * 128 + d, next |-> p + 1]
              ELSE IF count + 1 > 4 THEN Bad ELSE HighTag(b, p + 1, value * 128 + d, count + 1)

\* The identifier octet was read at p - 1.
readTagNumber(b, p) ==
    IF b[p - 1] % 32 # 31 THEN [ok |-> TRUE, tag |-> b[p - 1] % 32, next |-> p]
    ELSE HighTag(b, p, 0, 0)

\* The long form is accepted even where the short one would do.
MutantReadLength(b, p) ==
    IF p > Len(b) THEN Bad
    ELSE IF ~High(b[p]) THEN [ok |-> TRUE, length |-> b[p], next |-> p + 1]
    ELSE LET count == b[p] % 128 IN
         IF count \notin 1..2 \/ p + count > Len(b) THEN Bad
         ELSE [ok |-> TRUE, length |-> Number(Bytes(b, p + 1, count)), next |-> p + 1 + count]

\* Three and four length octets always exceed the input here (maxBytes is 2^16).
readLength(b, p) ==
    IF p > Len(b) THEN Bad
    ELSE IF ~High(b[p]) THEN [ok |-> TRUE, length |-> b[p], next |-> p + 1]
    ELSE LET count == b[p] % 128
             digits == Bytes(b, p + 1, count)
         IN IF count \notin 1..2 \/ p + count > Len(b) THEN Bad
            ELSE IF digits[1] = 0 \/ Number(digits) < 128 THEN Bad
            ELSE [ok |-> TRUE, length |-> Number(digits), next |-> p + 1 + count]

RECURSIVE readNode(_, _, _, _)
RECURSIVE ReadChildren(_, _, _, _, _)

\* Children are read over the parent's content only; the node budget is global.
ReadChildren(b, p, depth, nodes, read) ==
    IF p > Len(b) THEN [ok |-> TRUE, children |-> read, nodes |-> nodes]
    ELSE LET child == readNode(b, p, depth, nodes) IN
         IF ~child.ok THEN Bad
         ELSE ReadChildren(b, child.next, depth, child.nodes, Append(read, child.node))

readNode(b, p, depth, nodes) ==
    IF depth > MaxDepth \/ nodes + 1 > MaxNodes \/ p > Len(b) THEN Bad
    ELSE LET tag == readTagNumber(b, p + 1)
             size == IF tag.ok THEN readLength(b, tag.next) ELSE Bad
         IN IF ~size.ok THEN Bad
            ELSE IF size.length > Len(b) - size.next + 1 THEN Bad
            ELSE LET content == Bytes(b, size.next, size.length)
                     constructed == (b[p] \div 32) % 2 = 1
                     inner == IF constructed THEN ReadChildren(content, 1, depth + 1, nodes + 1, <<>>)
                              ELSE [ok |-> TRUE, children |-> <<>>, nodes |-> nodes + 1]
                 IN IF ~inner.ok THEN Bad
                    ELSE [ok |-> TRUE, next |-> size.next + size.length, nodes |-> inner.nodes,
                          node |-> [class |-> b[p] \div 64, constructed |-> constructed,
                                    tag |-> tag.tag, content |-> content,
                                    children |-> inner.children]]

\* The whole input is one element.
parseDer(b) ==
    LET read == readNode(b, 1, 0, 0)
    IN IF read.ok THEN IF read.next = Len(b) + 1 THEN [ok |-> TRUE, value |-> read.node] ELSE Bad
       ELSE Bad

(* Typed accessors of a node.                                              *)

derExpect(node, class, tag) == node.class = class /\ node.tag = tag

Universal(tag, node) == derExpect(node, 0, tag)

decodeTwosComplement(content) ==
    IF content = <<>> THEN Bad
    ELSE IF Len(content) > 1 /\ ( \/ (content[1] = 0 /\ ~High(content[2]))
                                  \/ (content[1] = 255 /\ High(content[2]))) THEN Bad
    ELSE [ok |-> TRUE,
          value |-> Number(content) - (IF High(content[1]) THEN 2 ^ (8 * Len(content)) ELSE 0)]

\* The value of a node that passes the check.
Checked(check, value) == IF check THEN [ok |-> TRUE, value |-> value] ELSE Bad

\* derSmallInteger adds only the range of a double, which no input here leaves.
derInteger(node) == IF Universal(2, node) THEN decodeTwosComplement(node.content) ELSE Bad

derEnumerated(node) ==
    LET number == decodeTwosComplement(node.content)
    IN IF ~Universal(10, node) \/ ~number.ok THEN Bad
       ELSE Checked(number.value \in 0..65535, number.value)

derBoolean(node) ==
    Checked(Universal(1, node) /\ node.content \in {<<0>>, <<255>>}, node.content = <<255>>)

derOctetString(node) == Checked(Universal(4, node) /\ ~node.constructed, node.content)

derBitString(node) ==
    Checked(/\ Universal(3, node) /\ ~node.constructed
            /\ node.content # <<>> /\ node.content[1] = 0, Tail(node.content))

derSequence(node) == Checked(Universal(16, node) /\ node.constructed, node.children)

derSet(node) == Checked(Universal(17, node) /\ node.constructed, node.children)

derExplicit(node) ==
    Checked(node.class = 2 /\ node.constructed /\ Len(node.children) = 1, node.children)

\* The child with context tag 0, if any; two of them are refused.
derFindContext(node) ==
    LET found == SelectSeq(node.children, LAMBDA c : derExpect(c, 2, 0))
    IN IF ~derSequence(node).ok THEN Bad ELSE Checked(Len(found) <= 1, found)

RECURSIVE OidArcs(_, _, _, _)

\* Arcs in base 128; the first packs two.
OidArcs(b, value, started, arcs) ==
    IF b = <<>> THEN [ok |-> TRUE, value |-> arcs]
    ELSE IF ~started /\ b[1] = 128 THEN Bad
    ELSE LET v == (value * 128) + (b[1] % 128)
             a == IF v >= 80 THEN 2 ELSE v \div 40
         IN IF High(b[1]) THEN OidArcs(Tail(b), v, TRUE, arcs)
            ELSE OidArcs(Tail(b), 0, FALSE,
                         IF arcs = <<>> THEN <<a, v - a * 40>> ELSE Append(arcs, v))

derOid(node) ==
    IF ~Universal(6, node) \/ node.content = <<>> \/ High(Last(node.content)) THEN Bad
    ELSE OidArcs(node.content, 0, FALSE, <<>>)

\* What parseKeyDescription and its like ask of the node they expect.
Accessed(type, node) ==
    CASE type = "integer" -> derInteger(node)
      [] type = "enumerated" -> derEnumerated(node)
      [] type = "boolean" -> derBoolean(node)
      [] type = "octets" -> derOctetString(node)
      [] type = "bits" -> derBitString(node)
      [] type = "oid" -> derOid(node)
      [] type = "sequence" -> derSequence(node)
      [] type = "set" -> derSet(node)
      [] type = "explicit" -> derExplicit(node)
      [] type = "context" -> derFindContext(node)
-----------------------------------------------------------------------------
(* CBOR.  An argument is its big-endian digits without leading zeros.      *)

Trim(digits) == LET kept == {i \in 1..Len(digits) : digits[i] # 0}
                IN IF kept = {} THEN <<>>
                   ELSE SubSeq(digits, CHOOSE i \in kept : \A j \in kept : i <= j, Len(digits))

\* Number.isSafeInteger: below 2^53.
Safe(digits) == Len(digits) < 7 \/ (Len(digits) = 7 /\ digits[1] < 32)

\* Shortest form only: one byte from 24 up, wider ones not all in the lower half.
argument(b, p, ai) ==
    IF ai < 24 THEN [ok |-> TRUE, digits |-> Trim(<<ai>>), next |-> p]
    ELSE LET width == 2 ^ (ai - 24)
             raw == Bytes(b, p, width)
         IN IF ai > 27 THEN Bad
            ELSE IF p + width - 1 > Len(b) THEN Bad
            ELSE IF (ai = 24 /\ raw[1] < 24) \/ (ai > 24 /\ Len(Trim(raw)) <= (width \div 2)) THEN Bad
            ELSE [ok |-> TRUE, digits |-> Trim(raw), next |-> p + width]

\* A length or a count may not exceed the bytes that remain.
countArgument(b, p, ai) ==
    LET arg == argument(b, p, ai)
    IN IF ~arg.ok THEN Bad
       ELSE IF Len(arg.digits) > 2 THEN Bad
       ELSE IF Number(arg.digits) > Len(b) - arg.next + 1 THEN Bad
       ELSE [ok |-> TRUE, count |-> Number(arg.digits), next |-> arg.next]

RECURSIVE readValue(_, _, _, _)
RECURSIVE ReadItems(_, _, _, _, _, _)

\* n items in a row, as the members of an array or the keys and values of a map.
ReadItems(b, p, depth, items, n, read) ==
    IF n = 0 THEN [ok |-> TRUE, read |-> read, next |-> p, items |-> items]
    ELSE LET item == readValue(b, p, depth, items) IN
         IF ~item.ok THEN Bad
         ELSE ReadItems(b, item.next, depth, item.items, n - 1, Append(read, item.value))

\* Keys are the odd members: text or safe integers, no two alike.
KeysAllowed(read) ==
    LET keys == {i \in 1..Len(read) : i % 2 = 1}
    IN /\ \A i \in keys : \/ read[i].type = "text"
                          \/ read[i].type \in {"unsigned", "negative"} /\ Safe(read[i].data)
       /\ \A i, j \in keys : i # j => read[i] # read[j]

Value(type, data) == [type |-> type, data |-> data]

\* How many bytes the character at the front takes, 0 if there is none.
CharLength(raw) ==
    LET next == IF Len(raw) > 1 THEN raw[2] ELSE 0
        n == CASE raw[1] < 128 -> 1
               [] raw[1] \in 194..223 -> 2
               [] raw[1] = 224 /\ next >= 160 -> 3
               [] raw[1] = 237 /\ next < 160 -> 3
               [] raw[1] \in (225..239) \ {237} -> 3
               [] raw[1] = 240 /\ next >= 144 -> 4
               [] raw[1] = 244 /\ next < 144 -> 4
               [] raw[1] \in 241..243 -> 4
               [] OTHER -> 0
    IN IF n <= Len(raw) /\ \A i \in 2..n : raw[i] \in 128..191 THEN n ELSE 0

RECURSIVE WellFormed(_)
WellFormed(raw) ==
    raw = <<>> \/ LET n == CharLength(raw) IN n > 0 /\ WellFormed(SubSeq(raw, n + 1, Len(raw)))

\* TextDecoder in fatal mode: malformed UTF-8 throws, and a byte order mark at
\* the front is not part of the text.
Utf8(raw) ==
    IF ~WellFormed(raw) THEN Bad
    ELSE [ok |-> TRUE, text |-> IF IsPrefix(<<239, 187, 191>>, raw)
                                THEN SubSeq(raw, 4, Len(raw)) ELSE raw]

readValue(b, p, depth, items) ==
    IF depth > MaxDepth \/ items + 1 > MaxNodes \/ p > Len(b) THEN Bad
    ELSE LET major == b[p] \div 32
             ai == b[p] % 32
             arg == argument(b, p + 1, ai)
             size == countArgument(b, p + 1, ai)
             Done(value, next, n) == [ok |-> TRUE, value |-> value, next |-> next, items |-> n]
         IN CASE major \in {0, 1} ->
                   IF ~arg.ok THEN Bad
                   ELSE Done(Value(IF major = 0 THEN "unsigned" ELSE "negative", arg.digits),
                             arg.next, items + 1)
              [] major \in {2, 3} ->
                   IF ~size.ok THEN Bad
                   ELSE LET raw == Bytes(b, size.next, size.count)
                            decodes == IF major = 3 THEN Utf8(raw) ELSE [ok |-> TRUE, text |-> raw]
                        IN IF ~decodes.ok THEN Bad
                           ELSE Done(Value(IF major = 2 THEN "bytes" ELSE "text", decodes.text),
                                     size.next + size.count, items + 1)
              [] major \in {4, 5} ->
                   IF ~size.ok THEN Bad
                   ELSE LET in_ == ReadItems(b, size.next, depth + 1, items + 1,
                                            size.count * (major - 3), <<>>)
                        IN IF ~in_.ok THEN Bad
                           ELSE IF major = 5 /\ ~KeysAllowed(in_.read) THEN Bad
                           ELSE Done(Value(IF major = 4 THEN "array" ELSE "map", in_.read),
                                     in_.next, in_.items)
              [] major = 7 /\ ai \in 20..23 -> Done(Value("simple", <<ai>>), p + 1, items + 1)
              [] OTHER -> Bad

decodeCbor(b) ==
    LET read == readValue(b, 1, 0, 0)
    IN IF read.ok THEN IF read.next = Len(b) + 1 THEN [ok |-> TRUE, value |-> read.value] ELSE Bad
       ELSE Bad
-----------------------------------------------------------------------------
(* ECDSA signatures: DER SEQUENCE of two INTEGERs to r || s.               *)

Pad(value) == LET t == Trim(value) IN Zeros(Width - Len(t)) \o t

\* readInteger: its content at p, and where it ends.
readInteger(b, p) ==
    IF p + 1 > Len(b) THEN Bad
    ELSE IF b[p] # 2 \/ b[p + 1] = 0 \/ High(b[p + 1]) \/ p + 1 + b[p + 1] > Len(b) THEN Bad
    ELSE [ok |-> TRUE, value |-> Bytes(b, p + 2, b[p + 1]), next |-> p + 2 + b[p + 1]]

\* Where the content starts: after 0x30 and a length in 0x81 or 0x82 form, or in
\* one byte, which may be 0x80.
SequenceStart(b) == CASE b[2] = 129 -> 4 [] b[2] = 130 -> 5 [] OTHER -> 3

derEcdsaToJoseSignature(b) ==
    LET start == SequenceStart(b)
        length == IF start = 3 THEN b[2] ELSE Number(Bytes(b, 3, start - 3))
        r == readInteger(b, start)
        s == IF r.ok THEN readInteger(b, r.next) ELSE Bad
    IN IF b[1] # 48 \/ b[2] > 130 \/ start + length - 1 # Len(b) THEN Bad
       ELSE IF ~s.ok THEN Bad
       ELSE IF s.next # Len(b) + 1 \/ Len(Trim(r.value)) > Width \/ Len(Trim(s.value)) > Width
            THEN Bad
       ELSE [ok |-> TRUE, value |-> Pad(r.value) \o Pad(s.value)]

\* normalizeEcdsaSignature: by length first, then by the SEQUENCE tag.
normalizeEcdsaSignature(b) ==
    IF Len(b) = 2 * Width THEN [ok |-> TRUE, value |-> b]
    ELSE IF Len(b) > 8 /\ b[1] = 48 THEN derEcdsaToJoseSignature(b)
    ELSE Bad

\* derToRawRs of both key stores: the outer length is skipped, not compared, and
\* what follows s is ignored.
derToRawRs(b) ==
    LET start == IF High(b[2]) THEN 3 + (b[2] % 128) ELSE 3
        r == readInteger(b, start)
        s == IF r.ok THEN readInteger(b, r.next) ELSE Bad
    IN IF b[1] # 48 \/ ~s.ok THEN Bad ELSE [ok |-> TRUE, value |-> Pad(r.value) \o Pad(s.value)]
-----------------------------------------------------------------------------
(* Encoders: the reference the decoders are held to.                       *)

RECURSIVE Base128(_)
Base128(n) == IF n < 128 THEN <<n>> ELSE Base128(n \div 128) \o <<n % 128>>

\* Every digit but the last carries the continuation bit.
Continued(n) == LET d == Base128(n) IN [i \in 1..Len(d) |-> IF i < Len(d) THEN d[i] + 128 ELSE d[i]]

LengthOctets(n) == CASE n < 128 -> <<n>> [] n < 256 -> <<129, n>>
                     [] OTHER -> <<130, n \div 256, n % 256>>

RECURSIVE EncodeDer(_)
EncodeDer(node) ==
    LET first == node.class * 64 + (IF node.constructed THEN 32 ELSE 0)
        content == IF node.constructed
                   THEN FlattenSeq([i \in 1..Len(node.children) |-> EncodeDer(node.children[i])])
                   ELSE node.content
    IN (IF node.tag < 31 THEN <<first + node.tag>> ELSE <<first + 31>> \o Continued(node.tag))
       \o LengthOctets(Len(content)) \o content

CborHead(major, digits) ==
    LET n == Len(digits) IN
    CASE n = 0 -> <<major * 32>>
      [] n = 1 /\ digits[1] < 24 -> <<major * 32 + digits[1]>>
      [] n = 1 -> <<major * 32 + 24>> \o digits
      [] n = 2 -> <<major * 32 + 25>> \o digits
      [] n \in 3..4 -> <<major * 32 + 26>> \o Zeros(4 - n) \o digits
      [] OTHER -> <<major * 32 + 27>> \o Zeros(8 - n) \o digits

Digits(n) == Trim(<<n \div 256, n % 256>>)

RECURSIVE EncodeCbor(_)
EncodeCbor(v) ==
    LET n == Len(v.data)
        members == IF v.type \in {"array", "map"}
                   THEN FlattenSeq([i \in 1..n |-> EncodeCbor(v.data[i])]) ELSE v.data
    IN CASE v.type = "unsigned" -> CborHead(0, v.data)
         [] v.type = "negative" -> CborHead(1, v.data)
         [] v.type = "bytes" -> CborHead(2, Digits(n)) \o members
         [] v.type = "text" -> CborHead(3, Digits(n)) \o members
         [] v.type = "array" -> CborHead(4, Digits(n)) \o members
         [] v.type = "map" -> CborHead(5, Digits(n \div 2)) \o members
         [] OTHER -> <<224 + v.data[1]>>

\* A non-negative INTEGER of these digits, and a signature's SEQUENCE of two.
EncodeInteger(digits) ==
    LET body == IF High(digits[1]) THEN <<0>> \o digits ELSE digits
    IN <<2, Len(body)>> \o body

EncodeSignature(r, s) ==
    LET body == EncodeInteger(r) \o EncodeInteger(s) IN <<48>> \o LengthOctets(Len(body)) \o body

Fits(v, n) == -(2 ^ (8 * n - 1)) <= v /\ v < 2 ^ (8 * n - 1)

\* The shortest two's complement form.
EncodeNumber(v) ==
    LET n == CHOOSE n \in 1..3 : Fits(v, n) /\ \A m \in 1..(n - 1) : ~Fits(v, m)
        u == IF v < 0 THEN v + 2 ^ (8 * n) ELSE v
    IN [i \in 1..n |-> (u \div (256 ^ (n - i))) % 256]

EncodeAll(nodes) == FlattenSeq([i \in 1..Len(nodes) |-> EncodeDer(nodes[i])])

EncodeOid(arcs) ==
    Continued(arcs[1] * 40 + arcs[2])
    \o FlattenSeq([i \in 1..(Len(arcs) - 2) |-> Continued(arcs[i + 2])])
-----------------------------------------------------------------------------
Heads == UNION {[1..n -> Octets] : n \in 1..HeadLength}

\* Coordinates from a few bytes short of the width up to it, all leading bits.
Coordinates == {<<first>> \o [i \in 1..n |-> 255] : first \in {1, 127, 128},
                                                  n \in (Width - 5)..(Width - 1)}

\* The identifier octets of each type, and contents to put behind them: short
\* ones, and two elements in a row.
Identifiers(type) ==
    CASE type = "integer" -> {2, 34} [] type = "enumerated" -> {10, 42} [] type = "boolean" -> {1}
      [] type = "octets" -> {4} [] type = "bits" -> {3} [] type = "oid" -> {6, 38}
      [] type = "sequence" -> {48} [] type = "set" -> {49} [] type = "explicit" -> {162}
      [] type = "context" -> {48}

Types == {"integer", "enumerated", "boolean", "octets", "bits", "oid", "sequence", "set",
          "explicit", "context"}
Elements == {<<1, 0>>, <<2, 1, 255>>, <<128, 0>>, <<129, 1, 0>>}
Contents == {<<>>} \cup UNION {[1..n -> {0, 1, 127, 128, 255}] : n \in 1..3}

Fields ==
    {[kind |-> "typed", type |-> t, bytes |-> <<tag, Len(c)>> \o c] :
        t \in Types, c \in Contents, tag \in UNION {Identifiers(u) : u \in Types}}
    \cup {[kind |-> "typed", type |-> t, bytes |-> <<tag, Len(c \o d)>> \o c \o d] :
             t \in {"sequence", "set", "explicit", "context"}, c, d \in Elements,
             tag \in {48, 49, 162}}

\* Texts of ASCII and longer characters, whole and broken, and with byte order marks.
TextInputs ==
    {[kind |-> "cbor", bytes |-> <<96 + n>> \o t] :
        n \in 1..4, t \in UNION {[1..m -> {65, 128, 187, 191, 195, 239}] : m \in 1..4}}

ParseInit ==
    /\ wire \in [kind : {"der", "cbor"}, bytes : {h \o Zeros(n) : h \in Heads, n \in Fills}]
                \cup Fields \cup TextInputs
                \cup [kind : {"custody", "keystore", "backend"}, r : Coordinates, s : Coordinates]
    /\ decoded = Pending

Decode ==
    /\ decoded = Pending
    /\ decoded' = CASE wire.kind = "der" -> parseDer(wire.bytes)
                    [] wire.kind = "cbor" -> decodeCbor(wire.bytes)
                    [] wire.kind = "typed" -> LET read == parseDer(wire.bytes)
                                              IN IF read.ok THEN Accessed(wire.type, read.value) ELSE Bad
                    [] wire.kind = "custody" -> derEcdsaToJoseSignature(EncodeSignature(wire.r, wire.s))
                    [] wire.kind = "backend" -> normalizeEcdsaSignature(Pad(wire.r) \o Pad(wire.s))
                    [] OTHER -> derToRawRs(EncodeSignature(wire.r, wire.s))
    /\ UNCHANGED wire
-----------------------------------------------------------------------------
(* Properties.                                                             *)

RECURSIVE HoldsText(_)
HoldsText(v) ==
    \/ v.type = "text"
    \/ v.type \in {"array", "map"} /\ \E i \in 1..Len(v.data) : HoldsText(v.data[i])

\* The class and the tag number of each type's identifier octet.
Tagged(type) ==
    CASE type = "integer" -> <<0, 2>> [] type = "enumerated" -> <<0, 10>>
      [] type = "boolean" -> <<0, 1>> [] type = "octets" -> <<0, 4>> [] type = "bits" -> <<0, 3>>
      [] type = "oid" -> <<0, 6>> [] type \in {"sequence", "context"} -> <<0, 16>>
      [] type = "set" -> <<0, 17>> [] type = "explicit" -> <<2, 2>>

Canonical(type, v) ==
    CASE type \in {"integer", "enumerated"} -> EncodeNumber(v)
      [] type = "boolean" -> IF v THEN <<255>> ELSE <<0>>
      [] type = "octets" -> v
      [] type = "bits" -> <<0>> \o v
      [] type = "oid" -> EncodeOid(v)
      [] OTHER -> EncodeAll(v)

Twice(element, b) == b = <<48, 2 * Len(element)>> \o element \o element

\* "DER, not BER" (der.ts:12-20) and "two encodings of the same value must not
\* both be accepted" (cbor.ts:139-142, of lengths, counts and integers).  A DER
\* element is accepted in exactly one encoding, and so is a CBOR value made of
\* integers, byte strings, arrays, maps and simple values.  A typed accessor
\* takes no node of another class or tag and only the canonical content of what
\* it returns, and a context field is found at most once.  A signature reaches
\* its verifier as the r || s it stands for, from DER and from r || s itself.
OneEncoding ==
    LET v == decoded.value
    IN CASE decoded.ok /\ wire.kind = "der" -> EncodeDer(v) = wire.bytes
         [] decoded.ok /\ wire.kind = "cbor" -> HoldsText(v) \/ EncodeCbor(v) = wire.bytes
         [] decoded.ok /\ wire.kind = "typed" ->
               /\ Tagged(wire.type) = <<wire.bytes[1] \div 64, wire.bytes[1] % 32>>
               /\ IF wire.type = "context"
                  THEN Len(v) <= 1 /\ ~Twice(<<128, 0>>, wire.bytes)
                  ELSE LET content == Canonical(wire.type, v)
                       IN Tail(wire.bytes) = LengthOctets(Len(content)) \o content
         [] wire.kind \in {"custody", "keystore", "backend"} /\ decoded # Pending ->
               decoded.ok /\ v = Pad(wire.r) \o Pad(wire.s)
         [] OTHER -> TRUE

ParseSpec == ParseInit /\ [][Decode]_parseVars
=============================================================================
