------------------------------ MODULE FrameRules ------------------------------
(***************************************************************************)
(* The scan of untrusted CBOR frames before they are decoded               *)
(* (internal/planproto, limits.go), and the exact percent form of a Trash  *)
(* path (internal/pathbytes).  Frames are sequences of bytes.              *)
(*                                                                         *)
(* A position counts the bytes before it, as in the code; Failed is an     *)
(* error.                                                                  *)
(***************************************************************************)
EXTENDS Integers, Sequences, SequencesExt

CONSTANT Limits  \* DecodeLimits, those of planproto and of pathbytes

ASSUME LimitAssumptions ==
  /\ \A l \in DOMAIN Limits : Limits[l] \in Nat \ {0}
  /\ Limits.actions <= Limits.array_items
  /\ Limits.path_components <= Limits.array_items
  /\ Limits.encoded_path_bytes <= Limits.frame_bytes

(* "components" and "actions" in ASCII *)
ComponentsKey == <<99, 111, 109, 112, 111, 110, 101, 110, 116, 115>>
ActionsKey == <<97, 99, 116, 105, 111, 110, 115>>

Failed == -1
Byte(data, offset) == data[offset + 1]
Major(b) == b \div 32
Additional(b) == b % 32

RECURSIVE BigEndian(_)
BigEndian(s) == IF s = <<>> THEN 0 ELSE 256 * BigEndian(Front(s)) + Last(s)

ArgumentUnchecked(data, offset) ==  \* slip: an argument longer than it need be is accepted
  LET a == Additional(Byte(data, offset))
      width == IF a \in 24..27 THEN 2^(a - 24) ELSE 0
  IN  IF a > 27 \/ offset + width >= Len(data) THEN [next |-> Failed]
      ELSE IF width = 0 THEN [value |-> a, next |-> offset + 1]
      ELSE [value |-> BigEndian(SubSeq(data, offset + 2, offset + 1 + width)),
            next |-> offset + 1 + width]

(* scanCBORArgument: in the header, or in the next 1, 2, 4 or 8 bytes; not  *)
(* in more bytes than it takes.  Indefinite lengths (31) are forbidden.     *)
Argument(data, offset) ==
  LET a == Additional(Byte(data, offset))
      width == IF a \in 24..27 THEN 2^(a - 24) ELSE 0
      bytes == SubSeq(data, offset + 2, offset + 1 + width)
      minimal == IF width = 1 THEN bytes[1] >= 24
                 ELSE \E i \in 1..(width \div 2) : bytes[i] # 0
  IN  IF a > 27 \/ offset + width >= Len(data) THEN [next |-> Failed]
      ELSE IF width = 0 THEN [value |-> a, next |-> offset + 1]
      ELSE IF minimal THEN [value |-> BigEndian(bytes), next |-> offset + 1 + width]
      ELSE [next |-> Failed]

(* utf8.Valid, for the sequences of one and two bytes. *)
RECURSIVE ValidText(_)
ValidText(s) ==
  \/ s = <<>>
  \/ s[1] < 128 /\ ValidText(Tail(s))
  \/ Len(s) > 1 /\ s[1] \in 194..223 /\ s[2] \in 128..191 /\ ValidText(SubSeq(s, 3, Len(s)))

(* cborTextEquals *)
IsText(data, offset, want) ==
  /\ offset < Len(data) /\ Major(Byte(data, offset)) = 3
  /\ LET n == Argument(data, offset) IN
       /\ n.next # Failed
       /\ n.value = Len(want)
       /\ n.next + n.value <= Len(data)
       /\ SubSeq(data, n.next + 1, n.next + n.value) = want

(* scanPathComponentsHeader, scanActionsHeader: a budget checked beforehand. *)
IsArrayWithin(data, offset, limit) ==
  /\ offset < Len(data) /\ Major(Byte(data, offset)) = 4
  /\ LET n == Argument(data, offset) IN n.next # Failed /\ n.value <= limit

(* bytes.Compare of two keys < 0 *)
RECURSIVE Before(_, _)
Before(x, y) ==
  /\ y # <<>>
  /\ \/ x = <<>>
     \/ x[1] < y[1]
     \/ x[1] = y[1] /\ Before(Tail(x), Tail(y))

RECURSIVE ScanItem(_, _, _), ScanItems(_, _, _, _), ScanPairs(_, _, _, _, _)

(* The position after the item at offset, or Failed. *)
ScanItem(data, offset, depth) ==
  IF offset >= Len(data) THEN Failed
  ELSE
  LET major == Major(Byte(data, offset))
      n == Argument(data, offset)
      end == n.next + n.value
  IN  IF n.next = Failed THEN Failed
      ELSE CASE major \in {0, 1} -> n.next
             [] major \in {2, 3} ->
                  IF n.value > Limits.scalar_bytes \/ end > Len(data) THEN Failed
                  ELSE IF major = 3 /\ ~ValidText(SubSeq(data, n.next + 1, end)) THEN Failed
                  ELSE end
             [] major = 4 ->
                  IF depth + 1 > Limits.depth \/ n.value > Limits.array_items THEN Failed
                  ELSE ScanItems(data, n.next, n.value, depth + 1)
             [] major = 5 ->
                  IF depth + 1 > Limits.depth \/ n.value > Limits.map_pairs THEN Failed
                  ELSE LET pairs == ScanPairs(data, n.next, n.value, depth + 1, <<>>) IN
                       IF pairs.path /\ pairs.next - offset > Limits.encoded_path_bytes
                       THEN Failed ELSE pairs.next
             [] major = 6 -> Failed
             [] major = 7 -> IF n.value \in {20, 21, 22} THEN n.next ELSE Failed

ScanItems(data, offset, count, depth) ==
  IF count = 0 \/ offset = Failed THEN offset
  ELSE ScanItems(data, ScanItem(data, offset, depth), count - 1, depth)

(* The pairs of a map: keys in bytewise order, none twice.  The map is a     *)
(* path when one of its keys says so.                                        *)
ScanPairs(data, offset, count, depth, previous) ==
  IF count = 0 THEN [next |-> offset, path |-> FALSE]
  ELSE LET isPath == IsText(data, offset, ComponentsKey)
           value == ScanItem(data, offset, depth)
           key == SubSeq(data, offset + 1, value)
           end == ScanItem(data, value, depth)
           rest == ScanPairs(data, end, count - 1, depth, key)
       IN  IF \/ value = Failed
              \/ previous # <<>> /\ ~Before(previous, key)
              \/ isPath /\ ~IsArrayWithin(data, value, Limits.path_components)
              \/ IsText(data, offset, ActionsKey) /\ ~IsArrayWithin(data, value, Limits.actions)
              \/ end = Failed
           THEN [next |-> Failed, path |-> FALSE]
           ELSE [next |-> rest.next, path |-> isPath \/ rest.path]

(* scanCanonicalCBOR *)
FrameAccepted(data) ==
  /\ data # <<>> /\ Len(data) <= Limits.frame_bytes
  /\ ScanItem(data, 0, 0) = Len(data)

-----------------------------------------------------------------------------
(* The percent form of a path: PercentEncodeTrashPath and its decoder *)

Slash == 47
Percent == 37
Dot == 46

Unreserved(b) ==
  b \in 97..122 \/ b \in 65..90 \/ b \in 48..57 \/ b \in {45, Dot, 95, 126}

UpperHex(d) == IF d < 10 THEN 48 + d ELSE 55 + d
IsHex(b) == b \in 48..57 \/ b \in 65..70
HexValue(b) == IF b < 58 THEN b - 48 ELSE b - 55

(* pathbytes.New *)
IsPath(path) ==
  /\ path # <<>>
  /\ \A i \in 1..Len(path) :
       /\ path[i] \notin {<<>>, <<Dot>>, <<Dot, Dot>>}
       /\ Range(path[i]) \cap {0, Slash} = {}

EncodeByte(b) == IF Unreserved(b) THEN <<b>> ELSE <<Percent, UpperHex(b \div 16), UpperHex(b % 16)>>

Encode(path) ==
  LET component(c) == FlattenSeq([j \in 1..Len(c) |-> EncodeByte(c[j])]) IN
  FlattenSeq([i \in 1..Len(path) |-> IF i = 1 THEN component(path[i]) ELSE <<Slash>> \o component(path[i])])

(* The components decoded so far, the last one open; <<>> is an error. *)
RECURSIVE DecodeRest(_, _, _)
DecodeRest(s, done, open) ==
  LET decoded == IF Len(s) > 2 /\ IsHex(s[2]) /\ IsHex(s[3]) THEN 16 * HexValue(s[2]) + HexValue(s[3]) ELSE Slash
      used == Len(FlattenSeq(done)) + Len(open)
      full == used >= Limits.decoded_bytes
  IN  IF s = <<>> THEN (IF open = <<>> THEN <<>> ELSE Append(done, open))
      ELSE IF Head(s) = Slash THEN
             IF open = <<>> THEN <<>> ELSE DecodeRest(Tail(s), Append(done, open), <<>>)
      ELSE IF Unreserved(Head(s)) THEN
             IF full THEN <<>> ELSE DecodeRest(Tail(s), done, Append(open, Head(s)))
      ELSE IF Head(s) = Percent THEN
             IF Len(s) < 3 \/ ~IsHex(s[2]) \/ ~IsHex(s[3]) \/ Unreserved(decoded) \/ full THEN <<>>
             ELSE DecodeRest(SubSeq(s, 4, Len(s)), done, Append(open, decoded))
      ELSE <<>>

(* PercentDecodeTrashPathWithLimits: the path, or <<>>. *)
Decode(s) ==
  LET components == 1 + Len(SelectSeq(s, LAMBDA b : b = Slash))
      path == DecodeRest(s, <<>>, <<>>)
  IN  IF s = <<>> \/ Len(s) > Limits.input_bytes \/ components > Limits.components \/ ~IsPath(path)
      THEN <<>> ELSE path
=============================================================================
