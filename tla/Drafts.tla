-------------------------------- MODULE Drafts --------------------------------
(***************************************************************************)
(* The values that reach the rules of FrameRules, built one item at a      *)
(* time: a CBOR frame, a percent-encoded path and a path.  The rules are   *)
(* pure functions, so that a state is an input, and the property compares  *)
(* each with a definition that does not parse.                             *)
(***************************************************************************)
EXTENDS FrameRules, FiniteSets

CONSTANTS
  Chunks,         \* byte strings a frame is put together from
  Openers,        \* the chunks after which a frame may be one chunk longer
  MaxChunks,      \* bound: chunks of a frame
  Symbols,        \* bytes of an encoded path
  MaxSymbols,     \* bound: bytes of an encoded path
  Bytes           \* bytes of a path

VARIABLE draft

ASSUME DraftAssumptions ==
  /\ {MaxChunks, MaxSymbols} \subseteq Nat
  /\ Openers \subseteq Chunks

-----------------------------------------------------------------------------
(* The drafts *)

Frame(first, bytes, chunks) ==
  [kind |-> "frame", first |-> first, bytes |-> bytes, chunks |-> chunks]
Encoded(text) == [kind |-> "encoded", text |-> text]
Path(components) == [kind |-> "path", components |-> components]

Init == draft \in {Frame(<<>>, <<>>, 0), Encoded(<<>>), Path(<<<<>>>>)}

AddChunk ==
  /\ draft.kind = "frame"
  /\ draft.chunks < MaxChunks \/ (draft.chunks = MaxChunks /\ draft.first \in Openers)
  /\ \E c \in Chunks :
       draft' = Frame(IF draft.chunks = 0 THEN c ELSE draft.first, draft.bytes \o c, draft.chunks + 1)

AddSymbol ==
  /\ draft.kind = "encoded" /\ Len(draft.text) < MaxSymbols
  /\ \E b \in Symbols : draft' = Encoded(Append(draft.text, b))

(* One component more, or one byte more in the last one. *)
AddByte ==
  /\ draft.kind = "path"
  /\ Len(draft.components) + Len(FlattenSeq(draft.components)) < MaxSymbols
  /\ \/ draft' = Path(Append(draft.components, <<>>))
     \/ \E b \in Bytes : draft' = Path([draft.components EXCEPT ![Len(draft.components)] = Append(@, b)])

Next == AddChunk \/ AddSymbol \/ AddByte

Spec == Init /\ [][Next]_draft

-----------------------------------------------------------------------------
(* The canonical forms, by what they are the encoding of *)

HeadOf(major, n) ==
  IF n < 24 THEN <<32 * major + n>>
  ELSE IF n < 256 THEN <<32 * major + 24, n>>
  ELSE <<32 * major + 25, n \div 256, n % 256>>

(* The numbers below 2^16 a head at the start of s could stand for. *)
Numbers(s) ==
  {s[1] % 32} \cup {s[i] : i \in 2..Len(s)} \cup {256 * s[i] + s[i + 1] : i \in 2..(Len(s) - 1)}

From(s, i) == SubSeq(s, i, Len(s))
Text(t) == HeadOf(3, Len(t)) \o t

RECURSIVE IsItem(_, _), Rows(_, _, _)

(* The ways to read s as n items. *)
Rows(s, n, depth) ==
  IF n = 0 THEN (IF s = <<>> THEN {<<>>} ELSE {})
  ELSE UNION {{<<SubSeq(s, 1, i)>> \o row : row \in Rows(From(s, i + 1), n - 1, depth)} :
                i \in {k \in 1..Len(s) : IsItem(SubSeq(s, 1, k), depth)}}

IsItem(s, depth) ==
  \E n \in Numbers(s) :
    LET major == s[1] \div 32
        head == HeadOf(major, n)
        body == From(s, Len(head) + 1)
        array(v, limit) == v[1] \div 32 = 4 /\ \E k \in Numbers(v) : k <= limit /\ IsPrefix(HeadOf(4, k), v)
    IN  /\ IsPrefix(head, s)
        /\ CASE major \in {0, 1} -> body = <<>>
             [] major = 2 -> Len(body) = n /\ n <= Limits.scalar_bytes
             [] major = 3 -> Len(body) = n /\ n <= Limits.scalar_bytes /\ ValidText(body)
             [] major = 4 -> depth < Limits.depth /\ n <= Limits.array_items /\ Rows(body, n, depth + 1) # {}
             [] major = 5 ->
                  /\ depth < Limits.depth /\ n <= Limits.map_pairs
                  /\ \E row \in Rows(body, 2 * n, depth + 1) :
                       /\ \A i, j \in 1..n : i < j => Before(row[2 * i - 1], row[2 * j - 1])
                       /\ \A i \in 1..n :
                            /\ row[2 * i - 1] = Text(ComponentsKey) =>
                                 /\ array(row[2 * i], Limits.path_components)
                                 /\ Len(s) <= Limits.encoded_path_bytes
                            /\ row[2 * i - 1] = Text(ActionsKey) => array(row[2 * i], Limits.actions)
             [] major = 6 -> FALSE
             [] major = 7 -> body = <<>> /\ n \in 20..22

(* A frame passes the scan exactly when it is the one canonical encoding of an *)
(* item within the limits; an encoded path is decoded exactly when it is what  *)
(* the path is encoded to, and a path within the limits comes back.  Digests   *)
(* are taken over such bytes, so that a second spelling of a plan would be a   *)
(* second plan (scanCanonicalCBOR, PercentDecodeTrashPathWithLimits).          *)
OnlyCanonicalFormsAreAccepted ==
  /\ draft.kind = "frame" =>
       (FrameAccepted(draft.bytes) <=>
          /\ draft.bytes # <<>> /\ Len(draft.bytes) <= Limits.frame_bytes
          /\ IsItem(draft.bytes, 0))
  /\ draft.kind = "encoded" =>
       LET path == Decode(draft.text) IN path # <<>> => IsPath(path) /\ Encode(path) = draft.text
  /\ draft.kind = "path" /\ IsPath(draft.components) =>
       LET text == Encode(draft.components)
           within == /\ Len(draft.components) <= Limits.components
                     /\ Len(FlattenSeq(draft.components)) <= Limits.decoded_bytes
                     /\ Len(text) <= Limits.input_bytes
       IN  Decode(text) = IF within THEN draft.components ELSE <<>>
=============================================================================
