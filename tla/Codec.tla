------------------------------- MODULE Codec -------------------------------
(***************************************************************************)
(* The canonical encoding (encoding.py) and the values written in it: the  *)
(* payloads of p2p_protocol.py, transactions and the parts of a block.     *)
(*                                                                         *)
(* A byte is one of Base values.  Everything the decoders do with a layout *)
(* is here: the order of the fields, the limits given to the reader, the   *)
(* tests after the last field.  A value is the sequence of its fields, the *)
(* domain first; a text is a sequence of characters of one byte each.      *)
(***************************************************************************)
EXTENDS Integers, Sequences, SequencesExt

CONSTANTS
  Base,                                \* how many values a byte has
  U16Width, U32Width, U64Width,        \* bytes of an integer
  NodeIdLength, HashLength, WorkLength, TargetLength,
  PublicKeyLength, SignatureLength,
  MaxChainId, MaxAddress, MaxReason,   \* MAX_CHAIN_ID_BYTES, ...
  MaxLocator, MaxBlockTransactions,    \* items of a sequence
  MaxPart,                             \* bytes of a header, reward, transaction
  Domain                               \* kind -> its domain separator

Flat == {"Hello", "BlockLocator", "ChainSummary", "Reject", "Ping",
         "Transaction", "RewardTransaction", "BlockHeader"}
Kinds == Flat \cup {"Block"}

Byte == 0 .. Base - 1

ASSUME CodecAssumption ==
  /\ Base \in Nat /\ Base > 3
  /\ {U16Width, U32Width, U64Width, NodeIdLength, HashLength, WorkLength,
      TargetLength, PublicKeyLength, SignatureLength, MaxChainId, MaxAddress,
      MaxReason, MaxLocator, MaxBlockTransactions, MaxPart} \subseteq Nat \ {0}
  /\ DOMAIN Domain = Kinds \ {"Ping"}
  /\ \A k \in DOMAIN Domain : Domain[k] \in Seq(Byte)
  /\ \A k, l \in DOMAIN Domain : Domain[k] = Domain[l] => k = l

-----------------------------------------------------------------------------
(* Text: of the bytes, one is no UTF-8 and one is a letter that a combining
   mark turns into another. *)

Malformed == 0
Letter    == 1
Composed  == 2
Combining == 3

Utf8(s) == Malformed \notin Range(s)

(* normalize("NFC", s) *)
Nfc[s \in Seq(Byte)] ==
  LET upTo[i \in 0 .. Len(s)] ==
        IF i = 0 THEN <<>>
        ELSE LET done == upTo[i - 1]
             IN  IF s[i] = Combining /\ done # <<>> /\ Last(done) = Letter
                   THEN Append(Front(done), Composed)
                   ELSE Append(done, s[i])
  IN  upTo[Len(s)]

-----------------------------------------------------------------------------
(* The fields of a layout.  `size` is the width of an integer, the greatest
   length of bytes, text or an item; only the last field may be a sequence. *)

Field(type, size) == [type |-> type, size |-> size, items |-> 0]
Uint(width)       == Field("uint", width)
Bytes(max)        == Field("bytes", max)
Exact(length)     == Field("exact", length)    \* bytes whose length is tested later
Number(length)    == Field("number", length)   \* a positive integer in so many bytes
Text(max)         == Field("text", max)
Items(n, max)     == [Field("items", max) EXCEPT !.items = n]    \* any number up to n
Hashes(n)         == [Field("hashes", HashLength) EXCEPT !.items = n]

Layout(kind) ==
  CASE kind = "Hello" ->
         <<Exact(NodeIdLength), Text(MaxChainId), Exact(HashLength), Exact(HashLength),
           Uint(U64Width), Number(WorkLength), Uint(U16Width)>>
    [] kind = "BlockLocator" -> <<Hashes(MaxLocator)>>
    [] kind = "ChainSummary" -> <<Exact(HashLength), Uint(U64Width), Number(WorkLength)>>
    [] kind = "Reject" -> <<Uint(U16Width), Text(MaxReason)>>
    [] kind = "Ping" -> <<Uint(U64Width)>>
    [] kind = "Transaction" ->
         <<Uint(U16Width), Text(MaxChainId), Bytes(PublicKeyLength),
           Text(MaxAddress), Text(MaxAddress), Uint(U64Width), Uint(U64Width),
           Uint(U64Width), Uint(U64Width), Bytes(SignatureLength)>>
    [] kind = "RewardTransaction" ->
         <<Uint(U16Width), Text(MaxChainId), Uint(U64Width), Text(MaxAddress),
           Uint(U64Width)>>
    [] kind = "BlockHeader" ->
         <<Uint(U16Width), Text(MaxChainId), Uint(U64Width), Exact(HashLength),
           Exact(HashLength), Exact(HashLength), Uint(U64Width),
           Number(TargetLength), Uint(U64Width), Text(MaxAddress)>>
    [] kind = "Block" ->
         <<Bytes(MaxPart), Bytes(MaxPart), Items(MaxBlockTransactions, MaxPart)>>

-----------------------------------------------------------------------------
(* Encoding *)

(* The field that each item of a sequence is read as. *)
Item(f) == Field(IF f.type = "hashes" THEN "exact" ELSE "bytes", f.size)

(* int.to_bytes(width, "big") *)
EncodeUint(n, width) ==
  LET left[k \in 0 .. width] == IF k = 0 THEN n ELSE left[k - 1] \div Base
  IN  [i \in 1 .. width |-> left[width - i] % Base]

(* int.from_bytes(s, "big") *)
DecodeUint(s) ==
  LET upTo[i \in 0 .. Len(s)] == IF i = 0 THEN 0 ELSE upTo[i - 1] * Base + s[i]
  IN  upTo[Len(s)]

(* The number has so many digits (_encode_unsigned raises for a greater one). *)
FitsWidth(n, width) == \E s \in [1 .. width -> Byte] : DecodeUint(s) = n

(* b"".join of n pieces *)
Join(n, pieces) ==
  LET upTo[i \in 0 .. n] == IF i = 0 THEN <<>> ELSE upTo[i - 1] \o pieces[i] IN upTo[n]

EncodeBytes(s) == LET length == Len(s) IN EncodeUint(length, U32Width) \o s
EncodeText(s)  == LET canonical == Nfc[s] IN EncodeBytes(canonical)
EncodeItems(s) ==
  LET count == Len(s)
  IN  EncodeUint(count, U32Width) \o Join(count, [i \in 1 .. count |-> EncodeBytes(s[i])])

EncodeField(f, v) ==
  CASE f.type = "uint" -> EncodeUint(v, f.size)
    [] f.type \in {"bytes", "exact"} -> EncodeBytes(v)
    [] f.type = "number" -> EncodeBytes(EncodeUint(v, f.size))
    [] f.type = "text" -> EncodeText(v)
    [] f.type \in {"items", "hashes"} -> EncodeItems(v)

EncodeDomain(kind) == IF kind = "Ping" THEN <<>> ELSE EncodeBytes(Domain[kind])

EncodeFlat(kind, v) ==
  LET fields == Layout(kind)
  IN  EncodeDomain(kind) \o Join(Len(fields), [i \in 1 .. Len(fields) |-> EncodeField(fields[i], v[i])])

(* The envelope of a block. *)
BlockParts(v) ==
  <<EncodeFlat("BlockHeader", v[1]), EncodeFlat("RewardTransaction", v[2]),
    [i \in DOMAIN v[3] |-> EncodeFlat("Transaction", v[3][i])]>>

(* to_bytes of each kind, encode_ping, encode_block.  The parts of a block are
   values of their kinds. *)
Encode(kind, v) ==
  IF kind # "Block" THEN EncodeFlat(kind, v)
  ELSE LET parts == BlockParts(v) IN EncodeFlat("Block", parts)

(* The limits of the layouts and the lengths of the domains fit a length prefix. *)
ASSUME LimitsFit ==
  /\ \A k \in DOMAIN Domain : FitsWidth(Len(Domain[k]), U32Width)
  /\ \A k \in Kinds : \A i \in DOMAIN Layout(k) :
       \A n \in 0 .. Layout(k)[i].size \cup 0 .. Layout(k)[i].items : FitsWidth(n, U32Width)

(* A value of the field that the encoder takes and that is within the reader's
   limits: the tests of _encode_unsigned, _encode_work, _exact_bytes and to_bytes,
   and the limits that the fields of validated transactions and headers keep. *)
Encodable(f, v) ==
  CASE f.type = "uint"   -> FitsWidth(v, f.size)
    [] f.type = "bytes"  -> v \in Seq(Byte) /\ Len(v) <= f.size
    [] f.type = "exact"  -> v \in Seq(Byte) /\ Len(v) = f.size
    [] f.type = "number" -> v > 0 /\ FitsWidth(v, f.size)
    [] f.type = "text"   -> v \in Seq(Byte) /\ Utf8(v) /\ Len(Nfc[v]) <= f.size
    [] f.type \in {"items", "hashes"} ->
         /\ Len(v) <= f.items /\ (f.type = "hashes" => v # <<>>)
         /\ v \in Seq(Seq(Byte))
         /\ \A i \in DOMAIN v :
              IF f.type = "hashes" THEN Len(v[i]) = f.size ELSE Len(v[i]) <= f.size

EncodableFlat(kind, v) ==
  LET fields == Layout(kind)
  IN  DOMAIN v = DOMAIN fields /\ \A i \in DOMAIN fields : Encodable(fields[i], v[i])

EncodableValue(kind, v) ==
  IF kind # "Block" THEN EncodableFlat(kind, v)
  ELSE /\ EncodableFlat("BlockHeader", v[1]) /\ EncodableFlat("RewardTransaction", v[2])
       /\ \A i \in DOMAIN v[3] : EncodableFlat("Transaction", v[3][i])
       /\ EncodableFlat("Block", BlockParts(v))

-----------------------------------------------------------------------------
(* What comes back of a value: its texts are normalized. *)
NormalFlat(kind, v) ==
  [i \in DOMAIN v |-> IF Layout(kind)[i].type = "text" THEN Nfc[v[i]] ELSE v[i]]

Normal(kind, v) ==
  IF kind # "Block" THEN NormalFlat(kind, v)
  ELSE <<NormalFlat("BlockHeader", v[1]), NormalFlat("RewardTransaction", v[2]),
         [i \in DOMAIN v[3] |-> NormalFlat("Transaction", v[3][i])]>>
=============================================================================
