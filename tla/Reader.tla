------------------------------- MODULE Reader -------------------------------
(***************************************************************************)
(* The decoders at work (CanonicalReader and from_bytes of every kind): a  *)
(* value is encoded, its bytes may be changed on the way, and a decoder    *)
(* reads them field by field until it raises or is finished.               *)
(***************************************************************************)
EXTENDS Codec

CONSTANTS
  Values,       \* kind -> the values that are sent
  MaxEdits      \* kind -> bound: how often the bytes are changed

ASSUME ReaderAssumption ==
  /\ DOMAIN Values = Kinds /\ DOMAIN MaxEdits = Kinds
  /\ \A k \in Kinds : \A v \in Values[k] : EncodableValue(k, v)

NoKind == "none"

VARIABLES
  kind, value,   \* what is sent
  encoded,       \* the bytes the decoder gets
  edits,
  decoder,       \* the kind that is to be decoded
  current,       \* the kind that is being read: the decoder's or of a block's part
  rest,          \* CanonicalReader's data from _offset on
  fields,        \* what has still to be read of this part
  got,           \* what has been read of it
  parts,         \* the parts that have still to be read, as <<kind, bytes>>
  decoded,       \* the values of the parts that have been read
  outcome        \* "reading", "accepted", "refused"

inputVars == <<kind, value, encoded, edits>>
partVars == <<current, rest, fields, got>>
readerVars == <<inputVars, decoder, partVars, parts, decoded, outcome>>

ReaderInit ==
  /\ kind \in Kinds /\ value \in Values[kind]
  /\ encoded = Encode(kind, value) /\ edits = 0
  /\ decoder = NoKind /\ current = NoKind
  /\ rest = <<>> /\ fields = <<>> /\ got = <<>>
  /\ parts = <<>> /\ decoded = <<>> /\ outcome = "reading"

-----------------------------------------------------------------------------
(* The bytes on their way *)

Edit(new) ==
  /\ decoder = NoKind /\ edits < MaxEdits[kind]
  /\ edits' = edits + 1 /\ encoded' = new
  /\ UNCHANGED <<kind, value, decoder, partVars, parts, decoded, outcome>>

Change   == \E i \in DOMAIN encoded, x \in Byte : Edit([encoded EXCEPT ![i] = x])
Truncate == \E n \in 0 .. Len(encoded) - 1 : Edit(SubSeq(encoded, 1, n))
Extend   == \E x \in Byte : Edit(Append(encoded, x))

-----------------------------------------------------------------------------
(* Reading *)

DomainField(k) == IF k = "Ping" THEN <<>> ELSE <<Field("domain", Len(Domain[k]))>>

(* CanonicalReader(encoded) *)
Begin(k, bytes) ==
  /\ current' = k
  /\ rest' = bytes
  /\ fields' = DomainField(k) \o Layout(k)
  /\ got' = <<>>

(* A message of one kind may reach the decoder of another while it is intact. *)
Start(k) ==
  /\ decoder = NoKind /\ (k = kind \/ edits = 0)
  /\ decoder' = k
  /\ Begin(k, encoded)
  /\ UNCHANGED <<inputVars, parts, decoded, outcome>>

Reading == decoder # NoKind /\ outcome = "reading"
Expects(types) == Reading /\ fields # <<>> /\ Head(fields).type \in types

Take(n) == SubSeq(rest, 1, n)
Leave(n) == SubSeq(rest, n + 1, Len(rest))

(* The length prefix, and the bytes after it. *)
Length    == DecodeUint(Take(U32Width))
NextBytes == SubSeq(rest, U32Width + 1, U32Width + Length)

HasUint(width) == Len(rest) >= width
HasBytesBelow(max) ==
  HasUint(U32Width) /\ Length < max /\ Len(rest) - U32Width >= Length

HasBytes(max) ==
  HasUint(U32Width) /\ Length <= max /\ Len(rest) - U32Width >= Length

ProperUnnormalized(f, s) ==
  /\ f.type = "domain" => s = Domain[current]
  /\ f.type = "text" => Utf8(s)
  /\ f.type \in {"exact", "number"} => Len(s) = f.size
  /\ f.type = "number" => DecodeUint(s) > 0

(* The tests on the bytes of a field: the domain, UTF-8 in normal form, a
   length, a positive number. *)
Proper(f, s) ==
  /\ f.type = "domain" => s = Domain[current]
  /\ f.type = "text" => Utf8(s) /\ Nfc[s] = s
  /\ f.type \in {"exact", "number"} => Len(s) = f.size
  /\ f.type = "number" => DecodeUint(s) > 0

Got(v, n) ==
  /\ got' = Append(got, v) /\ rest' = Leave(n) /\ fields' = Tail(fields)
  /\ UNCHANGED <<inputVars, decoder, current, parts, decoded, outcome>>

(* read_u16, read_u64 *)
ReadUint ==
  /\ Expects({"uint"}) /\ HasUint(Head(fields).size)
  /\ Got(DecodeUint(Take(Head(fields).size)), Head(fields).size)

(* read_bytes, read_text, and what is done with the bytes: the domain is
   compared and dropped, a number is converted. *)
ReadBytes ==
  /\ Expects({"domain", "bytes", "exact", "number", "text"})
  /\ HasBytes(Head(fields).size) /\ Proper(Head(fields), NextBytes)
  /\ LET type == Head(fields).type
     IN  got' = CASE type = "domain" -> got
                  [] type = "number" -> Append(got, DecodeUint(NextBytes))
                  [] OTHER           -> Append(got, NextBytes)
  /\ rest' = Leave(U32Width + Length) /\ fields' = Tail(fields)
  /\ UNCHANGED <<inputVars, decoder, current, parts, decoded, outcome>>

(* read_sequence: the number of items, which are read next.  A locator has one. *)
HasCount(f) ==
  HasUint(U32Width) /\ Length <= f.items /\ (f.type = "hashes" => Length > 0)

ReadCount ==
  /\ Expects({"items", "hashes"}) /\ HasCount(Head(fields))
  /\ fields' = [i \in 1 .. Length |-> Item(Head(fields))] \o Tail(fields)
  /\ rest' = Leave(U32Width)
  /\ UNCHANGED <<inputVars, decoder, current, got, parts, decoded, outcome>>

(* One of these tests fails: the decoder raises. *)
Refuse ==
  /\ Reading
  /\ IF fields = <<>> THEN rest # <<>>          \* ensure_finished
     ELSE LET f == Head(fields)
          IN  CASE f.type = "uint" -> ~HasUint(f.size)
                [] f.type \in {"items", "hashes"} -> ~HasCount(f)
                [] OTHER -> ~(HasBytes(f.size) /\ Proper(f, NextBytes))
  /\ outcome' = "refused"
  /\ UNCHANGED <<inputVars, decoder, partVars, parts, decoded>>

Finished == Reading /\ fields = <<>> /\ rest = <<>>

(* decode_block has the envelope: its parts are decoded in turn. *)
OpenEnvelope ==
  /\ Finished /\ current = "Block"
  /\ Begin("BlockHeader", got[1])
  /\ parts' = <<<<"RewardTransaction", got[2]>>>>
              \o [i \in 1 .. Len(got) - 2 |-> <<"Transaction", got[i + 2]>>]
  /\ UNCHANGED <<inputVars, decoder, decoded, outcome>>

(* A value is complete. *)
Decoded ==
  /\ Finished /\ current # "Block"
  /\ decoded' = Append(decoded, IF current = "BlockLocator" THEN <<got>> ELSE got)
  /\ IF parts = <<>>
       THEN outcome' = "accepted" /\ UNCHANGED <<partVars, parts>>
       ELSE /\ Begin(Head(parts)[1], Head(parts)[2])
            /\ parts' = Tail(parts)
            /\ UNCHANGED outcome
  /\ UNCHANGED <<inputVars, decoder>>

ReaderNext ==
  \/ Change \/ Truncate \/ Extend
  \/ \E k \in Kinds : Start(k)
  \/ ReadUint \/ ReadBytes \/ ReadCount \/ Refuse \/ OpenEnvelope \/ Decoded

ReaderSpec == ReaderInit /\ [][ReaderNext]_readerVars

(* What from_bytes, decode_ping or decode_block returns. *)
Result ==
  IF decoder # "Block" THEN decoded[1]
  ELSE <<decoded[1], decoded[2], SubSeq(decoded, 3, Len(decoded))>>

-----------------------------------------------------------------------------
(* The bytes are bytes, and what has been read and what has not are never more
   than the bytes there were. *)
ReaderTypeOK ==
  /\ kind \in Kinds /\ value \in Values[kind]
  /\ encoded \in Seq(Byte) /\ rest \in Seq(Byte) /\ Len(rest) <= Len(encoded)
  /\ decoder \in Kinds \cup {NoKind} /\ current \in Kinds \cup {NoKind}
  /\ outcome \in {"reading", "accepted", "refused"}
  /\ outcome = "accepted" => parts = <<>> /\ fields = <<>>

(* What was sent is read: the encoding of a value is not refused, and gives
   that value back with its texts in normal form (to_bytes and from_bytes). *)
SentIsRead ==
  decoder = kind /\ encoded = Encode(kind, value) =>
    /\ outcome # "refused"
    /\ outcome = "accepted" => Result = Normal(kind, value)

(* The encoding is canonical: a decoder accepts nothing but the bytes that the
   encoder makes of the value it returns.  A txid or block_hash, which is the
   hash of an encoding, is therefore the hash of one value, and no other bytes
   are the same transaction or header. *)
AcceptedIsCanonical ==
  outcome = "accepted" => Encode(decoder, Result) = encoded

=============================================================================
