----------------------------- MODULE Multibase -----------------------------
(***************************************************************************)
(* Package multibase: base58btc between bytes and text, the switch on the  *)
(* first character of a multibase text, and the multicodec prefix of a     *)
(* key.  The operations are pure: a step is one call, kept with its result *)
(* so that calls of the others can be compared with it.                    *)
(*                                                                         *)
(* The values of a byte (256), the characters of the alphabet (58) and the *)
(* length of a key (32) are parameters.  A character is a number; the ones *)
(* below CharBase are the alphabet in its order ('1' is 0), those below    *)
(* Codes take one byte, and the others are the runes above them.           *)
(***************************************************************************)
EXTENDS Integers, Sequences, FiniteSets

CONSTANTS
  ByteBase,   \* the values of a byte
  CharBase,   \* the characters of base58Alphabet
  Codes,      \* the characters of one byte: byte(c) is c modulo Codes
  Runes,      \* bound: the characters of a text
  KeySize,    \* the bytes of an Ed25519 public key
  KeyPrefix,  \* KeyPrefix[t]: the two bytes that mark a key of type t
  MaxData,    \* bound: the bytes of a buffer
  MaxText     \* bound: the characters of a text

KeyTypes == {"Ed25519Pub", "Ed25519Priv", "Secp256k1Pub", "P256Pub"}

ASSUME MultibaseAssumption ==
  /\ ByteBase \in Nat /\ CharBase \in Nat /\ 1 < CharBase
  /\ Codes \in Nat /\ CharBase < Codes /\ CharBase < ByteBase
  /\ Runes \in Nat /\ Codes < Runes
  /\ KeySize \in Nat /\ MaxData \in Nat /\ MaxText \in Nat
  /\ KeyPrefix \in [KeyTypes -> (0 .. ByteBase - 1) \X (0 .. ByteBase - 1)]
  /\ \A t, u \in KeyTypes : KeyPrefix[t] = KeyPrefix[u] => t = u

VARIABLE call  \* <<>>, or the last call: <<[op, in, out]>>

Strings(S, n) == UNION {[1 .. k -> S] : k \in 0 .. n}
Buffers == Strings(0 .. ByteBase - 1, MaxData)
Texts   == Strings(0 .. Runes - 1, MaxText)

Ok(data)   == [err |-> "none", data |-> data]
Err(error) == [err |-> error, data |-> <<>>]

-----------------------------------------------------------------------------
(* base58btc *)

(* The number whose digits are s, and the shortest digits of a number (none  *)
(* for 0), most significant first: the loops over big.Int and its Bytes.     *)
Number(s, base) ==
  LET n[i \in 0 .. Len(s)] == IF i = 0 THEN 0 ELSE n[i - 1] * base + s[i]
  IN  n[Len(s)]

Digits(number, base) ==
  LET d[n \in 0 .. number] ==
        IF n = 0 THEN <<>> ELSE Append(d[n \div base], n % base)
  IN  d[number]

(* How many zeros (the byte, or the character '1') s begins with.            *)
leadingZeros(s) == Cardinality({i \in 1 .. Len(s) : \A j \in 1 .. i : s[j] = 0})

Zeros(n) == [i \in 1 .. n |-> 0]

indexOf(b) == IF b < CharBase THEN b ELSE -1

(* Mutant: a run of '1' becomes one zero byte.                               *)
Base58DecodeOneZero(text) ==
  LET idx == [i \in 1 .. Len(text) |-> indexOf(text[i] % Codes)]
  IN  IF \E i \in 1 .. Len(text) : idx[i] < 0 THEN Err("invalid base58 character")
      ELSE Ok(Zeros(IF leadingZeros(text) > 0 THEN 1 ELSE 0)
                \o Digits(Number(idx, CharBase), ByteBase))

(* The loops range over runes and look up byte(c), the lowest byte of a      *)
(* rune; a '1' is counted by the rune itself.                                *)
Base58Decode(text) ==
  LET idx == [i \in 1 .. Len(text) |-> indexOf(text[i] % Codes)]
  IN  IF \E i \in 1 .. Len(text) : idx[i] < 0 THEN Err("invalid base58 character")
      ELSE Ok(Zeros(leadingZeros(text)) \o Digits(Number(idx, CharBase), ByteBase))

(* Mutant: the zeros are left to the big integer.                            *)
Base58EncodeNoZeros(data) == Digits(Number(data, ByteBase), CharBase)

Base58Encode(data) ==
  Zeros(leadingZeros(data)) \o Digits(Number(data, ByteBase), CharBase)

-----------------------------------------------------------------------------
(* Multibase and multicodec *)

(* The prefixes of encoding/hex and encoding/base64.  Their payloads are not *)
(* spelled out: a payload is the bytes it stands for, or malformed.          *)
Library   == {"f", "F", "u", "m", "M"}
Malformed == <<-1>>

Encodings == [z |-> "Base58btc", f |-> "HexLower", F |-> "HexUpper",
              u |-> "Base64URL", m |-> "Base64Std", M |-> "Base64StdNoPad"]

Result(encoding, r) == [err |-> r.err, data |-> r.data, encoding |-> encoding]

(* Decode of a text with this prefix ("" when the text is empty).            *)
MultibaseDecode(prefix, payload) ==
  CASE prefix = "" -> Result("none", Err("invalid input"))
    [] prefix = "z" ->
         LET r == Base58Decode(payload)
         IN  Result(IF r.err = "none" THEN Encodings.z ELSE "none", r)
    [] prefix \in Library ->
         IF payload = Malformed THEN Result("none", Err("invalid input"))
         ELSE Result(Encodings[prefix], Ok(payload))
    [] OTHER -> Result("none", Err("unsupported encoding"))

(* Mutant: the payload may be longer than a key.                             *)
ExtractEd25519PubKeyLonger(data) ==
  IF Len(data) < 2 \/ SubSeq(data, 1, 2) # KeyPrefix["Ed25519Pub"]
  THEN Err("unsupported key type")
  ELSE IF Len(data) < 2 + KeySize THEN Err("invalid key length")
  ELSE Ok(SubSeq(data, 3, 2 + KeySize))

ExtractEd25519PubKey(data) ==
  IF Len(data) < 2 \/ SubSeq(data, 1, 2) # KeyPrefix["Ed25519Pub"]
  THEN Err("unsupported key type")
  ELSE IF Len(data) # 2 + KeySize THEN Err("invalid key length")
  ELSE Ok(SubSeq(data, 3, 2 + KeySize))

(* The key type, "Unknown" for other prefixes, or "invalid input".           *)
ExtractKeyType(data) ==
  IF Len(data) < 2 THEN "invalid input"
  ELSE IF \E t \in KeyTypes : KeyPrefix[t] = SubSeq(data, 1, 2)
  THEN CHOOSE t \in KeyTypes : KeyPrefix[t] = SubSeq(data, 1, 2)
  ELSE "Unknown"

DecodeEd25519PubKey(prefix, payload) ==
  LET r == MultibaseDecode(prefix, payload)
  IN  IF r.err # "none" THEN Err(r.err) ELSE ExtractEd25519PubKey(r.data)

-----------------------------------------------------------------------------
(* Calls *)

Called(op, in, out) == call' = <<[op |-> op, in |-> in, out |-> out]>>

CallEncode(data) == Called("encode", data, Base58Encode(data))

CallDecode(text) == Called("decode", text, Base58Decode(text))

(* A publicKeyMultibase field that holds data under some prefix.             *)
CallReadKey(prefix, data) ==
  LET payload == IF prefix = "z" THEN Base58Encode(data) ELSE data
  IN  Called("key", [prefix |-> prefix, data |-> data],
             DecodeEd25519PubKey(prefix, payload))

(* One whose payload is malformed, or that is empty.                         *)
CallReadNoKey(prefix) ==
  Called("key", [prefix |-> prefix, data |-> <<>>],
         DecodeEd25519PubKey(prefix, Malformed))

MultibaseInit == call = <<>>

MultibaseNext ==
  /\ call = <<>>
  /\ \/ \E data \in Buffers :
          \/ CallEncode(data)
          \/ \E prefix \in Library \cup {"z", "x"} : CallReadKey(prefix, data)
     \/ \E text \in Texts : CallDecode(text)
     \/ \E prefix \in Library \cup {""} : CallReadNoKey(prefix)

MultibaseSpec == MultibaseInit /\ [][MultibaseNext]_call

-----------------------------------------------------------------------------
(* Properties *)

LastCall(op) == call # <<>> /\ call[1].op = op

(* Base58Decode gives back the bytes that Base58Encode was given, the zero   *)
(* bytes in front, which the number does not hold, included.                 *)
Base58RoundTrip == LastCall("encode") => Base58Decode(call[1].out) = Ok(call[1].in)

(* A text has one reading and bytes have one text: what Base58Decode accepts *)
(* is what Base58Encode writes for its result, and it refuses a text only    *)
(* for a character outside the alphabet.  Only texts of one-byte characters  *)
(* are so: a rune above them is taken for its lowest byte.                   *)
Base58Canonical ==
  LastCall("decode") =>
    LET text == call[1].in
        r    == call[1].out
    IN  /\ r.err # "none" => \E i \in 1 .. Len(text) : text[i] >= CharBase
        /\ r.err = "none" => \/ Base58Encode(r.data) = text
                             \/ \E i \in 1 .. Len(text) : text[i] >= Codes

(* A field yields a key exactly when its bytes are one that ExtractKeyType   *)
(* calls an Ed25519 public key, of KeySize bytes, under any prefix that is   *)
(* supported; the key is those bytes, whatever the encoding.                 *)
KeyReadExact ==
  LastCall("key") =>
    LET field == call[1].in
        isKey == /\ ExtractKeyType(field.data) = "Ed25519Pub"
                 /\ Len(field.data) = 2 + KeySize
                 /\ field.prefix \in Library \cup {"z"}
    IN  /\ call[1].out.err = "none" <=> isKey
        /\ isKey => KeyPrefix["Ed25519Pub"] \o call[1].out.data = field.data
=============================================================================
