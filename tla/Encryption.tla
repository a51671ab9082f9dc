------------------------------ MODULE Encryption ------------------------------
(***************************************************************************)
(* The encryption of message contents (utils/generateKeyEncript.go).  Every *)
(* room has a key and an iv, which are stored in its EncryptionData under   *)
(* the master key and iv of the configuration.  A client encrypts a message *)
(* with them and the server, which keeps the plain text as well, decrypts   *)
(* it.  The functions are pure: each yields the set of its outcomes, of     *)
(* which there are several where it decrypts with a key that does not fit.  *)
(*                                                                          *)
(* A ciphertext is the plain bytes together with the key and the iv they    *)
(* were encrypted with; hexadecimal and base64 keep the bytes, and what is  *)
(* neither is marked so.                                                    *)
(***************************************************************************)
EXTENDS Integers, Sequences

CONSTANTS Block,       \* the block of AES (16)
          TopByte,     \* the greatest byte (255)
          Keys, Ivs,   \* keys and ivs of rooms and of the configuration
          Messages     \* plain texts

Bytes == 0..TopByte

\* Whether the text is hexadecimal, the bytes it is of, and which of them it is.
KeySizes == {16, 24, 32}
KeyShape == [hex : BOOLEAN, size : Nat, id : Nat]

ASSUME EncryptionAssumption ==
  /\ TopByte \in Nat /\ Block \in 1..TopByte
  /\ Keys \subseteq KeyShape /\ Ivs \subseteq KeyShape
  /\ Messages \subseteq Seq(Bytes)

\* A call returns a value, returns an error, or panics.
Value(x) == [how |-> "value", value |-> x]
Error    == [how |-> "error", value |-> <<>>]
Panic    == [how |-> "panic", value |-> <<>>]
------------------------------------------------------------------------------
\* Mutant: a message of whole blocks gets no padding.
pkcs7PaddingPartial(data) ==
  LET padding == (Block - (Len(data) % Block)) % Block
  IN data \o [i \in 1..padding |-> padding]

pkcs7Padding(data) ==
  LET padding == Block - (Len(data) % Block)
  IN data \o [i \in 1..padding |-> padding]

\* Only the last byte is looked at.
pkcs7Unpadding(data) ==
  IF data = <<>> \/ data[Len(data)] > Len(data) THEN Panic
  ELSE Value(SubSeq(data, 1, Len(data) - data[Len(data)]))

\* aes.NewCipher refuses the size of a key, cipher.NewCBC* panics over that of an iv.
Cipher(key, iv) ==
  IF ~key.hex \/ ~iv.hex \/ key.size \notin KeySizes THEN {Error}
  ELSE IF iv.size # Block THEN {Panic}
  ELSE {}
Usable(key, iv) == Cipher(key, iv) = {}

\* CryptBlocks of a decrypter: with another key anything may come out, with another iv
\* the first block is lost.
CryptBlocks(key, iv, c) ==
  {d \in [1..Len(c.data) -> Bytes] :
     key = c.key => \A i \in DOMAIN d : i > Block \/ iv = c.iv => d[i] = c.data[i]}
------------------------------------------------------------------------------
\* EncryptionData: the room's key and iv as JSON, of "size" bytes with the padding.
Sealed(text, size, master, masterIv, key, iv) ==
  [text |-> text, size |-> size, master |-> master, masterIv |-> masterIv,
   key |-> key, iv |-> iv]

\* makePublicEncryptUtil; the room's key and iv are random and of the right sizes.
GenerateKeyEncript(master, masterIv, key, iv) ==
  IF Usable(master, masterIv)
  THEN {Value(Sealed("base64", 2 * Block, master, masterIv, key, iv))}
  ELSE Cipher(master, masterIv)

\* makePublicDecryptUtil, after fromBase64.  Under another key the JSON is lost with the
\* padding, under another iv it is lost alone.
Opened(data, master, masterIv) ==
  IF data.text # "base64" THEN {Error}
  ELSE IF ~Usable(master, masterIv) THEN Cipher(master, masterIv)
  ELSE IF data.size = 0 \/ data.size % Block # 0 THEN {Panic}
  ELSE IF data.master # master THEN {Error, Panic}
  ELSE IF data.masterIv # masterIv THEN {Error}
  ELSE {Value([key |-> data.key, iv |-> data.iv])}

EncryptWith(message, room) ==
  IF message = <<>> THEN {Error}
  ELSE IF ~Usable(room.key, room.iv) THEN Cipher(room.key, room.iv)
  ELSE {Value([text |-> "base64", key |-> room.key, iv |-> room.iv,
               data |-> pkcs7Padding(message)])}

EncryptMessage(message, data, master, masterIv) ==
  UNION {IF o.how = "value" THEN EncryptWith(message, o.value) ELSE {o} :
           o \in Opened(data, master, masterIv)}

\* A size that is no whole blocks returns the error of the call before it, which is nil:
\* the message decrypts to the empty one.
DecryptWith(c, room) ==
  IF c.text # "base64" THEN {Error}
  ELSE IF c.data = <<>> \/ Len(c.data) % Block # 0 THEN {Value(<<>>)}
  ELSE IF ~Usable(room.key, room.iv) THEN Cipher(room.key, room.iv)
  ELSE {pkcs7Unpadding(d) : d \in CryptBlocks(room.key, room.iv, c)}

DecryptMessage(c, data, master, masterIv) ==
  UNION {IF o.how = "value" THEN DecryptWith(c, o.value) ELSE {o} :
           o \in Opened(data, master, masterIv)}

\* SendMessage stores what could not be decrypted as the empty message.
contentDecrypted(c, data, master, masterIv) ==
  {IF o.how = "error" THEN Value(<<>>) ELSE o : o \in DecryptMessage(c, data, master, masterIv)}
------------------------------------------------------------------------------
\* What a client encrypts with the EncryptionData of a room, the server that generated
\* it gets back, whatever the length of the message.
RoundTrip ==
  \A master, key \in Keys, masterIv, iv \in Ivs, m \in Messages \ {<<>>} :
    Usable(master, masterIv) /\ Usable(key, iv) =>
      \A room \in GenerateKeyEncript(master, masterIv, key, iv) :
        \A sent \in EncryptMessage(m, room.value, master, masterIv) :
          /\ sent.how = "value"
          /\ contentDecrypted(sent.value, room.value, master, masterIv) = {Value(m)}
=============================================================================
