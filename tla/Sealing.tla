------------------------------ MODULE Sealing ------------------------------
(***************************************************************************)
(* How the credentials are sealed before they go into the database         *)
(* (encryptCredentials, decryptCredentials, pkcs7Pad and pkcs7Unpad of     *)
(* internal/tablo/crypto.go): padded to whole blocks, enciphered, behind   *)
(* the initial vector.  Bytes are numbers.                                 *)
(***************************************************************************)
EXTENDS Integers, Sequences

CONSTANTS
    Keys,     \* what credentialKey makes of the secrets
    Vectors,  \* initial vectors
    Plains,   \* the texts that are sealed: credentials in JSON
    Encipher(_, _, _), Decipher(_, _, _),  \* AES in CBC mode: key, vector, text
    Failed    \* what an error stands for

Byte  == 0 .. 255
Bytes == Seq(Byte)
BlockSize == 16  \* aes.BlockSize

ASSUME FailedAssumption == Failed \notin Bytes
ASSUME PlainAssumption  ==
    /\ Vectors \subseteq [1 .. BlockSize -> Byte]
    /\ Plains \subseteq Bytes

(* data and its padding: one to BlockSize bytes, each of them their number.*)
Pad(data) ==
    LET padding == BlockSize - (Len(data) % BlockSize)
    IN  data \o [i \in 1 .. padding |-> padding]

Unpad(data) ==
    LET padding == data[Len(data)]
        rest    == Len(data) - padding
    IN  IF \/ Len(data) = 0 \/ Len(data) % BlockSize # 0
           \/ padding = 0 \/ padding > BlockSize \/ padding > Len(data)
           \/ \E i \in rest + 1 .. Len(data) : data[i] # padding
        THEN Failed
        ELSE SubSeq(data, 1, rest)

(* The cipher keeps the length of whole blocks and can be undone.          *)
ASSUME CipherAssumption ==
    \A key \in Keys, vector \in Vectors, plain \in Plains :
        LET text == Encipher(key, vector, Pad(plain))
        IN  /\ text \in Bytes /\ Len(text) = Len(Pad(plain))
            /\ Decipher(key, vector, text) = Pad(plain)

Seal(key, vector, plain) == vector \o Encipher(key, vector, Pad(plain))

Unseal(key, sealed) ==
    IF Len(sealed) < BlockSize \/ Len(sealed) % BlockSize # 0
    THEN Failed
    ELSE Unpad(Decipher(key, SubSeq(sealed, 1, BlockSize),
                        SubSeq(sealed, BlockSize + 1, Len(sealed))))
=============================================================================
