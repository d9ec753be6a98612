---------------------------- MODULE MCActivation ----------------------------
(* Instances of Activation for TLC, and Sealing on bounded inputs.         *)
EXTENDS Activation, Sealing, TLC

NoFlags  == [creds : {FALSE}, lineup : {FALSE}]
AnyFlags == NoFlags \union [creds : {TRUE}, lineup : {TRUE}]

(* One process life after another with other flags and secrets; with a     *)
(* device the settings name, too; and settings that move the files and     *)
(* switch the guide.                                                       *)
OfStarts ==
    [secrets |-> Secrets, flags |-> AnyFlags, logins |-> {"given"},
     devices |-> {NoDevice}, guides |-> {TRUE}, moves |-> FALSE, restarts |-> 1]
OfDevices ==
    [secrets |-> Secrets, flags |-> NoFlags, logins |-> {"none"},
     devices |-> Some, guides |-> {TRUE}, moves |-> FALSE, restarts |-> 1]
OfSettings ==
    [secrets |-> Secrets, flags |-> NoFlags, logins |-> {"none"},
     devices |-> {NoDevice}, guides |-> BOOLEAN, moves |-> TRUE, restarts |-> 0]

Each == {OfStarts, OfDevices, OfSettings}
Few  == {[OfDevices EXCEPT !.restarts = 0]}

Symmetry == Permutations(Devices) \union Permutations(Handlers)
                \union Permutations(Secrets)

(* n bytes of which the last k are b.                                      *)
Ending(n, k, b) == [i \in 1 .. n |-> IF i > n - k THEN b ELSE 7]

SealedTexts == {Ending(n, k, b) : n \in {0, 1, 14, 15, 16, 17, 31, 32},
                                  k \in {0, 1, 2, 15, 16}, b \in {0, 1, 2, 15, 16, 255}}
SomeVectors == {[i \in 1 .. BlockSize |-> b] : b \in {0, 255}}

(* A cipher of which only CipherAssumption matters.                        *)
Shift(key, vector, text, way) ==
    [i \in 1 .. Len(text) |->
        (text[i] + way * (key + vector[((i - 1) % BlockSize) + 1])) % 256]
ShiftOn(key, vector, text)   == Shift(key, vector, text, 1)
ShiftBack(key, vector, text) == Shift(key, vector, text, -1)

(* Sealed credentials are read back, and only what Pad makes is unpadded.  *)
ASSUME SealingReference ==
    /\ \A key \in Keys, vector \in Vectors, plain \in Plains :
          Unseal(key, Seal(key, vector, plain)) = plain
    /\ \A n \in {0, 1, 15, 16, 17, 32}, b \in {0, 1, 2, 15, 16, 17, 255} :
          \A k \in 0 .. n :
             LET data == Ending(n, k, b)
                 ok   == n > 0 /\ n % 16 = 0
                           /\ \/ b \in 1 .. 16 /\ b <= k
                              \/ k = 0 /\ 7 <= n
             IN  IF ok THEN Pad(Unpad(data)) = data ELSE Unpad(data) = Failed
=============================================================================
