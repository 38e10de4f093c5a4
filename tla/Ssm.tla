-------------------------------- MODULE Ssm --------------------------------
(***************************************************************************)
(* The crypto helpers (ssm.c) around a block cipher (mbedtls, external): a     *)
(* message of any length is encrypted in blocks, the last one filled up with    *)
(* zeroes, and decrypted again, into the same buffer or another; the two MACs;  *)
(* the PIN block. What is behind the message in its buffer is unknown.           *)
(***************************************************************************)
EXTENDS Numbers, Sequences

CONSTANTS
    Block,      \* bytes of a block: 8, for AES 16
    Bytes,      \* what a byte may be: 0..255
    Keys,
    Cipher,     \* Cipher[k]: the blocks as key k encrypts them
    Messages,
    Pins        \* [pin, track]: its digits, and the twelve that are used of track2

Blocks == [1..Block -> Bytes]

ASSUME BlockAssumption == Block \in Nat \ {0}
ASSUME BytesAssumption ==
    0 \in Bytes /\ Bytes \subseteq 0..255 /\ \A a, b \in Bytes : Xor(a, b) \in Bytes
ASSUME CipherAssumption ==
    \A k \in Keys : /\ Cipher[k] \in [Blocks -> Blocks]
                    /\ \A b, c \in Blocks : Cipher[k][b] = Cipher[k][c] => b = c
ASSUME MessagesAssumption == Messages \subseteq Seq(Bytes)
ASSUME PinsAssumption ==
    \A p \in Pins : /\ p.pin \in Seq(0..9) /\ Len(p.pin) <= 14
                    /\ p.track \in Seq(0..9) /\ Len(p.track) = 12

VARIABLES
    task,     \* what is computed
    phase,    \* "none", "plain", "encrypted", "decrypted"
    text      \* the buffer

ssmVars == <<task, phase, text>>

Enc(k, b) == Cipher[k][b]
Dec(k, b) == CHOOSE c \in Blocks : Cipher[k][c] = b
Crypt(k, mode, b) == IF mode = "encrypt" THEN Enc(k, b) ELSE Dec(k, b)

XorBlocks(a, b) == [i \in DOMAIN a |-> Xor(a[i], b[i])]
Zero == [i \in 1..Block |-> 0]

Whole(m) == Len(m) \div Block
Remain(m) == Len(m) % Block
Count(m) == IF Remain(m) = 0 THEN Whole(m) ELSE Whole(m) + 1

\* Where byte r of block i is, and back
Place(i, r) == Block * (i - 1) + r
BlockNo(j) == (j - 1) \div Block + 1
ByteNo(j) == ((j - 1) % Block) + 1

BlockAt(m, i) == [r \in 1..Block |-> m[Place(i, r)]]
Rest(m) == [r \in 1..Remain(m) |-> m[Place(Whole(m) + 1, r)]]

\* padding: n bytes of what is left, and zeroes
Filled(b, n) == [r \in 1..Block |-> IF r <= n THEN b[r] ELSE 0]

\* The blocks of a message, the last one padded; one after the other
Input(m, i) == IF i <= Whole(m) THEN BlockAt(m, i) ELSE Filled(Rest(m), Remain(m))
Joined(blocks, n) == [j \in 1..(Block * n) |-> blocks[BlockNo(j)][ByteNo(j)]]

Padded(m) == [j \in 1..(Block * Count(m)) |-> IF j <= Len(m) THEN m[j] ELSE 0]

-----------------------------------------------------------------------------
(* ssm_des and ssm_3des_ecb: the loop goes over the partial block, too, with    *)
(* what is behind it; that block is then done again from its bytes in `in`,      *)
(* which are no longer there if `out` is the same buffer.                        *)

LoopsOver(alg, m) == alg = "des" \/ Len(m) >= Block

Ecb(alg, k, mode, m, behind, inPlace) ==
    LET done(i) == Crypt(k, mode, BlockAt(m \o behind, i))
        partial == IF inPlace /\ LoopsOver(alg, m) THEN done(Count(m)) ELSE Rest(m)
        last == Crypt(k, mode, Filled(partial, Remain(m)))
    IN  Joined([i \in 1..Count(m) |-> IF i <= Whole(m) THEN done(i) ELSE last], Count(m))

\* Mutant of IvOfRest: the chain begins anew.
IvOfRestZero(iv) == Zero

\* ssm_3des_cbc and ssm_aes_cbc: the second call goes on with the iv the first has left.
IvOfRest(iv) == iv
Iv(m, i, iv) == IF i > Whole(m) THEN IvOfRest(iv) ELSE iv

Chained(k, m) ==
    LET c[i \in 0..Count(m)] ==
            IF i = 0 THEN Zero ELSE Enc(k, XorBlocks(Input(m, i), Iv(m, i, c[i - 1])))
    IN  c

Cbc(k, mode, m) ==
    LET before(i) == IF i = 1 THEN Zero ELSE Input(m, i - 1)
    IN  Joined([i \in 1..Count(m) |->
                   IF mode = "encrypt" THEN Chained(k, m)[i]
                   ELSE XorBlocks(Dec(k, Input(m, i)), Iv(m, i, before(i)))], Count(m))

\* ssm_mac_des, and the chain of ssm_mac_des_3des
mac_des(k, m) ==
    LET out[i \in 0..Count(m)] ==
            IF i = 0 THEN Zero ELSE Enc(k, XorBlocks(out[i - 1], Input(m, i)))
    IN  out[Count(m)]

mac_des_3des(k1, k2, k3, m) == Enc(k3, Dec(k2, mac_des(k1, m)))

\* ssm_calc_pin_block, before it is encrypted: sixteen digits. The length is the char
\* '0' + pin_len, and ascii2bcd knows no digit behind '9'.
PinPart(pin) ==
    <<0, IF Len(pin) <= 9 THEN Len(pin) ELSE 0>> \o pin \o [i \in 1..(14 - Len(pin)) |-> 15]
TrackPart(track) == <<0, 0, 0, 0>> \o track
calc_pin_block(pin, track) == XorBlocks(PinPart(pin), TrackPart(track))

-----------------------------------------------------------------------------
Behinds(m) == [1..(Block * Count(m) - Len(m)) -> Bytes]
EcbTasks ==
    UNION {[alg : {"des", "3des"}, key : Keys, m : {m}, behind : Behinds(m), inPlace : BOOLEAN] :
              m \in Messages}
ChainTasks == [alg : {"cbc", "mac"}, key : Keys, m : Messages]
PinTasks == [alg : {"pin"}, m : Pins]
Tasks == EcbTasks \cup ChainTasks \cup PinTasks

SsmInit ==
    task = <<>> /\ phase = "none" /\ text = <<>>

\* A caller has something to encrypt.
Compose ==
    /\ phase = "none" /\ phase' = "plain"
    /\ task' \in Tasks
    /\ UNCHANGED text

Encrypt ==
    /\ phase = "plain" /\ phase' = "encrypted"
    /\ text' = CASE task.alg = "cbc" -> Cbc(task.key, "encrypt", task.m)
                 [] task.alg = "mac" -> mac_des(task.key, task.m)
                 [] task.alg = "pin" -> calc_pin_block(task.m.pin, task.m.track)
                 [] OTHER -> Ecb(task.alg, task.key, "encrypt", task.m, task.behind, task.inPlace)
    /\ UNCHANGED task

\* The other side; it reads the pin as the length says.
Decrypt ==
    /\ phase = "encrypted" /\ task.alg # "mac" /\ phase' = "decrypted"
    /\ text' = CASE task.alg = "cbc" -> Cbc(task.key, "decrypt", text)
                 [] task.alg = "pin" ->
                       LET clear == XorBlocks(text, TrackPart(task.m.track))
                       IN  SubSeq(clear, 3, 2 + clear[2])
                 [] OTHER -> Ecb(task.alg, task.key, "decrypt", text, <<>>, task.inPlace)
    /\ UNCHANGED task

SsmNext == Compose \/ Encrypt \/ Decrypt

SsmSpec == SsmInit /\ [][SsmNext]_ssmVars

-----------------------------------------------------------------------------
(* What is encrypted and decrypted is the message and its zeroes, for every    *)
(* length: CBC always, in the same buffer or not; ECB in another buffer, or if  *)
(* there is no partial block, or none that the loop takes for a whole one. The   *)
(* MAC is the last block of the CBC, with three keys as with one. A PIN comes     *)
(* back from its block if it has one digit of length. (ssm.c 23-419)               *)
BlocksBack ==
    /\ phase = "decrypted" =>
         CASE task.alg = "cbc" -> text = Padded(task.m)
           [] task.alg = "pin" -> Len(task.m.pin) <= 9 => text = task.m.pin
           [] OTHER -> \/ text = Padded(task.m)
                       \/ task.inPlace /\ Remain(task.m) > 0 /\ LoopsOver(task.alg, task.m)
    /\ phase = "encrypted" /\ task.alg = "mac" /\ task.m # <<>> =>
         /\ text = BlockAt(Cbc(task.key, "encrypt", task.m), Count(task.m))
         /\ text = mac_des_3des(task.key, task.key, task.key, task.m)
=============================================================================
