-------------------------------- MODULE Crypt --------------------------------
(***************************************************************************)
(* encrypt(), decryptToString() and decryptToBuffer() of jse_crypt.c as a  *)
(* script calls them one after another: what is passed to libcrypto, how   *)
(* its output is put together, and the two C blocks each call allocates.   *)
(* The ciphers of libcrypto are external: what they compute is a term, and *)
(* only its length and what it decrypts to are known.                      *)
(***************************************************************************)
EXTENDS Integers, Sequences

CONSTANTS
    Values,     \* what a script passes as data
    Keys,       \* what it passes as a key
    Vectors,    \* what it passes as an initialisation vector
    Methods,    \* the indices of ciphers it passes
    NoVector,   \* no fourth argument
    MaxCalls    \* bound: calls of a script

\* A value is the beginning of a text: `len` bytes of it, the first NUL after `nul`.
Passed == [kind : {"string", "buffer"}, id : Nat, len : Nat, nul : Nat]

\* What is assumed of the constants.
Assumption ==
    /\ Values \union Keys \union Vectors \subseteq Passed
    /\ \A v \in Values \union Keys \union Vectors : v.nul <= v.len
    /\ Methods \subseteq Nat /\ MaxCalls \in Nat

VARIABLES
    at,         \* where the call is
    call,       \* the call: its function and its arguments
    calls,      \* calls made
    encrypted,  \* what encrypt() returned, each with the data it was given
    size,       \* bytes allocated for the output
    outlen,     \* bytes of the output the first call of libcrypto wrote
    extralen,   \* bytes the final one added
    length,     \* bytes the last call returned, as it counts them
    text,       \* the text the output is the beginning of
    ctxs,       \* cipher contexts allocated
    outs,       \* output blocks allocated
    result,     \* what the last call came to
    misses,     \* history: output blocks that could not be allocated
    unmade      \* history: results duktape could not make

args    == <<call, calls, encrypted>>
lengths == <<outlen, extralen, length>>
cryptVars == <<at, args, size, lengths, text, ctxs, outs, result, misses, unmade>>

\* The block size of the ciphers and EVP_MAX_BLOCK_LENGTH, in bytes.
BlockOf(family) == IF family <= 2 THEN 16 ELSE 8
MaxBlock == 32

Families == <<"aes128", "aes192", "aes256", "des", "des_ede", "des_ede3">>
KeyBytes == <<16, 24, 32, 8, 16, 24>>

\* The table of getCipher(): four ciphers for each family, the last two of DES EDE and of triple
\* DES in another order than those of the others.
Modes(family) == IF family >= 4 THEN <<"cbc", "ecb", "ofb", "cfb">> ELSE <<"cbc", "ecb", "cfb", "ofb">>

Cipher(idx) ==
    LET family == idx \div 4
        mode   == Modes(family)[(idx % 4) + 1]
    IN  [family |-> Families[family + 1], mode |-> mode, key |-> KeyBytes[family + 1],
         block  |-> BlockOf(family),
         vector |-> IF mode = "ecb" THEN 0 ELSE BlockOf(family)]

NoCipher == [family |-> "none", mode |-> "none", key |-> 0, block |-> 0, vector |-> 0]

getCipher(idx) == IF idx < 24 THEN Cipher(idx) ELSE NoCipher

Padded(c) == c.mode \in {"cbc", "ecb"}

\* A buffer is passed as it is, a string up to strlen().
Bytes(v) == [id |-> v.id, len |-> IF v.kind = "buffer" THEN v.len ELSE v.nul]

NoBytes == [id |-> 0, len |-> 0]
NoCall  == [op |-> "none", data |-> 0, cut |-> 0, key |-> NoBytes, cipher |-> NoCipher,
            iv |-> NoVector]

\* Other than the texts of values: what comes of decrypting with another key.
Garbage == 0

Init ==
    /\ at = "script" /\ call = NoCall /\ calls = 0 /\ encrypted = <<>>
    /\ size = 0 /\ outlen = 0 /\ extralen = 0 /\ length = 0 /\ text = Garbage
    /\ ctxs = 0 /\ outs = 0 /\ misses = 0 /\ unmade = 0
    /\ result = "none"

Arguments(op, data, cut) ==
    \E k \in Keys, m \in Methods, v \in Vectors \union {NoVector} :
        call' = [op |-> op, data |-> data, cut |-> cut, key |-> Bytes(k),
                 cipher |-> getCipher(m),
                 iv |-> IF v = NoVector THEN NoVector ELSE Bytes(v)]

CanCall == at = "script" /\ calls < MaxCalls

NewCall ==
    /\ calls' = calls + 1
    /\ size' = 0 /\ outlen' = 0 /\ extralen' = 0 /\ length' = 0 /\ text' = Garbage
    /\ IF call'.cipher = NoCipher
         THEN at' = "script" /\ result' = "RangeError"
         ELSE at' = "context" /\ result' = "none"
    /\ UNCHANGED <<ctxs, outs, misses, unmade>>

\* do_encrypt(), up to the call of encrypt().
Encrypt ==
    /\ CanCall
    /\ \E v \in Values :
        /\ Arguments("encrypt", Len(encrypted) + 1, 0)
        /\ encrypted' = Append(encrypted, [given |-> v, done |-> FALSE, len |-> 0, call |-> call'])
    /\ NewCall

\* do_decrypt(), up to the call of decrypt(): of a buffer encrypt() returned, which the
\* script may have cut.
Decrypt ==
    /\ CanCall
    /\ \E e \in DOMAIN encrypted, cut \in {0, 1, 16} :
        /\ encrypted[e].done /\ cut <= encrypted[e].len
        /\ Arguments("decrypt", e, cut)
    /\ NewCall /\ UNCHANGED encrypted

-----------------------------------------------------------------------------
(* encrypt() and decrypt() *)

c      == call.cipher
source == encrypted[call.data]
input  == IF call.op = "encrypt" THEN Bytes(source.given).len ELSE source.len - call.cut

Fail(error) == at' = "script" /\ result' = error

NewContext ==
    /\ at = "context"
    /\ \/ at' = "output" /\ ctxs' = ctxs + 1 /\ UNCHANGED result
       \/ Fail("Error") /\ UNCHANGED ctxs
    /\ UNCHANGED <<args, size, lengths, text, outs, misses, unmade>>

\* calloc() of the output; when it fails the context is not freed.
NewOutput ==
    /\ at = "output"
    /\ \/ /\ at' = "init" /\ size' = input + MaxBlock /\ outs' = outs + 1
          /\ UNCHANGED <<result, misses>>
       \/ /\ Fail("Error") /\ misses' = misses + 1 /\ UNCHANGED <<size, outs>>
    /\ UNCHANGED <<args, lengths, text, ctxs, unmade>>

\* Faulty variant: the output is freed and the context is not.
FreeBoth_KeepsContext == outs' = outs - 1 /\ UNCHANGED ctxs

\* Faulty variant: the output is freed once more.
FreeBoth_Twice == ctxs' = ctxs - 1 /\ outs' = outs - 2

\* An error: both blocks are freed.
FreeBoth == ctxs' = ctxs - 1 /\ outs' = outs - 1

LengthsRight ==
    /\ call.key.len = c.key
    /\ c.vector # 0 => call.iv # NoVector /\ call.iv.len = c.vector

LengthError == IF call.key.len # c.key \/ call.iv # NoVector THEN "RangeError" ELSE "TypeError"

CheckLengths ==
    /\ at = "init"
    /\ IF LengthsRight
         THEN at' = "update" /\ UNCHANGED <<result, ctxs, outs>>
         ELSE Fail(LengthError) /\ FreeBoth
    /\ UNCHANGED <<args, size, lengths, text, misses, unmade>>

\* Any function of libcrypto may fail.
LibraryFails ==
    /\ at \in {"update", "final"}
    /\ Fail("Error") /\ FreeBoth
    /\ UNCHANGED <<args, size, lengths, text, misses, unmade>>

\* External: EVP_EncryptUpdate() and EVP_DecryptUpdate() write what they are sure of.
\* The last block of padded data to decrypt may be padding, and waits for the end.
Update ==
    /\ at = "update"
    /\ at' = "final"
    /\ outlen' = IF ~Padded(c) THEN input
                 ELSE IF call.op = "encrypt" \/ input % c.block # 0
                   THEN (input \div c.block) * c.block
                 ELSE IF input = 0 THEN 0 ELSE input - c.block
    /\ UNCHANGED <<args, size, extralen, length, text, ctxs, outs, result, misses, unmade>>

\* External: EVP_EncryptFinal_ex() fills the last block.
EncryptFinal ==
    /\ at = "final" /\ call.op = "encrypt"
    /\ at' = "push"
    /\ text' = source.given.id
    /\ extralen' = IF Padded(c) THEN c.block ELSE 0
    /\ UNCHANGED <<args, size, outlen, length, ctxs, outs, result, misses, unmade>>

\* Decrypted with what it was encrypted with.
Same ==
    /\ source.call.cipher = c /\ source.call.key = call.key
    /\ c.vector # 0 => source.call.iv = call.iv

Text == IF Same THEN source.given.id ELSE Garbage

\* External: what the cipher k makes of n bytes is so long.
CipherLength(n, k) == IF Padded(k) THEN (n \div k.block) * k.block + k.block ELSE n

\* The input is all that libcrypto made of the data, the padding in its last block included.
Whole == Same /\ input = CipherLength(Bytes(source.given).len, c)

\* External: EVP_DecryptFinal_ex() writes what precedes the padding in the last block, or
\* finds that there is none.  Bytes that were not written as padding may look like it.
DecryptFinal ==
    /\ at = "final" /\ call.op = "decrypt"
    /\ Padded(c) => input > 0 /\ input % c.block = 0
    /\ at' = "push"
    /\ text' = Text
    /\ extralen' \in IF ~Padded(c) THEN {0}
                     ELSE IF Whole THEN {Bytes(source.given).len % c.block}
                     ELSE {0, c.block - 1}
    /\ UNCHANGED <<args, size, outlen, length, ctxs, outs, result, misses, unmade>>

\* Faulty variant: encrypt() leaves out what the final call wrote.
OutLength_NoFinal == IF call.op = "encrypt" THEN outlen ELSE outlen + extralen

\* What encrypt() and decrypt() say is the length of their output.
OutLength == outlen + extralen

\* The output becomes a buffer or a string of the script.
Push ==
    /\ at = "push"
    /\ at' = "script" /\ result' = "returned"
    /\ length' = OutLength
    /\ encrypted' = IF call.op = "encrypt"
                      THEN [encrypted EXCEPT ![call.data].done = TRUE, ![call.data].len = OutLength]
                      ELSE encrypted
    /\ FreeBoth
    /\ UNCHANGED <<call, calls, size, outlen, extralen, text, misses, unmade>>

\* duktape has no memory for it and throws: the output is not freed.
PushThrows ==
    /\ at = "push"
    /\ Fail("RangeError")
    /\ unmade' = unmade + 1 /\ ctxs' = ctxs - 1
    /\ UNCHANGED <<args, size, lengths, text, outs, misses>>

Next ==
    \/ Encrypt \/ Decrypt
    \/ NewContext \/ NewOutput \/ CheckLengths \/ LibraryFails
    \/ Update \/ EncryptFinal \/ DecryptFinal
    \/ Push \/ PushThrows

Spec == Init /\ [][Next]_cryptVars

-----------------------------------------------------------------------------
(* Properties *)

TypeOK ==
    /\ at \in {"script", "context", "output", "init", "update", "final", "push"}
    /\ calls \in 0 .. MaxCalls /\ Len(encrypted) <= MaxCalls
    /\ {size, outlen, extralen, length, ctxs, outs, misses, unmade} \subseteq Nat
    /\ result \in {"none", "returned", "Error", "RangeError", "TypeError"}

\* What was encrypted comes back whole when decrypted with the same method, key and
\* initialisation vector, except for what follows a NUL in a string.
RoundTrip ==
    result = "returned" /\ call.op = "decrypt" /\ call.cut = 0 /\ Same =>
        /\ text = source.given.id
        /\ source.given.kind = "buffer" \/ source.given.nul = source.given.len =>
             length = source.given.len

\* libcrypto never writes past the end of the output, whatever the data, its length and
\* the cipher: it writes up to a block more than it is given.
OutputFits == at # "script" => outlen + extralen <= size

\* Contexts and outputs are freed whichever way a call ends: a context is lost with each
\* output that could not be allocated, an output with each result duktape could not
\* make, and nothing else.
BlocksAccounted == at = "script" => ctxs = misses /\ outs = unmade
=============================================================================
