-------------------------- MODULE ScriptCallsProofs --------------------------
(***************************************************************************)
(* What the parts of a script's interface that compute promise, proved for *)
(* all values of their constants: encryption and decryption give back what *)
(* was encrypted, a script with include() does what it would do with the   *)
(* files in its place, an XML document is the one its object has, and all  *)
(* that is allocated on the way is accounted for.                          *)
(***************************************************************************)
EXTENDS ScriptCalls, Integers, Sequences, FiniteSetTheorems, SequenceTheorems,
        WellFoundedInduction, TLAPS

-----------------------------------------------------------------------------
(* Encryption and decryption: the inductive invariant *)

Lengths == [id : Nat, len : Nat]
Families == {"aes128", "aes192", "aes256", "des", "des_ede", "des_ede3", "none"}
Ciphers == [family : Families, mode : {"cbc", "ecb", "cfb", "ofb", "none"}, key : Nat,
            block : {0, 8, 16}, vector : Nat]
CallSet == [op : {"none", "encrypt", "decrypt"}, data : Nat, cut : Nat, key : Lengths,
            cipher : Ciphers, iv : Lengths \union {NoVector}]
Sources == [given : Values, done : BOOLEAN, len : Nat, call : CallSet]

\* The length of what l bytes are encrypted to: with padding there is always some.
EncryptedLength(l, cipher) == C!CipherLength(l, cipher)

\* What the first call of libcrypto writes of them.
UpdateLength(op, l, cipher) ==
    IF ~C!Padded(cipher) THEN l
    ELSE IF op = "encrypt" \/ l % cipher.block # 0 THEN (l \div cipher.block) * cipher.block
    ELSE IF l = 0 THEN 0 ELSE l - cipher.block

\* The call is one of data there is with a cipher there is: data still to be encrypted, or
\* encrypted and cut.
CallTyped ==
    /\ call \in CallSet /\ encrypted \in Seq(Sources) /\ Len(encrypted) <= calls
    /\ call.op # "none" => call.data \in DOMAIN encrypted
    /\ call.op = "decrypt" => C!source.done /\ call.cut <= C!source.len
    /\ at # "script" => /\ call.op # "none" /\ C!c.block # 0 /\ result = "none"
                        /\ call.op = "encrypt" => C!source.call = call

\* What was encrypted has the length that follows from what was given.
SourcesExact ==
    \A e \in DOMAIN encrypted : encrypted[e].done =>
        /\ encrypted[e].call.cipher.block # 0
        /\ encrypted[e].len = EncryptedLength(C!Bytes(encrypted[e].given).len, encrypted[e].call.cipher)

\* How much of the output is allocated and written at each place of a call: what decryption
\* gives of all that encryption gave is as long as what that was given.
OutputExact ==
    /\ at \in {"context", "output"} => size = 0
    /\ at \in {"context", "output", "init", "update"} => outlen = 0
    /\ at \in {"context", "output", "init", "update", "final"} => extralen = 0
    /\ at \in {"init", "update", "final", "push"} => size = C!input + 32
    /\ at = "final" => outlen = UpdateLength(call.op, C!input, C!c)
    /\ at = "push" /\ call.op = "encrypt" => outlen + extralen = EncryptedLength(C!input, C!c)
    /\ at = "push" /\ call.op = "decrypt" =>
        /\ outlen + extralen <= C!input
        /\ call.cut = 0 /\ C!Same =>
            text = C!source.given.id /\ outlen + extralen = C!Bytes(C!source.given).len

\* The blocks allocated at each place.
BlocksAt ==
    /\ ctxs = misses + (IF at \in {"script", "context"} THEN 0 ELSE 1)
    /\ outs = unmade + (IF at \in {"script", "context", "output"} THEN 0 ELSE 1)

CryptInv == C!TypeOK /\ CallTyped /\ SourcesExact /\ OutputExact /\ BlocksAt /\ C!RoundTrip

-----------------------------------------------------------------------------
(* Ciphers and lengths *)

\* Every index gives a cipher, with a block for each that there is.
LEMMA CipherTypes ==
    ASSUME NEW m \in Nat
    PROVE  /\ C!getCipher(m) \in Ciphers
           /\ C!getCipher(m) # C!NoCipher => C!getCipher(m).block # 0
           /\ C!NoCipher \in Ciphers
<1>1. C!NoCipher \in Ciphers
  BY DEF C!NoCipher, Ciphers, Families
<1>2. CASE m < 24
  <2> DEFINE family == m \div 4
             mode   == C!Modes(family)[(m % 4) + 1]
  <2>1. family \in 0 .. 5 /\ (m % 4) + 1 \in 1 .. 4
    BY <1>2
  <2> HIDE DEF family
  <2>2. mode \in {"cbc", "ecb", "cfb", "ofb"}
    BY <2>1 DEF C!Modes
  <2> HIDE DEF mode
  <2>3. C!Families[family + 1] \in Families /\ C!KeyBytes[family + 1] \in Nat
    <3>1. family + 1 \in 1 .. 6
      BY <2>1
    <3>2. \A i \in 1 .. 6 : C!Families[i] \in Families /\ C!KeyBytes[i] \in Nat
      BY DEF C!Families, C!KeyBytes, Families
    <3> QED
      BY <3>1, <3>2
  <2>4. C!BlockOf(family) \in {8, 16}
    BY <2>1 DEF C!BlockOf
  <2> DEFINE made == [family |-> C!Families[family + 1], mode |-> mode, key |-> C!KeyBytes[family + 1],
                      block  |-> C!BlockOf(family),
                      vector |-> IF mode = "ecb" THEN 0 ELSE C!BlockOf(family)]
  <2>5. C!getCipher(m) = made
    BY <1>2 DEF C!getCipher, C!Cipher, family, mode
  <2>6. made \in Ciphers /\ made.block # 0
    BY <2>2, <2>3, <2>4 DEF Ciphers
  <2> QED
    BY <1>1, <2>5, <2>6
<1>3. CASE m >= 24
  BY <1>1, <1>3 DEF C!getCipher
<1> QED
  BY <1>2, <1>3

\* What is encrypted is as long as what is given or up to a block longer, and what is
\* decrypted never longer.
LEMMA LengthsFit ==
    ASSUME NEW l \in Nat, NEW b \in {8, 16}
    PROVE  /\ (l \div b) * b \in Nat /\ (l \div b) * b <= l /\ l < (l \div b) * b + b
           /\ l > 0 /\ l % b = 0 => l >= b
<1>1. CASE b = 8
  BY <1>1
<1>2. CASE b = 16
  BY <1>2
<1> QED
  BY <1>1, <1>2

\* What is left of l bytes after their whole blocks.
LEMMA LastBlock ==
    ASSUME NEW l \in Nat, NEW b \in {8, 16}
    PROVE  (l \div b) * b + (l % b) = l /\ l % b \in 0 .. b - 1
<1>1. CASE b = 8
  <2>1. (l \div 8) * 8 + (l % 8) = l /\ l % 8 \in 0 .. 8 - 1
    OBVIOUS
  <2> QED
    BY <1>1, <2>1
<1>2. CASE b = 16
  <2>1. (l \div 16) * 16 + (l % 16) = l /\ l % 16 \in 0 .. 16 - 1
    OBVIOUS
  <2> QED
    BY <1>2, <2>1
<1> QED
  BY <1>1, <1>2

\* What is encrypted is at most a block longer than what it was, and libcrypto writes no more of it
\* at each of its calls.
LEMMA CipherLengths ==
    ASSUME NEW l \in Nat, NEW k \in Ciphers, k.block # 0
    PROVE  /\ EncryptedLength(l, k) \in Nat
           /\ l <= EncryptedLength(l, k) /\ EncryptedLength(l, k) <= l + 16
           /\ \A op : UpdateLength(op, l, k) \in Nat /\ UpdateLength(op, l, k) <= l
           /\ EncryptedLength(l, k) =
                IF C!Padded(k) THEN UpdateLength("encrypt", l, k) + k.block
                               ELSE UpdateLength("encrypt", l, k)
           /\ C!Padded(k) /\ l > 0 /\ l % k.block = 0 =>
                l >= k.block /\ UpdateLength("decrypt", l, k) = l - k.block
           /\ ~C!Padded(k) => EncryptedLength(l, k) = l /\ \A op : UpdateLength(op, l, k) = l
<1> DEFINE b == k.block
           p == (l \div b) * b
<1>1. b \in {8, 16}
  BY DEF Ciphers
<1>2. p \in Nat /\ p <= l /\ l < p + b /\ (l > 0 /\ l % b = 0 => l >= b)
  BY <1>1, LengthsFit
<1>3. l % b = 0 /\ l # 0 => l - b \in Nat
  BY <1>1, <1>2
<1>4. EncryptedLength(l, k) = IF C!Padded(k) THEN p + b ELSE l
  BY DEF EncryptedLength, C!CipherLength
<1>5. \A op : UpdateLength(op, l, k) =
                IF ~C!Padded(k) THEN l
                ELSE IF op = "encrypt" \/ l % b # 0 THEN p ELSE IF l = 0 THEN 0 ELSE l - b
  BY DEF UpdateLength
<1> HIDE DEF p, b
<1>6. \A op : UpdateLength(op, l, k) \in Nat /\ UpdateLength(op, l, k) <= l
  <2> SUFFICES ASSUME NEW op
               PROVE  UpdateLength(op, l, k) \in Nat /\ UpdateLength(op, l, k) <= l
    OBVIOUS
  <2> DEFINE u == UpdateLength(op, l, k)
  <2>1. u = l \/ u = p \/ u = 0 \/ (l % b = 0 /\ l # 0 /\ u = l - b)
    BY <1>5
  <2> HIDE DEF u
  <2>2. u \in Nat /\ u <= l
    BY <1>1, <1>2, <1>3, <2>1
  <2> QED
    BY <2>2 DEF u
<1>7. l <= EncryptedLength(l, k) /\ EncryptedLength(l, k) <= l + 16 /\ EncryptedLength(l, k) \in Nat
  BY <1>1, <1>2, <1>4
<1> QED
  BY <1>2, <1>4, <1>5, <1>6, <1>7 DEF b

\* A value is passed as some of its bytes: all of a buffer, a string up to its first NUL.
LEMMA BytesType ==
    ASSUME C!Assumption, NEW v \in Values \union Keys \union Vectors
    PROVE  /\ C!Bytes(v) \in Lengths /\ C!Bytes(v).len <= v.len /\ v.len \in Nat
           /\ v.kind = "buffer" \/ v.nul = v.len => C!Bytes(v).len = v.len
BY DEF C!Assumption, C!Passed, C!Bytes, Lengths

\* The data of a call and what is read of it.
LEMMA CallData ==
    ASSUME C!Assumption, CallTyped, SourcesExact, at # "script"
    PROVE  /\ C!c \in Ciphers /\ C!c.block # 0 /\ C!input \in Nat
           /\ C!source \in Sources /\ C!Bytes(C!source.given).len \in Nat
           /\ call.op = "encrypt" => C!input = C!Bytes(C!source.given).len
           /\ call.op = "decrypt" /\ call.cut = 0 /\ C!Same =>
                C!input = EncryptedLength(C!Bytes(C!source.given).len, C!c)
<1>1. C!c \in Ciphers /\ C!c.block # 0 /\ call.op \in {"encrypt", "decrypt"} /\ call.cut \in Nat
  BY DEF CallTyped, CallSet, C!c
<1>2. call.data \in DOMAIN encrypted /\ encrypted[call.data] \in Sources
  BY <1>1, ElementOfSeq DEF CallTyped
<1>3. C!source \in Sources /\ C!source.given \in Values /\ C!source.len \in Nat
  BY <1>2 DEF C!source, Sources
<1>4. C!Bytes(C!source.given) \in Lengths
  BY <1>3, BytesType
<1>5. C!Bytes(C!source.given).len \in Nat
  BY <1>4 DEF Lengths
<1>6. CASE call.op = "encrypt"
  BY <1>1, <1>3, <1>5, <1>6 DEF C!input
<1>7. CASE call.op = "decrypt"
  <2>1. C!input = C!source.len - call.cut /\ C!source.done /\ call.cut <= C!source.len
    BY <1>7 DEF C!input, CallTyped
  <2>2. C!source.len = EncryptedLength(C!Bytes(C!source.given).len, C!source.call.cipher)
    BY <1>2, <2>1 DEF SourcesExact, C!source
  <2>3. C!Same => C!source.call.cipher = C!c
    BY DEF C!Same
  <2> QED
    BY <1>1, <1>3, <1>5, <1>7, <2>1, <2>2, <2>3
<1> QED
  BY <1>1, <1>6, <1>7

\* While a call goes on its data stays.
LEMMA SameData ==
    ASSUME CallTyped, SourcesExact, UNCHANGED C!args, at # "script",
           at' = "script" \/ result' = "none"
    PROVE  /\ CallTyped' /\ SourcesExact'
           /\ C!source' = C!source /\ C!input' = C!input /\ C!c' = C!c /\ (C!Same' <=> C!Same)
BY DEF C!args, CallTyped, SourcesExact, C!source, C!input, C!c, C!Same

\* The initial states.
LEMMA CryptInit == ASSUME C!Assumption, C!Init PROVE CryptInv
<1>1. C!TypeOK
  BY DEF C!Init, C!TypeOK, C!Assumption
<1>2. call \in CallSet
  <2>1. C!NoBytes \in Lengths
    BY DEF C!NoBytes, Lengths
  <2>2. C!NoCipher \in Ciphers
    BY CipherTypes
  <2> QED
    BY <2>1, <2>2 DEF C!Init, C!NoCall, CallSet
<1>3. encrypted = <<>> /\ calls = 0 /\ call.op = "none" /\ at = "script" /\ result = "none"
  BY DEF C!Init, C!NoCall
<1>4. ctxs = 0 /\ outs = 0 /\ misses = 0 /\ unmade = 0
  BY DEF C!Init
<1> QED
  BY <1>1, <1>2, <1>3, <1>4 DEF CryptInv, CallTyped, SourcesExact, OutputExact, BlocksAt, C!RoundTrip

\* What a script passes makes a call.
LEMMA CallMade ==
    ASSUME C!Assumption, NEW op \in {"encrypt", "decrypt"}, NEW data \in Nat, NEW cut \in Nat,
           C!Arguments(op, data, cut)
    PROVE  /\ call' \in CallSet /\ call'.op = op /\ call'.data = data /\ call'.cut = cut
           /\ call'.cipher # C!NoCipher => call'.cipher.block # 0
<1>1. PICK k \in Keys, m \in Methods, v \in Vectors \union {NoVector} :
        call' = [op |-> op, data |-> data, cut |-> cut, key |-> C!Bytes(k),
                 cipher |-> C!getCipher(m), iv |-> IF v = NoVector THEN NoVector ELSE C!Bytes(v)]
  BY DEF C!Arguments
<1>2. C!Bytes(k) \in Lengths
  BY BytesType
<1>3. (IF v = NoVector THEN NoVector ELSE C!Bytes(v)) \in Lengths \union {NoVector}
  BY BytesType
<1>4. C!getCipher(m) \in Ciphers /\ (C!getCipher(m) # C!NoCipher => C!getCipher(m).block # 0)
  BY CipherTypes DEF C!Assumption
<1> QED
  BY <1>1, <1>2, <1>3, <1>4 DEF CallSet

\* A call that begins has nothing allocated, as the one before has nothing left.
LEMMA CallBegins ==
    ASSUME C!Assumption, CryptInv, C!CanCall, C!NewCall, CallTyped', SourcesExact',
           call'.op # "none"
    PROVE  CryptInv'
<1>1. /\ at = "script" /\ calls < MaxCalls /\ calls' = calls + 1
      /\ size' = 0 /\ outlen' = 0 /\ extralen' = 0 /\ length' = 0
      /\ UNCHANGED <<ctxs, outs, misses, unmade>>
      /\ \/ at' = "script" /\ result' = "RangeError"
         \/ at' = "context" /\ result' = "none"
  BY DEF C!CanCall, C!NewCall
<1>2. C!TypeOK'
  <2>1. Len(encrypted') <= calls'
    BY DEF CallTyped
  <2>2. Len(encrypted') \in Nat
    BY DEF CallTyped
  <2>3. calls' \in 0 .. MaxCalls
    BY <1>1 DEF CryptInv, C!TypeOK, C!Assumption
  <2> QED
    BY <1>1, <2>1, <2>2, <2>3 DEF CryptInv, C!TypeOK, C!Assumption
<1>3. BlocksAt'
  BY <1>1 DEF CryptInv, BlocksAt, C!TypeOK
<1>4. OutputExact' /\ C!RoundTrip'
  BY <1>1 DEF OutputExact, C!RoundTrip
<1> QED
  BY <1>2, <1>3, <1>4 DEF CryptInv

\* encrypt() is called.
LEMMA CryptEncrypt == ASSUME C!Assumption, CryptInv, C!Encrypt PROVE CryptInv'
<1>1. PICK v \in Values :
        /\ C!Arguments("encrypt", Len(encrypted) + 1, 0)
        /\ encrypted' = Append(encrypted, [given |-> v, done |-> FALSE, len |-> 0, call |-> call'])
  BY DEF C!Encrypt
<1>2. C!CanCall /\ C!NewCall
  BY DEF C!Encrypt
<1>3. encrypted \in Seq(Sources) /\ Len(encrypted) \in Nat /\ Len(encrypted) <= calls /\ calls \in Nat
  BY DEF CryptInv, CallTyped, C!TypeOK
<1>4. /\ call' \in CallSet /\ call'.op = "encrypt" /\ call'.data = Len(encrypted) + 1
      /\ call'.cipher # C!NoCipher => call'.cipher.block # 0
  BY <1>1, <1>3, CallMade
<1> DEFINE r == [given |-> v, done |-> FALSE, len |-> 0, call |-> call']
<1>5. r \in Sources /\ r.done = FALSE /\ r.call = call'
  BY <1>4 DEF Sources
<1> HIDE DEF r
<1>6. /\ encrypted' = Append(encrypted, r) /\ encrypted' \in Seq(Sources)
      /\ Len(encrypted') = Len(encrypted) + 1 /\ encrypted'[Len(encrypted) + 1] = r
      /\ \A e \in 1 .. Len(encrypted) : encrypted'[e] = encrypted[e]
  BY <1>1, <1>3, <1>5 DEF r
<1>7. CallTyped'
  <2>1. C!source' = r
    BY <1>4, <1>6 DEF C!source
  <2>2. at' # "script" => C!c' # C!NoCipher /\ result' = "none"
    BY <1>2 DEF C!NewCall, C!c
  <2>3. Len(encrypted') <= calls'
    BY <1>2, <1>3, <1>6 DEF C!NewCall
  <2>4. call'.data \in DOMAIN encrypted'
    BY <1>3, <1>4, <1>6
  <2> QED
    BY <1>4, <1>5, <1>6, <2>1, <2>2, <2>3, <2>4 DEF CallTyped, C!c
<1>8. SourcesExact'
  <2> SUFFICES ASSUME NEW e \in DOMAIN encrypted', encrypted'[e].done
               PROVE  /\ encrypted'[e].call.cipher.block # 0
                      /\ encrypted'[e].len = EncryptedLength(C!Bytes(encrypted'[e].given).len,
                                                             encrypted'[e].call.cipher)
    BY DEF SourcesExact
  <2>1. e \in 1 .. Len(encrypted)
    BY <1>3, <1>5, <1>6
  <2> QED
    BY <1>3, <1>6, <2>1 DEF CryptInv, SourcesExact
<1> QED
  BY <1>2, <1>4, <1>7, <1>8, CallBegins

\* decrypt() is called, of something that was encrypted.
LEMMA CryptDecrypt == ASSUME C!Assumption, CryptInv, C!Decrypt PROVE CryptInv'
<1>1. PICK e \in DOMAIN encrypted, cut \in {0, 1, 16} :
        encrypted[e].done /\ cut <= encrypted[e].len /\ C!Arguments("decrypt", e, cut)
  BY DEF C!Decrypt
<1>2. C!CanCall /\ C!NewCall /\ encrypted' = encrypted
  BY DEF C!Decrypt
<1>3. encrypted \in Seq(Sources) /\ Len(encrypted) \in Nat /\ Len(encrypted) <= calls /\ calls \in Nat
  BY DEF CryptInv, CallTyped, C!TypeOK
<1>4. /\ call' \in CallSet /\ call'.op = "decrypt" /\ call'.data = e /\ call'.cut = cut
      /\ call'.cipher # C!NoCipher => call'.cipher.block # 0
  BY <1>1, <1>3, CallMade
<1>5. CallTyped'
  <2>1. at' # "script" => C!c' # C!NoCipher /\ result' = "none"
    BY <1>2 DEF C!NewCall, C!c
  <2>2. Len(encrypted') <= calls'
    BY <1>2, <1>3 DEF C!NewCall
  <2>3. C!source' = encrypted[e]
    BY <1>2, <1>4 DEF C!source
  <2> QED
    BY <1>1, <1>2, <1>3, <1>4, <2>1, <2>2, <2>3 DEF CallTyped, C!c
<1>6. SourcesExact'
  BY <1>2 DEF CryptInv, SourcesExact
<1> QED
  BY <1>2, <1>4, <1>5, <1>6, CallBegins

\* The steps of a call leave the data alone, keep to the output and account for the blocks.
LEMMA CryptCall ==
    ASSUME C!Assumption, CryptInv,
           \/ C!NewContext \/ C!NewOutput \/ C!CheckLengths \/ C!LibraryFails
           \/ C!Update \/ C!EncryptFinal \/ C!DecryptFinal \/ C!PushThrows
    PROVE  CryptInv'
<1> DEFINE l == C!input
           k == C!c
           given == C!Bytes(C!source.given).len
<1>1. at # "script" /\ UNCHANGED C!args /\ (at' = "script" \/ result' = "none")
  BY DEF C!NewContext, C!NewOutput, C!CheckLengths, C!LibraryFails, C!Update, C!EncryptFinal,
         C!DecryptFinal, C!PushThrows, C!Fail, CryptInv, CallTyped
<1>2. /\ CallTyped' /\ SourcesExact'
      /\ C!source' = C!source /\ C!input' = l /\ C!c' = k /\ (C!Same' <=> C!Same)
  BY <1>1, SameData DEF CryptInv
<1>3. /\ k \in Ciphers /\ k.block # 0 /\ l \in Nat /\ given \in Nat
      /\ call.op = "encrypt" => l = given
      /\ call.op = "decrypt" /\ call.cut = 0 /\ C!Same => l = EncryptedLength(given, k)
  BY <1>1, CallData DEF CryptInv
<1>4. call' = call /\ encrypted' = encrypted /\ calls' = calls
  BY <1>1 DEF C!args
<1>5. call.op \in {"encrypt", "decrypt"}
  BY <1>1 DEF CryptInv, CallTyped, CallSet
<1>6. k.block \in Nat
  BY <1>3 DEF Ciphers
<1>7. C!Bytes(C!source.given)' = C!Bytes(C!source.given)
  BY <1>2
<1> USE DEF C!TypeOK, OutputExact, BlocksAt, C!RoundTrip
<1>10. /\ size \in Nat /\ outlen \in Nat /\ extralen \in Nat /\ length \in Nat
       /\ ctxs \in Nat /\ outs \in Nat /\ misses \in Nat /\ unmade \in Nat
       /\ calls \in 0 .. MaxCalls /\ Len(encrypted) <= MaxCalls
       /\ result = "none" /\ OutputExact /\ BlocksAt
  BY <1>1 DEF CryptInv, CallTyped
<1> HIDE DEF l, k, given
<1> SUFFICES C!TypeOK' /\ OutputExact' /\ BlocksAt' /\ C!RoundTrip'
  BY <1>2 DEF CryptInv
<1>a. CASE C!NewContext
  BY <1>4, <1>10, <1>a DEF C!NewContext, C!Fail, C!lengths
<1>b. CASE C!NewOutput
  BY <1>2, <1>3, <1>4, <1>10, <1>b DEF C!NewOutput, C!Fail, C!MaxBlock, C!lengths, l
<1>c. CASE C!CheckLengths
  BY <1>2, <1>4, <1>10, <1>c DEF C!CheckLengths, C!Fail, C!FreeBoth, C!LengthError, C!lengths, l
<1>d. CASE C!LibraryFails
  BY <1>4, <1>10, <1>d DEF C!LibraryFails, C!Fail, C!FreeBoth, C!lengths
<1>e. CASE C!Update
  <2>1. outlen' = UpdateLength(call.op, l, k) /\ outlen' \in Nat
    <3>1. outlen' = UpdateLength(call.op, l, k)
      BY <1>e DEF C!Update, UpdateLength, l, k
    <3> QED
      BY <1>3, <3>1, CipherLengths
  <2>2. at' = "final" /\ UNCHANGED <<size, extralen, length, ctxs, outs, result, misses, unmade>>
    BY <1>e DEF C!Update
  <2>3. at = "update"
    BY <1>e DEF C!Update
  <2> QED
    BY <1>2, <1>4, <1>10, <2>1, <2>2, <2>3 DEF l, k
<1>f. CASE C!EncryptFinal
  <2>1. /\ at = "final" /\ at' = "push" /\ call.op = "encrypt"
        /\ extralen' = IF C!Padded(k) THEN k.block ELSE 0
        /\ UNCHANGED <<size, outlen, length, ctxs, outs, result, misses, unmade>>
    BY <1>f DEF C!EncryptFinal, k
  <2>2. /\ outlen' \in Nat /\ extralen' \in Nat
        /\ outlen' + extralen' = EncryptedLength(l, k)
    <3>1. outlen = UpdateLength("encrypt", l, k)
      BY <1>10, <2>1 DEF l, k
    <3>2. EncryptedLength(l, k) = IF C!Padded(k) THEN outlen + k.block ELSE outlen
      BY <1>3, <3>1, CipherLengths
    <3> QED
      BY <1>6, <1>10, <2>1, <3>2
  <2> QED
    BY <1>2, <1>4, <1>10, <2>1, <2>2 DEF l, k
<1>g. CASE C!DecryptFinal
  <2>1. /\ at = "final" /\ at' = "push" /\ call.op = "decrypt" /\ text' = C!Text
        /\ outlen = UpdateLength("decrypt", l, k)
        /\ UNCHANGED <<size, outlen, length, ctxs, outs, result, misses, unmade>>
    BY <1>10, <1>g DEF C!DecryptFinal, l, k
  <2>2. /\ extralen' \in Nat /\ outlen + extralen' <= l
        /\ call.cut = 0 /\ C!Same => outlen + extralen' = given
    <3>1. CASE ~C!Padded(k)
      <4>1. extralen' = 0 /\ outlen = l
        BY <1>3, <1>g, <2>1, <3>1, CipherLengths DEF C!DecryptFinal, k
      <4>2. call.cut = 0 /\ C!Same => l = given
        BY <1>3, <2>1, <3>1, CipherLengths
      <4> QED
        BY <1>3, <4>1, <4>2
    <3>2. CASE C!Padded(k)
      <4>1. l > 0 /\ l % k.block = 0
        BY <1>g, <3>2 DEF C!DecryptFinal, k, l
      <4>2. outlen = l - k.block /\ l >= k.block
        BY <1>3, <2>1, <3>2, <4>1, CipherLengths
      <4>3. k.block \in {8, 16}
        BY <1>3 DEF Ciphers
      <4>4. CASE C!Whole
        <5>1. extralen' = given % k.block
          BY <1>g, <3>2, <4>4 DEF C!DecryptFinal, k, given
        <5>2. l = EncryptedLength(given, k)
          BY <4>4 DEF C!Whole, EncryptedLength, l, given, k
        <5>3. l = (given \div k.block) * k.block + k.block
          BY <3>2, <5>2 DEF EncryptedLength, C!CipherLength
        <5>4. (given \div k.block) * k.block + (given % k.block) = given /\ given % k.block \in 0 .. k.block - 1
          BY <1>3, <4>3, LastBlock
        <5>5. (given \div k.block) * k.block \in Nat
          BY <1>3, <4>3, LengthsFit
        <5> DEFINE p == (given \div k.block) * k.block
                   e == given % k.block
        <5> HIDE DEF p, e
        <5>6. l = p + k.block /\ p \in Nat
          BY <5>3, <5>5 DEF p
        <5>7. p + e = given
          BY <5>4 DEF p, e
        <5>8. e \in 0 .. k.block - 1 /\ extralen' = e
          BY <5>1, <5>4 DEF e
        <5> QED
          BY <1>3, <1>6, <4>2, <5>6, <5>7, <5>8
      <4>5. CASE ~C!Whole
        <5>1. extralen' \in {0, k.block - 1}
          BY <1>g, <3>2, <4>5 DEF C!DecryptFinal, k
        <5>2. ~(call.cut = 0 /\ C!Same)
          <6> SUFFICES ASSUME call.cut = 0, C!Same PROVE FALSE
            OBVIOUS
          <6>1. l = EncryptedLength(given, k)
            BY <1>3, <2>1
          <6> QED
            BY <4>5, <6>1 DEF C!Whole, EncryptedLength, l, given, k
        <5> QED
          BY <1>3, <4>2, <4>3, <5>1, <5>2
      <4> QED
        BY <4>4, <4>5
    <3> QED
      BY <3>1, <3>2
  <2>3. C!Same => text' = C!source.given.id
    BY <2>1 DEF C!Text
  <2> QED
    BY <1>2, <1>4, <1>7, <1>10, <2>1, <2>2, <2>3 DEF l, given
<1>h. CASE C!PushThrows
  BY <1>4, <1>10, <1>h DEF C!PushThrows, C!Fail, C!lengths
<1> QED
  BY <1>a, <1>b, <1>c, <1>d, <1>e, <1>f, <1>g, <1>h

\* What comes of a call is what the script has then: of something encrypted its length is known.
LEMMA CryptPush == ASSUME C!Assumption, CryptInv, C!Push PROVE CryptInv'
<1> DEFINE d == call.data
           r == [encrypted[d] EXCEPT !.done = TRUE, !.len = outlen + extralen]
<1>1. /\ at = "push" /\ at' = "script" /\ result' = "returned" /\ ctxs' = ctxs - 1 /\ outs' = outs - 1
      /\ length' = outlen + extralen
      /\ UNCHANGED <<call, calls, size, outlen, extralen, text, misses, unmade>>
      /\ call.op = "encrypt" => encrypted' = [encrypted EXCEPT ![d].done = TRUE, ![d].len = outlen + extralen]
      /\ call.op # "encrypt" => encrypted' = encrypted
  BY DEF C!Push, C!OutLength, C!FreeBoth
<1>2. /\ C!c \in Ciphers /\ C!c.block # 0 /\ C!input \in Nat
      /\ C!source \in Sources /\ C!Bytes(C!source.given).len \in Nat
      /\ call.op = "encrypt" => C!input = C!Bytes(C!source.given).len
  BY <1>1, CallData DEF CryptInv
<1>3. /\ encrypted \in Seq(Sources) /\ d \in DOMAIN encrypted /\ encrypted[d] \in Sources
      /\ outlen \in Nat /\ extralen \in Nat /\ call \in CallSet
  BY <1>1, <1>2 DEF CryptInv, CallTyped, C!TypeOK, C!source
<1>4. /\ r \in Sources /\ r.done = TRUE /\ r.len = outlen + extralen
      /\ r.given = encrypted[d].given /\ r.call = encrypted[d].call
  <2>1. outlen + extralen \in Nat
    BY <1>3
  <2> QED
    BY <1>3, <2>1 DEF Sources
<1>5. call.op = "encrypt" => encrypted' = [encrypted EXCEPT ![d] = r]
  BY <1>1, <1>3
<1> HIDE DEF r, d
<1>6. /\ encrypted' \in Seq(Sources) /\ Len(encrypted') = Len(encrypted)
      /\ \A e \in DOMAIN encrypted : /\ encrypted'[e].given = encrypted[e].given
                                     /\ encrypted'[e].call = encrypted[e].call
                                     /\ encrypted[e].done => encrypted'[e].done
                                     /\ call.op # "encrypt" \/ e # d => encrypted'[e] = encrypted[e]
      /\ call.op = "encrypt" => encrypted'[d] = r
  <2>1. CASE call.op = "encrypt"
    <3>1. encrypted' \in Seq(Sources) /\ Len(encrypted') = Len(encrypted)
      BY <1>3, <1>4, <1>5, <2>1
    <3>2. \A e \in DOMAIN encrypted : encrypted'[e] = IF e = d THEN r ELSE encrypted[e]
      BY <1>3, <1>5, <2>1
    <3> QED
      BY <1>3, <1>4, <3>1, <3>2, <2>1
  <2>2. CASE call.op # "encrypt"
    BY <1>1, <1>3, <2>2
  <2> QED
    BY <2>1, <2>2
<1>7. DOMAIN encrypted' = DOMAIN encrypted
  BY <1>3, <1>6
<1>8. CallTyped'
  <2>1. call.op = "decrypt" => C!source' = C!source
    BY <1>1 DEF C!source
  <2>2. Len(encrypted') <= calls'
    BY <1>1, <1>6 DEF CryptInv, CallTyped
  <2> QED
    BY <1>1, <1>6, <1>7, <2>1, <2>2 DEF CryptInv, CallTyped
<1>9. SourcesExact'
  <2> SUFFICES ASSUME NEW e \in DOMAIN encrypted, encrypted'[e].done
               PROVE  /\ encrypted'[e].call.cipher.block # 0
                      /\ encrypted'[e].len = EncryptedLength(C!Bytes(encrypted'[e].given).len,
                                                             encrypted'[e].call.cipher)
    BY <1>7 DEF SourcesExact
  <2>1. CASE call.op = "encrypt" /\ e = d
    <3>1. encrypted[d].call = call
      BY <1>1, <2>1 DEF CryptInv, CallTyped, C!source, d
    <3>2. outlen + extralen = EncryptedLength(C!Bytes(encrypted[d].given).len, call.cipher)
      BY <1>1, <1>2, <2>1 DEF CryptInv, OutputExact, C!source, C!c, d
    <3> QED
      BY <1>2, <1>4, <1>6, <2>1, <3>1, <3>2 DEF C!c
  <2>2. CASE call.op # "encrypt" \/ e # d
    BY <1>6, <2>2 DEF CryptInv, SourcesExact
  <2> QED
    BY <2>1, <2>2
<1>10. BlocksAt' /\ OutputExact' /\ C!TypeOK'
  BY <1>1, <1>6 DEF CryptInv, BlocksAt, OutputExact, C!TypeOK
<1>11. C!RoundTrip'
  <2> SUFFICES ASSUME call.op = "decrypt", call.cut = 0, C!Same'
               PROVE  (/\ text = C!source.given.id
                       /\ C!source.given.kind = "buffer" \/ C!source.given.nul = C!source.given.len =>
                            length = C!source.given.len)'
    BY <1>1 DEF C!RoundTrip
  <2>1. C!source' = C!source /\ C!Same
    BY <1>1 DEF C!source, C!Same, C!c
  <2>2. text = C!source.given.id /\ length' = C!Bytes(C!source.given).len
    BY <1>1, <2>1 DEF CryptInv, OutputExact
  <2>3. C!source.given \in Values
    BY <1>2 DEF Sources
  <2> QED
    BY <1>1, <2>1, <2>2, <2>3, BytesType
<1> QED
  BY <1>8, <1>9, <1>10, <1>11 DEF CryptInv

\* Every step of encryption and decryption keeps the invariant.
LEMMA CryptNext == ASSUME C!Assumption, CryptInv, C!Next PROVE CryptInv'
BY CryptEncrypt, CryptDecrypt, CryptCall, CryptPush DEF C!Next

\* So do the steps of other parts.
LEMMA CryptStays == ASSUME CryptInv, UNCHANGED crypt_vars PROVE CryptInv'
BY DEF crypt_vars, CryptInv, C!TypeOK, CallTyped, SourcesExact, OutputExact, BlocksAt, C!RoundTrip,
       C!source, C!input, C!c, C!Same

\* What the invariant says of the output.
LEMMA CryptOutput == ASSUME C!Assumption, CryptInv PROVE C!BlocksAccounted /\ C!OutputFits
<1>1. C!BlocksAccounted
  BY DEF CryptInv, BlocksAt, C!BlocksAccounted, C!TypeOK
<1>2. ASSUME at # "script" PROVE outlen + extralen <= size
  <2>1. /\ C!c \in Ciphers /\ C!c.block # 0 /\ C!input \in Nat
    BY <1>2, CallData DEF CryptInv
  <2>2. /\ EncryptedLength(C!input, C!c) <= C!input + 16 /\ EncryptedLength(C!input, C!c) \in Nat
        /\ UpdateLength(call.op, C!input, C!c) <= C!input
        /\ UpdateLength(call.op, C!input, C!c) \in Nat
    BY <2>1, CipherLengths
  <2>3. outlen \in Nat /\ extralen \in Nat /\ call.op \in {"encrypt", "decrypt"}
    BY <1>2 DEF CryptInv, C!TypeOK, CallTyped, CallSet
  <2> QED
    BY <1>2, <2>1, <2>2, <2>3 DEF CryptInv, OutputExact, C!TypeOK
<1> QED
  BY <1>1, <1>2 DEF C!OutputFits

-----------------------------------------------------------------------------
(* Inclusion: what the functions by recursion in Inclusion are *)

\* Induction: a set with 0 that has the successor of each of its numbers has them all.
LEMMA AllNumbers ==
    ASSUME NEW S, 0 \in S, \A n \in Nat : n \in S => n + 1 \in S
    PROVE  \A n \in Nat : n \in S
<1> DEFINE T == {n \in Nat : n \notin S}
<1> SUFFICES ASSUME T # {} PROVE FALSE
  OBVIOUS
<1>1. PICK n \in T : \A i \in T : ~(<<i, n>> \in OpToRel(<, Nat))
  <2>1. T \subseteq Nat
    OBVIOUS
  <2> HIDE DEF T
  <2> QED
    BY <2>1, NatLessThanWellFounded, WFMin
<1>2. \A i \in Nat : i < n => i \in S
  BY <1>1 DEF OpToRel
<1> QED
  BY <1>2

\* h is what the steps F make of a, one after another.
Iterates(h, n, a, F) == h = [i \in 0 .. n |-> IF i = 0 THEN a ELSE F[i][h[i - 1]]]

\* Steps that stay in a set can be taken one after another.
LEMMA Iteration ==
    ASSUME NEW S, NEW N \in Nat, NEW a \in S, NEW F \in [1 .. N -> [S -> S]]
    PROVE  \E h \in [0 .. N -> S] : Iterates(h, N, a, F)
<1> DEFINE T == {n \in Nat : n <= N => \E h \in [0 .. n -> S] : Iterates(h, n, a, F)}
<1>1. 0 \in T
  <2> DEFINE h == [i \in 0 .. 0 |-> a]
  <2>1. h = [i \in 0 .. 0 |-> IF i = 0 THEN a ELSE F[i][h[i - 1]]]
    OBVIOUS
  <2>2. h \in [0 .. 0 -> S]
    OBVIOUS
  <2> HIDE DEF h
  <2> QED
    BY <2>1, <2>2 DEF Iterates
<1>2. ASSUME NEW k \in Nat, k \in T PROVE k + 1 \in T
  <2> SUFFICES ASSUME k + 1 <= N
               PROVE  \E h \in [0 .. k + 1 -> S] : Iterates(h, k + 1, a, F)
    OBVIOUS
  <2>1. PICK h \in [0 .. k -> S] : Iterates(h, k, a, F)
    BY <1>2
  <2>2. \A i \in 0 .. k : h[i] = IF i = 0 THEN a ELSE F[i][h[i - 1]]
    BY <2>1 DEF Iterates
  <2> DEFINE g == [i \in 0 .. k + 1 |-> IF i = k + 1 THEN F[k + 1][h[k]] ELSE h[i]]
  <2>3. F[k + 1][h[k]] \in S
    <3>1. k + 1 \in 1 .. N /\ h[k] \in S
      OBVIOUS
    <3> QED
      BY <3>1
  <2>4. g \in [0 .. k + 1 -> S]
    BY <2>3
  <2>5. \A i \in 0 .. k : g[i] = h[i]
    OBVIOUS
  <2>6. g[k + 1] = F[k + 1][h[k]]
    OBVIOUS
  <2> HIDE DEF g
  <2>7. \A i \in 0 .. k + 1 : g[i] = IF i = 0 THEN a ELSE F[i][g[i - 1]]
    <3>1. ASSUME NEW i \in 0 .. k, i # 0 PROVE g[i] = F[i][g[i - 1]]
      <4>1. i - 1 \in 0 .. k
        BY <3>1
      <4> QED
        BY <2>2, <2>5, <3>1, <4>1
    <3>2. g[0] = a
      BY <2>2, <2>5
    <3>3. k + 1 # 0 /\ (k + 1) - 1 = k /\ g[k] = h[k]
      BY <2>5
    <3> QED
      BY <2>6, <3>1, <3>2, <3>3
  <2>8. g = [i \in 0 .. k + 1 |-> IF i = 0 THEN a ELSE F[i][g[i - 1]]]
    <3>1. g = [i \in 0 .. k + 1 |-> g[i]]
      BY <2>4
    <3> QED
      BY <2>7, <3>1
  <2> QED
    BY <2>4, <2>8 DEF Iterates
<1> HIDE DEF T
<1>3. \A k \in Nat : k \in T => k + 1 \in T
  BY <1>2
<1>4. N \in T
  BY <1>1, <1>3, AllNumbers
<1> QED
  BY <1>4 DEF T

\* What starts in a set and stays there is in it.
LEMMA StaysWithin ==
    ASSUME NEW S, NEW N \in Nat, NEW g, g[0] \in S, \A n \in 1 .. N : g[n - 1] \in S => g[n] \in S
    PROVE  \A n \in 0 .. N : g[n] \in S
<1> DEFINE T == {n \in Nat : n <= N => g[n] \in S}
<1>1. 0 \in T
  OBVIOUS
<1>2. ASSUME NEW n \in Nat, n \in T PROVE n + 1 \in T
  <2> SUFFICES ASSUME n + 1 <= N PROVE g[n + 1] \in S
    OBVIOUS
  <2>1. n + 1 \in 1 .. N /\ (n + 1) - 1 = n /\ g[n] \in S
    BY <1>2
  <2> QED
    BY <2>1
<1> HIDE DEF T
<1>3. \A n \in Nat : n \in T
  BY <1>1, <1>2, AllNumbers
<1> QED
  BY <1>3 DEF T

-----------------------------------------------------------------------------
(* Inclusion: what files do when the ones they include stand in place *)

\* What a script does: the statements that do something, and whether it fails.
Outcomes == [ran : Seq(Files \X Nat), fails : BOOLEAN]

\* The files of a file system are as the assumptions say.
LEMMA FileTypes ==
    ASSUME I!Assumption, NEW s \in Contents, NEW f \in Files
    PROVE  /\ s[f].kind \in I!Kinds /\ s[f].items \in Seq(I!Statements) /\ Len(s[f].items) \in Nat
           /\ s[f].kind # "script" => Len(s[f].items) = 0
           /\ \A i \in 1 .. Len(s[f].items) :
                LET item == s[f].items[i]
                IN  /\ item.guarded \in BOOLEAN
                    /\ \/ item.does = "run"
                       \/ item.does = "throw"
                       \/ item.does = "include" /\ item.file \in Files
<1>1. /\ s[f].kind \in I!Kinds /\ s[f].items \in Seq(I!Statements)
      /\ s[f].kind # "script" => s[f].items = <<>>
  BY DEF I!Assumption
<1>2. \A i \in 1 .. Len(s[f].items) : s[f].items[i] \in I!Statements
  BY <1>1
<1>3. \A item \in I!Statements :
        /\ item.guarded \in BOOLEAN
        /\ \/ item.does = "run"
           \/ item.does = "throw"
           \/ item.does = "include" /\ item.file \in Files
  BY DEF I!Statements
<1> QED
  BY <1>1, <1>2, <1>3

\* What statements do, one alone and one after another, is an outcome.
LEMMA StatementTypes ==
    ASSUME I!Assumption, NEW s \in Contents, NEW f \in Files, NEW included \in [Files -> Outcomes]
    PROVE  /\ I!Quiet \in Outcomes /\ I!Fails \in Outcomes
           /\ \A i \in 1 .. Len(s[f].items) : I!Alone(s, f, i, included) \in Outcomes
           /\ \A first, rest \in Outcomes, guarded \in BOOLEAN :
                I!Followed(first, guarded, rest) \in Outcomes
<1>1. I!Quiet \in Outcomes /\ I!Fails \in Outcomes
  BY DEF I!Quiet, I!Fails, Outcomes
<1>2. ASSUME NEW i \in 1 .. Len(s[f].items) PROVE I!Alone(s, f, i, included) \in Outcomes
  <2>1. <<f, i>> \in Files \X Nat
    BY FileTypes
  <2>2. [ran |-> <<<<f, i>>>>, fails |-> FALSE] \in Outcomes
    BY <2>1 DEF Outcomes
  <2>3. CASE s[f].items[i].does = "run"
    BY <2>2, <2>3 DEF I!Alone
  <2>4. CASE s[f].items[i].does = "throw"
    BY <1>1, <2>4 DEF I!Alone
  <2>5. CASE s[f].items[i].does = "include" /\ s[f].items[i].file \in Files
    BY <2>5 DEF I!Alone
  <2> QED
    BY <2>3, <2>4, <2>5, FileTypes
<1>3. ASSUME NEW first \in Outcomes, NEW rest \in Outcomes, NEW guarded \in BOOLEAN
      PROVE  I!Followed(first, guarded, rest) \in Outcomes
  <2>1. first.ran \o rest.ran \in Seq(Files \X Nat) /\ rest.fails \in BOOLEAN
    BY DEF Outcomes
  <2>2. [ran |-> first.ran \o rest.ran, fails |-> rest.fails] \in Outcomes
    BY <2>1 DEF Outcomes
  <2> QED
    BY <2>2 DEF I!Followed
<1> QED
  BY <1>1, <1>2, <1>3

\* What the last n statements of a file do is last[n].
FromTheEnd(last, s, f, included) ==
    LET items == s[f].items
    IN  /\ last \in [0 .. Len(items) -> Outcomes]
        /\ last[0] = I!Quiet
        /\ \A n \in 1 .. Len(items) :
            LET i == Len(items) - n + 1
            IN  last[n] = I!Followed(I!Alone(s, f, i, included), items[i].guarded, last[n - 1])
        /\ I!InPlace(s, f, included) =
            IF s[f].kind \in {"script", "empty"} THEN last[Len(items)] ELSE I!Fails

\* The function in InPlace is that.
LEMMA InPlaceDef ==
    ASSUME I!Assumption, NEW s \in Contents, NEW f \in Files, NEW included \in [Files -> Outcomes]
    PROVE  \E last : FromTheEnd(last, s, f, included)
<1> DEFINE items == s[f].items
           N == Len(items)
           Step(n, rest) == I!Followed(I!Alone(s, f, N - n + 1, included), items[N - n + 1].guarded, rest)
           F == [n \in 1 .. N |-> [rest \in Outcomes |-> Step(n, rest)]]
           Eq(g) == g = [n \in 0 .. N |-> IF n = 0 THEN I!Quiet
                          ELSE I!Followed(I!Alone(s, f, N - n + 1, included),
                                          items[N - n + 1].guarded, g[n - 1])]
           c == CHOOSE g : Eq(g)
<1>1. N \in Nat
  BY FileTypes
<1>2. \A n \in 1 .. N : N - n + 1 \in 1 .. N
  BY <1>1
<1>3. \A n \in 1 .. N, rest \in Outcomes : Step(n, rest) \in Outcomes
  <2> TAKE n \in 1 .. N, rest \in Outcomes
  <2>1. N - n + 1 \in 1 .. N
    BY <1>2
  <2>2. items[N - n + 1].guarded \in BOOLEAN
    BY <2>1, FileTypes
  <2>3. I!Alone(s, f, N - n + 1, included) \in Outcomes
    BY <2>1, StatementTypes
  <2> QED
    BY <2>2, <2>3, StatementTypes
<1>4. \A n \in 1 .. N, rest \in Outcomes : F[n][rest] = Step(n, rest)
  OBVIOUS
<1>5. F \in [1 .. N -> [Outcomes -> Outcomes]]
  <2> HIDE DEF Step
  <2> QED
    BY <1>3
<1> HIDE DEF F
<1>6. I!Quiet \in Outcomes
  BY StatementTypes
<1>7. PICK h \in [0 .. N -> Outcomes] : Iterates(h, N, I!Quiet, F)
  <2> HIDE DEF N
  <2> QED
    BY <1>1, <1>5, <1>6, Iteration
<1>8. Eq(h)
  <2> HIDE DEF Step, N
  <2>1. h = [i \in 0 .. N |-> IF i = 0 THEN I!Quiet ELSE F[i][h[i - 1]]]
    BY <1>7 DEF Iterates
  <2>2. \A i \in 0 .. N : i # 0 => F[i][h[i - 1]] = Step(i, h[i - 1])
    <3> TAKE i \in 0 .. N
    <3> HAVE i # 0
    <3>1. i \in 1 .. N /\ i - 1 \in 0 .. N
      BY <1>1
    <3>2. h[i - 1] \in Outcomes
      BY <3>1
    <3> QED
      BY <1>4, <3>1, <3>2
  <2>3. h = [i \in 0 .. N |-> IF i = 0 THEN I!Quiet ELSE Step(i, h[i - 1])]
    BY <2>1, <2>2
  <2> QED
    BY <2>3 DEF Step
<1>9. I!InPlace(s, f, included) = IF s[f].kind \in {"script", "empty"} THEN c[N] ELSE I!Fails
  BY DEF I!InPlace
<1> HIDE DEF Eq
<1>10. Eq(c)
  BY <1>8
<1> HIDE DEF c
<1> HIDE DEF N
<1>11. ASSUME NEW g, Eq(g)
       PROVE  /\ DOMAIN g = 0 .. N /\ g[0] = I!Quiet
              /\ \A n \in 1 .. N : g[n] = Step(n, g[n - 1])
  <2>1. g = [n \in 0 .. N |-> IF n = 0 THEN I!Quiet ELSE Step(n, g[n - 1])]
    BY <1>11 DEF Eq
  <2> HIDE DEF Step
  <2>2. DOMAIN g = 0 .. N
    BY <2>1
  <2>3. \A n \in 0 .. N : g[n] = IF n = 0 THEN I!Quiet ELSE Step(n, g[n - 1])
    BY <2>1
  <2>4. 0 \in 0 .. N /\ \A n \in 1 .. N : n \in 0 .. N /\ n # 0
    BY <1>1
  <2> QED
    BY <2>2, <2>3, <2>4
<1>12. c \in [0 .. N -> Outcomes]
  <2> HIDE DEF Step
  <2>1. c[0] \in Outcomes /\ \A n \in 1 .. N : c[n - 1] \in Outcomes => c[n] \in Outcomes
    BY <1>3, <1>6, <1>10, <1>11
  <2>2. \A n \in 0 .. N : c[n] \in Outcomes
    BY <1>1, <2>1, StaysWithin
  <2>3. c = [n \in 0 .. N |-> c[n]]
    BY <1>10 DEF Eq
  <2> QED
    BY <2>2, <2>3
<1>13. FromTheEnd(c, s, f, included)
  BY <1>9, <1>10, <1>11, <1>12 DEF FromTheEnd, N
<1> QED
  BY <1>13

\* What a file does is an outcome.
LEMMA InPlaceType ==
    ASSUME I!Assumption, NEW s \in Contents, NEW f \in Files, NEW included \in [Files -> Outcomes]
    PROVE  I!InPlace(s, f, included) \in Outcomes
<1>1. PICK last : FromTheEnd(last, s, f, included)
  BY InPlaceDef
<1>2. Len(s[f].items) \in 0 .. Len(s[f].items) /\ last \in [0 .. Len(s[f].items) -> Outcomes]
  BY <1>1, FileTypes DEF FromTheEnd
<1>3. last[Len(s[f].items)] \in Outcomes
  BY <1>2
<1> QED
  BY <1>1, <1>3, StatementTypes DEF FromTheEnd

\* The function in Replaced: what files do, for each number of scripts inside each other.
LEMMA ReplacedDef ==
    ASSUME I!Assumption, NEW s \in Contents
    PROVE  /\ I!Replaced(s) \in [0 .. MaxDepth -> [Files -> Outcomes]]
           /\ \A f \in Files : I!Replaced(s)[0][f] = I!Fails
           /\ \A d \in 1 .. MaxDepth, f \in Files :
                I!Replaced(s)[d][f] = I!InPlace(s, f, I!Replaced(s)[d - 1])
<1> DEFINE S == [Files -> Outcomes]
           None == [f \in Files |-> I!Fails]
           Step(within) == [f \in Files |-> I!InPlace(s, f, within)]
           F == [d \in 1 .. MaxDepth |-> [within \in S |-> Step(within)]]
           Eq(g) == g = [d \in 0 .. MaxDepth |-> IF d = 0 THEN [f \in Files |-> I!Fails]
                                                 ELSE [f \in Files |-> I!InPlace(s, f, g[d - 1])]]
           c == CHOOSE g : Eq(g)
<1>1. MaxDepth \in Nat
  BY DEF I!Assumption
<1>2. None \in S
  <2>1. I!Fails \in Outcomes
    BY DEF I!Fails, Outcomes
  <2> QED
    BY <2>1
<1>3. \A within \in S : Step(within) \in S
  BY InPlaceType
<1>4. \A d \in 1 .. MaxDepth, within \in S : F[d][within] = Step(within)
  OBVIOUS
<1>5. F \in [1 .. MaxDepth -> [S -> S]]
  <2> HIDE DEF Step, S
  <2> QED
    BY <1>3
<1> HIDE DEF F
<1>6. PICK h \in [0 .. MaxDepth -> S] : Iterates(h, MaxDepth, None, F)
  <2> HIDE DEF S, None
  <2> QED
    BY <1>1, <1>2, <1>5, Iteration
<1>7. Eq(h)
  <2> HIDE DEF Step, None, S
  <2>1. h = [d \in 0 .. MaxDepth |-> IF d = 0 THEN None ELSE F[d][h[d - 1]]]
    BY <1>6 DEF Iterates
  <2>2. \A d \in 0 .. MaxDepth : d # 0 => F[d][h[d - 1]] = Step(h[d - 1])
    <3> TAKE d \in 0 .. MaxDepth
    <3> HAVE d # 0
    <3>1. d \in 1 .. MaxDepth /\ d - 1 \in 0 .. MaxDepth
      BY <1>1
    <3>2. h[d - 1] \in S
      BY <3>1
    <3> QED
      BY <1>4, <3>1, <3>2
  <2>3. h = [d \in 0 .. MaxDepth |-> IF d = 0 THEN None ELSE Step(h[d - 1])]
    BY <2>1, <2>2
  <2> QED
    BY <2>3 DEF Step, None
<1>8. I!Replaced(s) = c
  BY DEF I!Replaced
<1> HIDE DEF Eq
<1>9. Eq(c)
  BY <1>7
<1> HIDE DEF c
<1>10. /\ DOMAIN c = 0 .. MaxDepth /\ c[0] = None
       /\ \A d \in 1 .. MaxDepth : c[d] = Step(c[d - 1])
  <2>1. c = [d \in 0 .. MaxDepth |-> IF d = 0 THEN None ELSE Step(c[d - 1])]
    BY <1>9 DEF Eq
  <2> HIDE DEF Step, None
  <2>2. 0 \in 0 .. MaxDepth /\ \A d \in 1 .. MaxDepth : d \in 0 .. MaxDepth /\ d # 0
    BY <1>1
  <2>3. DOMAIN c = 0 .. MaxDepth
    BY <2>1
  <2>4. \A d \in 0 .. MaxDepth : c[d] = IF d = 0 THEN None ELSE Step(c[d - 1])
    BY <2>1
  <2> QED
    BY <2>2, <2>3, <2>4
<1>11. c \in [0 .. MaxDepth -> S]
  <2> HIDE DEF Step, None, S
  <2>1. c[0] \in S /\ \A d \in 1 .. MaxDepth : c[d - 1] \in S => c[d] \in S
    BY <1>2, <1>3, <1>10
  <2>2. \A d \in 0 .. MaxDepth : c[d] \in S
    BY <1>1, <2>1, StaysWithin
  <2>3. c = [d \in 0 .. MaxDepth |-> c[d]]
    BY <1>9 DEF Eq
  <2> QED
    BY <2>2, <2>3
<1>12. \A f \in Files : None[f] = I!Fails
  OBVIOUS
<1>13. \A within : \A f \in Files : Step(within)[f] = I!InPlace(s, f, within)
  OBVIOUS
<1> HIDE DEF None, Step
<1>14. \A d \in 1 .. MaxDepth, f \in Files : c[d][f] = I!InPlace(s, f, c[d - 1])
  <2> TAKE d \in 1 .. MaxDepth, f \in Files
  <2>1. c[d] = Step(c[d - 1])
    BY <1>10
  <2> QED
    BY <1>13, <2>1
<1>15. \A f \in Files : c[0][f] = I!Fails
  BY <1>10, <1>12
<1> QED
  BY <1>8, <1>11, <1>14, <1>15

\* What is left of a file from its i-th statement on, when the files it includes may be d
\* scripts inside each other.
Rest(s, f, included) == CHOOSE last : FromTheEnd(last, s, f, included)
Onward(s, d, f, i) == Rest(s, f, I!Replaced(s)[d])[Len(s[f].items) - i + 1]

\* A file goes on with its statements one by one, and does as a whole what Replaced says.
LEMMA OnwardSteps ==
    ASSUME I!Assumption, NEW s \in Contents, NEW f \in Files, NEW d \in 0 .. MaxDepth
    PROVE  /\ \A i \in 1 .. Len(s[f].items) + 1 : Onward(s, d, f, i) \in Outcomes
           /\ Onward(s, d, f, Len(s[f].items) + 1) = I!Quiet
           /\ \A i \in 1 .. Len(s[f].items) :
                Onward(s, d, f, i) =
                    I!Followed(I!Alone(s, f, i, I!Replaced(s)[d]), s[f].items[i].guarded,
                               Onward(s, d, f, i + 1))
           /\ s[f].kind \in {"script", "empty"} /\ d < MaxDepth =>
                I!Replaced(s)[d + 1][f] = Onward(s, d, f, 1)
           /\ s[f].kind \notin {"script", "empty"} => I!Replaced(s)[d][f] = I!Fails
<1> DEFINE included == I!Replaced(s)[d]
           last == Rest(s, f, included)
           N == Len(s[f].items)
<1>1. included \in [Files -> Outcomes] /\ MaxDepth \in Nat
  BY ReplacedDef DEF I!Assumption
<1> HIDE DEF included
<1>2. FromTheEnd(last, s, f, included)
  BY <1>1, InPlaceDef DEF Rest
<1> HIDE DEF last
<1>3. N \in Nat
  BY FileTypes
<1>4. last \in [0 .. N -> Outcomes] /\ last[0] = I!Quiet
  BY <1>2 DEF FromTheEnd
<1>5. \A n \in 1 .. N :
        last[n] = I!Followed(I!Alone(s, f, N - n + 1, included), s[f].items[N - n + 1].guarded, last[n - 1])
  BY <1>2 DEF FromTheEnd
<1>6. I!InPlace(s, f, included) = IF s[f].kind \in {"script", "empty"} THEN last[N] ELSE I!Fails
  BY <1>2 DEF FromTheEnd
<1>7. \A i : Onward(s, d, f, i) = last[N - i + 1]
  BY DEF Onward, last, included
<1> HIDE DEF N
<1>8. \A i \in 1 .. N + 1 : Onward(s, d, f, i) \in Outcomes
  BY <1>3, <1>4, <1>7
<1>9. Onward(s, d, f, N + 1) = I!Quiet
  <2>1. N - (N + 1) + 1 = 0
    BY <1>3
  <2> QED
    BY <1>4, <1>7, <2>1
<1>10. ASSUME NEW i \in 1 .. N
       PROVE  Onward(s, d, f, i) =
                I!Followed(I!Alone(s, f, i, included), s[f].items[i].guarded, Onward(s, d, f, i + 1))
  <2> DEFINE n == N - i + 1
  <2>1. n \in 1 .. N /\ N - n + 1 = i /\ n - 1 = N - (i + 1) + 1
    BY <1>3
  <2> HIDE DEF n
  <2>2. Onward(s, d, f, i) = last[n] /\ Onward(s, d, f, i + 1) = last[n - 1]
    BY <1>7, <2>1 DEF n
  <2> QED
    BY <1>5, <2>1, <2>2
<1>11. s[f].kind \in {"script", "empty"} /\ d < MaxDepth => I!Replaced(s)[d + 1][f] = Onward(s, d, f, 1)
  <2> SUFFICES ASSUME s[f].kind \in {"script", "empty"}, d < MaxDepth
               PROVE  I!Replaced(s)[d + 1][f] = Onward(s, d, f, 1)
    OBVIOUS
  <2>1. d + 1 \in 1 .. MaxDepth /\ (d + 1) - 1 = d /\ N - 1 + 1 = N
    BY <1>1, <1>3
  <2>2. I!Replaced(s)[d + 1][f] = I!InPlace(s, f, included)
    BY <2>1, ReplacedDef DEF included
  <2> QED
    BY <1>6, <1>7, <2>1, <2>2
<1>12. s[f].kind \notin {"script", "empty"} => I!Replaced(s)[d][f] = I!Fails
  <2>1. CASE d = 0
    BY <2>1, ReplacedDef
  <2>2. CASE d # 0
    <3>1. d \in 1 .. MaxDepth /\ d - 1 \in 0 .. MaxDepth
      BY <1>1, <2>2
    <3>2. I!Replaced(s)[d][f] = I!InPlace(s, f, I!Replaced(s)[d - 1])
      BY <3>1, ReplacedDef
    <3>3. I!Replaced(s)[d - 1] \in [Files -> Outcomes]
      BY <3>1, ReplacedDef
    <3>4. PICK l : FromTheEnd(l, s, f, I!Replaced(s)[d - 1])
      BY <3>3, InPlaceDef
    <3> QED
      BY <3>2, <3>4 DEF FromTheEnd
  <2> QED
    BY <2>1, <2>2
<1> QED
  BY <1>8, <1>9, <1>10, <1>11, <1>12 DEF N, included

-----------------------------------------------------------------------------
(* Inclusion: the inductive invariant *)

Frames == [file : Files, at : Nat]

\* The j-th script, counted from the outermost, which is the first.
Level(scr, j) == scr[Len(scr) + 1 - j]

\* What is done first, and then what follows, which depends on how that ended.
Glue(first, then) ==
    [ran |-> first.ran \o then[first.fails].ran, fails |-> then[first.fails].fails]

\* What a script and the ones around it do after the statement it is at has failed or not.
After(s, d, script, failed, then) ==
    IF failed /\ ~s[script.file].items[script.at].guarded THEN then[TRUE]
    ELSE Glue(Onward(s, d, script.file, script.at + 1), then)

\* c[j]: what is done after the j-th script has ended, with an error or without.
Continues(c, s, scr) ==
    /\ c \in [1 .. Len(scr) -> [BOOLEAN -> Outcomes]]
    /\ \A failed \in BOOLEAN : c[1][failed] = [ran |-> <<>>, fails |-> failed]
    /\ \A j \in 1 .. Len(scr) - 1, failed \in BOOLEAN :
        c[j + 1][failed] = After(s, MaxDepth - j, Level(scr, j), failed, c[j])

\* What is left to do.
Left(c, s, state, scr) ==
    IF state = "script"
      THEN Glue(Onward(s, MaxDepth - Len(scr), scr[1].file, scr[1].at), c[Len(scr)])
      ELSE After(s, MaxDepth - Len(scr), scr[1], TRUE, c[Len(scr)])

\* What has been done and what is left make up what is done with the included files in place.
Explained(s, state, scr, done) ==
    \E c : /\ Continues(c, s, scr)
           /\ I!Replaced(s)[MaxDepth][Main] =
                [ran |-> done \o Left(c, s, state, scr).ran, fails |-> Left(c, s, state, scr).fails]

\* Only files that can be run are, one that includes another is at the statement that does,
\* and one whose error is on its way up is at the statement that threw it.
ScriptsSound(s, state, scr) ==
    /\ scr \in Seq(Frames) /\ Len(scr) <= MaxDepth
    /\ state \in {"script", "raise"} <=> scr # <<>>
    /\ \A n \in 1 .. Len(scr) :
        /\ s[scr[n].file].kind \in {"script", "empty"}
        /\ scr[n].at \in 1 .. Len(s[scr[n].file].items) + 1
        /\ n > 1 \/ state = "raise" => scr[n].at <= Len(s[scr[n].file].items)

IncludeTyped ==
    /\ files \in Contents /\ ran \in Seq(Files \X Nat)
    /\ running \in {"start", "script", "raise", "done", "failed", "fatal"}
    /\ error \in {"none", "own", "Error", "PosixError", "URIError", "TypeError", "SyntaxError"}
    /\ buffers \in Nat /\ lost \in Nat /\ garbage \in BOOLEAN
    /\ ScriptsSound(files, running, scripts)
    /\ running = "start" => ran = <<>>

IncludeInv ==
    /\ IncludeTyped
    /\ I!BuffersAccounted
    /\ ~garbage /\ running \in {"script", "raise"} => Explained(files, running, scripts, ran)
    /\ I!RunsAsReplaced

-----------------------------------------------------------------------------
(* Inclusion: how the scripts that are being run go on *)

\* What is done next is an outcome.
LEMMA AfterType ==
    ASSUME I!Assumption, NEW s \in Contents, NEW d \in 0 .. MaxDepth, NEW then \in [BOOLEAN -> Outcomes],
           NEW script \in Frames, script.at \in 1 .. Len(s[script.file].items), NEW failed \in BOOLEAN
    PROVE  After(s, d, script, failed, then) \in Outcomes
<1>1. script.file \in Files /\ script.at + 1 \in 1 .. Len(s[script.file].items) + 1
  BY FileTypes DEF Frames
<1>2. Onward(s, d, script.file, script.at + 1) \in Outcomes
  BY <1>1, OnwardSteps
<1>3. \A first \in Outcomes : Glue(first, then) \in Outcomes
  <2> TAKE first \in Outcomes
  <2>1. then[first.fails] \in Outcomes
    BY DEF Outcomes
  <2>2. first.ran \o then[first.fails].ran \in Seq(Files \X Nat) /\ then[first.fails].fails \in BOOLEAN
    BY <2>1 DEF Outcomes
  <2> QED
    BY <2>2 DEF Glue, Outcomes
<1>4. then[TRUE] \in Outcomes
  OBVIOUS
<1> QED
  BY <1>2, <1>3, <1>4 DEF After

\* A script does the statement it is at, and then what follows on how that ended.
LEMMA Stepwise ==
    ASSUME I!Assumption, NEW s \in Contents, NEW d \in 0 .. MaxDepth, NEW then \in [BOOLEAN -> Outcomes],
           NEW script \in Frames, script.at \in 1 .. Len(s[script.file].items),
           NEW next \in [BOOLEAN -> Outcomes],
           \A failed \in BOOLEAN : next[failed] = After(s, d, script, failed, then)
    PROVE  Glue(Onward(s, d, script.file, script.at), then) =
                Glue(I!Alone(s, script.file, script.at, I!Replaced(s)[d]), next)
<1> DEFINE f == script.file
           first == I!Alone(s, f, script.at, I!Replaced(s)[d])
           rest == Onward(s, d, f, script.at + 1)
           guarded == s[f].items[script.at].guarded
<1>1. f \in Files /\ script.at \in 1 .. Len(s[f].items) /\ script.at + 1 \in 1 .. Len(s[f].items) + 1
  BY FileTypes DEF Frames
<1>2. Onward(s, d, f, script.at) = I!Followed(first, guarded, rest)
  BY <1>1, OnwardSteps
<1>3. guarded \in BOOLEAN
  BY <1>1, FileTypes
<1>4. rest \in Outcomes
  BY <1>1, OnwardSteps
<1>5. first \in Outcomes
  <2>1. I!Replaced(s)[d] \in [Files -> Outcomes]
    BY ReplacedDef
  <2> QED
    BY <1>1, <2>1, StatementTypes
<1>6. \A failed \in BOOLEAN : next[failed] = IF failed /\ ~guarded THEN then[TRUE] ELSE Glue(rest, then)
  BY DEF After
<1> HIDE DEF f, first, rest, guarded
<1>7. CASE first.fails /\ ~guarded
  <2>1. first.fails = TRUE /\ next[TRUE] = then[TRUE]
    BY <1>5, <1>6, <1>7 DEF Outcomes
  <2>2. I!Followed(first, guarded, rest) = first
    BY <1>7 DEF I!Followed
  <2>3. Glue(first, then) = Glue(first, next)
    BY <2>1 DEF Glue
  <2> QED
    BY <1>2, <2>2, <2>3 DEF f, first
<1>8. CASE ~(first.fails /\ ~guarded)
  <2>1. first.fails \in BOOLEAN /\ first.ran \in Seq(Files \X Nat) /\ rest.ran \in Seq(Files \X Nat)
        /\ rest.fails \in BOOLEAN
    BY <1>4, <1>5 DEF Outcomes
  <2>2. next[first.fails] = Glue(rest, then)
    BY <1>6, <1>8, <2>1
  <2>3. then[rest.fails].ran \in Seq(Files \X Nat)
    BY <2>1 DEF Outcomes
  <2>4. I!Followed(first, guarded, rest) = [ran |-> first.ran \o rest.ran, fails |-> rest.fails]
    BY <1>8 DEF I!Followed
  <2>5. (first.ran \o rest.ran) \o then[rest.fails].ran = first.ran \o (rest.ran \o then[rest.fails].ran)
    <3> DEFINE S == Files \X Nat
               c1 == first.ran
               c2 == rest.ran
               c3 == then[rest.fails].ran
    <3>1. c1 \in Seq(S) /\ c2 \in Seq(S) /\ c3 \in Seq(S)
      BY <2>1, <2>3
    <3> HIDE DEF S, c1, c2, c3
    <3>2. (c1 \o c2) \o c3 = c1 \o (c2 \o c3)
      BY <3>1, ConcatAssociative
    <3> QED
      BY <3>2 DEF c1, c2, c3
  <2>6. Glue(first, next) = [ran   |-> first.ran \o (rest.ran \o then[rest.fails].ran),
                             fails |-> then[rest.fails].fails]
    BY <2>2 DEF Glue
  <2>7. Glue([ran |-> first.ran \o rest.ran, fails |-> rest.fails], then) =
            [ran |-> (first.ran \o rest.ran) \o then[rest.fails].ran, fails |-> then[rest.fails].fails]
    BY DEF Glue
  <2> QED
    BY <1>2, <2>4, <2>5, <2>6, <2>7 DEF f, first
<1> QED
  BY <1>7, <1>8

Advanced(scr) == [scr EXCEPT ![1].at = @ + 1]

\* What the scripts are after one goes on, includes another or ends.
LEMMA ScriptMoves ==
    ASSUME NEW scr \in Seq(Frames), scr # <<>>
    PROVE  /\ /\ Advanced(scr) \in Seq(Frames) /\ Len(Advanced(scr)) = Len(scr)
              /\ Advanced(scr)[1] = [file |-> scr[1].file, at |-> scr[1].at + 1]
              /\ \A n \in 2 .. Len(scr) : Advanced(scr)[n] = scr[n]
           /\ \A script \in Frames :
              /\ <<script>> \o scr \in Seq(Frames) /\ Len(<<script>> \o scr) = Len(scr) + 1
              /\ (<<script>> \o scr)[1] = script
              /\ \A n \in 2 .. Len(scr) + 1 : (<<script>> \o scr)[n] = scr[n - 1]
           /\ /\ Tail(scr) \in Seq(Frames) /\ Len(Tail(scr)) = Len(scr) - 1
              /\ \A n \in 1 .. Len(scr) - 1 : Tail(scr)[n] = scr[n + 1]
           /\ Head(scr) = scr[1] /\ scr[1] \in Frames /\ Len(scr) \in Nat \ {0}
<1>1. scr[1] \in Frames /\ Len(scr) \in Nat \ {0} /\ Head(scr) = scr[1] /\ 1 \in DOMAIN scr
  OBVIOUS
<1>2. scr[1].file \in Files /\ scr[1].at + 1 \in Nat
  BY <1>1 DEF Frames
<1>3. [file |-> scr[1].file, at |-> scr[1].at + 1] \in Frames
  BY <1>2 DEF Frames
<1>4. Advanced(scr) = [scr EXCEPT ![1] = [file |-> scr[1].file, at |-> scr[1].at + 1]]
  <2>1. [scr[1] EXCEPT !.at = @ + 1] = [file |-> scr[1].file, at |-> scr[1].at + 1]
    BY <1>1 DEF Frames
  <2>2. Advanced(scr) = [scr EXCEPT ![1] = [scr[1] EXCEPT !.at = @ + 1]]
    BY DEF Advanced
  <2> QED
    BY <2>1, <2>2
<1> DEFINE new == [file |-> scr[1].file, at |-> scr[1].at + 1]
<1> HIDE DEF new
<1>5. /\ [scr EXCEPT ![1] = new] \in Seq(Frames) /\ Len([scr EXCEPT ![1] = new]) = Len(scr)
      /\ [scr EXCEPT ![1] = new][1] = new
      /\ \A n \in 2 .. Len(scr) : [scr EXCEPT ![1] = new][n] = scr[n]
  <2>1. new \in Frames
    BY <1>3 DEF new
  <2> QED
    BY <1>1, <2>1
<1>6. ASSUME NEW script \in Frames
      PROVE  /\ <<script>> \o scr \in Seq(Frames) /\ Len(<<script>> \o scr) = Len(scr) + 1
             /\ (<<script>> \o scr)[1] = script
             /\ \A n \in 2 .. Len(scr) + 1 : (<<script>> \o scr)[n] = scr[n - 1]
  <2>1. <<script>> \in Seq(Frames) /\ Len(<<script>>) = 1 /\ <<script>>[1] = script
    OBVIOUS
  <2> QED
    BY <1>1, <2>1
<1>7. /\ Tail(scr) \in Seq(Frames) /\ Len(Tail(scr)) = Len(scr) - 1
      /\ \A n \in 1 .. Len(scr) - 1 : Tail(scr)[n] = scr[n + 1]
  BY <1>1
<1> QED
  BY <1>1, <1>4, <1>5, <1>6, <1>7 DEF new

\* The innermost script only changes what is left inside of it.
LEMMA ContinuesKept ==
    ASSUME NEW s, NEW c, NEW scr, NEW scr2, Continues(c, s, scr), Len(scr) \in Nat, Len(scr2) = Len(scr),
           \A n \in 2 .. Len(scr) : scr2[n] = scr[n]
    PROVE  Continues(c, s, scr2)
<1>1. \A j \in 1 .. Len(scr) - 1 : Level(scr2, j) = Level(scr, j)
  <2> TAKE j \in 1 .. Len(scr) - 1
  <2>1. Len(scr) + 1 - j \in 2 .. Len(scr)
    OBVIOUS
  <2> QED
    BY <2>1 DEF Level
<1> QED
  BY <1>1 DEF Continues

\* What is left for the innermost script and the ones around it, after the statement it is at.
Following(c, s, scr) ==
    [failed \in BOOLEAN |-> After(s, MaxDepth - Len(scr), scr[1], failed, c[Len(scr)])]

\* The scripts that are run are as deep as duktape allows and at statements they have.
AtStatement(s, scr) ==
    /\ scr \in Seq(Frames) /\ Len(scr) \in 1 .. MaxDepth
    /\ scr[1].at \in 1 .. Len(s[scr[1].file].items)

\* What is left, in terms of that.
LEMMA LeftFollows ==
    ASSUME I!Assumption, NEW s \in Contents, NEW scr, NEW c, AtStatement(s, scr), Continues(c, s, scr)
    PROVE  LET next == Following(c, s, scr)
               d == MaxDepth - Len(scr)
           IN  /\ next \in [BOOLEAN -> Outcomes] /\ d \in 0 .. MaxDepth
               /\ Left(c, s, "script", scr) = Glue(I!Alone(s, scr[1].file, scr[1].at, I!Replaced(s)[d]), next)
               /\ Left(c, s, "raise", scr) = next[TRUE]
               /\ next[FALSE] = Glue(Onward(s, d, scr[1].file, scr[1].at + 1), c[Len(scr)])
               /\ next[TRUE] = IF s[scr[1].file].items[scr[1].at].guarded THEN next[FALSE]
                                                                         ELSE c[Len(scr)][TRUE]
<1> DEFINE next == Following(c, s, scr)
           d == MaxDepth - Len(scr)
           then == c[Len(scr)]
<1>1. /\ d \in 0 .. MaxDepth /\ Len(scr) \in 1 .. Len(scr) /\ scr[1] \in Frames
      /\ scr[1].at \in 1 .. Len(s[scr[1].file].items)
  BY DEF AtStatement, I!Assumption
<1>2. then \in [BOOLEAN -> Outcomes]
  BY <1>1 DEF Continues
<1>3. \A failed \in BOOLEAN : next[failed] = After(s, d, scr[1], failed, then)
  BY DEF Following
<1>4. \A failed \in BOOLEAN : After(s, d, scr[1], failed, then) \in Outcomes
  BY <1>1, <1>2, AfterType
<1>5. next \in [BOOLEAN -> Outcomes]
  <2>1. next = [failed \in BOOLEAN |-> next[failed]]
    BY DEF Following
  <2> QED
    BY <1>3, <1>4, <2>1
<1> HIDE DEF next, d, then
<1>6. Glue(Onward(s, d, scr[1].file, scr[1].at), then)
        = Glue(I!Alone(s, scr[1].file, scr[1].at, I!Replaced(s)[d]), next)
  BY <1>1, <1>2, <1>3, <1>5, Stepwise
<1>7. Left(c, s, "script", scr) = Glue(Onward(s, d, scr[1].file, scr[1].at), then)
  BY DEF Left, d, then
<1>8. Left(c, s, "raise", scr) = After(s, d, scr[1], TRUE, then)
  BY DEF Left, d, then
<1>9. next[FALSE] = Glue(Onward(s, d, scr[1].file, scr[1].at + 1), then)
  BY <1>3 DEF After
<1>10. next[TRUE] = IF s[scr[1].file].items[scr[1].at].guarded THEN next[FALSE] ELSE then[TRUE]
  <2>1. next[TRUE] = After(s, d, scr[1], TRUE, then)
    BY <1>3
  <2> QED
    BY <1>9, <2>1 DEF After
<1>11. Left(c, s, "raise", scr) = next[TRUE]
  BY <1>3, <1>8
<1> QED
  BY <1>1, <1>5, <1>6, <1>7, <1>9, <1>10, <1>11 DEF next, d, then

-----------------------------------------------------------------------------
(* Inclusion: every step does what is left to do *)

\* The script JSE was started with has all of it left.
LEMMA Begun ==
    ASSUME I!Assumption, NEW s \in Contents, s[Main].kind = "script"
    PROVE  Explained(s, "script", <<I!Script(Main)>>, <<>>)
<1> DEFINE scr == <<I!Script(Main)>>
           whole == Onward(s, MaxDepth - 1, Main, 1)
           then == [failed \in BOOLEAN |-> [ran |-> <<>>, fails |-> failed]]
           c == [j \in 1 .. 1 |-> then]
<1>1. /\ Main \in Files /\ MaxDepth - 1 \in 0 .. MaxDepth
      /\ MaxDepth - 1 < MaxDepth /\ (MaxDepth - 1) + 1 = MaxDepth
  BY DEF I!Assumption
<1>2. I!Replaced(s)[MaxDepth][Main] = whole
  BY <1>1, OnwardSteps
<1>3. whole \in Outcomes
  <2>1. 1 \in 1 .. Len(s[Main].items) + 1
    BY <1>1, FileTypes
  <2> QED
    BY <1>1, <2>1, OnwardSteps
<1> HIDE DEF whole
<1>4. /\ Len(scr) = 1 /\ scr[1].file = Main /\ scr[1].at = 1
  BY DEF I!Script
<1>5. Continues(c, s, scr)
  <2>1. then \in [BOOLEAN -> Outcomes]
    BY DEF Outcomes
  <2> HIDE DEF then
  <2>2. c \in [1 .. 1 -> [BOOLEAN -> Outcomes]] /\ c[1] = then
    BY <2>1
  <2>3. \A failed \in BOOLEAN : then[failed] = [ran |-> <<>>, fails |-> failed]
    BY DEF then
  <2>4. 1 .. Len(scr) = 1 .. 1 /\ 1 .. Len(scr) - 1 = {}
    BY <1>4
  <2> HIDE DEF c, scr
  <2> QED
    BY <2>2, <2>3, <2>4 DEF Continues
<1>6. Left(c, s, "script", scr) = whole
  <2>1. Left(c, s, "script", scr) = Glue(whole, then)
    BY <1>4 DEF Left, whole
  <2>2. /\ whole.fails \in BOOLEAN /\ whole.ran \in Seq(Files \X Nat)
        /\ whole = [ran |-> whole.ran, fails |-> whole.fails]
    BY <1>3 DEF Outcomes
  <2>3. then[whole.fails] = [ran |-> <<>>, fails |-> whole.fails]
    BY <2>2
  <2>4. whole.ran \o <<>> = whole.ran
    BY <2>2
  <2> HIDE DEF then
  <2>5. Glue(whole, then) = [ran |-> whole.ran, fails |-> whole.fails]
    BY <2>3, <2>4 DEF Glue
  <2> QED
    BY <2>1, <2>2, <2>5
<1>7. whole = [ran |-> <<>> \o whole.ran, fails |-> whole.fails]
  <2>1. whole.ran \in Seq(Files \X Nat) /\ whole = [ran |-> whole.ran, fails |-> whole.fails]
    BY <1>3 DEF Outcomes
  <2>2. <<>> \o whole.ran = whole.ran
    BY <2>1
  <2> QED
    BY <2>1, <2>2
<1> HIDE DEF c, scr
<1> QED
  BY <1>2, <1>5, <1>6, <1>7 DEF Explained, scr

\* A statement does something, and the next one is left to do.
LEMMA RunExplained ==
    ASSUME I!Assumption, NEW s \in Contents, NEW scr, AtStatement(s, scr), NEW done \in Seq(Files \X Nat),
           Explained(s, "script", scr, done), s[scr[1].file].items[scr[1].at].does = "run"
    PROVE  Explained(s, "script", Advanced(scr), Append(done, <<scr[1].file, scr[1].at>>))
<1> DEFINE here == <<scr[1].file, scr[1].at>>
           d == MaxDepth - Len(scr)
           L == Len(scr)
<1>1. PICK c : /\ Continues(c, s, scr)
               /\ I!Replaced(s)[MaxDepth][Main] =
                    [ran |-> done \o Left(c, s, "script", scr).ran, fails |-> Left(c, s, "script", scr).fails]
  BY DEF Explained
<1> DEFINE next == Following(c, s, scr)
<1>2. /\ next \in [BOOLEAN -> Outcomes]
      /\ Left(c, s, "script", scr) = Glue(I!Alone(s, scr[1].file, scr[1].at, I!Replaced(s)[d]), next)
      /\ next[FALSE] = Glue(Onward(s, d, scr[1].file, scr[1].at + 1), c[L])
  BY <1>1, LeftFollows
<1>3. /\ scr \in Seq(Frames) /\ scr # <<>> /\ scr[1] \in Frames
  BY DEF AtStatement
<1>4. /\ Advanced(scr) \in Seq(Frames) /\ Len(Advanced(scr)) = Len(scr) /\ Len(scr) \in Nat
      /\ Advanced(scr)[1].file = scr[1].file /\ Advanced(scr)[1].at = scr[1].at + 1
      /\ \A n \in 2 .. Len(scr) : Advanced(scr)[n] = scr[n]
  <2>1. /\ Advanced(scr) \in Seq(Frames) /\ Len(Advanced(scr)) = Len(scr) /\ Len(scr) \in Nat
        /\ Advanced(scr)[1] = [file |-> scr[1].file, at |-> scr[1].at + 1]
        /\ \A n \in 2 .. Len(scr) : Advanced(scr)[n] = scr[n]
    BY <1>3, ScriptMoves
  <2> QED
    BY <2>1
<1>5. Left(c, s, "script", Advanced(scr)) = next[FALSE]
  BY <1>2, <1>4 DEF Left
<1>6. Continues(c, s, Advanced(scr))
  BY <1>1, <1>4, ContinuesKept
<1> HIDE DEF next
<1>7. /\ Left(c, s, "script", scr).ran = <<here>> \o next[FALSE].ran
      /\ Left(c, s, "script", scr).fails = next[FALSE].fails
  <2> DEFINE first == I!Alone(s, scr[1].file, scr[1].at, I!Replaced(s)[d])
  <2>1. first.ran = <<here>> /\ first.fails = FALSE
    BY DEF I!Alone
  <2> HIDE DEF first, here
  <2>2. /\ Glue(first, next).ran = first.ran \o next[first.fails].ran
        /\ Glue(first, next).fails = next[first.fails].fails
    BY DEF Glue
  <2>3. Left(c, s, "script", scr) = Glue(first, next)
    BY <1>2 DEF first
  <2> QED
    BY <2>1, <2>2, <2>3
<1>8. done \o (<<here>> \o next[FALSE].ran) = Append(done, here) \o next[FALSE].ran
  <2> DEFINE S == Files \X Nat
             r == next[FALSE].ran
  <2>1. here \in S /\ done \in Seq(S) /\ r \in Seq(S)
    BY <1>2, <1>3 DEF Frames, Outcomes
  <2> HIDE DEF S, r, here
  <2>2. <<here>> \in Seq(S) /\ Append(done, here) = done \o <<here>>
    BY <2>1
  <2>3. (done \o <<here>>) \o r = done \o (<<here>> \o r)
    BY <2>1, <2>2, ConcatAssociative
  <2> QED
    BY <2>2, <2>3 DEF r
<1> HIDE DEF here
<1>9. I!Replaced(s)[MaxDepth][Main] =
        [ran |-> Append(done, here) \o next[FALSE].ran, fails |-> next[FALSE].fails]
  BY <1>1, <1>7, <1>8
<1> QED
  BY <1>5, <1>6, <1>9 DEF Explained, here

\* A statement throws, and what is left is what follows on that.
LEMMA RaiseExplained ==
    ASSUME I!Assumption, NEW s \in Contents, NEW scr, AtStatement(s, scr), NEW done \in Seq(Files \X Nat),
           Explained(s, "script", scr, done),
           I!Alone(s, scr[1].file, scr[1].at, I!Replaced(s)[MaxDepth - Len(scr)]) = I!Fails
    PROVE  Explained(s, "raise", scr, done)
<1>1. PICK c : /\ Continues(c, s, scr)
               /\ I!Replaced(s)[MaxDepth][Main] =
                    [ran |-> done \o Left(c, s, "script", scr).ran, fails |-> Left(c, s, "script", scr).fails]
  BY DEF Explained
<1> DEFINE next == Following(c, s, scr)
<1>2. /\ next \in [BOOLEAN -> Outcomes]
      /\ Left(c, s, "script", scr) = Glue(I!Fails, next)
      /\ Left(c, s, "raise", scr) = next[TRUE]
  BY <1>1, LeftFollows
<1> HIDE DEF next
<1>3. Glue(I!Fails, next) = next[TRUE]
  <2>1. next[TRUE] \in Outcomes
    BY <1>2
  <2>2. /\ next[TRUE].ran \in Seq(Files \X Nat)
        /\ next[TRUE] = [ran |-> next[TRUE].ran, fails |-> next[TRUE].fails]
    BY <2>1 DEF Outcomes
  <2>3. <<>> \o next[TRUE].ran = next[TRUE].ran
    BY <2>2
  <2> QED
    BY <2>2, <2>3 DEF Glue, I!Fails
<1>4. Left(c, s, "script", scr) = Left(c, s, "raise", scr)
  BY <1>2, <1>3
<1> QED
  BY <1>1, <1>4 DEF Explained

\* The statement includes a file, whose statements are left to do first.
LEMMA IncludeExplained ==
    ASSUME I!Assumption, NEW s \in Contents, NEW scr, AtStatement(s, scr), NEW done \in Seq(Files \X Nat),
           Explained(s, "script", scr, done), Len(scr) < MaxDepth,
           NEW f \in Files, s[f].kind \in {"script", "empty"},
           s[scr[1].file].items[scr[1].at].does = "include", s[scr[1].file].items[scr[1].at].file = f
    PROVE  Explained(s, "script", <<I!Script(f)>> \o scr, done)
<1> DEFINE d == MaxDepth - Len(scr)
           L == Len(scr)
           scr2 == <<I!Script(f)>> \o scr
<1>1. PICK c : /\ Continues(c, s, scr)
               /\ I!Replaced(s)[MaxDepth][Main] =
                    [ran |-> done \o Left(c, s, "script", scr).ran, fails |-> Left(c, s, "script", scr).fails]
  BY DEF Explained
<1> DEFINE next == Following(c, s, scr)
           c2 == [j \in 1 .. L + 1 |-> IF j = L + 1 THEN next ELSE c[j]]
<1>2. /\ next \in [BOOLEAN -> Outcomes] /\ d \in 0 .. MaxDepth
      /\ Left(c, s, "script", scr) = Glue(I!Alone(s, scr[1].file, scr[1].at, I!Replaced(s)[d]), next)
  BY <1>1, LeftFollows
<1>3. I!Alone(s, scr[1].file, scr[1].at, I!Replaced(s)[d]) = I!Replaced(s)[d][f]
  BY DEF I!Alone
<1>4. L \in 1 .. MaxDepth /\ scr \in Seq(Frames) /\ scr # <<>> /\ MaxDepth \in Nat
  BY DEF AtStatement, I!Assumption
<1>5. d - 1 \in 0 .. MaxDepth /\ (d - 1) + 1 = d /\ d - 1 < MaxDepth /\ MaxDepth - (L + 1) = d - 1
  BY <1>4
<1>6. I!Replaced(s)[d][f] = Onward(s, d - 1, f, 1)
  <2> HIDE DEF d
  <2> QED
    BY <1>5, OnwardSteps
<1>7. I!Script(f) \in Frames /\ I!Script(f).file = f /\ I!Script(f).at = 1
  BY DEF I!Script, Frames
<1>8. /\ Len(scr2) = L + 1 /\ scr2[1] = I!Script(f)
      /\ \A n \in 2 .. L + 1 : scr2[n] = scr[n - 1]
  BY <1>4, <1>7, ScriptMoves
<1> HIDE DEF scr2
<1>9. Continues(c2, s, scr2)
  <2>1. c \in [1 .. L -> [BOOLEAN -> Outcomes]]
    BY <1>1 DEF Continues
  <2>2. \A failed \in BOOLEAN : c[1][failed] = [ran |-> <<>>, fails |-> failed]
    BY <1>1 DEF Continues
  <2>3. \A j \in 1 .. L - 1, failed \in BOOLEAN :
            c[j + 1][failed] = After(s, MaxDepth - j, Level(scr, j), failed, c[j])
    BY <1>1 DEF Continues
  <2>4. \A failed \in BOOLEAN : next[failed] = After(s, MaxDepth - L, scr[1], failed, c[L])
    BY DEF Following
  <2>5. \A j \in 1 .. L : Level(scr2, j) = Level(scr, j)
    <3> TAKE j \in 1 .. L
    <3>1. L + 2 - j \in 2 .. L + 1 /\ (L + 2 - j) - 1 = L + 1 - j /\ (L + 1) + 1 - j = L + 2 - j
      BY <1>4
    <3> QED
      BY <1>8, <3>1 DEF Level
  <2>6. Level(scr, L) = scr[1]
    <3>1. L + 1 - L = 1
      BY <1>4
    <3> QED
      BY <3>1 DEF Level
  <2> HIDE DEF next
  <2>7. c2 \in [1 .. L + 1 -> [BOOLEAN -> Outcomes]]
    BY <1>2, <1>4, <2>1
  <2>8. c2[L + 1] = next /\ \A j \in 1 .. L : c2[j] = c[j]
    BY <1>4
  <2> HIDE DEF c2
  <2>9. \A failed \in BOOLEAN : c2[1][failed] = [ran |-> <<>>, fails |-> failed]
    <3>1. 1 \in 1 .. L
      BY <1>4
    <3>2. c2[1] = c[1]
      BY <2>8, <3>1
    <3> QED
      BY <2>2, <3>2
  <2>10. \A j \in 1 .. L, failed \in BOOLEAN :
            c2[j + 1][failed] = After(s, MaxDepth - j, Level(scr2, j), failed, c2[j])
    <3> TAKE j \in 1 .. L, failed \in BOOLEAN
    <3>1. CASE j = L
      <4> SUFFICES c2[L + 1][failed] = After(s, MaxDepth - L, Level(scr2, L), failed, c2[L])
        BY <3>1
      <4>1. L \in 1 .. L
        BY <1>4
      <4> QED
        BY <2>4, <2>5, <2>6, <2>8, <4>1
    <3>2. CASE j # L
      <4>1. j \in 1 .. L - 1 /\ j + 1 \in 1 .. L
        BY <1>4, <3>2
      <4> QED
        BY <2>3, <2>5, <2>8, <4>1
    <3> QED
      BY <3>1, <3>2
  <2>11. (L + 1) - 1 = L
    BY <1>4
  <2> HIDE DEF L
  <2> QED
    BY <1>8, <2>7, <2>9, <2>10, <2>11 DEF Continues
<1>10. c2[L + 1] = next
  <2> HIDE DEF next
  <2> QED
    BY <1>4
<1> HIDE DEF c2, next
<1>11. Left(c2, s, "script", scr2) = Glue(Onward(s, d - 1, f, 1), next)
  BY <1>5, <1>7, <1>8, <1>10 DEF Left
<1>12. Left(c2, s, "script", scr2) = Left(c, s, "script", scr)
  BY <1>2, <1>3, <1>6, <1>11
<1> QED
  BY <1>1, <1>9, <1>12 DEF Explained, scr2

\* The error is caught, and the next statement is left to do.
LEMMA CatchExplained ==
    ASSUME I!Assumption, NEW s \in Contents, NEW scr, AtStatement(s, scr), NEW done \in Seq(Files \X Nat),
           Explained(s, "raise", scr, done), s[scr[1].file].items[scr[1].at].guarded
    PROVE  Explained(s, "script", Advanced(scr), done)
<1>1. PICK c : /\ Continues(c, s, scr)
               /\ I!Replaced(s)[MaxDepth][Main] =
                    [ran |-> done \o Left(c, s, "raise", scr).ran, fails |-> Left(c, s, "raise", scr).fails]
  BY DEF Explained
<1> DEFINE next == Following(c, s, scr)
           d == MaxDepth - Len(scr)
<1>2. /\ Left(c, s, "raise", scr) = next[TRUE]
      /\ next[FALSE] = Glue(Onward(s, d, scr[1].file, scr[1].at + 1), c[Len(scr)])
      /\ next[TRUE] = next[FALSE]
  BY <1>1, LeftFollows
<1>3. /\ Len(Advanced(scr)) = Len(scr) /\ Len(scr) \in Nat
      /\ Advanced(scr)[1] = [file |-> scr[1].file, at |-> scr[1].at + 1]
      /\ \A n \in 2 .. Len(scr) : Advanced(scr)[n] = scr[n]
  <2>1. scr \in Seq(Frames) /\ scr # <<>>
    BY DEF AtStatement
  <2> QED
    BY <2>1, ScriptMoves
<1>4. Advanced(scr)[1].file = scr[1].file /\ Advanced(scr)[1].at = scr[1].at + 1
  BY <1>3
<1>5. Continues(c, s, Advanced(scr))
  BY <1>1, <1>3, ContinuesKept
<1>6. Left(c, s, "script", Advanced(scr)) = next[FALSE]
  BY <1>2, <1>3, <1>4 DEF Left
<1> QED
  BY <1>1, <1>2, <1>5, <1>6 DEF Explained

\* After the innermost script of several has ended the one around it goes on.
LEMMA ContinuesTail ==
    ASSUME NEW s, NEW scr \in Seq(Frames), Len(scr) > 1, NEW c, Continues(c, s, scr)
    PROVE  \E c2 : /\ Continues(c2, s, Tail(scr))
                   /\ \A failed \in BOOLEAN : c[Len(scr)][failed] = Following(c2, s, Tail(scr))[failed]
<1> DEFINE L == Len(scr)
           T == Tail(scr)
           c2 == [j \in 1 .. L - 1 |-> c[j]]
<1>1. L \in Nat /\ L > 1 /\ scr # <<>>
  OBVIOUS
<1>2. Len(T) = L - 1 /\ \A n \in 1 .. L - 1 : T[n] = scr[n + 1]
  BY <1>1, ScriptMoves
<1> HIDE DEF T, L
<1>3. c \in [1 .. L -> [BOOLEAN -> Outcomes]]
  BY DEF Continues, L
<1>4. \A failed \in BOOLEAN : c[1][failed] = [ran |-> <<>>, fails |-> failed]
  BY DEF Continues
<1>5. \A j \in 1 .. L - 1, failed \in BOOLEAN :
        c[j + 1][failed] = After(s, MaxDepth - j, Level(scr, j), failed, c[j])
  BY DEF Continues, L
<1>6. \A j \in 1 .. L - 1 : c2[j] = c[j]
  OBVIOUS
<1>7. c2 \in [1 .. L - 1 -> [BOOLEAN -> Outcomes]]
  <2>1. \A j \in 1 .. L - 1 : j \in 1 .. L
    BY <1>1
  <2>2. \A j \in 1 .. L - 1 : c[j] \in [BOOLEAN -> Outcomes]
    BY <1>3, <2>1
  <2> QED
    BY <2>2
<1> HIDE DEF c2
<1>8. \A j \in 1 .. L - 1 : Level(T, j) = Level(scr, j)
  <2> TAKE j \in 1 .. L - 1
  <2>1. (L - 1) + 1 - j \in 1 .. L - 1 /\ ((L - 1) + 1 - j) + 1 = L + 1 - j
    BY <1>1
  <2>2. T[(L - 1) + 1 - j] = scr[L + 1 - j]
    BY <1>2, <2>1
  <2> QED
    BY <1>2, <2>2 DEF Level, L
<1>9. Continues(c2, s, T)
  <2>1. \A failed \in BOOLEAN : c2[1][failed] = [ran |-> <<>>, fails |-> failed]
    <3>1. 1 \in 1 .. L - 1
      BY <1>1
    <3> QED
      BY <1>4, <1>6, <3>1
  <2>2. \A j \in 1 .. (L - 1) - 1, failed \in BOOLEAN :
            c2[j + 1][failed] = After(s, MaxDepth - j, Level(T, j), failed, c2[j])
    <3> TAKE j \in 1 .. (L - 1) - 1, failed \in BOOLEAN
    <3>1. j \in 1 .. L - 1 /\ j + 1 \in 1 .. L - 1
      BY <1>1
    <3> QED
      BY <1>5, <1>6, <1>8, <3>1
  <2> QED
    BY <1>2, <1>7, <2>1, <2>2 DEF Continues
<1>10. \A failed \in BOOLEAN : c[L][failed] = Following(c2, s, T)[failed]
  <2> TAKE failed \in BOOLEAN
  <2>1. L - 1 \in 1 .. L - 1 /\ (L - 1) + 1 = L
    BY <1>1
  <2>2. c[L][failed] = After(s, MaxDepth - (L - 1), Level(scr, L - 1), failed, c[L - 1])
    BY <1>5, <2>1
  <2>3. Level(scr, L - 1) = T[1]
    <3>1. L + 1 - (L - 1) = 2 /\ 1 \in 1 .. L - 1 /\ 1 + 1 = 2
      BY <1>1
    <3>2. T[1] = scr[2]
      BY <1>2, <3>1
    <3> QED
      BY <3>1, <3>2 DEF Level, L
  <2>4. c2[Len(T)] = c[L - 1]
    BY <1>2, <1>6, <2>1
  <2>5. Following(c2, s, T)[failed] = After(s, MaxDepth - Len(T), T[1], failed, c2[Len(T)])
    BY DEF Following
  <2> QED
    BY <1>2, <2>2, <2>3, <2>4, <2>5
<1> QED
  BY <1>9, <1>10 DEF T, L

\* The only script left ends, and nothing is left to do; or the one around it has what is left.
LEMMA EndExplained ==
    ASSUME I!Assumption, NEW s \in Contents, NEW scr \in Seq(Frames), NEW state, NEW failed \in BOOLEAN,
           NEW done \in Seq(Files \X Nat), scr # <<>>, Explained(s, state, scr, done),
           \A c : Left(c, s, state, scr) = c[Len(scr)][failed] \/ ~Continues(c, s, scr)
    PROVE  /\ Len(scr) = 1 => I!Replaced(s)[MaxDepth][Main] = [ran |-> done, fails |-> failed]
           /\ Len(scr) > 1 /\ AtStatement(s, Tail(scr)) =>
                IF failed THEN Explained(s, "raise", Tail(scr), done)
                ELSE Explained(s, "script", Advanced(Tail(scr)), done)
<1>1. PICK c : /\ Continues(c, s, scr)
               /\ I!Replaced(s)[MaxDepth][Main] =
                    [ran |-> done \o Left(c, s, state, scr).ran, fails |-> Left(c, s, state, scr).fails]
  BY DEF Explained
<1> DEFINE left == c[Len(scr)][failed]
<1>2. Left(c, s, state, scr) = left
  BY <1>1
<1>3. I!Replaced(s)[MaxDepth][Main] = [ran |-> done \o left.ran, fails |-> left.fails]
  BY <1>1, <1>2
<1>4. ASSUME Len(scr) = 1
      PROVE  I!Replaced(s)[MaxDepth][Main] = [ran |-> done, fails |-> failed]
  <2>1. left = [ran |-> <<>>, fails |-> failed]
    BY <1>1, <1>4 DEF Continues
  <2>2. done \o <<>> = done
    OBVIOUS
  <2> QED
    BY <1>3, <2>1, <2>2
<1>5. ASSUME Len(scr) > 1, AtStatement(s, Tail(scr))
      PROVE  IF failed THEN Explained(s, "raise", Tail(scr), done)
             ELSE Explained(s, "script", Advanced(Tail(scr)), done)
  <2> DEFINE T == Tail(scr)
  <2>1. PICK c2 : /\ Continues(c2, s, T)
                  /\ \A b \in BOOLEAN : c[Len(scr)][b] = Following(c2, s, T)[b]
    BY <1>1, <1>5, ContinuesTail
  <2>2. AtStatement(s, T)
    BY <1>5
  <2> DEFINE next == Following(c2, s, T)
             d == MaxDepth - Len(T)
  <2>3. left = next[failed]
    BY <2>1
  <2> HIDE DEF left, T
  <2>4. /\ Left(c2, s, "raise", T) = next[TRUE]
        /\ next[FALSE] = Glue(Onward(s, d, T[1].file, T[1].at + 1), c2[Len(T)])
    BY <2>1, <2>2, LeftFollows
  <2> HIDE DEF next
  <2>5. CASE failed
    <3>1. left = Left(c2, s, "raise", T)
      BY <2>3, <2>4, <2>5
    <3>2. Explained(s, "raise", T, done)
      BY <1>3, <2>1, <3>1 DEF Explained
    <3> QED
      BY <2>5, <3>2 DEF T
  <2>6. CASE ~failed
    <3>1. T \in Seq(Frames) /\ T # <<>>
      BY <2>2 DEF AtStatement
    <3>2. /\ Len(Advanced(T)) = Len(T) /\ Len(T) \in Nat
          /\ Advanced(T)[1] = [file |-> T[1].file, at |-> T[1].at + 1]
          /\ \A n \in 2 .. Len(T) : Advanced(T)[n] = T[n]
      BY <3>1, ScriptMoves
    <3>3. Advanced(T)[1].file = T[1].file /\ Advanced(T)[1].at = T[1].at + 1
      BY <3>2
    <3>4. Continues(c2, s, Advanced(T))
      BY <2>1, <3>2, ContinuesKept
    <3>5. Left(c2, s, "script", Advanced(T)) = next[FALSE]
      BY <2>4, <3>2, <3>3 DEF Left
    <3>6. left = Left(c2, s, "script", Advanced(T))
      BY <2>3, <2>6, <3>5
    <3>7. Explained(s, "script", Advanced(T), done)
      BY <1>3, <3>4, <3>6 DEF Explained
    <3> QED
      BY <2>6, <3>7 DEF T
  <2> QED
    BY <2>5, <2>6
<1> QED
  BY <1>4, <1>5

-----------------------------------------------------------------------------
(* Inclusion: the invariant is kept *)

\* How the scripts stay sound when one goes on, throws or includes another.
LEMMA SoundInside ==
    ASSUME I!Assumption, NEW s \in Contents, NEW scr, NEW state,
           ScriptsSound(s, state, scr), AtStatement(s, scr)
    PROVE  /\ ScriptsSound(s, "script", Advanced(scr))
           /\ ScriptsSound(s, "raise", scr)
           /\ \A f \in Files : s[f].kind \in {"script", "empty"} /\ Len(scr) < MaxDepth =>
                ScriptsSound(s, "script", <<I!Script(f)>> \o scr)
<1> DEFINE L == Len(scr)
           Good(script) == /\ s[script.file].kind \in {"script", "empty"}
                           /\ script.at \in 1 .. Len(s[script.file].items) + 1
           Before(script) == script.at <= Len(s[script.file].items)
<1>1. /\ scr \in Seq(Frames) /\ L \in 1 .. MaxDepth /\ scr # <<>> /\ scr[1] \in Frames
      /\ scr[1].at \in 1 .. Len(s[scr[1].file].items) /\ MaxDepth \in Nat
  BY DEF AtStatement, I!Assumption
<1>2. \A n \in 1 .. L : Good(scr[n]) /\ (n > 1 => Before(scr[n]))
  BY DEF ScriptsSound
<1>3. Before(scr[1]) /\ Len(s[scr[1].file].items) \in Nat
  <2>1. scr[1].file \in Files
    BY <1>1 DEF Frames
  <2> QED
    BY <1>1, <2>1, FileTypes
<1>4. ScriptsSound(s, "script", Advanced(scr))
  <2> DEFINE new == Advanced(scr)
  <2>1. /\ new \in Seq(Frames) /\ Len(new) = L
        /\ new[1] = [file |-> scr[1].file, at |-> scr[1].at + 1]
        /\ \A n \in 2 .. L : new[n] = scr[n]
    BY <1>1, ScriptMoves
  <2> HIDE DEF new
  <2>2. Good(new[1])
    <3>1. 1 \in 1 .. L
      BY <1>1
    <3>2. s[scr[1].file].kind \in {"script", "empty"}
      BY <1>2, <3>1
    <3>3. scr[1].at + 1 \in 1 .. Len(s[scr[1].file].items) + 1
      BY <1>1, <1>3
    <3>4. new[1].file = scr[1].file /\ new[1].at = scr[1].at + 1
      BY <2>1
    <3> QED
      BY <3>2, <3>3, <3>4
  <2> HIDE DEF Good, Before
  <2>3. \A n \in 1 .. L : Good(new[n]) /\ (n > 1 => Before(new[n]))
    <3> TAKE n \in 1 .. L
    <3>1. CASE n = 1
      BY <2>2, <3>1
    <3>2. CASE n # 1
      <4>1. n \in 2 .. L
        BY <1>1, <3>2
      <4> QED
        BY <1>2, <2>1, <4>1
    <3> QED
      BY <3>1, <3>2
  <2>4. new # <<>> /\ Len(new) <= MaxDepth
    BY <1>1, <2>1
  <2> QED
    BY <2>1, <2>3, <2>4 DEF ScriptsSound, Good, Before, new
<1>5. ScriptsSound(s, "raise", scr)
  <2> HIDE DEF Good, Before
  <2>1. \A n \in 1 .. L : Good(scr[n]) /\ Before(scr[n])
    <3> TAKE n \in 1 .. L
    <3>1. n = 1 \/ n > 1
      BY <1>1
    <3> QED
      BY <1>2, <1>3, <3>1
  <2> QED
    BY <1>1, <2>1 DEF ScriptsSound, Good, Before
<1>6. ASSUME NEW f \in Files, s[f].kind \in {"script", "empty"}, L < MaxDepth
      PROVE  ScriptsSound(s, "script", <<I!Script(f)>> \o scr)
  <2> DEFINE new == <<I!Script(f)>> \o scr
  <2>1. I!Script(f) \in Frames /\ I!Script(f).file = f /\ I!Script(f).at = 1
    BY DEF I!Script, Frames
  <2>2. /\ new \in Seq(Frames) /\ Len(new) = L + 1 /\ new[1] = I!Script(f)
        /\ \A n \in 2 .. L + 1 : new[n] = scr[n - 1]
    BY <1>1, <2>1, ScriptMoves
  <2> HIDE DEF new
  <2>3. Good(new[1])
    <3>1. 1 \in 1 .. Len(s[f].items) + 1
      BY FileTypes
    <3> QED
      BY <1>6, <2>1, <2>2, <3>1
  <2>4. \A n \in 2 .. L + 1 : n - 1 \in 1 .. L /\ (n - 1 = 1 \/ n - 1 > 1)
    BY <1>1
  <2> HIDE DEF Good, Before
  <2>5. \A n \in 2 .. L + 1 : Good(new[n]) /\ Before(new[n])
    BY <1>2, <1>3, <2>2, <2>4
  <2>6. \A n \in 1 .. L + 1 : n = 1 \/ n \in 2 .. L + 1
    BY <1>1
  <2>7. \A n \in 1 .. L + 1 : Good(new[n]) /\ (n > 1 => Before(new[n]))
    <3> TAKE n \in 1 .. L + 1
    <3>1. CASE n = 1
      BY <2>3, <3>1
    <3>2. CASE n \in 2 .. L + 1
      BY <2>5, <3>2
    <3> QED
      BY <2>6, <3>1, <3>2
  <2>8. new # <<>> /\ Len(new) <= MaxDepth
    BY <1>1, <1>6, <2>2
  <2> QED
    BY <2>2, <2>7, <2>8 DEF ScriptsSound, Good, Before, new
<1> QED
  BY <1>4, <1>5, <1>6

\* How they stay sound when the innermost one ends.
LEMMA SoundOutside ==
    ASSUME I!Assumption, NEW s \in Contents, NEW scr, NEW state, ScriptsSound(s, state, scr), scr # <<>>
    PROVE  /\ Len(scr) = 1 => /\ Tail(scr) = <<>>
                              /\ \A end \in {"done", "failed"} : ScriptsSound(s, end, <<>>)
           /\ Len(scr) # 1 => /\ Len(scr) > 1 /\ Tail(scr) # <<>> /\ Len(Tail(scr)) = Len(scr) - 1
                              /\ AtStatement(s, Tail(scr))
                              /\ ScriptsSound(s, "raise", Tail(scr))
                              /\ ScriptsSound(s, "script", Advanced(Tail(scr)))
<1>1. scr \in Seq(Frames) /\ Len(scr) \in Nat \ {0} /\ Len(scr) <= MaxDepth /\ MaxDepth \in Nat
  BY DEF ScriptsSound, I!Assumption
<1>2. ASSUME Len(scr) = 1
      PROVE  Tail(scr) = <<>> /\ \A end \in {"done", "failed"} : ScriptsSound(s, end, <<>>)
  <2>1. Tail(scr) = <<>>
    <3>1. Tail(scr) \in Seq(Frames) /\ Len(Tail(scr)) = 0
      BY <1>1, <1>2
    <3> QED
      BY <3>1, EmptySeq
  <2>2. <<>> \in Seq(Frames) /\ Len(<<>>) = 0 /\ 1 .. 0 = {}
    OBVIOUS
  <2> QED
    BY <1>1, <2>1, <2>2 DEF ScriptsSound
<1>3. ASSUME Len(scr) # 1
      PROVE  /\ Len(scr) > 1 /\ Tail(scr) # <<>> /\ Len(Tail(scr)) = Len(scr) - 1
             /\ AtStatement(s, Tail(scr)) /\ ScriptsSound(s, "raise", Tail(scr))
  <2> DEFINE T == Tail(scr)
             L == Len(scr)
             Good(script) == /\ s[script.file].kind \in {"script", "empty"}
                             /\ script.at \in 1 .. Len(s[script.file].items) + 1
                             /\ script.at <= Len(s[script.file].items)
  <2>1. L > 1
    <3>1. \A n \in Nat \ {0} : n # 1 => n > 1
      OBVIOUS
    <3> QED
      BY <1>1, <1>3, <3>1
  <2>2. T \in Seq(Frames) /\ Len(T) = L - 1 /\ \A n \in 1 .. L - 1 : T[n] = scr[n + 1]
    BY <1>1, ScriptMoves
  <2>3. \A n \in 2 .. L : Good(scr[n])
    BY <1>1 DEF ScriptsSound
  <2>4. \A n \in 1 .. L - 1 : n + 1 \in 2 .. L
    BY <1>1
  <2> HIDE DEF T
  <2>5. \A n \in 1 .. L - 1 : Good(T[n])
    <3> HIDE DEF Good
    <3> QED
      BY <2>2, <2>3, <2>4
  <2>6. T # <<>> /\ Len(T) <= MaxDepth /\ Len(T) \in 1 .. MaxDepth /\ 1 \in 1 .. L - 1
    BY <1>1, <2>1, <2>2
  <2>7. T[1].at \in 1 .. Len(s[T[1].file].items)
    <3>1. Good(T[1]) /\ T[1] \in Frames
      BY <2>2, <2>5, <2>6
    <3>2. Len(s[T[1].file].items) \in Nat
      BY <3>1, FileTypes DEF Frames
    <3> QED
      BY <3>1, <3>2
  <2> QED
    BY <2>1, <2>2, <2>5, <2>6, <2>7 DEF ScriptsSound, AtStatement, T
<1>4. Len(scr) # 1 => ScriptsSound(s, "script", Advanced(Tail(scr)))
  BY <1>3, SoundInside
<1> QED
  BY <1>2, <1>3, <1>4

\* Nothing has been run yet.
LEMMA IncludeInit ==
    ASSUME I!Assumption, I!Init
    PROVE  IncludeInv
<1>1. <<>> \in Seq(Frames) /\ <<>> \in Seq(Files \X Nat) /\ Len(<<>>) = 0 /\ 1 .. 0 = {}
  OBVIOUS
<1>2. MaxDepth \in Nat
  BY DEF I!Assumption
<1>3. ScriptsSound(files, "start", <<>>)
  BY <1>1, <1>2 DEF ScriptsSound
<1>4. IncludeTyped
  BY <1>1, <1>3 DEF I!Init, IncludeTyped
<1> QED
  BY <1>1, <1>4 DEF I!Init, IncludeInv, I!BuffersAccounted, I!RunsAsReplaced, I!Ended

\* A script at a statement.
LEMMA AtItemFacts ==
    ASSUME I!Assumption, IncludeInv, I!AtItem
    PROVE  /\ files \in Contents /\ running = "script" /\ AtStatement(files, scripts)
           /\ scripts # <<>> /\ scripts[1] \in Frames /\ scripts[1].file \in Files
           /\ scripts[1].at \in 1 .. Len(files[scripts[1].file].items)
           /\ I!Here = scripts[1] /\ I!Current = files[scripts[1].file].items[scripts[1].at]
           /\ I!Going = Advanced(scripts)
           /\ ~garbage => Explained(files, "script", scripts, ran)
<1>1. /\ files \in Contents /\ ScriptsSound(files, "script", scripts) /\ running = "script"
      /\ ~garbage => Explained(files, "script", scripts, ran)
  BY DEF IncludeInv, IncludeTyped, I!AtItem
<1>2. scripts \in Seq(Frames) /\ Len(scripts) <= MaxDepth /\ scripts # <<>>
  BY <1>1 DEF ScriptsSound
<1>3. Len(scripts) \in 1 .. MaxDepth /\ scripts[1] \in Frames /\ Head(scripts) = scripts[1]
  BY <1>2 DEF I!Assumption
<1>4. I!Here = scripts[1] /\ I!Current = files[scripts[1].file].items[scripts[1].at]
  BY <1>3 DEF I!Here, I!Current, I!Items
<1>5. scripts[1].file \in Files /\ Len(files[scripts[1].file].items) \in Nat
  BY <1>1, <1>3, FileTypes DEF Frames
<1>6. scripts[1].at \in 1 .. Len(files[scripts[1].file].items)
  <2>1. scripts[1].at \in 1 .. Len(files[scripts[1].file].items) + 1
    BY <1>1, <1>3 DEF ScriptsSound
  <2>2. scripts[1].at <= Len(files[scripts[1].file].items)
    BY <1>3 DEF I!AtItem, I!Here, I!Items
  <2> QED
    BY <1>5, <2>1, <2>2
<1> QED
  BY <1>1, <1>2, <1>3, <1>4, <1>5, <1>6 DEF AtStatement, I!Going, Advanced

\* A script with an error on its way up.
LEMMA RaiseFacts ==
    ASSUME I!Assumption, IncludeInv, running = "raise"
    PROVE  /\ files \in Contents /\ AtStatement(files, scripts) /\ ScriptsSound(files, "raise", scripts)
           /\ scripts # <<>> /\ scripts \in Seq(Frames)
           /\ I!Current = files[scripts[1].file].items[scripts[1].at]
           /\ I!Going = Advanced(scripts)
           /\ ~garbage => Explained(files, "raise", scripts, ran)
<1>1. /\ files \in Contents /\ ScriptsSound(files, "raise", scripts)
      /\ ~garbage => Explained(files, "raise", scripts, ran)
  BY DEF IncludeInv, IncludeTyped
<1>2. scripts \in Seq(Frames) /\ Len(scripts) <= MaxDepth /\ scripts # <<>>
  BY <1>1 DEF ScriptsSound
<1>3. Len(scripts) \in 1 .. MaxDepth /\ scripts[1] \in Frames /\ Head(scripts) = scripts[1]
  BY <1>2 DEF I!Assumption
<1>4. I!Current = files[scripts[1].file].items[scripts[1].at]
  BY <1>3 DEF I!Here, I!Current, I!Items
<1>5. scripts[1].at \in 1 .. Len(files[scripts[1].file].items)
  <2>1. scripts[1].file \in Files
    BY <1>3 DEF Frames
  <2>2. /\ scripts[1].at \in 1 .. Len(files[scripts[1].file].items) + 1
        /\ scripts[1].at <= Len(files[scripts[1].file].items)
    BY <1>1, <1>3 DEF ScriptsSound
  <2> QED
    BY <1>1, <2>1, <2>2, FileTypes
<1> QED
  BY <1>1, <1>2, <1>3, <1>4, <1>5 DEF AtStatement, I!Going, Advanced

\* The script throws.
LEMMA RaiseKeeps ==
    ASSUME I!Assumption, IncludeInv, I!AtItem, UNCHANGED <<files, scripts, ran>>, running' = "raise",
           error' \in {"own", "Error", "PosixError", "URIError", "TypeError"},
           \/ UNCHANGED <<buffers, lost>>
           \/ buffers' = buffers + 1 /\ lost' = lost + 1,
           garbage' \in BOOLEAN,
           ~garbage' => /\ ~garbage
                        /\ I!Alone(files, scripts[1].file, scripts[1].at,
                                   I!Replaced(files)[MaxDepth - Len(scripts)]) = I!Fails
    PROVE  IncludeInv'
<1>1. /\ files \in Contents /\ AtStatement(files, scripts)
      /\ ~garbage => Explained(files, "script", scripts, ran)
  BY AtItemFacts
<1>2. /\ ran \in Seq(Files \X Nat) /\ buffers \in Nat /\ lost \in Nat
      /\ ScriptsSound(files, running, scripts)
      /\ buffers = Len(scripts) + lost /\ Len(scripts) \in Nat
  BY DEF IncludeInv, IncludeTyped, I!BuffersAccounted, ScriptsSound
<1>3. ScriptsSound(files, "raise", scripts)
  BY <1>1, <1>2, SoundInside
<1>4. ~garbage' => Explained(files, "raise", scripts, ran)
  BY <1>1, <1>2, RaiseExplained
<1>5. IncludeTyped'
  BY <1>1, <1>2, <1>3 DEF IncludeTyped
<1>6. I!BuffersAccounted'
  BY <1>2 DEF I!BuffersAccounted
<1>7. I!RunsAsReplaced'
  BY DEF I!RunsAsReplaced, I!Ended
<1> QED
  BY <1>4, <1>5, <1>6, <1>7 DEF IncludeInv

\* It is kept when a script throws an error of its own.
LEMMA IncludeThrow ==
    ASSUME I!Assumption, IncludeInv, I!Throw
    PROVE  IncludeInv'
<1>1. I!AtItem /\ I!Current.does = "throw" /\ garbage \in BOOLEAN
  BY DEF I!Throw, IncludeInv, IncludeTyped
<1>2. I!Current = files[scripts[1].file].items[scripts[1].at]
  BY <1>1, AtItemFacts
<1>3. I!Alone(files, scripts[1].file, scripts[1].at, I!Replaced(files)[MaxDepth - Len(scripts)]) = I!Fails
  BY <1>1, <1>2 DEF I!Alone
<1>4. /\ UNCHANGED <<files, scripts, ran>> /\ running' = "raise" /\ error' = "own"
      /\ UNCHANGED <<buffers, lost>> /\ garbage' = garbage
  BY DEF I!Throw, I!Raise
<1> QED
  BY <1>1, <1>3, <1>4, RaiseKeeps

\* Including a file that cannot be run, or that is too deep, fails as it would in place.
LEMMA IncludeFailsInPlace ==
    ASSUME I!Assumption, IncludeInv, I!AtItem, I!Current.does = "include",
           I!Included \notin {"script", "empty"} \/ Len(scripts) >= MaxDepth
    PROVE  I!Alone(files, scripts[1].file, scripts[1].at,
                   I!Replaced(files)[MaxDepth - Len(scripts)]) = I!Fails
<1> DEFINE item == files[scripts[1].file].items[scripts[1].at]
           d == MaxDepth - Len(scripts)
<1>1. /\ files \in Contents /\ AtStatement(files, scripts) /\ I!Current = item
      /\ scripts[1].file \in Files /\ scripts[1].at \in 1 .. Len(files[scripts[1].file].items)
  BY AtItemFacts
<1>2. item.file \in Files
  <2>1. item.does = "include"
    BY <1>1
  <2> QED
    BY <1>1, <2>1, FileTypes
<1>3. d \in 0 .. MaxDepth /\ (Len(scripts) >= MaxDepth => d = 0)
  BY <1>1 DEF AtStatement, I!Assumption
<1>4. I!Alone(files, scripts[1].file, scripts[1].at, I!Replaced(files)[d]) = I!Replaced(files)[d][item.file]
  BY <1>1 DEF I!Alone
<1>5. I!Included = files[item.file].kind
  BY <1>1 DEF I!Included
<1> HIDE DEF d, item
<1>6. I!Replaced(files)[d][item.file] = I!Fails
  <2>1. CASE Len(scripts) >= MaxDepth
    <3>1. I!Replaced(files)[0][item.file] = I!Fails
      BY <1>1, <1>2, ReplacedDef
    <3> QED
      BY <1>3, <2>1, <3>1
  <2>2. CASE I!Included \notin {"script", "empty"}
    BY <1>1, <1>2, <1>3, <1>5, <2>2, OnwardSteps
  <2> QED
    BY <2>1, <2>2
<1> QED
  BY <1>4, <1>6 DEF d

\* It is kept when an include() is refused: there is no file, it is empty, or it does not compile.
LEMMA IncludeRefused ==
    ASSUME I!Assumption, IncludeInv, I!IncludeNothing \/ I!IncludeFails \/ I!IncludeBroken
    PROVE  IncludeInv'
<1>1. I!AtItem /\ I!Current.does = "include" /\ garbage \in BOOLEAN
  BY DEF I!IncludeNothing, I!IncludeFails, I!IncludeBroken, IncludeInv, IncludeTyped
<1>2. CASE I!IncludeNothing
  <2>1. I!Included \notin {"script", "empty"}
    BY <1>2 DEF I!IncludeNothing
  <2>2. /\ UNCHANGED <<files, scripts, ran>> /\ running' = "raise" /\ error' \in {"PosixError", "URIError"}
        /\ UNCHANGED <<buffers, lost>> /\ garbage' = garbage
    BY <1>2 DEF I!IncludeNothing, I!Raise
  <2> QED
    BY <1>1, <2>1, <2>2, IncludeFailsInPlace, RaiseKeeps
<1>3. CASE I!IncludeFails
  <2>1. I!Included \notin {"script", "empty"} \/ Len(scripts) >= MaxDepth
    BY <1>3 DEF I!IncludeFails
  <2>2. /\ UNCHANGED <<files, scripts, ran>> /\ running' = "raise" /\ error' = "Error"
        /\ UNCHANGED <<buffers, lost>> /\ garbage' = garbage
    BY <1>3 DEF I!IncludeFails, I!Raise
  <2> QED
    BY <1>1, <2>1, <2>2, IncludeFailsInPlace, RaiseKeeps
<1>4. CASE I!IncludeBroken
  <2>1. /\ UNCHANGED <<files, scripts, ran>> /\ running' = "raise" /\ error' = "TypeError"
        /\ buffers' = buffers + 1 /\ lost' = lost + 1
        /\ garbage' = (garbage \/ I!Included = "empty") /\ I!Included \in {"broken", "empty"}
    BY <1>4 DEF I!IncludeBroken, I!Raise
  <2>2. garbage' \in BOOLEAN
    BY <2>1
  <2>3. ~garbage' => ~garbage /\ I!Included \notin {"script", "empty"}
    BY <2>1
  <2> QED
    BY <1>1, <2>1, <2>2, <2>3, IncludeFailsInPlace, RaiseKeeps
<1> QED
  BY <1>2, <1>3, <1>4

\* A script that cannot be read or loaded does nothing.
LEMMA IncludeStarts ==
    ASSUME I!Assumption, IncludeInv, I!ReadFails \/ I!LoadFails \/ I!Start
    PROVE  IncludeInv'
<1>1. /\ running = "start" /\ files \in Contents /\ ran = <<>> /\ scripts = <<>>
      /\ buffers \in Nat /\ lost \in Nat /\ buffers = lost /\ garbage \in BOOLEAN
      /\ error \in {"none", "own", "Error", "PosixError", "URIError", "TypeError", "SyntaxError"}
      /\ ScriptsSound(files, "start", <<>>)
  <2>1. running = "start"
    BY DEF I!ReadFails, I!LoadFails, I!Start
  <2>2. ScriptsSound(files, "start", scripts)
    BY <2>1 DEF IncludeInv, IncludeTyped
  <2>3. scripts = <<>>
    BY <2>2 DEF ScriptsSound
  <2> QED
    BY <2>1, <2>2, <2>3 DEF IncludeInv, IncludeTyped, I!BuffersAccounted
<1>2. UNCHANGED <<files, ran, garbage>> /\ <<>> \in Seq(Files \X Nat) /\ Len(<<>>) = 0
  BY DEF I!ReadFails, I!LoadFails, I!Start
<1>3. Main \in Files /\ MaxDepth \in 0 .. MaxDepth /\ Len(<<I!Script(Main)>>) = 1
  BY DEF I!Assumption
<1>4. CASE I!Start /\ files[Main].kind = "script"
  <2>1. running' = "script" /\ scripts' = <<I!Script(Main)>> /\ buffers' = buffers + 1
        /\ UNCHANGED <<error, lost>>
    BY <1>4 DEF I!Start
  <2>2. ScriptsSound(files, "script", <<I!Script(Main)>>)
    <3>1. I!Script(Main) \in Frames /\ I!Script(Main).file = Main /\ I!Script(Main).at = 1
      BY <1>3 DEF I!Script, Frames
    <3>2. /\ <<I!Script(Main)>> \in Seq(Frames) /\ <<I!Script(Main)>> # <<>>
          /\ <<I!Script(Main)>>[1] = I!Script(Main) /\ 1 .. Len(<<I!Script(Main)>>) = {1}
      BY <1>3, <3>1
    <3>3. 1 \in 1 .. Len(files[Main].items) + 1 /\ 1 <= MaxDepth
      BY <1>1, <1>3, FileTypes DEF I!Assumption
    <3> QED
      BY <1>3, <1>4, <3>1, <3>2, <3>3 DEF ScriptsSound
  <2>3. Explained(files, "script", <<I!Script(Main)>>, <<>>)
    BY <1>1, <1>4, Begun
  <2>4. IncludeTyped'
    BY <1>1, <1>2, <2>1, <2>2 DEF IncludeTyped
  <2>5. I!BuffersAccounted'
    BY <1>1, <1>3, <2>1 DEF I!BuffersAccounted
  <2> QED
    BY <1>1, <1>2, <2>1, <2>3, <2>4, <2>5 DEF IncludeInv, I!RunsAsReplaced, I!Ended
<1>5. CASE ~(I!Start /\ files[Main].kind = "script")
  <2>1. /\ running' \in {"failed", "fatal"} /\ UNCHANGED scripts
        /\ error' \in {"Error", "TypeError", "SyntaxError"}
        /\ \/ UNCHANGED <<buffers, lost>>
           \/ buffers' = buffers + 1 /\ lost' = lost + 1
        /\ files[Main].kind # "empty" => files[Main].kind \notin {"script", "empty"}
    BY <1>5 DEF I!ReadFails, I!LoadFails, I!Start
  <2>2. ScriptsSound(files, running', <<>>)
    BY <1>1, <2>1 DEF ScriptsSound
  <2>3. IncludeTyped'
    BY <1>1, <1>2, <2>1, <2>2 DEF IncludeTyped
  <2>4. I!BuffersAccounted'
    BY <1>1, <1>2, <2>1 DEF I!BuffersAccounted
  <2>5. files[Main].kind # "empty" => I!Replaced(files)[MaxDepth][Main] = I!Fails
    BY <1>1, <1>3, <2>1, OnwardSteps
  <2>6. I!RunsAsReplaced'
    BY <1>1, <1>2, <2>1, <2>5 DEF I!RunsAsReplaced, I!Fails
  <2> QED
    BY <2>1, <2>3, <2>4, <2>6 DEF IncludeInv
<1> QED
  BY <1>4, <1>5

\* It is kept when a statement is run.
LEMMA IncludeRun ==
    ASSUME I!Assumption, IncludeInv, I!Run
    PROVE  IncludeInv'
<1>1. I!AtItem /\ I!Current.does = "run"
  BY DEF I!Run
<1>2. /\ files \in Contents /\ running = "script" /\ AtStatement(files, scripts)
      /\ scripts # <<>> /\ scripts[1].file \in Files
      /\ scripts[1].at \in 1 .. Len(files[scripts[1].file].items)
      /\ I!Here = scripts[1] /\ I!Current = files[scripts[1].file].items[scripts[1].at]
      /\ I!Going = Advanced(scripts)
      /\ ~garbage => Explained(files, "script", scripts, ran)
  BY <1>1, AtItemFacts
<1>3. /\ ran' = Append(ran, <<scripts[1].file, scripts[1].at>>) /\ scripts' = Advanced(scripts)
      /\ UNCHANGED <<files, running, error, buffers, lost, garbage>>
  BY <1>2 DEF I!Run
<1>4. /\ ran \in Seq(Files \X Nat) /\ buffers \in Nat /\ lost \in Nat /\ garbage \in BOOLEAN
      /\ ScriptsSound(files, "script", scripts) /\ buffers = Len(scripts) + lost
  BY <1>2 DEF IncludeInv, IncludeTyped, I!BuffersAccounted
<1>5. ran' \in Seq(Files \X Nat)
  <2>1. scripts[1].at \in Nat
    BY <1>2, FileTypes
  <2> QED
    BY <1>2, <1>3, <1>4, <2>1
<1>6. ScriptsSound(files, "script", Advanced(scripts))
  BY <1>2, <1>4, SoundInside
<1>7. ~garbage => Explained(files, "script", Advanced(scripts),
                            Append(ran, <<scripts[1].file, scripts[1].at>>))
  BY <1>1, <1>2, <1>4, RunExplained
<1>8. IncludeTyped'
  BY <1>2, <1>3, <1>4, <1>5, <1>6 DEF IncludeInv, IncludeTyped
<1>9. I!BuffersAccounted'
  <2>1. Len(Advanced(scripts)) = Len(scripts)
    BY <1>2, ScriptMoves DEF AtStatement
  <2> QED
    BY <1>3, <1>4, <2>1 DEF I!BuffersAccounted
<1>10. I!RunsAsReplaced'
  BY <1>2, <1>3 DEF I!RunsAsReplaced, I!Ended
<1> QED
  BY <1>2, <1>3, <1>7, <1>8, <1>9, <1>10 DEF IncludeInv

\* It is kept when a file is included: what it does stands for the statement.
LEMMA IncludeInclude ==
    ASSUME I!Assumption, IncludeInv, I!Include
    PROVE  IncludeInv'
<1> DEFINE f == files[scripts[1].file].items[scripts[1].at].file
<1>1. I!AtItem /\ I!Current.does = "include" /\ I!Included \in {"script", "empty"} /\ Len(scripts) < MaxDepth
  BY DEF I!Include
<1>2. /\ files \in Contents /\ running = "script" /\ AtStatement(files, scripts)
      /\ scripts # <<>> /\ scripts[1].file \in Files
      /\ scripts[1].at \in 1 .. Len(files[scripts[1].file].items)
      /\ I!Current = files[scripts[1].file].items[scripts[1].at]
      /\ ~garbage => Explained(files, "script", scripts, ran)
  BY <1>1, AtItemFacts
<1>3. f \in Files /\ files[f].kind \in {"script", "empty"}
  <2>1. files[scripts[1].file].items[scripts[1].at].does = "include"
    BY <1>1, <1>2
  <2>2. f \in Files
    BY <1>2, <2>1, FileTypes
  <2> QED
    BY <1>1, <1>2, <2>2 DEF I!Included
<1>4. /\ scripts' = <<I!Script(f)>> \o scripts /\ buffers' = buffers + 1
      /\ UNCHANGED <<files, running, error, ran, lost, garbage>>
  BY <1>2 DEF I!Include
<1> HIDE DEF f
<1>5. /\ ran \in Seq(Files \X Nat) /\ buffers \in Nat /\ lost \in Nat /\ garbage \in BOOLEAN
      /\ ScriptsSound(files, "script", scripts) /\ buffers = Len(scripts) + lost
  BY <1>2 DEF IncludeInv, IncludeTyped, I!BuffersAccounted
<1>6. ScriptsSound(files, "script", <<I!Script(f)>> \o scripts)
  BY <1>1, <1>2, <1>3, <1>5, SoundInside
<1>7. ~garbage => Explained(files, "script", <<I!Script(f)>> \o scripts, ran)
  BY <1>1, <1>2, <1>3, <1>5, IncludeExplained DEF f
<1>8. IncludeTyped'
  BY <1>2, <1>4, <1>5, <1>6 DEF IncludeInv, IncludeTyped
<1>9. I!BuffersAccounted'
  <2>1. I!Script(f) \in Frames
    BY <1>3 DEF I!Script, Frames
  <2>2. Len(<<I!Script(f)>> \o scripts) = Len(scripts) + 1 /\ Len(scripts) \in Nat
    BY <1>2, <2>1, ScriptMoves DEF AtStatement
  <2> QED
    BY <1>4, <1>5, <2>2 DEF I!BuffersAccounted
<1>10. I!RunsAsReplaced'
  BY <1>2, <1>4 DEF I!RunsAsReplaced, I!Ended
<1> QED
  BY <1>2, <1>4, <1>7, <1>8, <1>9, <1>10 DEF IncludeInv

\* It is kept when an error is caught.
LEMMA IncludeCatch ==
    ASSUME I!Assumption, IncludeInv, I!Catch
    PROVE  IncludeInv'
<1>1. running = "raise" /\ I!Current.guarded
  BY DEF I!Catch
<1>2. /\ files \in Contents /\ AtStatement(files, scripts) /\ ScriptsSound(files, "raise", scripts)
      /\ scripts # <<>> /\ scripts \in Seq(Frames)
      /\ I!Current = files[scripts[1].file].items[scripts[1].at]
      /\ I!Going = Advanced(scripts)
      /\ ~garbage => Explained(files, "raise", scripts, ran)
  BY <1>1, RaiseFacts
<1>3. /\ running' = "script" /\ error' = "none" /\ scripts' = Advanced(scripts)
      /\ UNCHANGED <<files, ran, buffers, lost, garbage>>
  BY <1>2 DEF I!Catch
<1>4. /\ ran \in Seq(Files \X Nat) /\ buffers \in Nat /\ lost \in Nat /\ garbage \in BOOLEAN
      /\ buffers = Len(scripts) + lost
  BY DEF IncludeInv, IncludeTyped, I!BuffersAccounted
<1>5. ScriptsSound(files, "script", Advanced(scripts))
  BY <1>2, SoundInside
<1>6. ~garbage => Explained(files, "script", Advanced(scripts), ran)
  BY <1>1, <1>2, <1>4, CatchExplained
<1>7. IncludeTyped'
  BY <1>2, <1>3, <1>4, <1>5 DEF IncludeTyped
<1>8. I!BuffersAccounted'
  <2>1. Len(Advanced(scripts)) = Len(scripts)
    BY <1>2, ScriptMoves
  <2> QED
    BY <1>3, <1>4, <2>1 DEF I!BuffersAccounted
<1>9. I!RunsAsReplaced'
  BY <1>3 DEF I!RunsAsReplaced, I!Ended
<1> QED
  BY <1>3, <1>6, <1>7, <1>8, <1>9 DEF IncludeInv

\* It is kept when an error leaves a script.
LEMMA IncludeFail ==
    ASSUME I!Assumption, IncludeInv, I!Fail
    PROVE  IncludeInv'
<1>1. running = "raise" /\ ~I!Current.guarded
  BY DEF I!Fail
<1>2. /\ files \in Contents /\ AtStatement(files, scripts) /\ ScriptsSound(files, "raise", scripts)
      /\ scripts # <<>> /\ scripts \in Seq(Frames)
      /\ I!Current = files[scripts[1].file].items[scripts[1].at]
      /\ ~garbage => Explained(files, "raise", scripts, ran)
  BY <1>1, RaiseFacts
<1>3. /\ scripts' = Tail(scripts) /\ buffers' = buffers - 1
      /\ UNCHANGED <<files, ran, lost, garbage>>
      /\ IF Tail(scripts) = <<>> THEN running' = "failed" /\ UNCHANGED error
                                 ELSE running' = "raise" /\ error' = "Error"
  BY DEF I!Fail, I!Raise
<1>4. /\ ran \in Seq(Files \X Nat) /\ buffers \in Nat /\ lost \in Nat /\ garbage \in BOOLEAN
      /\ buffers = Len(scripts) + lost /\ Len(scripts) \in Nat \ {0}
      /\ error \in {"none", "own", "Error", "PosixError", "URIError", "TypeError", "SyntaxError"}
  BY <1>2 DEF IncludeInv, IncludeTyped, I!BuffersAccounted, AtStatement
<1>5. \A c : Left(c, files, "raise", scripts) = c[Len(scripts)][TRUE] \/ ~Continues(c, files, scripts)
  BY <1>1, <1>2, LeftFollows
<1>6. CASE Len(scripts) = 1
  <2>1. Tail(scripts) = <<>> /\ ScriptsSound(files, "failed", <<>>) /\ Len(<<>>) = 0
    BY <1>2, <1>6, SoundOutside
  <2>2. ~garbage => I!Replaced(files)[MaxDepth][Main] = [ran |-> ran, fails |-> TRUE]
    BY <1>2, <1>4, <1>5, <1>6, EndExplained
  <2>3. /\ running' = "failed" /\ scripts' = <<>> /\ buffers' = lost
        /\ UNCHANGED <<files, error, ran, lost, garbage>>
    <3>1. buffers - 1 = lost
      BY <1>4, <1>6
    <3> QED
      BY <1>3, <2>1, <3>1
  <2>4. IncludeTyped'
    BY <1>2, <1>4, <2>1, <2>3 DEF IncludeTyped
  <2>5. I!BuffersAccounted'
    BY <1>4, <2>1, <2>3 DEF I!BuffersAccounted
  <2>6. I!RunsAsReplaced'
    BY <1>3, <2>2, <2>3 DEF I!RunsAsReplaced
  <2> QED
    BY <2>3, <2>4, <2>5, <2>6 DEF IncludeInv
<1>7. CASE Len(scripts) # 1
  <2>1. /\ Len(scripts) > 1 /\ Tail(scripts) # <<>> /\ Len(Tail(scripts)) = Len(scripts) - 1
        /\ AtStatement(files, Tail(scripts)) /\ ScriptsSound(files, "raise", Tail(scripts))
    BY <1>2, <1>7, SoundOutside
  <2>2. ~garbage => Explained(files, "raise", Tail(scripts), ran)
    BY <1>2, <1>4, <1>5, <2>1, EndExplained
  <2>3. IncludeTyped'
    BY <1>2, <1>3, <1>4, <2>1 DEF IncludeTyped
  <2>4. I!BuffersAccounted'
    BY <1>3, <1>4, <2>1 DEF I!BuffersAccounted
  <2>5. I!RunsAsReplaced'
    BY <1>3, <2>1 DEF I!RunsAsReplaced, I!Ended
  <2> QED
    BY <1>3, <2>1, <2>2, <2>3, <2>4, <2>5 DEF IncludeInv
<1> QED
  BY <1>6, <1>7

\* It is kept when a script has ended and its caller goes on.
LEMMA IncludeReturn ==
    ASSUME I!Assumption, IncludeInv, I!Return
    PROVE  IncludeInv'
<1> DEFINE L == Len(scripts)
           here == scripts[1]
<1>1. /\ running = "script" /\ files \in Contents /\ ran \in Seq(Files \X Nat)
      /\ buffers \in Nat /\ lost \in Nat /\ garbage \in BOOLEAN /\ buffers = Len(scripts) + lost
      /\ error \in {"none", "own", "Error", "PosixError", "URIError", "TypeError", "SyntaxError"}
      /\ ScriptsSound(files, "script", scripts)
      /\ ~garbage => Explained(files, "script", scripts, ran)
  BY DEF IncludeInv, IncludeTyped, I!BuffersAccounted, I!Return
<1>2. /\ scripts \in Seq(Frames) /\ scripts # <<>> /\ L \in 1 .. MaxDepth /\ here \in Frames
      /\ here.file \in Files
  <2>1. scripts \in Seq(Frames) /\ scripts # <<>> /\ L <= MaxDepth /\ MaxDepth \in Nat
    BY <1>1 DEF ScriptsSound, I!Assumption
  <2>2. here \in Frames /\ L \in Nat \ {0}
    BY <2>1, ScriptMoves
  <2>3. here.file \in Files
    BY <2>2 DEF Frames
  <2> QED
    BY <2>1, <2>2, <2>3
<1>3. here.at = Len(files[here.file].items) + 1
  <2>1. here.at > Len(files[here.file].items)
    <3>1. Head(scripts) = here
      BY <1>2
    <3> QED
      BY <3>1 DEF I!Return, I!Here, I!Items
  <2>2. here.at \in 1 .. Len(files[here.file].items) + 1
    <3>1. 1 \in 1 .. L
      BY <1>2
    <3> QED
      BY <1>1, <3>1 DEF ScriptsSound
  <2>3. Len(files[here.file].items) \in Nat
    BY <1>1, <1>2, FileTypes
  <2> QED
    BY <2>1, <2>2, <2>3
<1>4. \A c : Left(c, files, "script", scripts) = c[L][FALSE] \/ ~Continues(c, files, scripts)
  <2> SUFFICES ASSUME NEW c, Continues(c, files, scripts)
               PROVE  Left(c, files, "script", scripts) = c[L][FALSE]
    OBVIOUS
  <2>1. MaxDepth - L \in 0 .. MaxDepth /\ L \in 1 .. L
    BY <1>2 DEF I!Assumption
  <2>2. Onward(files, MaxDepth - L, here.file, here.at) = I!Quiet
    BY <1>1, <1>2, <1>3, <2>1, OnwardSteps
  <2>3. Left(c, files, "script", scripts) = Glue(I!Quiet, c[L])
    BY <2>2 DEF Left
  <2>4. c[L][FALSE] \in Outcomes
    BY <2>1 DEF Continues
  <2> DEFINE r == c[L][FALSE]
  <2>5. r.ran \in Seq(Files \X Nat) /\ r = [ran |-> r.ran, fails |-> r.fails]
    BY <2>4 DEF Outcomes
  <2>6. <<>> \o r.ran = r.ran
    BY <2>5
  <2> QED
    BY <2>3, <2>5, <2>6 DEF Glue, I!Quiet
<1>5. /\ buffers' = buffers - 1 /\ UNCHANGED <<files, error, ran, lost, garbage>>
      /\ IF L = 1 THEN running' = "done" /\ scripts' = <<>>
                  ELSE UNCHANGED running /\ scripts' = Advanced(Tail(scripts))
  BY DEF I!Return, Advanced
<1>6. CASE L = 1
  <2>1. ScriptsSound(files, "done", <<>>) /\ Len(<<>>) = 0
    BY <1>1, <1>2, <1>6, SoundOutside
  <2>2. ~garbage => I!Replaced(files)[MaxDepth][Main] = [ran |-> ran, fails |-> FALSE]
    BY <1>1, <1>2, <1>4, <1>6, EndExplained
  <2>3. IncludeTyped'
    BY <1>1, <1>5, <1>6, <2>1 DEF IncludeTyped
  <2>4. I!BuffersAccounted'
    BY <1>1, <1>5, <1>6, <2>1 DEF I!BuffersAccounted
  <2>5. I!RunsAsReplaced'
    BY <1>5, <1>6, <2>2 DEF I!RunsAsReplaced
  <2> QED
    BY <1>5, <1>6, <2>3, <2>4, <2>5 DEF IncludeInv
<1>7. CASE L # 1
  <2>1. /\ L > 1 /\ Tail(scripts) # <<>> /\ Len(Tail(scripts)) = L - 1
        /\ AtStatement(files, Tail(scripts)) /\ ScriptsSound(files, "script", Advanced(Tail(scripts)))
    BY <1>1, <1>2, <1>7, SoundOutside
  <2>2. ~garbage => Explained(files, "script", Advanced(Tail(scripts)), ran)
    BY <1>1, <1>2, <1>4, <2>1, EndExplained
  <2>3. IncludeTyped'
    BY <1>1, <1>5, <1>7, <2>1 DEF IncludeTyped
  <2>4. I!BuffersAccounted'
    <3>1. Len(Advanced(Tail(scripts))) = L - 1
      BY <2>1, ScriptMoves DEF AtStatement
    <3> QED
      BY <1>1, <1>2, <1>5, <1>7, <3>1 DEF I!BuffersAccounted
  <2>5. I!RunsAsReplaced'
    BY <1>1, <1>5, <1>7 DEF I!RunsAsReplaced, I!Ended
  <2> QED
    BY <1>1, <1>5, <1>7, <2>2, <2>3, <2>4, <2>5 DEF IncludeInv
<1> QED
  BY <1>6, <1>7

\* Every step of include() keeps it.
LEMMA IncludeNext ==
    ASSUME I!Assumption, IncludeInv, I!Next
    PROVE  IncludeInv'
BY IncludeStarts, IncludeRun, IncludeThrow, IncludeRefused, IncludeInclude, IncludeCatch, IncludeFail,
   IncludeReturn DEF I!Next

\* It is kept when include() does nothing.
LEMMA IncludeStays ==
    ASSUME IncludeInv, UNCHANGED include_vars
    PROVE  IncludeInv'
<1>1. UNCHANGED <<files, running, error, scripts, ran, buffers, lost, garbage>>
  BY DEF include_vars
<1>2. IncludeTyped' /\ I!BuffersAccounted'
  BY <1>1 DEF IncludeInv, IncludeTyped, I!BuffersAccounted
<1>3. I!RunsAsReplaced'
  BY <1>1 DEF IncludeInv, I!RunsAsReplaced, I!Ended
<1>4. (~garbage /\ running \in {"script", "raise"} => Explained(files, running, scripts, ran))'
  BY <1>1 DEF IncludeInv
<1> QED
  BY <1>2, <1>3, <1>4 DEF IncludeInv

-----------------------------------------------------------------------------
(* XML: the nodes for what is in an object *)

XmlNodes == [depth : Nat, name : Int, content : Scalars \union {NoContent, Character, Referred}]
Docs     == Seq(XmlNodes)
Places   == Objects \X Int \X Nat

\* The objects of a script are as the assumptions say.
LEMMA ShapeTypes ==
    ASSUME X!Assumption, NEW s \in Shapes, NEW o \in Objects
    PROVE  /\ s[o].kind \in {"object", "array"} /\ Len(s[o].items) \in Nat
           /\ \A i \in 1 .. Len(s[o].items) : s[o].items[i] \in Objects \union Scalars
<1>1. s[o].kind \in {"object", "array"} /\ s[o].items \in Seq(Objects \union Scalars)
  BY DEF X!Assumption
<1> QED
  BY <1>1

\* The nodes for a value are nodes.
LEMMA NamedType ==
    ASSUME X!Assumption, NEW s \in Shapes, NEW v \in Objects \union Scalars, NEW name \in Int,
           NEW depth \in Nat, NEW nodes \in [Places -> Docs]
    PROVE  X!Named(s, v, name, depth, nodes) \in Docs
<1>1. \A content \in Scalars \union {NoContent, Character}, d \in Nat :
        <<X!Node(d, name, content)>> \in Docs
  BY DEF X!Node, XmlNodes, Docs
<1>2. CASE v \notin Objects
  BY <1>1, <1>2 DEF X!Named
<1>3. CASE v \in Objects
  <2>1. <<v, name, depth>> \in Places /\ <<v, X!Root, depth + 1>> \in Places
    BY <1>3 DEF Places, X!Root
  <2>2. nodes[<<v, name, depth>>] \in Docs /\ nodes[<<v, X!Root, depth + 1>>] \in Docs
    BY <2>1
  <2>3. <<X!Node(depth, name, NoContent)>> \o nodes[<<v, X!Root, depth + 1>>] \in Docs
    <3>1. <<X!Node(depth, name, NoContent)>> \in Docs
      BY <1>1
    <3> QED
      BY <2>2, <3>1 DEF Docs
  <2> QED
    BY <1>3, <2>2, <2>3 DEF X!Named
<1> QED
  BY <1>2, <1>3

\* What the i-th item is named.
NameOf(name, i) == IF name = X!Root THEN i ELSE name

\* The nodes for the last n items of an object are last[n].
FromTheLast(last, s, o, name, depth, nodes) ==
    LET items == s[o].items
    IN  /\ last \in [0 .. Len(items) -> Docs]
        /\ last[0] = <<>>
        /\ \A n \in 1 .. Len(items) :
            LET i == Len(items) - n + 1
            IN  last[n] = X!Named(s, items[i], NameOf(name, i), depth, nodes) \o last[n - 1]
        /\ X!Inside(s, o, name, depth, nodes) = last[Len(items)]

\* The function in Inside is that.
LEMMA InsideDef ==
    ASSUME X!Assumption, NEW s \in Shapes, NEW o \in Objects, NEW name \in Int, NEW depth \in Nat,
           NEW nodes \in [Places -> Docs]
    PROVE  \E last : FromTheLast(last, s, o, name, depth, nodes)
<1> DEFINE items == s[o].items
           N == Len(items)
           First(n) == X!Named(s, items[N - n + 1], NameOf(name, N - n + 1), depth, nodes)
           Step(n, rest) == First(n) \o rest
           F == [n \in 1 .. N |-> [rest \in Docs |-> Step(n, rest)]]
           Eq(g) == g = [n \in 0 .. N |-> IF n = 0 THEN <<>>
                          ELSE X!Named(s, items[N - n + 1], IF name = X!Root THEN N - n + 1 ELSE name,
                                       depth, nodes) \o g[n - 1]]
           c == CHOOSE g : Eq(g)
<1>1. N \in Nat
  BY ShapeTypes
<1>2. \A n \in 1 .. N : N - n + 1 \in 1 .. N
  BY <1>1
<1>3. \A n \in 1 .. N : First(n) \in Docs
  <2> TAKE n \in 1 .. N
  <2>1. N - n + 1 \in 1 .. N
    BY <1>2
  <2>2. items[N - n + 1] \in Objects \union Scalars
    BY <2>1, ShapeTypes
  <2>3. NameOf(name, N - n + 1) \in Int
    BY <2>1 DEF NameOf
  <2> QED
    BY <2>2, <2>3, NamedType
<1>4. \A n \in 1 .. N, rest \in Docs : Step(n, rest) \in Docs
  <2> HIDE DEF First, N
  <2> QED
    BY <1>3 DEF Docs
<1>5. \A n \in 1 .. N, rest \in Docs : F[n][rest] = Step(n, rest)
  OBVIOUS
<1>6. F \in [1 .. N -> [Docs -> Docs]]
  <2> HIDE DEF Step
  <2> QED
    BY <1>4
<1> HIDE DEF F
<1>7. <<>> \in Docs
  BY DEF Docs
<1>8. PICK h \in [0 .. N -> Docs] : Iterates(h, N, <<>>, F)
  <2> HIDE DEF N
  <2> QED
    BY <1>1, <1>6, <1>7, Iteration
<1>9. Eq(h)
  <2> HIDE DEF Step, N
  <2>1. h = [i \in 0 .. N |-> IF i = 0 THEN <<>> ELSE F[i][h[i - 1]]]
    BY <1>8 DEF Iterates
  <2>2. \A i \in 0 .. N : i # 0 => F[i][h[i - 1]] = Step(i, h[i - 1])
    <3> TAKE i \in 0 .. N
    <3> HAVE i # 0
    <3>1. i \in 1 .. N /\ i - 1 \in 0 .. N
      BY <1>1
    <3>2. h[i - 1] \in Docs
      BY <3>1
    <3> QED
      BY <1>5, <3>1, <3>2
  <2>3. h = [i \in 0 .. N |-> IF i = 0 THEN <<>> ELSE Step(i, h[i - 1])]
    BY <2>1, <2>2
  <2> QED
    BY <2>3 DEF Step, NameOf
<1>10. X!Inside(s, o, name, depth, nodes) = c[N]
  BY DEF X!Inside
<1> HIDE DEF Eq
<1>11. Eq(c)
  BY <1>9
<1> HIDE DEF c
<1> HIDE DEF N
<1>12. /\ DOMAIN c = 0 .. N /\ c[0] = <<>>
       /\ \A n \in 1 .. N : c[n] = Step(n, c[n - 1])
  <2>1. c = [n \in 0 .. N |-> IF n = 0 THEN <<>> ELSE Step(n, c[n - 1])]
    BY <1>11 DEF Eq, NameOf
  <2> HIDE DEF Step
  <2>2. DOMAIN c = 0 .. N
    BY <2>1
  <2>3. \A n \in 0 .. N : c[n] = IF n = 0 THEN <<>> ELSE Step(n, c[n - 1])
    BY <2>1
  <2>4. 0 \in 0 .. N /\ \A n \in 1 .. N : n \in 0 .. N /\ n # 0
    BY <1>1
  <2> QED
    BY <2>2, <2>3, <2>4
<1>13. c \in [0 .. N -> Docs]
  <2> HIDE DEF Step
  <2>1. c[0] \in Docs /\ \A n \in 1 .. N : c[n - 1] \in Docs => c[n] \in Docs
    BY <1>4, <1>7, <1>12
  <2>2. \A n \in 0 .. N : c[n] \in Docs
    BY <1>1, <2>1, StaysWithin
  <2>3. c = [n \in 0 .. N |-> c[n]]
    BY <1>11 DEF Eq
  <2> QED
    BY <2>2, <2>3
<1>14. FromTheLast(c, s, o, name, depth, nodes)
  BY <1>10, <1>12, <1>13 DEF FromTheLast, N
<1> QED
  BY <1>14

\* The nodes for what is in an object are nodes.
LEMMA InsideType ==
    ASSUME X!Assumption, NEW s \in Shapes, NEW o \in Objects, NEW name \in Int, NEW depth \in Nat,
           NEW nodes \in [Places -> Docs]
    PROVE  X!Inside(s, o, name, depth, nodes) \in Docs
<1>1. PICK last : FromTheLast(last, s, o, name, depth, nodes)
  BY InsideDef
<1>2. Len(s[o].items) \in 0 .. Len(s[o].items) /\ last \in [0 .. Len(s[o].items) -> Docs]
  BY <1>1, ShapeTypes DEF FromTheLast
<1>3. last[Len(s[o].items)] \in Docs
  BY <1>2
<1> QED
  BY <1>1, <1>3 DEF FromTheLast

\* The function in Nodes: the nodes for what is in objects, for each number of levels.
LEMMA NodesDef ==
    ASSUME X!Assumption, NEW s \in Shapes
    PROVE  /\ X!Nodes(s) \in [0 .. Room -> [Places -> Docs]]
           /\ \A k \in 1 .. Room : \A o \in Objects, name \in Int, depth \in Nat :
                X!Nodes(s)[k][<<o, name, depth>>] = X!Inside(s, o, name, depth, X!Nodes(s)[k - 1])
<1> DEFINE S == [Places -> Docs]
           None == [a \in Places |-> <<>>]
           Step(within) == [a \in Places |-> X!Inside(s, a[1], a[2], a[3], within)]
           F == [k \in 1 .. Room |-> [within \in S |-> Step(within)]]
           Eq(g) == g = [k \in 0 .. Room |->
                            IF k = 0 THEN [a \in Objects \X Int \X Nat |-> <<>>]
                            ELSE [a \in Objects \X Int \X Nat |-> X!Inside(s, a[1], a[2], a[3], g[k - 1])]]
           c == CHOOSE g : Eq(g)
<1>1. Room \in Nat
  BY DEF X!Assumption
<1>2. None \in S
  <2>1. <<>> \in Docs
    BY DEF Docs
  <2> QED
    BY <2>1
<1>3. \A a \in Places : a[1] \in Objects /\ a[2] \in Int /\ a[3] \in Nat
  BY DEF Places
<1>4. \A within \in S : Step(within) \in S
  BY <1>3, InsideType
<1>5. \A k \in 1 .. Room, within \in S : F[k][within] = Step(within)
  OBVIOUS
<1>6. F \in [1 .. Room -> [S -> S]]
  <2> HIDE DEF Step, S
  <2> QED
    BY <1>4
<1> HIDE DEF F
<1>7. PICK h \in [0 .. Room -> S] : Iterates(h, Room, None, F)
  <2> HIDE DEF S, None
  <2> QED
    BY <1>1, <1>2, <1>6, Iteration
<1>8. Eq(h)
  <2> HIDE DEF Step, None, S
  <2>1. h = [k \in 0 .. Room |-> IF k = 0 THEN None ELSE F[k][h[k - 1]]]
    BY <1>7 DEF Iterates
  <2>2. \A k \in 0 .. Room : k # 0 => F[k][h[k - 1]] = Step(h[k - 1])
    <3> TAKE k \in 0 .. Room
    <3> HAVE k # 0
    <3>1. k \in 1 .. Room /\ k - 1 \in 0 .. Room
      BY <1>1
    <3>2. h[k - 1] \in S
      BY <3>1
    <3> QED
      BY <1>5, <3>1, <3>2
  <2>3. h = [k \in 0 .. Room |-> IF k = 0 THEN None ELSE Step(h[k - 1])]
    BY <2>1, <2>2
  <2> QED
    BY <2>3 DEF Step, None, Places
<1>9. X!Nodes(s) = c
  BY DEF X!Nodes
<1> HIDE DEF Eq
<1>10. Eq(c)
  BY <1>8
<1> HIDE DEF c
<1>11. /\ DOMAIN c = 0 .. Room /\ c[0] = None
       /\ \A k \in 1 .. Room : c[k] = Step(c[k - 1])
  <2>1. c = [k \in 0 .. Room |-> IF k = 0 THEN None ELSE Step(c[k - 1])]
    BY <1>10 DEF Eq, Places
  <2> HIDE DEF Step, None
  <2>2. 0 \in 0 .. Room /\ \A k \in 1 .. Room : k \in 0 .. Room /\ k # 0
    BY <1>1
  <2>3. DOMAIN c = 0 .. Room
    BY <2>1
  <2>4. \A k \in 0 .. Room : c[k] = IF k = 0 THEN None ELSE Step(c[k - 1])
    BY <2>1
  <2> QED
    BY <2>2, <2>3, <2>4
<1>12. c \in [0 .. Room -> S]
  <2> HIDE DEF Step, None, S
  <2>1. c[0] \in S /\ \A k \in 1 .. Room : c[k - 1] \in S => c[k] \in S
    BY <1>2, <1>4, <1>11
  <2>2. \A k \in 0 .. Room : c[k] \in S
    BY <1>1, <2>1, StaysWithin
  <2>3. c = [k \in 0 .. Room |-> c[k]]
    BY <1>10 DEF Eq
  <2> QED
    BY <2>2, <2>3
<1>13. \A within : \A o \in Objects, name \in Int, depth \in Nat :
        Step(within)[<<o, name, depth>>] = X!Inside(s, o, name, depth, within)
  <2> TAKE within
  <2> TAKE o \in Objects, name \in Int, depth \in Nat
  <2> DEFINE a == <<o, name, depth>>
  <2>1. a \in Places /\ a[1] = o /\ a[2] = name /\ a[3] = depth
    BY DEF Places
  <2> HIDE DEF a
  <2>2. Step(within)[a] = X!Inside(s, a[1], a[2], a[3], within)
    BY <2>1
  <2> QED
    BY <2>1, <2>2 DEF a
<1> HIDE DEF None, Step
<1>14. \A k \in 1 .. Room : \A o \in Objects, name \in Int, depth \in Nat :
        c[k][<<o, name, depth>>] = X!Inside(s, o, name, depth, c[k - 1])
  <2> TAKE k \in 1 .. Room
  <2>1. c[k] = Step(c[k - 1])
    BY <1>11
  <2> QED
    BY <1>13, <2>1
<1> QED
  BY <1>9, <1>12, <1>14

\* The nodes for the items of an object from the i-th on, when what is in them is k levels deep.
Remaining(s, o, name, depth, nodes) == CHOOSE last : FromTheLast(last, s, o, name, depth, nodes)
NodesFrom(s, k, o, name, depth, i) ==
    Remaining(s, o, name, depth, X!Nodes(s)[k])[Len(s[o].items) - i + 1]

\* They are those for one item after another, and from the first one on those for the object.
LEMMA NodesFromSteps ==
    ASSUME X!Assumption, NEW s \in Shapes, NEW k \in 0 .. Room, NEW o \in Objects, NEW name \in Int,
           NEW depth \in Nat
    PROVE  /\ \A i \in 1 .. Len(s[o].items) + 1 : NodesFrom(s, k, o, name, depth, i) \in Docs
           /\ NodesFrom(s, k, o, name, depth, Len(s[o].items) + 1) = <<>>
           /\ \A i \in 1 .. Len(s[o].items) :
                NodesFrom(s, k, o, name, depth, i) =
                    X!Named(s, s[o].items[i], NameOf(name, i), depth, X!Nodes(s)[k])
                        \o NodesFrom(s, k, o, name, depth, i + 1)
           /\ k < Room => X!Nodes(s)[k + 1][<<o, name, depth>>] = NodesFrom(s, k, o, name, depth, 1)
<1> DEFINE nodes == X!Nodes(s)[k]
           last == Remaining(s, o, name, depth, nodes)
           N == Len(s[o].items)
           From(i) == NodesFrom(s, k, o, name, depth, i)
<1>1. nodes \in [Places -> Docs] /\ Room \in Nat
  BY NodesDef DEF X!Assumption
<1> HIDE DEF nodes
<1>2. FromTheLast(last, s, o, name, depth, nodes)
  BY <1>1, InsideDef DEF Remaining
<1> HIDE DEF last
<1>3. N \in Nat
  BY ShapeTypes
<1>4. last \in [0 .. N -> Docs] /\ last[0] = <<>> /\ X!Inside(s, o, name, depth, nodes) = last[N]
  BY <1>2 DEF FromTheLast
<1>5. \A n \in 1 .. N :
        last[n] = X!Named(s, s[o].items[N - n + 1], NameOf(name, N - n + 1), depth, nodes) \o last[n - 1]
  BY <1>2 DEF FromTheLast
<1>6. \A i : From(i) = last[N - i + 1]
  BY DEF NodesFrom, last, nodes
<1> HIDE DEF N, From
<1>7. \A i \in 1 .. N + 1 : From(i) \in Docs
  BY <1>3, <1>4, <1>6
<1>8. From(N + 1) = <<>>
  <2>1. N - (N + 1) + 1 = 0
    BY <1>3
  <2> QED
    BY <1>4, <1>6, <2>1
<1>9. ASSUME NEW i \in 1 .. N
      PROVE  From(i) = X!Named(s, s[o].items[i], NameOf(name, i), depth, nodes) \o From(i + 1)
  <2> DEFINE n == N - i + 1
  <2>1. n \in 1 .. N /\ N - n + 1 = i /\ n - 1 = N - (i + 1) + 1
    BY <1>3
  <2> HIDE DEF n
  <2>2. From(i) = last[n] /\ From(i + 1) = last[n - 1]
    BY <1>6, <2>1 DEF n
  <2> QED
    BY <1>5, <2>1, <2>2
<1>10. k < Room => X!Nodes(s)[k + 1][<<o, name, depth>>] = From(1)
  <2> SUFFICES ASSUME k < Room PROVE X!Nodes(s)[k + 1][<<o, name, depth>>] = From(1)
    OBVIOUS
  <2>1. k + 1 \in 1 .. Room /\ (k + 1) - 1 = k /\ N - 1 + 1 = N
    BY <1>1, <1>3
  <2>2. X!Nodes(s)[k + 1][<<o, name, depth>>] = X!Inside(s, o, name, depth, nodes)
    BY <2>1, NodesDef DEF nodes
  <2> QED
    BY <1>4, <1>6, <2>1, <2>2
<1> QED
  BY <1>7, <1>8, <1>9, <1>10 DEF N, From, nodes

-----------------------------------------------------------------------------
(* XML: the inductive invariant *)

XmlFrames == [fun : {"walk_object", "iterate_array"}, of : Objects, depth : Nat, name : Int, taken : Nat,
              coerced : BOOLEAN]

\* What ObjectToXml says of the objects, where they are as s says and v is the argument.
HoldsIn(s, o, p) == \E i \in DOMAIN s[o].items : s[o].items[i] = p
ClosedIn(s, S)   == \A o \in S, p \in Objects : HoldsIn(s, o, p) => p \in S
PartsOf(s, v)    == {o \in Objects : v \in Objects /\ \A S \in SUBSET Objects :
                                        v \in S /\ ClosedIn(s, S) => o \in S}
ArrayIn(s, o)    == o \in Objects /\ s[o].kind = "array"
NestedIn(s, v)   ==
    \E o, p \in PartsOf(s, v) :
        /\ ArrayIn(s, o) /\ ArrayIn(s, p) /\ HoldsIn(s, o, p)
        /\ (o = v => \E q \in PartsOf(s, v) : HoldsIn(s, q, o))

\* A set of objects one never gets out of.
Endless(s, v, S) == v \in S /\ \A o \in S : \E p \in S : HoldsIn(s, o, p)

\* The calls go down from the argument: each is for the item the one around it is at.
FramesSound(s, v, fr) ==
    /\ fr \in Seq(XmlFrames)
    /\ \A n \in 1 .. Len(fr) :
        /\ fr[n].of \in PartsOf(s, v)
        /\ fr[n].taken <= Len(s[fr[n].of].items)
        /\ fr[n].fun = "walk_object" <=> fr[n].name = X!Root
        /\ n < Len(fr) => (ArrayIn(s, fr[n].of) <=> fr[n].fun = "iterate_array")
        /\ n = Len(fr) => fr[n].of = v /\ fr[n].fun = "walk_object"
        /\ n > 1 => fr[n].taken >= 1 /\ s[fr[n].of].items[fr[n].taken] = fr[n - 1].of

XmlTyped ==
    /\ heap \in Shapes /\ value \in Inputs /\ missed \in BOOLEAN /\ doc \in Docs
    /\ walking \in {"script", "walk", "returned", "thrown"}
    /\ FramesSound(heap, value, frames)
    /\ walking = "script" => frames = <<>> /\ doc = <<>>
    /\ walking = "returned" => frames = <<>>

\* The nodes the j-th call, counted from the outermost, has still to add.
Missing(s, j, f) == NodesFrom(s, Room - j, f.of, f.name, f.depth, f.taken + 1)

\* c[j]: those the outermost j calls have still to add.
WrittenBy(c, s, fr) ==
    /\ c \in [0 .. Len(fr) -> Docs] /\ c[0] = <<>>
    /\ \A j \in 1 .. Len(fr) : c[j] = Missing(s, j, Level(fr, j)) \o c[j - 1]

\* The nodes there are and those still to be added make up the document.
Written(s, v, fr, d) ==
    /\ Len(fr) <= Room
    /\ \E c : WrittenBy(c, s, fr) /\ d \o c[Len(fr)] = X!Document(s, v)

\* No call is past an item that leads on for ever: it would have to be in it still.
Caught(s, v, fr) ==
    \A S \in SUBSET Objects : Endless(s, v, S) =>
        /\ fr # <<>>
        /\ \A n \in 1 .. Len(fr) : \A i \in 1 .. fr[n].taken :
            s[fr[n].of].items[i] \in S => n > 1 /\ i = fr[n].taken

XmlExact(s, v, fr, d) ==
    /\ \A n \in 1 .. Len(fr) : ~fr[n].coerced
    /\ Caught(s, v, fr)
    /\ Written(s, v, fr, d)

XmlInv ==
    /\ XmlTyped
    /\ ~missed /\ ~NestedIn(heap, value) /\ walking \in {"walk", "returned"} =>
        XmlExact(heap, value, frames, doc)

-----------------------------------------------------------------------------
(* XML: how the calls go on *)

\* The latest call is x instead.
Now(fr, x) == [fr EXCEPT ![1] = x]
Took(f, string) ==
    [fun |-> f.fun, of |-> f.of, depth |-> f.depth, name |-> f.name, taken |-> f.taken + 1,
     coerced |-> string]

\* What the calls are after one goes on, makes another or returns.
LEMMA FrameMoves ==
    ASSUME NEW fr \in Seq(XmlFrames), fr # <<>>
    PROVE  /\ Len(fr) \in Nat \ {0} /\ fr[1] \in XmlFrames /\ Head(fr) = fr[1]
           /\ \A x \in XmlFrames :
                /\ Now(fr, x) \in Seq(XmlFrames) /\ Len(Now(fr, x)) = Len(fr) /\ Now(fr, x) # <<>>
                /\ Now(fr, x)[1] = x /\ \A n \in 2 .. Len(fr) : Now(fr, x)[n] = fr[n]
           /\ \A y \in XmlFrames :
                /\ <<y>> \o fr \in Seq(XmlFrames) /\ Len(<<y>> \o fr) = Len(fr) + 1
                /\ (<<y>> \o fr)[1] = y
                /\ \A n \in 2 .. Len(fr) + 1 : (<<y>> \o fr)[n] = fr[n - 1]
           /\ Tail(fr) \in Seq(XmlFrames) /\ Len(Tail(fr)) = Len(fr) - 1
           /\ \A n \in 1 .. Len(fr) - 1 : Tail(fr)[n] = fr[n + 1]
<1>1. fr[1] \in XmlFrames /\ Len(fr) \in Nat \ {0} /\ Head(fr) = fr[1]
  OBVIOUS
<1>2. ASSUME NEW x \in XmlFrames
      PROVE  /\ Now(fr, x) \in Seq(XmlFrames) /\ Len(Now(fr, x)) = Len(fr) /\ Now(fr, x) # <<>>
             /\ Now(fr, x)[1] = x /\ \A n \in 2 .. Len(fr) : Now(fr, x)[n] = fr[n]
  BY <1>1 DEF Now
<1>3. ASSUME NEW y \in XmlFrames
      PROVE  /\ <<y>> \o fr \in Seq(XmlFrames) /\ Len(<<y>> \o fr) = Len(fr) + 1
             /\ (<<y>> \o fr)[1] = y
             /\ \A n \in 2 .. Len(fr) + 1 : (<<y>> \o fr)[n] = fr[n - 1]
  <2>1. <<y>> \in Seq(XmlFrames) /\ Len(<<y>>) = 1 /\ <<y>>[1] = y
    OBVIOUS
  <2> QED
    BY <1>1, <2>1
<1>4. /\ Tail(fr) \in Seq(XmlFrames) /\ Len(Tail(fr)) = Len(fr) - 1
      /\ \A n \in 1 .. Len(fr) - 1 : Tail(fr)[n] = fr[n + 1]
  BY <1>1
<1> QED
  BY <1>1, <1>2, <1>3, <1>4

\* What an item of a part is a part too.
LEMMA PartsClosed ==
    ASSUME NEW s, NEW v
    PROVE  /\ v \in Objects => v \in PartsOf(s, v)
           /\ PartsOf(s, v) \subseteq Objects
           /\ \A o \in PartsOf(s, v), p \in Objects : HoldsIn(s, o, p) => p \in PartsOf(s, v)
<1>1. ASSUME NEW o \in PartsOf(s, v), NEW p \in Objects, HoldsIn(s, o, p)
      PROVE  p \in PartsOf(s, v)
  <2>1. ASSUME NEW S \in SUBSET Objects, v \in S, ClosedIn(s, S) PROVE p \in S
    <3>1. o \in S
      BY <2>1 DEF PartsOf
    <3> QED
      BY <1>1, <2>1, <3>1 DEF ClosedIn
  <2>2. v \in Objects
    BY DEF PartsOf
  <2> QED
    BY <2>1, <2>2 DEF PartsOf
<1> QED
  BY <1>1 DEF PartsOf

\* What FramesSound says of each call.
FrameSound(s, v, fr, n) ==
    /\ fr[n].of \in PartsOf(s, v)
    /\ fr[n].taken <= Len(s[fr[n].of].items)
    /\ fr[n].fun = "walk_object" <=> fr[n].name = X!Root
    /\ n < Len(fr) => (ArrayIn(s, fr[n].of) <=> fr[n].fun = "iterate_array")
    /\ n = Len(fr) => fr[n].of = v /\ fr[n].fun = "walk_object"
    /\ n > 1 => fr[n].taken >= 1 /\ s[fr[n].of].items[fr[n].taken] = fr[n - 1].of

\* A call takes its next item.
LEMMA FramesTake ==
    ASSUME X!Assumption, NEW s \in Shapes, NEW v, NEW fr, FramesSound(s, v, fr), fr # <<>>,
           fr[1].taken < Len(s[fr[1].of].items), NEW string \in BOOLEAN
    PROVE  /\ Took(fr[1], string) \in XmlFrames
           /\ FramesSound(s, v, Now(fr, Took(fr[1], string)))
<1> DEFINE f == fr[1]
           x == Took(f, string)
           new == Now(fr, x)
           L == Len(fr)
<1>1. fr \in Seq(XmlFrames) /\ \A n \in 1 .. L : FrameSound(s, v, fr, n)
  BY DEF FramesSound, FrameSound
<1>2. L \in Nat \ {0} /\ f \in XmlFrames
  BY <1>1, FrameMoves
<1>3. 1 \in 1 .. L /\ f.of \in Objects /\ f.taken \in Nat
  BY <1>2 DEF XmlFrames
<1>4. x \in XmlFrames
  BY <1>2, <1>3 DEF Took, XmlFrames
<1>5. x.fun = f.fun /\ x.of = f.of /\ x.name = f.name /\ x.taken = f.taken + 1
  BY DEF Took
<1> HIDE DEF x
<1>6. new \in Seq(XmlFrames) /\ Len(new) = L /\ new[1] = x /\ \A n \in 2 .. L : new[n] = fr[n]
  BY <1>1, <1>4, FrameMoves
<1> HIDE DEF new
<1>7. x.taken <= Len(s[x.of].items)
  BY <1>3, <1>5, ShapeTypes
<1>8. FrameSound(s, v, new, 1)
  <2>1. FrameSound(s, v, fr, 1) /\ ~(1 > 1)
    BY <1>1, <1>3
  <2> QED
    BY <1>5, <1>6, <1>7, <2>1 DEF FrameSound
<1>9. ASSUME NEW n \in 2 .. L PROVE FrameSound(s, v, new, n)
  <2>1. n \in 1 .. L /\ n > 1 /\ (n - 1 = 1 \/ n - 1 \in 2 .. L)
    BY <1>2
  <2>2. FrameSound(s, v, fr, n) /\ new[n] = fr[n]
    BY <1>1, <1>6, <2>1
  <2>3. new[n - 1].of = fr[n - 1].of
    BY <1>5, <1>6, <2>1
  <2> QED
    BY <1>6, <2>2, <2>3 DEF FrameSound
<1>10. \A n \in 1 .. L : FrameSound(s, v, new, n)
  <2> TAKE n \in 1 .. L
  <2>1. n = 1 \/ n \in 2 .. L
    BY <1>2
  <2> QED
    BY <1>8, <1>9, <2>1
<1>11. FramesSound(s, v, new)
  BY <1>6, <1>10 DEF FramesSound, FrameSound
<1> QED
  BY <1>4, <1>11 DEF new, x

\* A call is made for the item the latest one is at.
LEMMA FramesPush ==
    ASSUME X!Assumption, NEW s \in Shapes, NEW v, NEW fr, FramesSound(s, v, fr), fr # <<>>,
           fr[1].taken >= 1, NEW y \in XmlFrames, y.taken = 0,
           s[fr[1].of].items[fr[1].taken] = y.of,
           y.fun = "walk_object" <=> y.name = X!Root,
           ArrayIn(s, y.of) <=> y.fun = "iterate_array"
    PROVE  FramesSound(s, v, <<y>> \o fr)
<1> DEFINE f == fr[1]
           new == <<y>> \o fr
           L == Len(fr)
<1>1. fr \in Seq(XmlFrames) /\ \A n \in 1 .. L : FrameSound(s, v, fr, n)
  BY DEF FramesSound, FrameSound
<1>2. L \in Nat \ {0} /\ f \in XmlFrames
  BY <1>1, FrameMoves
<1>3. 1 \in 1 .. L /\ f.of \in Objects /\ f.taken \in Nat /\ y.of \in Objects
  BY <1>2 DEF XmlFrames
<1>4. FrameSound(s, v, fr, 1)
  BY <1>1, <1>3
<1>5. new \in Seq(XmlFrames) /\ Len(new) = L + 1 /\ new[1] = y /\ \A n \in 2 .. L + 1 : new[n] = fr[n - 1]
  BY <1>1, FrameMoves
<1> HIDE DEF new
<1>6. y.of \in PartsOf(s, v)
  <2>1. f.taken \in DOMAIN s[f.of].items
    <3>1. f.taken <= Len(s[f.of].items) /\ s[f.of].items \in Seq(Objects \union Scalars)
      BY <1>3, <1>4 DEF FrameSound, X!Assumption
    <3>2. f.taken \in 1 .. Len(s[f.of].items)
      BY <1>3, <3>1
    <3> QED
      BY <3>1, <3>2
  <2>2. HoldsIn(s, f.of, y.of)
    BY <2>1 DEF HoldsIn
  <2>3. f.of \in PartsOf(s, v)
    BY <1>4 DEF FrameSound
  <2> QED
    BY <1>3, <2>2, <2>3, PartsClosed
<1>7. FrameSound(s, v, new, 1)
  <2>1. ~(1 > 1) /\ 1 # L + 1 /\ 0 <= Len(s[y.of].items)
    BY <1>2, <1>3, ShapeTypes
  <2> QED
    BY <1>5, <1>6, <2>1 DEF FrameSound
<1>8. ASSUME NEW n \in 2 .. L + 1 PROVE FrameSound(s, v, new, n)
  <2> DEFINE m == n - 1
  <2>1. m \in 1 .. L /\ new[n] = fr[m] /\ FrameSound(s, v, fr, m)
    BY <1>1, <1>2, <1>5
  <2>2. (n < L + 1 <=> m < L) /\ (n = L + 1 <=> m = L)
    BY <1>2
  <2>3. fr[m].taken >= 1 /\ s[fr[m].of].items[fr[m].taken] = new[m].of
    <3>1. CASE m = 1
      BY <1>5, <3>1
    <3>2. CASE m # 1
      <4>1. m > 1 /\ m \in 2 .. L + 1
        BY <1>2, <2>1, <3>2
      <4>2. new[m] = fr[m - 1]
        BY <1>5, <4>1
      <4> QED
        BY <2>1, <4>1, <4>2 DEF FrameSound
    <3> QED
      BY <3>1, <3>2
  <2> QED
    BY <1>5, <2>1, <2>2, <2>3 DEF FrameSound
<1>9. \A n \in 1 .. L + 1 : FrameSound(s, v, new, n)
  <2> TAKE n \in 1 .. L + 1
  <2>1. n = 1 \/ n \in 2 .. L + 1
    BY <1>2
  <2> QED
    BY <1>7, <1>8, <2>1
<1>10. FramesSound(s, v, new)
  BY <1>5, <1>9 DEF FramesSound, FrameSound
<1> QED
  BY <1>10 DEF new

\* The latest call returns.
LEMMA FramesPop ==
    ASSUME NEW s, NEW v, NEW fr, FramesSound(s, v, fr), fr # <<>>
    PROVE  FramesSound(s, v, Tail(fr))
<1> DEFINE new == Tail(fr)
           L == Len(fr)
<1>1. fr \in Seq(XmlFrames) /\ \A n \in 1 .. L : FrameSound(s, v, fr, n)
  BY DEF FramesSound, FrameSound
<1>2. /\ L \in Nat \ {0} /\ new \in Seq(XmlFrames) /\ Len(new) = L - 1
      /\ \A n \in 1 .. L - 1 : new[n] = fr[n + 1]
  BY <1>1, FrameMoves
<1> HIDE DEF new
<1>3. ASSUME NEW n \in 1 .. L - 1 PROVE FrameSound(s, v, new, n)
  <2>1. n + 1 \in 1 .. L /\ new[n] = fr[n + 1] /\ FrameSound(s, v, fr, n + 1) /\ n + 1 > 1
    BY <1>1, <1>2
  <2>2. (n < L - 1 <=> n + 1 < L) /\ (n = L - 1 <=> n + 1 = L)
    BY <1>2
  <2>3. n > 1 => new[n - 1] = fr[(n + 1) - 1]
    <3> SUFFICES ASSUME n > 1 PROVE new[n - 1] = fr[(n + 1) - 1]
      OBVIOUS
    <3>1. n - 1 \in 1 .. L - 1 /\ (n - 1) + 1 = (n + 1) - 1
      BY <1>2
    <3> QED
      BY <1>2, <3>1
  <2> QED
    BY <1>2, <2>1, <2>2, <2>3 DEF FrameSound
<1>4. FramesSound(s, v, new)
  BY <1>2, <1>3 DEF FramesSound, FrameSound
<1> QED
  BY <1>4 DEF new

-----------------------------------------------------------------------------
(* XML: what leads on for ever is never left *)

\* A call that takes something that is no object stays caught, and so do calls that go
\* into what they take.
LEMMA CaughtTake ==
    ASSUME X!Assumption, NEW s \in Shapes, NEW v, NEW fr, FramesSound(s, v, fr), fr # <<>>,
           fr[1].taken < Len(s[fr[1].of].items), NEW string \in BOOLEAN, Caught(s, v, fr)
    PROVE  LET f   == fr[1]
               new == Now(fr, Took(f, string))
           IN  /\ s[f.of].items[f.taken + 1] \notin Objects => Caught(s, v, new)
               /\ \A y \in XmlFrames : y.taken = 0 => Caught(s, v, <<y>> \o new)
<1> DEFINE f == fr[1]
           x == Took(f, string)
           new == Now(fr, x)
           L == Len(fr)
<1>1. x \in XmlFrames /\ fr \in Seq(XmlFrames)
  BY FramesTake DEF FramesSound
<1>2. L \in Nat \ {0} /\ f \in XmlFrames
  BY <1>1, FrameMoves
<1>3. f.taken \in Nat /\ x.of = f.of /\ x.taken = f.taken + 1
  BY <1>2 DEF Took, XmlFrames
<1> HIDE DEF x
<1>4. /\ new \in Seq(XmlFrames) /\ Len(new) = L /\ new # <<>> /\ new[1] = x
      /\ \A n \in 2 .. L : new[n] = fr[n]
  BY <1>1, FrameMoves
<1> HIDE DEF new
<1>5. ASSUME NEW S \in SUBSET Objects, Endless(s, v, S)
      PROVE  /\ \A i \in 1 .. f.taken : s[f.of].items[i] \notin S
             /\ \A n \in 2 .. L : \A i \in 1 .. fr[n].taken :
                    s[fr[n].of].items[i] \in S => i = fr[n].taken
  <2>1. \A n \in 1 .. L : \A i \in 1 .. fr[n].taken :
            s[fr[n].of].items[i] \in S => n > 1 /\ i = fr[n].taken
    BY <1>5 DEF Caught
  <2>2. 1 \in 1 .. L /\ ~(1 > 1) /\ \A n \in 2 .. L : n \in 1 .. L
    BY <1>2
  <2> QED
    BY <2>1, <2>2
<1>6. ASSUME s[f.of].items[f.taken + 1] \notin Objects
      PROVE  Caught(s, v, new)
  <2> SUFFICES ASSUME NEW S \in SUBSET Objects, Endless(s, v, S),
                      NEW n \in 1 .. L, NEW i \in 1 .. new[n].taken, s[new[n].of].items[i] \in S
               PROVE  n > 1 /\ i = new[n].taken
    BY <1>4 DEF Caught
  <2>1. CASE n = 1
    <3>1. i \in 1 .. f.taken + 1 /\ s[f.of].items[i] \in S
      BY <1>3, <1>4, <2>1
    <3>2. i # f.taken + 1
      BY <1>6, <3>1
    <3>3. i \in 1 .. f.taken
      BY <1>3, <3>1, <3>2
    <3> QED
      BY <1>5, <3>1, <3>3
  <2>2. CASE n # 1
    <3>1. n \in 2 .. L /\ n > 1
      BY <1>2, <2>2
    <3> QED
      BY <1>4, <1>5, <3>1
  <2> QED
    BY <2>1, <2>2
<1>7. ASSUME NEW y \in XmlFrames, y.taken = 0
      PROVE  Caught(s, v, <<y>> \o new)
  <2> DEFINE all == <<y>> \o new
  <2>1. /\ all \in Seq(XmlFrames) /\ Len(all) = L + 1 /\ all[1] = y
        /\ \A n \in 2 .. L + 1 : all[n] = new[n - 1]
    <3>1. /\ all \in Seq(XmlFrames) /\ Len(all) = Len(new) + 1 /\ all[1] = y
          /\ \A n \in 2 .. Len(new) + 1 : all[n] = new[n - 1]
      BY <1>4, FrameMoves
    <3> QED
      BY <1>4, <3>1
  <2> HIDE DEF all
  <2>2. all # <<>>
    BY <1>2, <2>1
  <2> SUFFICES ASSUME NEW S \in SUBSET Objects, Endless(s, v, S),
                      NEW n \in 1 .. L + 1, NEW i \in 1 .. all[n].taken, s[all[n].of].items[i] \in S
               PROVE  n > 1 /\ i = all[n].taken
    BY <2>1, <2>2 DEF Caught, all
  <2>3. CASE n = 1
    BY <1>7, <2>1, <2>3
  <2>4. CASE n = 2
    <3>1. all[n] = x
      <4>1. 2 \in 2 .. L + 1 /\ 2 - 1 = 1
        BY <1>2
      <4> QED
        BY <1>4, <2>1, <2>4, <4>1
    <3>2. i \in 1 .. f.taken + 1 /\ s[f.of].items[i] \in S
      BY <1>3, <3>1
    <3>3. i \notin 1 .. f.taken
      BY <1>5, <3>2
    <3> QED
      BY <1>3, <2>4, <3>1, <3>2, <3>3
  <2>5. CASE n # 1 /\ n # 2
    <3>1. n \in 2 .. L + 1 /\ n > 1 /\ n - 1 \in 2 .. L
      BY <1>2, <2>5
    <3>2. all[n] = fr[n - 1]
      BY <1>4, <2>1, <3>1
    <3> QED
      BY <1>5, <3>1, <3>2
  <2> QED
    BY <2>3, <2>4, <2>5
<1> QED
  BY <1>6, <1>7 DEF new, x

\* A call that returns was not for anything that leads on for ever.
LEMMA CaughtPop ==
    ASSUME X!Assumption, NEW s \in Shapes, NEW v, NEW fr, FramesSound(s, v, fr), fr # <<>>,
           fr[1].taken = Len(s[fr[1].of].items), Caught(s, v, fr)
    PROVE  Caught(s, v, Tail(fr))
<1> DEFINE f == fr[1]
           new == Tail(fr)
           L == Len(fr)
<1>1. fr \in Seq(XmlFrames) /\ \A n \in 1 .. L : FrameSound(s, v, fr, n)
  BY DEF FramesSound, FrameSound
<1>2. /\ L \in Nat \ {0} /\ f \in XmlFrames
      /\ Len(new) = L - 1 /\ \A n \in 1 .. L - 1 : new[n] = fr[n + 1]
  BY <1>1, FrameMoves
<1> HIDE DEF new
<1> SUFFICES ASSUME NEW S \in SUBSET Objects, Endless(s, v, S)
             PROVE  /\ new # <<>>
                    /\ \A n \in 1 .. L - 1 : \A i \in 1 .. new[n].taken :
                        s[new[n].of].items[i] \in S => n > 1 /\ i = new[n].taken
  BY <1>2 DEF Caught, new
<1>3. \A n \in 1 .. L : \A i \in 1 .. fr[n].taken :
        s[fr[n].of].items[i] \in S => n > 1 /\ i = fr[n].taken
  BY DEF Caught
<1>4. f.of \notin S
  <2> SUFFICES ASSUME f.of \in S PROVE FALSE
    OBVIOUS
  <2>1. PICK p \in S : HoldsIn(s, f.of, p)
    BY DEF Endless
  <2>2. f.of \in Objects /\ 1 \in 1 .. L /\ ~(1 > 1)
    BY <1>2 DEF XmlFrames
  <2>3. s[f.of].items \in Seq(Objects \union Scalars)
    BY <2>2 DEF X!Assumption
  <2>4. PICK i \in DOMAIN s[f.of].items : s[f.of].items[i] = p
    BY <2>1 DEF HoldsIn
  <2>5. i \in 1 .. f.taken
    BY <2>3
  <2> QED
    BY <1>3, <2>2, <2>4, <2>5
<1>5. new # <<>>
  <2> SUFFICES ASSUME new = <<>> PROVE FALSE
    OBVIOUS
  <2>1. L = 1
    BY <1>2
  <2>2. f.of = v
    BY <1>1, <2>1 DEF FrameSound
  <2> QED
    BY <1>4, <2>2 DEF Endless
<1>6. ASSUME NEW n \in 1 .. L - 1, NEW i \in 1 .. new[n].taken, s[new[n].of].items[i] \in S
      PROVE  n > 1 /\ i = new[n].taken
  <2>1. n + 1 \in 1 .. L /\ new[n] = fr[n + 1] /\ n + 1 > 1 /\ (n + 1) - 1 = n
    BY <1>2
  <2>2. i = new[n].taken
    BY <1>3, <1>6, <2>1
  <2>3. s[new[n].of].items[i] = fr[n].of
    BY <1>1, <2>1, <2>2 DEF FrameSound
  <2>4. n # 1
    BY <1>4, <1>6, <2>3
  <2> QED
    BY <2>1, <2>2, <2>4
<1> QED
  BY <1>5, <1>6

-----------------------------------------------------------------------------
(* XML: what has still to be added *)

\* A call has to add the nodes for its next item and then those for the others.
LEMMA MissingSteps ==
    ASSUME X!Assumption, NEW s \in Shapes, NEW f \in XmlFrames, f.taken <= Len(s[f.of].items),
           NEW j \in 1 .. Room
    PROVE  /\ Missing(s, j, f) \in Docs /\ Room - j \in 0 .. Room
           /\ f.taken = Len(s[f.of].items) => Missing(s, j, f) = <<>>
           /\ f.taken < Len(s[f.of].items) => \A string \in BOOLEAN :
                Missing(s, j, f) =
                    X!Named(s, s[f.of].items[f.taken + 1], NameOf(f.name, f.taken + 1), f.depth,
                            X!Nodes(s)[Room - j]) \o Missing(s, j, Took(f, string))
           /\ f.taken = 0 /\ j > 1 =>
                X!Nodes(s)[Room - (j - 1)][<<f.of, f.name, f.depth>>] = Missing(s, j, f)
           /\ f.taken = 0 /\ j = 1 => X!Nodes(s)[Room][<<f.of, f.name, f.depth>>] = Missing(s, j, f)
<1> DEFINE k == Room - j
           N == Len(s[f.of].items)
           From(i) == NodesFrom(s, k, f.of, f.name, f.depth, i)
<1>1. /\ f.of \in Objects /\ f.name \in Int /\ f.depth \in Nat /\ f.taken \in Nat /\ Room \in Nat
      /\ k \in 0 .. Room /\ k < Room
  BY DEF XmlFrames, X!Assumption
<1>2. N \in Nat /\ f.taken + 1 \in 1 .. N + 1
  BY <1>1, ShapeTypes
<1>3. /\ \A i \in 1 .. N + 1 : From(i) \in Docs
      /\ From(N + 1) = <<>>
      /\ \A i \in 1 .. N :
            From(i) = X!Named(s, s[f.of].items[i], NameOf(f.name, i), f.depth, X!Nodes(s)[k]) \o From(i + 1)
      /\ X!Nodes(s)[k + 1][<<f.of, f.name, f.depth>>] = From(1)
  <2> HIDE DEF k
  <2> QED
    BY <1>1, NodesFromSteps
<1>4. /\ Missing(s, j, f) = From(f.taken + 1)
      /\ \A string \in BOOLEAN : Missing(s, j, Took(f, string)) = From((f.taken + 1) + 1)
  BY DEF Missing, Took
<1>5. Room - (j - 1) = k + 1 /\ (j = 1 => Room = k + 1)
  BY <1>1
<1> HIDE DEF k, From, N
<1>6. Missing(s, j, f) \in Docs
  BY <1>2, <1>3, <1>4
<1>7. f.taken = N => Missing(s, j, f) = <<>>
  BY <1>3, <1>4
<1>8. f.taken < N => \A string \in BOOLEAN :
        Missing(s, j, f) =
            X!Named(s, s[f.of].items[f.taken + 1], NameOf(f.name, f.taken + 1), f.depth, X!Nodes(s)[k])
                \o Missing(s, j, Took(f, string))
  <2> SUFFICES ASSUME f.taken < N, NEW string \in BOOLEAN
               PROVE  Missing(s, j, f) =
                        X!Named(s, s[f.of].items[f.taken + 1], NameOf(f.name, f.taken + 1), f.depth,
                                X!Nodes(s)[k]) \o Missing(s, j, Took(f, string))
    OBVIOUS
  <2> DEFINE i == f.taken + 1
  <2>1. i \in 1 .. N
    BY <1>1, <1>2
  <2> HIDE DEF i
  <2>2. From(i) = X!Named(s, s[f.of].items[i], NameOf(f.name, i), f.depth, X!Nodes(s)[k]) \o From(i + 1)
    BY <1>3, <2>1
  <2>3. Missing(s, j, f) = From(i) /\ Missing(s, j, Took(f, string)) = From(i + 1)
    BY <1>4 DEF i
  <2> QED
    BY <2>2, <2>3 DEF i
<1>9. f.taken = 0 => X!Nodes(s)[k + 1][<<f.of, f.name, f.depth>>] = Missing(s, j, f)
  BY <1>3, <1>4
<1> QED
  BY <1>1, <1>5, <1>6, <1>7, <1>8, <1>9 DEF k, N

\* The latest call has added the nodes for an item.
LEMMA WrittenNow ==
    ASSUME X!Assumption, NEW s \in Shapes, NEW v, NEW fr, FramesSound(s, v, fr), fr # <<>>,
           Len(fr) <= Room, fr[1].taken < Len(s[fr[1].of].items),
           NEW c, WrittenBy(c, s, fr)
    PROVE  \E c2 : /\ WrittenBy(c2, s, Now(fr, Took(fr[1], FALSE)))
                   /\ c2[Len(fr)] \in Docs
                   /\ c[Len(fr)] =
                        X!Named(s, s[fr[1].of].items[fr[1].taken + 1], NameOf(fr[1].name, fr[1].taken + 1),
                                fr[1].depth, X!Nodes(s)[Room - Len(fr)]) \o c2[Len(fr)]
<1> DEFINE f == fr[1]
           x == Took(f, FALSE)
           new == Now(fr, x)
           L == Len(fr)
           first == X!Named(s, s[f.of].items[f.taken + 1], NameOf(f.name, f.taken + 1), f.depth,
                            X!Nodes(s)[Room - L])
           mine == Missing(s, L, x)
           c2 == [j \in 0 .. L |-> IF j = L THEN mine \o c[L - 1] ELSE c[j]]
<1>1. /\ fr \in Seq(XmlFrames) /\ x \in XmlFrames /\ f.taken <= Len(s[f.of].items)
  <2>1. fr \in Seq(XmlFrames) /\ f \in XmlFrames
    BY FrameMoves DEF FramesSound
  <2>2. f.taken + 1 \in Nat
    BY <2>1 DEF XmlFrames
  <2> QED
    BY <2>1, <2>2 DEF Took, XmlFrames
<1>2. L \in Nat \ {0} /\ f \in XmlFrames /\ L \in 1 .. Room
  <2>1. L \in Nat \ {0} /\ f \in XmlFrames
    BY <1>1, FrameMoves
  <2> QED
    BY <2>1 DEF X!Assumption
<1>3. /\ Len(new) = L /\ new[1] = x /\ \A n \in 2 .. L : new[n] = fr[n]
  BY <1>1, FrameMoves
<1>4. x.of = f.of /\ x.taken = f.taken + 1 /\ f.taken \in Nat /\ f.of \in Objects
  BY <1>2 DEF Took, XmlFrames
<1>5. mine \in Docs
  <2> HIDE DEF x, L
  <2>1. x.taken <= Len(s[x.of].items)
    <3>1. Len(s[f.of].items) \in Nat /\ f.taken < Len(s[f.of].items)
      BY <1>4, ShapeTypes
    <3> QED
      BY <1>4, <3>1
  <2> QED
    BY <1>1, <1>2, <2>1, MissingSteps
<1>6. Missing(s, L, f) = first \o mine
  BY <1>1, <1>2, MissingSteps
<1>7. first \in Docs
  <2>1. X!Nodes(s)[Room - L] \in [Places -> Docs]
    BY <1>1, <1>2, MissingSteps, NodesDef
  <2>2. f.taken + 1 \in 1 .. Len(s[f.of].items)
    BY <1>4, ShapeTypes
  <2>3. s[f.of].items[f.taken + 1] \in Objects \union Scalars
    BY <1>4, <2>2, ShapeTypes
  <2>4. NameOf(f.name, f.taken + 1) \in Int /\ f.depth \in Nat
    BY <1>2, <2>2 DEF NameOf, XmlFrames
  <2> QED
    BY <2>1, <2>3, <2>4, NamedType
<1> HIDE DEF x, new, first, mine
<1>8. /\ c \in [0 .. L -> Docs] /\ c[0] = <<>>
      /\ \A j \in 1 .. L : c[j] = Missing(s, j, Level(fr, j)) \o c[j - 1]
  BY DEF WrittenBy
<1> HIDE DEF L
<1>9. L - 1 \in 0 .. L /\ L - 1 # L /\ 0 # L /\ L \in 0 .. L /\ 0 \in 0 .. L /\ L \in 1 .. L
  BY <1>2
<1>10. c[L - 1] \in Docs /\ mine \o c[L - 1] \in Docs
  <2>1. c[L - 1] \in Docs
    BY <1>8, <1>9
  <2> QED
    BY <1>5, <2>1 DEF Docs
<1>11. /\ c2 \in [0 .. L -> Docs] /\ c2[L] = mine \o c[L - 1]
       /\ \A j \in 0 .. L : j # L => c2[j] = c[j]
  BY <1>8, <1>9, <1>10
<1> HIDE DEF c2
<1>12. /\ Level(fr, L) = f /\ Level(new, L) = x
       /\ \A j \in 1 .. L : j # L => Level(new, j) = Level(fr, j)
  <2>1. L + 1 - L = 1
    BY <1>2
  <2>2. \A j \in 1 .. L : j # L => L + 1 - j \in 2 .. L
    BY <1>2
  <2> QED
    BY <1>3, <2>1, <2>2 DEF Level, L
<1>13. WrittenBy(c2, s, new)
  <2>1. \A j \in 1 .. L : c2[j] = Missing(s, j, Level(new, j)) \o c2[j - 1]
    <3> TAKE j \in 1 .. L
    <3>1. j \in 0 .. L /\ j - 1 \in 0 .. L /\ j - 1 # L
      BY <1>2
    <3>2. c2[j - 1] = c[j - 1]
      BY <1>11, <3>1
    <3>3. CASE j = L
      BY <1>11, <1>12, <3>2, <3>3 DEF mine
    <3>4. CASE j # L
      BY <1>8, <1>11, <1>12, <3>1, <3>2, <3>4
    <3> QED
      BY <3>3, <3>4
  <2>2. c2[0] = <<>>
    BY <1>8, <1>9, <1>11
  <2> QED
    BY <1>3, <1>11, <2>1, <2>2 DEF WrittenBy, L
<1>14. c[L] = first \o c2[L]
  <2>1. c[L] = (first \o mine) \o c[L - 1]
    BY <1>6, <1>8, <1>9, <1>12
  <2>2. (first \o mine) \o c[L - 1] = first \o (mine \o c[L - 1])
    <3> DEFINE rest == c[L - 1]
    <3>1. first \in Seq(XmlNodes) /\ mine \in Seq(XmlNodes) /\ rest \in Seq(XmlNodes)
      BY <1>5, <1>7, <1>10 DEF Docs
    <3> HIDE DEF rest
    <3>2. (first \o mine) \o rest = first \o (mine \o rest)
      BY <3>1, ConcatAssociative
    <3> QED
      BY <3>2 DEF rest
  <2> QED
    BY <1>11, <2>1, <2>2
<1> QED
  BY <1>10, <1>11, <1>13, <1>14 DEF x, new, first, L

\* A call that is made has to add the nodes for its object, and one that returns none.
LEMMA WrittenPush ==
    ASSUME X!Assumption, NEW s \in Shapes, NEW fr \in Seq(XmlFrames), fr # <<>>, Len(fr) < Room,
           NEW y \in XmlFrames, y.taken = 0, NEW c, WrittenBy(c, s, fr)
    PROVE  \E c2 : /\ WrittenBy(c2, s, <<y>> \o fr)
                   /\ c2[Len(fr) + 1] =
                        X!Nodes(s)[Room - Len(fr)][<<y.of, y.name, y.depth>>] \o c[Len(fr)]
<1> DEFINE new == <<y>> \o fr
           L == Len(fr)
           mine == Missing(s, L + 1, y)
           c2 == [j \in 0 .. L + 1 |-> IF j = L + 1 THEN mine \o c[L] ELSE c[j]]
<1>1. L \in Nat \ {0} /\ L + 1 \in 1 .. Room
  BY DEF X!Assumption
<1>2. Len(new) = L + 1 /\ new[1] = y /\ \A n \in 2 .. L + 1 : new[n] = fr[n - 1]
  BY FrameMoves
<1>3. mine \in Docs /\ mine = X!Nodes(s)[Room - L][<<y.of, y.name, y.depth>>]
  <2>1. y.taken <= Len(s[y.of].items)
    BY ShapeTypes DEF XmlFrames
  <2>2. L + 1 > 1 /\ (L + 1) - 1 = L
    BY <1>1
  <2> DEFINE j == L + 1
  <2>3. j \in 1 .. Room /\ j > 1 /\ j - 1 = L
    BY <1>1, <2>2
  <2> HIDE DEF j
  <2>4. /\ Missing(s, j, y) \in Docs
        /\ X!Nodes(s)[Room - (j - 1)][<<y.of, y.name, y.depth>>] = Missing(s, j, y)
    BY <2>1, <2>3, MissingSteps
  <2> QED
    BY <2>3, <2>4 DEF j
<1> HIDE DEF new, mine
<1>4. /\ c \in [0 .. L -> Docs] /\ c[0] = <<>>
      /\ \A j \in 1 .. L : c[j] = Missing(s, j, Level(fr, j)) \o c[j - 1]
  BY DEF WrittenBy
<1> HIDE DEF L
<1>5. L \in 0 .. L /\ L # L + 1 /\ 0 # L + 1 /\ 0 \in 0 .. L + 1 /\ (L + 1) - 1 = L
  BY <1>1
<1>6. mine \o c[L] \in Docs
  <2>1. c[L] \in Docs
    BY <1>4, <1>5
  <2> QED
    BY <1>3, <2>1 DEF Docs
<1>7. /\ c2 \in [0 .. L + 1 -> Docs] /\ c2[L + 1] = mine \o c[L]
      /\ \A j \in 0 .. L : c2[j] = c[j]
  <2>1. \A j \in 0 .. L + 1 : j = L + 1 \/ j \in 0 .. L
    BY <1>1
  <2>2. \A j \in 0 .. L : j # L + 1 /\ j \in 0 .. L + 1
    BY <1>1
  <2>3. L + 1 \in 0 .. L + 1
    BY <1>1
  <2>4. \A j \in 0 .. L + 1 : (IF j = L + 1 THEN mine \o c[L] ELSE c[j]) \in Docs
    BY <1>4, <1>6, <2>1
  <2> QED
    BY <2>2, <2>3, <2>4
<1> HIDE DEF c2
<1>8. Level(new, L + 1) = y /\ \A j \in 1 .. L : Level(new, j) = Level(fr, j)
  <2>1. (L + 1) + 1 - (L + 1) = 1
    BY <1>1
  <2>2. \A j \in 1 .. L : (L + 1) + 1 - j \in 2 .. L + 1 /\ ((L + 1) + 1 - j) - 1 = L + 1 - j
    BY <1>1
  <2> QED
    BY <1>2, <2>1, <2>2 DEF Level, L
<1>9. WrittenBy(c2, s, new)
  <2>1. \A j \in 1 .. L + 1 : c2[j] = Missing(s, j, Level(new, j)) \o c2[j - 1]
    <3> TAKE j \in 1 .. L + 1
    <3>1. CASE j = L + 1
      BY <1>5, <1>7, <1>8, <3>1 DEF mine
    <3>2. CASE j # L + 1
      <4>1. j \in 1 .. L /\ j \in 0 .. L /\ j - 1 \in 0 .. L
        BY <1>1, <3>2
      <4> QED
        BY <1>4, <1>7, <1>8, <4>1
    <3> QED
      BY <3>1, <3>2
  <2>2. c2[0] = <<>>
    BY <1>4, <1>5, <1>7
  <2> QED
    BY <1>2, <1>7, <2>1, <2>2 DEF WrittenBy
<1> QED
  BY <1>3, <1>7, <1>9 DEF new, L

\* A call that has added all returns: the others have to add what they had.
LEMMA WrittenTail ==
    ASSUME X!Assumption, NEW s \in Shapes, NEW fr \in Seq(XmlFrames), fr # <<>>, Len(fr) <= Room,
           fr[1].taken = Len(s[fr[1].of].items), NEW c, WrittenBy(c, s, fr)
    PROVE  \E c2 : WrittenBy(c2, s, Tail(fr)) /\ c2[Len(Tail(fr))] = c[Len(fr)]
<1> DEFINE f == fr[1]
           new == Tail(fr)
           L == Len(fr)
           c2 == [j \in 0 .. L - 1 |-> c[j]]
<1>1. L \in Nat \ {0} /\ f \in XmlFrames /\ Len(new) = L - 1 /\ \A n \in 1 .. L - 1 : new[n] = fr[n + 1]
  BY FrameMoves
<1>2. Missing(s, L, f) = <<>>
  <2>1. L \in 1 .. Room
    BY <1>1 DEF X!Assumption
  <2>2. f.taken <= Len(s[f.of].items)
    BY <1>1, ShapeTypes DEF XmlFrames
  <2> HIDE DEF L
  <2> QED
    BY <1>1, <2>1, <2>2, MissingSteps
<1> HIDE DEF new
<1>3. /\ c \in [0 .. L -> Docs] /\ c[0] = <<>>
      /\ \A j \in 1 .. L : c[j] = Missing(s, j, Level(fr, j)) \o c[j - 1]
  BY DEF WrittenBy
<1> HIDE DEF L
<1>4. L - 1 \in 0 .. L /\ L - 1 \in 0 .. L - 1 /\ L \in 1 .. L /\ L + 1 - L = 1 /\ 0 \in 0 .. L - 1
  BY <1>1
<1>5. c[L] = c[L - 1]
  <2>1. c[L - 1] \in Docs
    BY <1>3, <1>4
  <2>2. <<>> \o c[L - 1] = c[L - 1]
    BY <2>1 DEF Docs
  <2>3. Level(fr, L) = f
    BY <1>4 DEF Level, L
  <2> QED
    BY <1>2, <1>3, <1>4, <2>2, <2>3
<1>6. c2 \in [0 .. L - 1 -> Docs] /\ \A j \in 0 .. L - 1 : c2[j] = c[j]
  <2>1. \A j \in 0 .. L - 1 : j \in 0 .. L
    BY <1>1
  <2> QED
    BY <1>3, <2>1
<1> HIDE DEF c2
<1>7. \A j \in 1 .. L - 1 : Level(new, j) = Level(fr, j)
  <2> TAKE j \in 1 .. L - 1
  <2>1. (L - 1) + 1 - j \in 1 .. L - 1 /\ ((L - 1) + 1 - j) + 1 = L + 1 - j
    BY <1>1
  <2>2. new[(L - 1) + 1 - j] = fr[L + 1 - j]
    BY <1>1, <2>1
  <2> QED
    BY <1>1, <2>2 DEF Level, L
<1>8. WrittenBy(c2, s, new)
  <2>1. \A j \in 1 .. L - 1 : c2[j] = Missing(s, j, Level(new, j)) \o c2[j - 1]
    <3> TAKE j \in 1 .. L - 1
    <3>1. j \in 1 .. L /\ j \in 0 .. L - 1 /\ j - 1 \in 0 .. L - 1
      BY <1>1
    <3> QED
      BY <1>3, <1>6, <1>7, <3>1
  <2>2. c2[0] = <<>>
    BY <1>3, <1>4, <1>6
  <2> QED
    BY <1>1, <1>6, <2>1, <2>2 DEF WrittenBy
<1>9. c2[Len(new)] = c[L]
  BY <1>1, <1>4, <1>5, <1>6
<1> QED
  BY <1>8, <1>9 DEF new, L

-----------------------------------------------------------------------------
(* XML: every step adds what is to be added *)

\* None of the calls is at a string that was an array.
LEMMA UncoercedMoves ==
    ASSUME NEW fr \in Seq(XmlFrames), fr # <<>>, \A n \in 1 .. Len(fr) : ~fr[n].coerced
    PROVE  LET new == Now(fr, Took(fr[1], FALSE))
           IN  /\ \A n \in 1 .. Len(new) : ~new[n].coerced
               /\ \A y \in XmlFrames : ~y.coerced =>
                    \A n \in 1 .. Len(<<y>> \o new) : ~(<<y>> \o new)[n].coerced
               /\ \A n \in 1 .. Len(Tail(fr)) : ~Tail(fr)[n].coerced
<1> DEFINE x == Took(fr[1], FALSE)
           new == Now(fr, x)
           L == Len(fr)
<1>1. L \in Nat \ {0} /\ fr[1] \in XmlFrames
  BY FrameMoves
<1>2. x \in XmlFrames /\ ~x.coerced
  BY <1>1 DEF Took, XmlFrames
<1> HIDE DEF x
<1>3. /\ new \in Seq(XmlFrames) /\ new # <<>> /\ Len(new) = L /\ new[1] = x
      /\ \A n \in 2 .. L : new[n] = fr[n]
  BY <1>2, FrameMoves
<1> HIDE DEF new
<1>4. \A n \in 1 .. L : ~new[n].coerced
  <2> TAKE n \in 1 .. L
  <2>1. n = 1 \/ n \in 2 .. L
    BY <1>1
  <2> QED
    BY <1>2, <1>3, <2>1
<1>5. ASSUME NEW y \in XmlFrames, ~y.coerced
      PROVE  \A n \in 1 .. Len(<<y>> \o new) : ~(<<y>> \o new)[n].coerced
  <2> DEFINE all == <<y>> \o new
  <2>1. /\ Len(all) = Len(new) + 1 /\ all[1] = y /\ \A n \in 2 .. Len(new) + 1 : all[n] = new[n - 1]
    <3>1. new \in Seq(XmlFrames) /\ new # <<>>
      BY <1>3
    <3>2. \A u \in XmlFrames :
            /\ <<u>> \o new \in Seq(XmlFrames) /\ Len(<<u>> \o new) = Len(new) + 1
            /\ (<<u>> \o new)[1] = u
            /\ \A n \in 2 .. Len(new) + 1 : (<<u>> \o new)[n] = new[n - 1]
      BY <3>1, FrameMoves
    <3> QED
      BY <3>2
  <2> HIDE DEF all
  <2>2. \A n \in 1 .. Len(all) : ~all[n].coerced
    <3> TAKE n \in 1 .. Len(all)
    <3>1. n = 1 \/ (n \in 2 .. Len(new) + 1 /\ n - 1 \in 1 .. L)
      BY <1>1, <1>3, <2>1
    <3> QED
      BY <1>4, <1>5, <2>1, <3>1
  <2> QED
    BY <2>2 DEF all
<1>6. \A n \in 1 .. Len(Tail(fr)) : ~Tail(fr)[n].coerced
  <2>1. Len(Tail(fr)) = L - 1 /\ \A n \in 1 .. L - 1 : Tail(fr)[n] = fr[n + 1]
    BY FrameMoves
  <2>2. \A n \in 1 .. L - 1 : n + 1 \in 1 .. L
    BY <1>1
  <2> QED
    BY <2>1, <2>2
<1> QED
  BY <1>3, <1>4, <1>5, <1>6 DEF new, x

\* The next item of a call, and what it is.
ItemOf(s, f) == s[f.of].items[f.taken + 1]
NodeFor(s, f) == X!Node(f.depth, NameOf(f.name, f.taken + 1),
                        IF ItemOf(s, f) \in Objects THEN NoContent ELSE ItemOf(s, f))

\* The node for it is a node.
LEMMA NodeType ==
    ASSUME X!Assumption, NEW s \in Shapes, NEW f \in XmlFrames, f.taken < Len(s[f.of].items)
    PROVE  /\ ItemOf(s, f) \in Objects \union Scalars /\ NodeFor(s, f) \in XmlNodes
           /\ NameOf(f.name, f.taken + 1) \in Int /\ f.depth \in Nat
<1>1. f.of \in Objects /\ f.taken \in Nat /\ f.depth \in Nat /\ f.name \in Int
  BY DEF XmlFrames
<1>2. f.taken + 1 \in 1 .. Len(s[f.of].items)
  BY <1>1, ShapeTypes
<1>3. ItemOf(s, f) \in Objects \union Scalars
  BY <1>1, <1>2, ShapeTypes DEF ItemOf
<1>4. NameOf(f.name, f.taken + 1) \in Int
  BY <1>1, <1>2 DEF NameOf
<1> QED
  BY <1>1, <1>3, <1>4 DEF NodeFor, X!Node, XmlNodes

\* A value that is no object is added as a node.
LEMMA ExactTake ==
    ASSUME X!Assumption, NEW s \in Shapes, NEW v, NEW fr, FramesSound(s, v, fr), fr # <<>>,
           fr[1].taken < Len(s[fr[1].of].items), NEW d \in Docs, XmlExact(s, v, fr, d),
           ItemOf(s, fr[1]) \notin Objects
    PROVE  XmlExact(s, v, Now(fr, Took(fr[1], FALSE)), Append(d, NodeFor(s, fr[1])))
<1> DEFINE f == fr[1]
           new == Now(fr, Took(f, FALSE))
           node == NodeFor(s, f)
           L == Len(fr)
<1>1. fr \in Seq(XmlFrames) /\ Took(f, FALSE) \in XmlFrames /\ f \in XmlFrames
  <2>1. fr \in Seq(XmlFrames)
    BY DEF FramesSound
  <2>2. f \in XmlFrames
    BY <2>1, FrameMoves
  <2>3. f.taken + 1 \in Nat
    BY <2>2 DEF XmlFrames
  <2> QED
    BY <2>1, <2>2, <2>3 DEF Took, XmlFrames
<1>2. Len(new) = L
  BY <1>1, FrameMoves
<1>3. \A n \in 1 .. Len(new) : ~new[n].coerced
  BY <1>1, UncoercedMoves DEF XmlExact
<1>4. Caught(s, v, new)
  BY CaughtTake DEF XmlExact, ItemOf
<1>5. L <= Room
  BY DEF XmlExact, Written
<1>6. PICK c : WrittenBy(c, s, fr) /\ d \o c[L] = X!Document(s, v)
  BY DEF XmlExact, Written
<1>7. PICK c2 : /\ WrittenBy(c2, s, new) /\ c2[L] \in Docs
                /\ c[L] = X!Named(s, ItemOf(s, f), NameOf(f.name, f.taken + 1), f.depth,
                                  X!Nodes(s)[Room - L]) \o c2[L]
  BY <1>5, <1>6, WrittenNow DEF ItemOf
<1>8. X!Named(s, ItemOf(s, f), NameOf(f.name, f.taken + 1), f.depth, X!Nodes(s)[Room - L]) = <<node>>
  BY DEF X!Named, NodeFor
<1>9. d \o c[L] = Append(d, node) \o c2[L]
  <2> DEFINE r == c2[L]
  <2>1. node \in XmlNodes /\ d \in Seq(XmlNodes) /\ r \in Seq(XmlNodes)
    BY <1>1, <1>7, NodeType DEF Docs
  <2> HIDE DEF r, node
  <2>2. <<node>> \in Seq(XmlNodes) /\ Append(d, node) = d \o <<node>>
    BY <2>1
  <2>3. (d \o <<node>>) \o r = d \o (<<node>> \o r)
    BY <2>1, <2>2, ConcatAssociative
  <2>4. c[L] = <<node>> \o r
    BY <1>7, <1>8 DEF r
  <2> QED
    BY <2>2, <2>3, <2>4 DEF r
<1> HIDE DEF new, node
<1>10. Written(s, v, new, Append(d, node))
  BY <1>2, <1>5, <1>6, <1>7, <1>9 DEF Written
<1> QED
  BY <1>3, <1>4, <1>10 DEF XmlExact, new, node

\* An object or array is gone into, an object after the node for it.
LEMMA ExactPush ==
    ASSUME X!Assumption, NEW s \in Shapes, NEW v, NEW fr, FramesSound(s, v, fr), fr # <<>>,
           fr[1].taken < Len(s[fr[1].of].items), NEW d \in Docs, XmlExact(s, v, fr, d),
           ItemOf(s, fr[1]) \in Objects, Len(fr) < Room, NEW y \in XmlFrames,
           y = IF ArrayIn(s, ItemOf(s, fr[1]))
                 THEN X!Iterate(ItemOf(s, fr[1]), fr[1].depth, NameOf(fr[1].name, fr[1].taken + 1))
                 ELSE X!Walk(ItemOf(s, fr[1]), fr[1].depth + 1)
    PROVE  XmlExact(s, v, <<y>> \o Now(fr, Took(fr[1], FALSE)),
                    IF ArrayIn(s, ItemOf(s, fr[1])) THEN d ELSE Append(d, NodeFor(s, fr[1])))
<1> DEFINE f == fr[1]
           item == ItemOf(s, f)
           new == Now(fr, Took(f, FALSE))
           all == <<y>> \o new
           node == NodeFor(s, f)
           L == Len(fr)
           d2 == IF ArrayIn(s, item) THEN d ELSE Append(d, node)
           nodes == X!Nodes(s)[Room - L]
           inner == nodes[<<y.of, y.name, y.depth>>]
<1>1. fr \in Seq(XmlFrames) /\ Took(f, FALSE) \in XmlFrames /\ f \in XmlFrames
  <2>1. fr \in Seq(XmlFrames)
    BY DEF FramesSound
  <2>2. f \in XmlFrames
    BY <2>1, FrameMoves
  <2>3. f.taken + 1 \in Nat
    BY <2>2 DEF XmlFrames
  <2> QED
    BY <2>1, <2>2, <2>3 DEF Took, XmlFrames
<1>2. new \in Seq(XmlFrames) /\ new # <<>> /\ Len(new) = L /\ L \in Nat \ {0} /\ Room \in Nat
  BY <1>1, FrameMoves DEF X!Assumption
<1>3. y.of = item /\ y.taken = 0 /\ y.coerced = FALSE
  BY DEF X!Iterate, X!Walk, X!Frame
<1>4. Len(all) = L + 1
  <2>1. Len(all) = Len(new) + 1
    BY <1>2, FrameMoves
  <2> QED
    BY <1>2, <2>1
<1>5. \A n \in 1 .. Len(all) : ~all[n].coerced
  BY <1>1, <1>3, UncoercedMoves DEF XmlExact
<1>6. Caught(s, v, all)
  BY <1>3, CaughtTake DEF XmlExact
<1>7. L <= Room
  BY <1>2
<1>8. PICK c : WrittenBy(c, s, fr) /\ d \o c[L] = X!Document(s, v)
  BY DEF XmlExact, Written
<1>9. PICK c2 : /\ WrittenBy(c2, s, new) /\ c2[L] \in Docs
                /\ c[L] = X!Named(s, item, NameOf(f.name, f.taken + 1), f.depth, nodes) \o c2[L]
  BY <1>7, <1>8, WrittenNow DEF ItemOf
<1>10. PICK c3 : WrittenBy(c3, s, all) /\ c3[L + 1] = inner \o c2[L]
  <2>1. Len(new) < Room
    BY <1>2
  <2>2. \E c3 : /\ WrittenBy(c3, s, <<y>> \o new)
                /\ c3[Len(new) + 1] = X!Nodes(s)[Room - Len(new)][<<y.of, y.name, y.depth>>] \o c2[Len(new)]
    BY <1>2, <1>3, <1>9, <2>1, WrittenPush
  <2> QED
    BY <1>2, <2>2
<1>11. X!Named(s, item, NameOf(f.name, f.taken + 1), f.depth, nodes) =
        IF ArrayIn(s, item) THEN inner ELSE <<node>> \o inner
  <2>1. CASE ArrayIn(s, item)
    <3>1. y.name = NameOf(f.name, f.taken + 1) /\ y.depth = f.depth
      BY <2>1 DEF X!Iterate, X!Frame
    <3> QED
      BY <1>3, <2>1, <3>1 DEF X!Named, ArrayIn
  <2>2. CASE ~ArrayIn(s, item)
    <3>1. y.name = X!Root /\ y.depth = f.depth + 1
      BY <2>2 DEF X!Walk, X!Frame
    <3> QED
      BY <1>3, <2>2, <3>1 DEF X!Named, ArrayIn, NodeFor
  <2> QED
    BY <2>1, <2>2
<1>12. inner \in Docs
  <2>1. nodes \in [Places -> Docs]
    BY <1>2, NodesDef
  <2>2. <<y.of, y.name, y.depth>> \in Places
    BY DEF Places, XmlFrames
  <2> QED
    BY <2>1, <2>2
<1>13. node \in XmlNodes
  BY <1>1, NodeType
<1> HIDE DEF nodes, inner, node, all, new, item
<1>14. d \o c[L] = d2 \o c3[L + 1]
  <2> DEFINE r == c2[L]
  <2>1. d \in Seq(XmlNodes) /\ r \in Seq(XmlNodes) /\ inner \in Seq(XmlNodes)
    BY <1>9, <1>12 DEF Docs
  <2>2. <<node>> \in Seq(XmlNodes) /\ Append(d, node) = d \o <<node>>
    BY <1>13, <2>1
  <2> HIDE DEF r
  <2>3. CASE ArrayIn(s, item)
    BY <1>9, <1>10, <1>11, <2>3 DEF r
  <2>4. CASE ~ArrayIn(s, item)
    <3>1. c[L] = (<<node>> \o inner) \o r
      BY <1>9, <1>11, <2>4 DEF r
    <3>2. (<<node>> \o inner) \o r = <<node>> \o (inner \o r)
      BY <2>1, <2>2, ConcatAssociative
    <3>3. inner \o r \in Seq(XmlNodes)
      BY <2>1
    <3>4. (d \o <<node>>) \o (inner \o r) = d \o (<<node>> \o (inner \o r))
      BY <2>1, <2>2, <3>3, ConcatAssociative
    <3>5. d2 = d \o <<node>> /\ c3[L + 1] = inner \o r
      BY <1>10, <2>2, <2>4 DEF r
    <3> QED
      BY <3>1, <3>2, <3>4, <3>5
  <2> QED
    BY <2>3, <2>4
<1>15. Written(s, v, all, d2)
  <2>1. Len(all) <= Room
    BY <1>2, <1>4
  <2> QED
    BY <1>4, <1>8, <1>10, <1>14, <2>1 DEF Written
<1> QED
  BY <1>5, <1>6, <1>15 DEF XmlExact, all, new, item, node

\* A call returns when it has added all.
LEMMA ExactPop ==
    ASSUME X!Assumption, NEW s \in Shapes, NEW v, NEW fr, FramesSound(s, v, fr), fr # <<>>,
           fr[1].taken = Len(s[fr[1].of].items), NEW d \in Docs, XmlExact(s, v, fr, d)
    PROVE  XmlExact(s, v, Tail(fr), d)
<1>1. fr \in Seq(XmlFrames) /\ Len(fr) \in Nat \ {0} /\ Len(Tail(fr)) = Len(fr) - 1 /\ Len(fr) <= Room
      /\ Room \in Nat
  <2>1. fr \in Seq(XmlFrames) /\ Len(fr) <= Room /\ Room \in Nat
    BY DEF FramesSound, XmlExact, Written, X!Assumption
  <2> QED
    BY <2>1, FrameMoves
<1>2. \A n \in 1 .. Len(Tail(fr)) : ~Tail(fr)[n].coerced
  BY <1>1, UncoercedMoves DEF XmlExact
<1>3. Caught(s, v, Tail(fr))
  BY CaughtPop DEF XmlExact
<1>4. PICK c : WrittenBy(c, s, fr) /\ d \o c[Len(fr)] = X!Document(s, v)
  BY DEF XmlExact, Written
<1>5. PICK c2 : WrittenBy(c2, s, Tail(fr)) /\ c2[Len(Tail(fr))] = c[Len(fr)]
  BY <1>1, <1>4, WrittenTail
<1>6. Len(Tail(fr)) <= Room
  BY <1>1
<1> QED
  BY <1>2, <1>3, <1>4, <1>5, <1>6 DEF XmlExact, Written

-----------------------------------------------------------------------------
(* XML: the invariant is kept *)

\* There is a place of the value stack for each call and for the next one.
LEMMA CallsFit ==
    ASSUME X!Assumption, XmlInv, X!HasItem
    PROVE  Len(frames) < Room
<1> DEFINE All == DOMAIN frames
           W == X!Walks
           w == Cardinality(W)
           a == Cardinality(All \ W)
<1>1. frames \in Seq(XmlFrames)
  BY DEF XmlInv, XmlTyped, FramesSound
<1>5. X!Used = 2 + 3 * w + a - (IF X!InObject THEN 2 ELSE 1)
  <2>1. \A S : X!Cardinality(S) = Cardinality(S)
    BY DEF X!Cardinality, Cardinality
  <2> QED
    BY <2>1 DEF X!Used
<1>2. IsFiniteSet(All) /\ Cardinality(All) = Len(frames) /\ Len(frames) \in Nat
  <2>1. All = 1 .. Len(frames) /\ Len(frames) \in Nat
    BY <1>1
  <2> HIDE DEF All
  <2> QED
    BY <2>1, FS_Interval
<1>3. W \subseteq All
  BY DEF X!Walks
<1> HIDE DEF W, All
<1>4. w \in Nat /\ a \in Nat /\ w + a = Len(frames)
  <2>1. IsFiniteSet(W) /\ W \intersect All = W /\ All \intersect W = W
    BY <1>2, <1>3, FS_Subset
  <2>2. Cardinality(All \ W) = Cardinality(All) - Cardinality(All \intersect W) /\ IsFiniteSet(All \ W)
    BY <1>2, FS_Difference
  <2>3. w \in Nat /\ a \in Nat
    BY <2>1, <2>2, FS_CardinalityType
  <2>4. a = Len(frames) - w
    BY <1>2, <2>1, <2>2
  <2> HIDE DEF w, a
  <2> QED
    BY <1>2, <2>3, <2>4
<1>6. X!Used + (IF X!InObject THEN 2 ELSE 1) <= Room /\ Room \in Nat
  BY DEF X!HasItem, X!Assumption
<1> HIDE DEF w, a
<1> DEFINE u == X!Used
<1>7. CASE X!InObject
  <2>1. u = 2 + 3 * w + a - 2 /\ u + 2 <= Room
    BY <1>5, <1>6, <1>7
  <2> HIDE DEF u
  <2> QED
    BY <1>4, <1>6, <2>1
<1>8. CASE ~X!InObject
  <2>1. u = 2 + 3 * w + a - 1 /\ u + 1 <= Room
    BY <1>5, <1>6, <1>8
  <2> HIDE DEF u
  <2> QED
    BY <1>4, <1>6, <2>1
<1> QED
  BY <1>7, <1>8

\* A call at an item.
LEMMA HasItemFacts ==
    ASSUME X!Assumption, XmlInv, X!HasItem
    PROVE  /\ heap \in Shapes /\ FramesSound(heap, value, frames) /\ frames # <<>> /\ walking = "walk"
           /\ frames \in Seq(XmlFrames) /\ frames[1] \in XmlFrames /\ X!Top = frames[1]
           /\ X!Item = ItemOf(heap, frames[1])
           /\ frames[1].taken < Len(heap[frames[1].of].items)
           /\ X!Name = NameOf(frames[1].name, frames[1].taken + 1)
           /\ X!InObject <=> frames[1].fun = "walk_object"
           /\ frames[1].taken \in Nat /\ frames[1].of \in Objects
           /\ FrameSound(heap, value, frames, 1)
<1>1. heap \in Shapes /\ FramesSound(heap, value, frames) /\ frames # <<>> /\ walking = "walk"
  BY DEF XmlInv, XmlTyped, X!HasItem, X!Active
<1>2. frames \in Seq(XmlFrames)
  BY <1>1 DEF FramesSound
<1>3. frames[1] \in XmlFrames /\ X!Top = frames[1] /\ 1 \in 1 .. Len(frames)
  <2>1. frames[1] \in XmlFrames /\ Head(frames) = frames[1] /\ Len(frames) \in Nat \ {0}
    BY <1>1, <1>2, FrameMoves
  <2> QED
    BY <2>1 DEF X!Top
<1>4. FrameSound(heap, value, frames, 1)
  BY <1>1, <1>3 DEF FramesSound, FrameSound
<1>5. X!Item = ItemOf(heap, frames[1]) /\ frames[1].taken < Len(heap[frames[1].of].items)
  BY <1>3 DEF X!Item, ItemOf, X!HasItem
<1>6. X!InObject <=> frames[1].fun = "walk_object"
  BY <1>3 DEF X!InObject
<1>7. X!Name = NameOf(frames[1].name, frames[1].taken + 1)
  BY <1>3, <1>4, <1>6 DEF X!Name, NameOf, FrameSound
<1>8. frames[1].taken \in Nat /\ frames[1].of \in Objects
  BY <1>3 DEF XmlFrames
<1> QED
  BY <1>1, <1>2, <1>3, <1>4, <1>5, <1>6, <1>7, <1>8

\* The calls after the latest one has taken an item.
LEMMA TakenFacts ==
    ASSUME frames \in Seq(XmlFrames), frames # <<>>
    PROVE  /\ X!Taken = Now(frames, Took(frames[1], frames[1].coerced))
           /\ [X!Taken EXCEPT ![1].coerced = TRUE] = Now(frames, Took(frames[1], TRUE))
<1> DEFINE f == frames[1]
           taken == [f EXCEPT !.taken = @ + 1]
<1>1. 1 \in DOMAIN frames /\ f \in XmlFrames /\ f.taken + 1 \in Nat
  <2>1. Len(frames) \in Nat \ {0} /\ f \in XmlFrames
    BY FrameMoves
  <2> QED
    BY <2>1 DEF XmlFrames
<1>2. f = [fun |-> f.fun, of |-> f.of, depth |-> f.depth, name |-> f.name, taken |-> f.taken,
           coerced |-> f.coerced]
  BY <1>1 DEF XmlFrames
<1>3. taken = Took(f, f.coerced)
  BY <1>2 DEF Took
<1>6. [taken EXCEPT !.coerced = TRUE] = Took(f, TRUE)
  <2>1. \A b : [[fun |-> f.fun, of |-> f.of, depth |-> f.depth, name |-> f.name, taken |-> f.taken + 1,
                 coerced |-> f.coerced] EXCEPT !.coerced = b] =
                [fun |-> f.fun, of |-> f.of, depth |-> f.depth, name |-> f.name, taken |-> f.taken + 1,
                 coerced |-> b]
    OBVIOUS
  <2> HIDE DEF taken
  <2>2. [Took(f, f.coerced) EXCEPT !.coerced = TRUE] = Took(f, TRUE)
    BY <2>1 DEF Took
  <2> QED
    BY <1>3, <2>2
<1>4. X!Taken = [frames EXCEPT ![1] = taken]
  BY DEF X!Taken
<1> HIDE DEF taken
<1>5. [X!Taken EXCEPT ![1].coerced = TRUE] = [frames EXCEPT ![1] = [taken EXCEPT !.coerced = TRUE]]
  <2>1. X!Taken[1] = taken
    BY <1>1, <1>4
  <2> QED
    BY <1>1, <1>4, <2>1
<1> QED
  BY <1>3, <1>4, <1>5, <1>6 DEF Now

\* It holds at first.
LEMMA XmlInit ==
    ASSUME X!Assumption, X!Init
    PROVE  XmlInv
<1>1. /\ heap \in Shapes /\ value \in Inputs /\ walking = "script" /\ frames = <<>> /\ doc = <<>>
      /\ missed = FALSE
  BY DEF X!Init
<1>2. FramesSound(heap, value, frames)
  <2>1. <<>> \in Seq(XmlFrames) /\ Len(<<>>) = 0
    OBVIOUS
  <2> QED
    BY <1>1, <2>1 DEF FramesSound
<1>3. doc \in Docs
  BY <1>1 DEF Docs
<1> QED
  BY <1>1, <1>2, <1>3 DEF XmlInv, XmlTyped

\* It is kept when nothing is added, and no call goes on.
LEMMA XmlQuiet ==
    ASSUME XmlInv, X!Refuse \/ X!Throw \/ X!Finish
    PROVE  XmlInv'
<1>1. UNCHANGED <<heap, value, frames, doc, missed>> /\ walking' \in {"thrown", "returned"}
      /\ (walking' = "returned" => frames = <<>> /\ walking = "walk")
  BY DEF X!Refuse, X!Throw, X!Finish
<1>2. XmlTyped'
  <2>1. FramesSound(heap, value, frames)'
    BY <1>1 DEF XmlInv, XmlTyped
  <2> QED
    BY <1>1, <2>1 DEF XmlInv, XmlTyped
<1>3. ASSUME ~missed', ~NestedIn(heap, value)', walking' \in {"walk", "returned"}
      PROVE  XmlExact(heap, value, frames, doc)'
  BY <1>1, <1>3 DEF XmlInv
<1> QED
  BY <1>2, <1>3 DEF XmlInv

\* The root is the only call there is, or there is none.
LEMMA RootExact ==
    ASSUME X!Assumption, NEW s \in Shapes, NEW v \in Objects \union Scalars
    PROVE  /\ v \in Objects => /\ FramesSound(s, v, <<X!Walk(v, 1)>>)
                               /\ XmlExact(s, v, <<X!Walk(v, 1)>>, <<X!Node(0, X!Root, NoContent)>>)
           /\ v \notin Objects => XmlExact(s, v, <<>>, <<X!Node(0, X!Root, v)>>)
           /\ FramesSound(s, v, <<>>)
           /\ \A content \in Scalars \union {NoContent} : <<X!Node(0, X!Root, content)>> \in Docs
<1>1. Room \in Nat \ {0}
  BY DEF X!Assumption
<1>2. FramesSound(s, v, <<>>)
  <2>1. <<>> \in Seq(XmlFrames) /\ Len(<<>>) = 0
    OBVIOUS
  <2> QED
    BY <2>1 DEF FramesSound
<1>3. ASSUME NEW content \in Scalars \union {NoContent} PROVE <<X!Node(0, X!Root, content)>> \in Docs
  <2>1. X!Node(0, X!Root, content) \in XmlNodes
    BY DEF X!Node, X!Root, XmlNodes
  <2> QED
    BY <2>1 DEF Docs
<1>4. ASSUME v \in Objects
      PROVE  /\ FramesSound(s, v, <<X!Walk(v, 1)>>)
             /\ XmlExact(s, v, <<X!Walk(v, 1)>>, <<X!Node(0, X!Root, NoContent)>>)
  <2> DEFINE y == X!Walk(v, 1)
             fr == <<y>>
             d == <<X!Node(0, X!Root, NoContent)>>
             mine == Missing(s, 1, y)
             c == [j \in 0 .. 1 |-> IF j = 0 THEN <<>> ELSE mine]
  <2>1. /\ y.of = v /\ y.taken = 0 /\ y.fun = "walk_object" /\ y.name = X!Root /\ y.depth = 1
        /\ y.coerced = FALSE
    BY DEF X!Walk, X!Frame
  <2>2. y \in XmlFrames
    BY <1>4 DEF X!Walk, X!Frame, X!Root, XmlFrames
  <2> HIDE DEF y
  <2>3. fr \in Seq(XmlFrames) /\ Len(fr) = 1 /\ fr[1] = y /\ fr # <<>>
    BY <2>2
  <2>4. v \in PartsOf(s, v) /\ 0 <= Len(s[v].items)
    BY <1>4, PartsClosed, ShapeTypes
  <2>5. FramesSound(s, v, fr)
    <3>1. FrameSound(s, v, fr, 1)
      BY <2>1, <2>3, <2>4 DEF FrameSound
    <3>2. \A n \in 1 .. Len(fr) : n = 1
      BY <2>3
    <3> QED
      BY <2>3, <3>1, <3>2 DEF FramesSound, FrameSound
  <2>6. mine \in Docs /\ X!Nodes(s)[Room][<<v, X!Root, 1>>] = mine
    <3>1. 1 \in 1 .. Room /\ y.taken <= Len(s[y.of].items)
      BY <1>1, <2>1, <2>4
    <3> QED
      BY <2>1, <2>2, <3>1, MissingSteps
  <2> HIDE DEF mine, fr
  <2>7. Caught(s, v, fr)
    <3>1. \A n \in 1 .. Len(fr) : fr[n].taken = 0
      BY <2>1, <2>3
    <3> QED
      BY <2>3, <3>1 DEF Caught
  <2>8. WrittenBy(c, s, fr)
    <3>1. c \in [0 .. Len(fr) -> Docs] /\ c[0] = <<>> /\ c[1] = mine
      <4>1. <<>> \in Docs
        BY DEF Docs
      <4> QED
        BY <2>3, <2>6, <4>1
    <3> HIDE DEF c
    <3>2. mine = mine \o <<>>
      BY <2>6, EmptySeq DEF Docs
    <3>3. Level(fr, 1) = y
      BY <2>3 DEF Level
    <3>4. c[1] = Missing(s, 1, Level(fr, 1)) \o c[1 - 1]
      BY <3>1, <3>2, <3>3 DEF mine
    <3>5. \A j \in 1 .. Len(fr) : j = 1
      BY <2>3
    <3> QED
      BY <3>1, <3>4, <3>5 DEF WrittenBy
  <2>9. d \o c[Len(fr)] = X!Document(s, v)
    <3>1. c[Len(fr)] = mine
      BY <2>3
    <3> QED
      BY <1>4, <2>6, <3>1 DEF X!Document
  <2>10. Written(s, v, fr, d)
    <3> HIDE DEF c, d
    <3> QED
      BY <1>1, <2>3, <2>8, <2>9 DEF Written
  <2>11. \A n \in 1 .. Len(fr) : ~fr[n].coerced
    BY <2>1, <2>3
  <2> QED
    BY <2>5, <2>7, <2>10, <2>11 DEF XmlExact, fr, y
<1>5. ASSUME v \notin Objects
      PROVE  XmlExact(s, v, <<>>, <<X!Node(0, X!Root, v)>>)
  <2> DEFINE c == [j \in 0 .. 0 |-> <<>>]
             d == <<X!Node(0, X!Root, v)>>
  <2>1. Len(<<>>) = 0
    OBVIOUS
  <2>2. WrittenBy(c, s, <<>>)
    <3>1. <<>> \in Docs
      BY DEF Docs
    <3> QED
      BY <2>1, <3>1 DEF WrittenBy
  <2>3. d \in Docs
    BY <1>3, <1>5
  <2>4. d \o c[0] = X!Document(s, v)
    <3>1. d \o <<>> = d
      <4> HIDE DEF d
      <4> QED
        BY <2>3, EmptySeq DEF Docs
    <3>2. c[0] = <<>>
      OBVIOUS
    <3> QED
      BY <1>5, <3>1, <3>2 DEF X!Document
  <2> HIDE DEF c, d
  <2>5. Written(s, v, <<>>, d)
    BY <1>1, <2>1, <2>2, <2>4 DEF Written
  <2>6. Caught(s, v, <<>>)
    BY <1>5 DEF Caught, Endless
  <2> QED
    BY <2>1, <2>5, <2>6 DEF XmlExact, d
<1> QED
  BY <1>2, <1>3, <1>4, <1>5

\* It is kept when the root is added.
LEMMA XmlBegin ==
    ASSUME X!Assumption, XmlInv, X!Begin
    PROVE  XmlInv'
<1>1. /\ heap \in Shapes /\ value \in Objects \union Scalars /\ value \in Inputs /\ frames = <<>>
      /\ doc = <<>> /\ doc \in Docs /\ missed \in BOOLEAN /\ FramesSound(heap, value, frames)
  BY DEF XmlInv, XmlTyped, X!Begin, X!Assumption
<1>2. walking' = "walk" /\ heap' = heap /\ value' = value
  BY DEF X!Begin
<1>3. CASE missed' = TRUE /\ UNCHANGED <<doc, frames>>
  <2>1. FramesSound(heap, value, frames)'
    BY <1>1, <1>2, <1>3
  <2> QED
    BY <1>1, <1>2, <1>3, <2>1 DEF XmlInv, XmlTyped
<1>4. CASE /\ doc' = <<X!Node(0, X!Root, IF X!IsObject(value) THEN NoContent ELSE value)>>
           /\ frames' = IF X!IsObject(value) THEN <<X!Walk(value, 1)>> ELSE <<>>
           /\ UNCHANGED missed
  <2>1. FramesSound(heap', value', frames') /\ doc' \in Docs /\ XmlExact(heap', value', frames', doc')
    <3>1. CASE value \in Objects
      <4>1. doc' = <<X!Node(0, X!Root, NoContent)>> /\ frames' = <<X!Walk(value, 1)>>
        BY <1>4, <3>1 DEF X!IsObject
      <4> QED
        BY <1>1, <1>2, <3>1, <4>1, RootExact
    <3>2. CASE value \notin Objects
      <4>1. doc' = <<X!Node(0, X!Root, value)>> /\ frames' = <<>>
        BY <1>4, <3>2 DEF X!IsObject
      <4>2. value \in Scalars
        BY <1>1, <3>2
      <4> QED
        BY <1>1, <1>2, <3>2, <4>1, <4>2, RootExact
    <3> QED
      BY <3>1, <3>2
  <2> QED
    BY <1>1, <1>2, <1>4, <2>1 DEF XmlInv, XmlTyped
<1> QED
  BY <1>3, <1>4 DEF X!Begin

\* What is left to show of a step of the calls.
LEMMA XmlStep ==
    ASSUME XmlInv, walking = "walk", UNCHANGED <<heap, walking, value>>,
           FramesSound(heap, value, frames'), doc' \in Docs, missed' \in BOOLEAN,
           ~missed' => ~missed,
           ~missed' /\ ~NestedIn(heap, value) /\ XmlExact(heap, value, frames, doc) =>
                XmlExact(heap, value, frames', doc')
    PROVE  XmlInv'
<1>1. XmlTyped'
  <2>1. FramesSound(heap, value, frames)'
    OBVIOUS
  <2> QED
    BY <2>1 DEF XmlInv, XmlTyped
<1>2. ASSUME ~missed', ~NestedIn(heap, value)' PROVE XmlExact(heap, value, frames, doc)'
  <2>1. ~NestedIn(heap, value) /\ XmlExact(heap, value, frames, doc)
    BY <1>2 DEF XmlInv
  <2> QED
    BY <1>2, <2>1
<1> QED
  BY <1>1, <1>2 DEF XmlInv

\* The calls are sound when the latest one goes into its item.
LEMMA FramesInto ==
    ASSUME X!Assumption, NEW s \in Shapes, NEW v, NEW fr, FramesSound(s, v, fr), fr # <<>>,
           fr[1].taken < Len(s[fr[1].of].items), NEW string \in BOOLEAN,
           NEW y \in XmlFrames, y.taken = 0, y.of = ItemOf(s, fr[1]),
           y.fun = "walk_object" <=> y.name = X!Root,
           ArrayIn(s, y.of) <=> y.fun = "iterate_array"
    PROVE  FramesSound(s, v, <<y>> \o Now(fr, Took(fr[1], string)))
<1> DEFINE x == Took(fr[1], string)
           new == Now(fr, x)
<1>1. x \in XmlFrames /\ FramesSound(s, v, new) /\ fr \in Seq(XmlFrames)
  BY FramesTake DEF FramesSound
<1>2. x.taken = fr[1].taken + 1 /\ x.of = fr[1].of /\ fr[1].taken \in Nat
  <2>1. fr[1] \in XmlFrames
    BY <1>1, FrameMoves
  <2> QED
    BY <2>1 DEF Took, XmlFrames
<1> HIDE DEF x
<1>3. new # <<>> /\ new[1] = x
  BY <1>1, FrameMoves
<1> HIDE DEF new
<1>4. new[1].taken >= 1 /\ s[new[1].of].items[new[1].taken] = y.of
  BY <1>2, <1>3 DEF ItemOf
<1>5. FramesSound(s, v, <<y>> \o new)
  BY <1>1, <1>3, <1>4, FramesPush
<1> QED
  BY <1>5 DEF new, x

\* It is kept when a node is added for a value that is no array.
LEMMA XmlAddNode ==
    ASSUME X!Assumption, XmlInv, X!AddNode
    PROVE  XmlInv'
<1> DEFINE f == frames[1]
           item == ItemOf(heap, f)
           node == NodeFor(heap, f)
           y == X!Walk(item, f.depth + 1)
<1>1. X!HasItem /\ ~X!Top.coerced /\ ~X!IsArray(X!Item) /\ UNCHANGED <<heap, walking, value>>
  BY DEF X!AddNode
<1>2. /\ heap \in Shapes /\ FramesSound(heap, value, frames) /\ frames # <<>> /\ walking = "walk"
      /\ frames \in Seq(XmlFrames) /\ f \in XmlFrames /\ X!Top = f /\ X!Item = item
      /\ f.taken < Len(heap[f.of].items)
      /\ X!Name = NameOf(f.name, f.taken + 1)
  BY <1>1, HasItemFacts
<1>3. X!Taken = Now(frames, Took(f, f.coerced)) /\ f.coerced = FALSE /\ f.coerced \in BOOLEAN
  <2>1. f.coerced \in BOOLEAN
    BY <1>2 DEF XmlFrames
  <2> QED
    BY <1>1, <1>2, <2>1, TakenFacts
<1>4. ~ArrayIn(heap, item)
  BY <1>1, <1>2 DEF X!IsArray, ArrayIn
<1>5. item \in Objects \union Scalars /\ node \in XmlNodes /\ f.depth \in Nat
  BY <1>2, NodeType
<1>6. X!Node(X!Top.depth, X!Name, IF X!IsObject(X!Item) THEN NoContent ELSE X!Item) = node
  BY <1>2 DEF NodeFor, X!IsObject
<1>7. FramesSound(heap, value, X!Taken)
  BY <1>2, <1>3, FramesTake
<1>8. doc \in Docs /\ missed \in BOOLEAN /\ Append(doc, node) \in Docs
  <2>1. doc \in Docs /\ missed \in BOOLEAN
    BY DEF XmlInv, XmlTyped
  <2> HIDE DEF node
  <2> QED
    BY <1>5, <2>1 DEF Docs
<1>9. CASE missed' = TRUE /\ frames' = X!Taken /\ UNCHANGED doc
  BY <1>1, <1>2, <1>7, <1>8, <1>9, XmlStep
<1>10. CASE item \notin Objects /\ doc' = Append(doc, node) /\ frames' = X!Taken /\ UNCHANGED missed
  <2>1. XmlExact(heap, value, frames, doc) => XmlExact(heap, value, frames', doc')
    <3>1. X!Taken = Now(frames, Took(f, FALSE))
      BY <1>3
    <3> QED
      BY <1>2, <1>8, <1>10, <3>1, ExactTake
  <2> HIDE DEF node
  <2> QED
    BY <1>1, <1>2, <1>7, <1>8, <1>10, <2>1, XmlStep
<1>11. CASE item \in Objects /\ doc' = Append(doc, node) /\ frames' = <<y>> \o X!Taken /\ UNCHANGED missed
  <2>1. /\ y.of = item /\ y.taken = 0 /\ y.fun = "walk_object" /\ y.name = X!Root
        /\ y.fun # "iterate_array"
    BY DEF X!Walk, X!Frame
  <2>2. y \in XmlFrames
    BY <1>5, <1>11 DEF X!Walk, X!Frame, X!Root, XmlFrames
  <2>3. FramesSound(heap, value, frames')
    <3> HIDE DEF y
    <3> QED
      BY <1>2, <1>3, <1>4, <1>11, <2>1, <2>2, FramesInto
  <2>4. XmlExact(heap, value, frames, doc) => XmlExact(heap, value, frames', doc')
    <3>1. X!Taken = Now(frames, Took(f, FALSE)) /\ Len(frames) < Room
      BY <1>1, <1>3, CallsFit
    <3>2. y = IF ArrayIn(heap, item) THEN X!Iterate(item, f.depth, NameOf(f.name, f.taken + 1))
                ELSE X!Walk(item, f.depth + 1)
      BY <1>4
    <3>3. doc' = IF ArrayIn(heap, item) THEN doc ELSE Append(doc, node)
      BY <1>4, <1>11
    <3> SUFFICES ASSUME XmlExact(heap, value, frames, doc) PROVE XmlExact(heap, value, frames', doc')
      OBVIOUS
    <3> HIDE DEF y
    <3>4. XmlExact(heap, value, <<y>> \o Now(frames, Took(f, FALSE)),
                   IF ArrayIn(heap, item) THEN doc ELSE Append(doc, node))
      BY <1>2, <1>8, <1>11, <2>2, <3>1, <3>2, ExactPush
    <3> QED
      BY <1>11, <3>1, <3>3, <3>4
  <2> HIDE DEF node, y
  <2> QED
    BY <1>1, <1>2, <1>8, <1>11, <2>3, <2>4, XmlStep
<1>12. \/ missed' = TRUE /\ frames' = X!Taken /\ UNCHANGED doc
       \/ /\ doc' = Append(doc, node) /\ UNCHANGED missed
          /\ frames' = IF item \in Objects THEN <<y>> \o X!Taken ELSE X!Taken
  <2>1. X!Top.depth = f.depth /\ (X!IsObject(X!Item) <=> item \in Objects)
    BY <1>2 DEF X!IsObject
  <2> QED
    BY <1>2, <1>6, <2>1 DEF X!AddNode
<1> QED
  BY <1>9, <1>10, <1>11, <1>12

\* Where no array is in an array, no element of one that is not the root is an array.
LEMMA NestedItem ==
    ASSUME X!Assumption, NEW s \in Shapes, NEW v, NEW fr, FramesSound(s, v, fr), fr # <<>>,
           fr[1].fun = "iterate_array", fr[1].taken < Len(s[fr[1].of].items),
           ArrayIn(s, ItemOf(s, fr[1]))
    PROVE  NestedIn(s, v)
<1> DEFINE f == fr[1]
           g == fr[2]
           item == ItemOf(s, f)
           L == Len(fr)
<1>1. fr \in Seq(XmlFrames) /\ \A n \in 1 .. L : FrameSound(s, v, fr, n)
  BY DEF FramesSound, FrameSound
<1>2. L \in Nat \ {0} /\ f \in XmlFrames
  BY <1>1, FrameMoves
<1>3. FrameSound(s, v, fr, 1)
  BY <1>1, <1>2
<1>4. 1 < L
  <2>1. 1 # L
    BY <1>3 DEF FrameSound
  <2> HIDE DEF L
  <2> QED
    BY <1>2, <2>1
<1>5. f.of \in PartsOf(s, v) /\ ArrayIn(s, f.of)
  BY <1>3, <1>4 DEF FrameSound
<1>6. f.of \in Objects /\ item \in Objects /\ f.taken + 1 \in DOMAIN s[f.of].items
  <2>1. f.of \in Objects /\ f.taken \in Nat
    BY <1>2 DEF XmlFrames
  <2>2. s[f.of].items \in Seq(Objects \union Scalars)
    BY <2>1 DEF X!Assumption
  <2> QED
    BY <2>1, <2>2 DEF ArrayIn
<1>7. HoldsIn(s, f.of, item)
  BY <1>6 DEF HoldsIn, ItemOf
<1>8. item \in PartsOf(s, v)
  BY <1>5, <1>6, <1>7, PartsClosed
<1>9. g.of \in PartsOf(s, v) /\ HoldsIn(s, g.of, f.of)
  <2>1. 2 \in 1 .. L /\ 2 > 1 /\ 2 - 1 = 1
    BY <1>2, <1>4
  <2>2. FrameSound(s, v, fr, 2)
    BY <1>1, <2>1
  <2>3. g.taken >= 1 /\ s[g.of].items[g.taken] = f.of /\ g.of \in PartsOf(s, v)
        /\ g.taken <= Len(s[g.of].items)
    BY <2>1, <2>2 DEF FrameSound
  <2>4. g \in XmlFrames
    BY <1>1, <2>1
  <2>5. g.of \in Objects /\ g.taken \in Nat
    BY <2>4 DEF XmlFrames
  <2>6. s[g.of].items \in Seq(Objects \union Scalars)
    BY <2>5 DEF X!Assumption
  <2>7. g.taken \in DOMAIN s[g.of].items
    BY <2>3, <2>5, <2>6
  <2> QED
    BY <2>3, <2>7 DEF HoldsIn
<1> QED
  BY <1>5, <1>7, <1>8, <1>9 DEF NestedIn

\* It is kept when an array is gone into.
LEMMA XmlDescend ==
    ASSUME X!Assumption, XmlInv, X!Descend
    PROVE  XmlInv'
<1> DEFINE f == frames[1]
           item == ItemOf(heap, f)
           name == IF X!InObject THEN NameOf(f.name, f.taken + 1) ELSE X!Joined
           y == X!Iterate(item, f.depth, name)
<1>1. X!HasItem /\ ~X!Top.coerced /\ X!IsArray(X!Item) /\ UNCHANGED <<heap, walking, value, doc, missed>>
  BY DEF X!Descend
<1>2. /\ heap \in Shapes /\ FramesSound(heap, value, frames) /\ frames # <<>> /\ walking = "walk"
      /\ frames \in Seq(XmlFrames) /\ f \in XmlFrames /\ X!Top = f /\ X!Item = item
      /\ f.taken < Len(heap[f.of].items)
      /\ X!Name = NameOf(f.name, f.taken + 1) /\ (X!InObject <=> f.fun = "walk_object")
      /\ f.taken \in Nat /\ FrameSound(heap, value, frames, 1)
  BY <1>1, HasItemFacts
<1>3. /\ X!Taken = Now(frames, Took(f, f.coerced)) /\ f.coerced = FALSE /\ f.coerced \in BOOLEAN
      /\ [X!Taken EXCEPT ![1].coerced = TRUE] = Now(frames, Took(f, TRUE))
  <2>1. f.coerced \in BOOLEAN
    BY <1>2 DEF XmlFrames
  <2> QED
    BY <1>1, <1>2, <2>1, TakenFacts
<1>4. ArrayIn(heap, item) /\ item \in Objects
  BY <1>1, <1>2 DEF X!IsArray, ArrayIn
<1>5. name \in Int /\ name # X!Root /\ f.depth \in Nat
  <2>1. CASE X!InObject
    <3>1. f.name = X!Root
      BY <1>2, <2>1 DEF FrameSound
    <3> QED
      BY <1>2, <2>1, <3>1 DEF NameOf, X!Root, XmlFrames
  <2>2. CASE ~X!InObject
    BY <1>2, <2>2 DEF X!Joined, X!Root, XmlFrames
  <2> QED
    BY <2>1, <2>2
<1> HIDE DEF name
<1>6. /\ y.of = item /\ y.taken = 0 /\ y.fun = "iterate_array" /\ y.name = name /\ y.fun # "walk_object"
  BY DEF X!Iterate, X!Frame
<1>7. y \in XmlFrames
  BY <1>4, <1>5 DEF X!Iterate, X!Frame, XmlFrames
<1>8. doc \in Docs /\ missed \in BOOLEAN /\ doc' = doc /\ missed' = missed
  BY <1>1 DEF XmlInv, XmlTyped
<1>9. CASE X!InObject
  <2>1. frames' = <<y>> \o X!Taken
    BY <1>2, <1>9 DEF X!Descend, name
  <2>2. FramesSound(heap, value, frames')
    <3> HIDE DEF y
    <3> QED
      BY <1>2, <1>3, <1>4, <1>5, <1>6, <1>7, <2>1, FramesInto
  <2>3. XmlExact(heap, value, frames, doc) => XmlExact(heap, value, frames', doc')
    <3>1. X!Taken = Now(frames, Took(f, FALSE)) /\ Len(frames) < Room
      BY <1>1, <1>3, CallsFit
    <3>2. y = IF ArrayIn(heap, item) THEN X!Iterate(item, f.depth, NameOf(f.name, f.taken + 1))
                ELSE X!Walk(item, f.depth + 1)
      BY <1>4, <1>9 DEF name
    <3> SUFFICES ASSUME XmlExact(heap, value, frames, doc) PROVE XmlExact(heap, value, frames', doc')
      OBVIOUS
    <3> HIDE DEF y
    <3>3. XmlExact(heap, value, <<y>> \o Now(frames, Took(f, FALSE)),
                   IF ArrayIn(heap, item) THEN doc ELSE Append(doc, NodeFor(heap, f)))
      BY <1>2, <1>4, <1>7, <1>8, <3>1, <3>2, ExactPush
    <3> QED
      BY <1>4, <1>8, <2>1, <3>1, <3>3
  <2> HIDE DEF y
  <2> QED
    BY <1>1, <1>2, <1>8, <2>2, <2>3, XmlStep
<1>10. CASE ~X!InObject
  <2>1. frames' = <<y>> \o Now(frames, Took(f, TRUE))
    BY <1>2, <1>3, <1>10 DEF X!Descend, name
  <2>2. FramesSound(heap, value, frames')
    <3> HIDE DEF y
    <3>1. \A b \in BOOLEAN : FramesSound(heap, value, <<y>> \o Now(frames, Took(f, b)))
      BY <1>2, <1>4, <1>5, <1>6, <1>7, FramesInto
    <3> QED
      BY <2>1, <3>1
  <2>3. NestedIn(heap, value)
    <3>1. f.fun = "iterate_array"
      BY <1>2, <1>10 DEF XmlFrames
    <3> QED
      BY <1>2, <1>4, <3>1, NestedItem
  <2> QED
    BY <1>1, <1>2, <1>8, <2>2, <2>3, XmlStep
<1> QED
  BY <1>9, <1>10

\* It is kept when a character of a string that was an array is added.
LEMMA XmlAddCharacter ==
    ASSUME X!Assumption, XmlInv, X!AddCharacter
    PROVE  XmlInv'
<1> DEFINE f == frames[1]
           node == X!Node(X!Top.depth, X!Name, Character)
<1>1. /\ X!HasItem /\ X!Top.coerced /\ UNCHANGED <<heap, walking, value>> /\ frames' = X!Taken
      /\ (doc' = Append(doc, node) /\ UNCHANGED missed) \/ (missed' = TRUE /\ UNCHANGED doc)
  BY DEF X!AddCharacter
<1>2. /\ heap \in Shapes /\ FramesSound(heap, value, frames) /\ frames # <<>> /\ walking = "walk"
      /\ frames \in Seq(XmlFrames) /\ f \in XmlFrames /\ X!Top = f
      /\ f.taken < Len(heap[f.of].items)
      /\ X!Name = NameOf(f.name, f.taken + 1)
  BY <1>1, HasItemFacts
<1>3. frames' = Now(frames, Took(f, f.coerced)) /\ f.coerced \in BOOLEAN
  <2>1. f.coerced \in BOOLEAN
    BY <1>2 DEF XmlFrames
  <2> QED
    BY <1>1, <1>2, <2>1, TakenFacts
<1>4. FramesSound(heap, value, frames')
  BY <1>2, <1>3, FramesTake
<1>5. node \in XmlNodes
  <2>1. X!Name \in Int /\ X!Top.depth \in Nat
    BY <1>2, NodeType
  <2> QED
    BY <2>1 DEF X!Node, XmlNodes
<1>6. doc' \in Docs /\ missed' \in BOOLEAN /\ (~missed' => ~missed)
  <2>1. doc \in Docs /\ missed \in BOOLEAN
    BY DEF XmlInv, XmlTyped
  <2> HIDE DEF node
  <2>2. Append(doc, node) \in Docs
    BY <1>5, <2>1 DEF Docs
  <2> QED
    BY <1>1, <2>1, <2>2
<1>7. ~XmlExact(heap, value, frames, doc)
  <2>1. 1 \in 1 .. Len(frames)
    BY <1>2
  <2> QED
    BY <1>1, <1>2, <2>1 DEF XmlExact
<1> QED
  BY <1>1, <1>2, <1>4, <1>6, <1>7, XmlStep

\* It is kept when a call returns.
LEMMA XmlReturn ==
    ASSUME X!Assumption, XmlInv, X!Return
    PROVE  XmlInv'
<1>1. /\ walking = "walk" /\ frames # <<>> /\ frames' = Tail(frames)
      /\ UNCHANGED <<heap, walking, value, doc, missed>>
      /\ Head(frames).taken = Len(heap[Head(frames).of].items)
  BY DEF X!Return, X!Active, X!Top
<1>2. heap \in Shapes /\ FramesSound(heap, value, frames) /\ doc \in Docs /\ missed \in BOOLEAN
  BY DEF XmlInv, XmlTyped
<1>3. Head(frames) = frames[1]
  BY <1>1, <1>2, FrameMoves DEF FramesSound
<1>4. FramesSound(heap, value, frames')
  BY <1>1, <1>2, FramesPop
<1>5. XmlExact(heap, value, frames, doc) => XmlExact(heap, value, frames', doc')
  BY <1>1, <1>2, <1>3, ExactPop
<1> QED
  BY <1>1, <1>2, <1>4, <1>5, XmlStep

\* Every step of objectToXMLString() keeps it.
LEMMA XmlNext ==
    ASSUME X!Assumption, XmlInv, X!Next
    PROVE  XmlInv'
BY XmlQuiet, XmlBegin, XmlAddNode, XmlDescend, XmlAddCharacter, XmlReturn DEF X!Next

\* It is kept when objectToXMLString() does nothing.
LEMMA XmlStays ==
    ASSUME XmlInv, UNCHANGED xml_vars
    PROVE  XmlInv'
<1>1. UNCHANGED <<heap, walking, value, frames, doc, missed>>
  BY DEF xml_vars
<1>2. XmlTyped'
  BY <1>1 DEF XmlInv, XmlTyped
<1>3. ASSUME ~missed', ~NestedIn(heap, value)', walking' \in {"walk", "returned"}
      PROVE  XmlExact(heap, value, frames, doc)'
  BY <1>1, <1>3 DEF XmlInv
<1> QED
  BY <1>2, <1>3 DEF XmlInv

\* The types of ObjectToXml follow from it.
LEMMA XmlTypeOK ==
    ASSUME X!Assumption, XmlInv
    PROVE  X!TypeOK
<1>1. /\ heap \in Shapes /\ value \in Inputs /\ missed \in BOOLEAN /\ doc \in Docs
      /\ walking \in {"script", "walk", "returned", "thrown"}
      /\ FramesSound(heap, value, frames)
  BY DEF XmlInv, XmlTyped
<1>2. ASSUME NEW n \in DOMAIN frames
      PROVE  frames[n].of \in Objects /\ frames[n].taken \in 0 .. Len(heap[frames[n].of].items)
  <2>1. frames \in Seq(XmlFrames) /\ n \in 1 .. Len(frames)
    BY <1>1 DEF FramesSound
  <2>2. frames[n] \in XmlFrames /\ frames[n].taken <= Len(heap[frames[n].of].items)
    BY <1>1, <2>1 DEF FramesSound
  <2>3. frames[n].of \in Objects /\ frames[n].taken \in Nat
    BY <2>2 DEF XmlFrames
  <2>4. Len(heap[frames[n].of].items) \in Nat
    BY <1>1, <2>3, ShapeTypes
  <2> QED
    BY <2>2, <2>3, <2>4
<1>3. \A d \in DOMAIN doc : doc[d].content \in Scalars \union {NoContent, Character, Referred}
  <2> TAKE d \in DOMAIN doc
  <2>1. doc[d] \in XmlNodes
    BY <1>1 DEF Docs
  <2> QED
    BY <2>1 DEF XmlNodes
<1> QED
  BY <1>1, <1>2, <1>3 DEF X!TypeOK

\* So does that the document is exact.
LEMMA XmlDocumentExact ==
    ASSUME X!Assumption, XmlInv
    PROVE  X!DocumentExact
<1> SUFFICES ASSUME walking = "returned", ~missed, ~X!NestedArrays
             PROVE  ~X!Cyclic /\ doc = X!Document(heap, value)
  BY DEF X!DocumentExact
<1>1. X!Parts = PartsOf(heap, value)
  BY DEF X!Parts, PartsOf, X!IsObject, X!Closed, ClosedIn, X!Holds, HoldsIn
<1>2. ~NestedIn(heap, value)
  BY <1>1 DEF X!NestedArrays, NestedIn, X!IsArray, ArrayIn, X!Holds, HoldsIn, X!Held
<1>3. XmlExact(heap, value, frames, doc) /\ frames = <<>> /\ doc \in Docs
  BY <1>2 DEF XmlInv, XmlTyped
<1>4. ~X!Cyclic
  <2>1. \A S \in SUBSET Objects : ~Endless(heap, value, S)
    BY <1>3 DEF XmlExact, Caught
  <2> QED
    BY <2>1 DEF X!Cyclic, Endless, X!Holds, HoldsIn
<1>5. doc = X!Document(heap, value)
  <2>1. PICK c : c[0] = <<>> /\ doc \o c[Len(frames)] = X!Document(heap, value)
    BY <1>3 DEF XmlExact, Written, WrittenBy
  <2>2. Len(frames) = 0 /\ doc \o <<>> = doc
    BY <1>3, EmptySeq DEF Docs
  <2> QED
    BY <2>1, <2>2
<1> QED
  BY <1>4, <1>5

-----------------------------------------------------------------------------
(* The parts together *)

\* The invariant of the part that is looked at.
IInv ==
    /\ part \in Subjects
    /\ part = "include" => IncludeInv
    /\ part = "xml" => XmlInv
    /\ part = "crypt" => CryptInv

\* The types of Inclusion follow from its invariant.
LEMMA IncludeTypeOK ==
    ASSUME IncludeInv
    PROVE  I!TypeOK
<1>1. IncludeTyped /\ scripts \in Seq(Frames) /\ Len(scripts) <= MaxDepth
  BY DEF IncludeInv, IncludeTyped, ScriptsSound
<1>2. \A s \in DOMAIN scripts : scripts[s].at \in 1 .. Len(files[scripts[s].file].items) + 1
  BY <1>1 DEF IncludeTyped, ScriptsSound
<1> QED
  BY <1>1, <1>2 DEF IncludeTyped, I!TypeOK

\* It holds at first, whichever part that is.
LEMMA IInvInit ==
    ASSUME Init
    PROVE  IInv
<1>1. ASSUME part = "include" PROVE IncludeInv
  <2>1. I!Assumption /\ I!Init
    BY <1>1, IncludeAssumption DEF Init
  <2> QED
    BY <2>1, IncludeInit
<1>2. ASSUME part = "xml" PROVE XmlInv
  <2>1. X!Assumption /\ X!Init
    BY <1>2, XmlAssumption DEF Init
  <2> QED
    BY <2>1, XmlInit
<1>3. ASSUME part = "crypt" PROVE CryptInv
  <2>1. C!Assumption /\ C!Init
    BY <1>3, CryptAssumption DEF Init
  <2> QED
    BY <2>1, CryptInit
<1> QED
  BY <1>1, <1>2, <1>3 DEF Init, IInv

\* Every step keeps it.
LEMMA IInvStep ==
    ASSUME IInv, [Next]_vars
    PROVE  IInv'
<1>1. CASE part = "include" /\ I!Next /\ UNCHANGED <<part, xml_vars, crypt_vars>>
  <2>1. I!Assumption /\ IncludeInv
    BY <1>1, IncludeAssumption DEF IInv
  <2>2. IncludeInv'
    BY <1>1, <2>1, IncludeNext
  <2> QED
    BY <1>1, <2>2 DEF IInv
<1>2. CASE part = "xml" /\ X!Next /\ UNCHANGED <<part, include_vars, crypt_vars>>
  <2>1. X!Assumption /\ XmlInv
    BY <1>2, XmlAssumption DEF IInv
  <2>2. XmlInv'
    BY <1>2, <2>1, XmlNext
  <2> QED
    BY <1>2, <2>2 DEF IInv
<1>3. CASE part = "crypt" /\ C!Next /\ UNCHANGED <<part, include_vars, xml_vars>>
  <2>1. C!Assumption /\ CryptInv
    BY <1>3, CryptAssumption DEF IInv
  <2>2. CryptInv'
    BY <1>3, <2>1, CryptNext
  <2> QED
    BY <1>3, <2>2 DEF IInv
<1>4. CASE UNCHANGED vars
  <2>1. part' = part /\ UNCHANGED include_vars /\ UNCHANGED xml_vars /\ UNCHANGED crypt_vars
    BY <1>4 DEF vars
  <2>2. ASSUME part = "include" PROVE IncludeInv'
    BY <2>1, <2>2, IncludeStays DEF IInv
  <2>3. ASSUME part = "xml" PROVE XmlInv'
    BY <2>1, <2>3, XmlStays DEF IInv
  <2>4. ASSUME part = "crypt" PROVE CryptInv'
    BY <2>1, <2>4, CryptStays DEF IInv
  <2> QED
    BY <2>1, <2>2, <2>3, <2>4 DEF IInv
<1> QED
  BY <1>1, <1>2, <1>3, <1>4 DEF Next

\* So it always holds.
LEMMA Inductive == Spec => []IInv
<1>1. Init => IInv
  BY IInvInit
<1>2. IInv /\ [Next]_vars => IInv'
  BY IInvStep
<1> QED
  BY <1>1, <1>2, PTL DEF Spec

-----------------------------------------------------------------------------
(* What holds always *)

\* The states of include(), of objectToXMLString() and of the calls into jse_crypt.c are of their
\* types: no script is deeper than duktape allows, and none is past its end.
THEOREM TypesKept == Spec => []TypeOK
<1>1. ASSUME IInv PROVE TypeOK
  <2>1. ASSUME part = "include" PROVE I!TypeOK
    BY <1>1, <2>1, IncludeTypeOK DEF IInv
  <2>2. ASSUME part = "xml" PROVE X!TypeOK
    <3>1. X!Assumption /\ XmlInv
      BY <1>1, <2>2, XmlAssumption DEF IInv
    <3> QED
      BY <3>1, XmlTypeOK
  <2>3. ASSUME part = "crypt" PROVE C!TypeOK
    BY <1>1, <2>3 DEF IInv, CryptInv
  <2>4. part \in {"include", "xml", "crypt"}
    BY <1>1, SubjectsAssumption DEF IInv
  <2> QED
    BY <2>1, <2>2, <2>3, <2>4 DEF TypeOK
<1>2. IInv => TypeOK
  BY <1>1
<1> QED
  BY <1>2, Inductive, PTL

\* A script with include() does what it would do with the files in its place, whatever the
\* scripts are and however they include each other.
THEOREM IncludesLikeReplaced == Spec => []RunsAsReplaced
<1>1. IInv => RunsAsReplaced
  BY DEF IInv, IncludeInv, RunsAsReplaced
<1> QED
  BY <1>1, Inductive, PTL

\* objectToXMLString() returns the document of the object it was given, and none for an object
\* that contains itself, whatever the objects are.
THEOREM DocumentsAreExact == Spec => []DocumentExact
<1>1. ASSUME IInv, part = "xml" PROVE X!DocumentExact
  <2>1. X!Assumption /\ XmlInv
    BY <1>1, XmlAssumption DEF IInv
  <2> QED
    BY <2>1, XmlDocumentExact
<1>2. IInv => DocumentExact
  BY <1>1 DEF DocumentExact
<1> QED
  BY <1>2, Inductive, PTL

\* What was encrypted is decrypted to what it was, for every length and every cipher.
THEOREM DecryptsWhatWasEncrypted == Spec => []RoundTrip
<1>1. IInv => RoundTrip
  BY DEF IInv, CryptInv, RoundTrip
<1> QED
  BY <1>1, Inductive, PTL

\* Buffers, contexts and outputs are freed but for those that are named, and what libcrypto
\* writes fits.
THEOREM BlocksAreSound == Spec => []BlocksSound
<1>1. ASSUME IInv, part = "crypt" PROVE C!BlocksAccounted /\ C!OutputFits
  <2>1. C!Assumption /\ CryptInv
    BY <1>1, CryptAssumption DEF IInv
  <2> QED
    BY <2>1, CryptOutput
<1>2. ASSUME IInv, part = "include" PROVE I!BuffersAccounted
  BY <1>2 DEF IInv, IncludeInv
<1>3. IInv => BlocksSound
  BY <1>1, <1>2 DEF BlocksSound
<1> QED
  BY <1>3, Inductive, PTL
=============================================================================
