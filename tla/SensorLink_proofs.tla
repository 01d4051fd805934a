---------------------------- MODULE SensorLink_proofs ---------------------------
(***************************************************************************)
(* However the bytes of the link are cut: USBOutput loses, repeats and     *)
(* reorders nothing of what TLS writes, and the event queue gets whole     *)
(* events in the order in which the sensor sent them.  What is sent and    *)
(* not yet received is spread over packets, buffers and records; the       *)
(* proofs put it together again with Cat and Flat and cut both sides at    *)
(* the same length.  Last: nothing that a tidy sensor sends makes a        *)
(* transfer overflow or fails an assertion on the framing.                 *)
(***************************************************************************)
EXTENDS SensorLink, SequenceTheorems, WellFoundedInduction, TLAPS

-------------------------------------------------------------------------------
\* USBOutput: what TLS writes.

\* send() starts each transfer at the begin of the payload, so that a payload
\* has to be sent in one transfer; what was read, is waiting and has arrived are
\* the bytes that TLS has written, in order.
OutputInv ==
    /\ arrived \in Seq(Nat) /\ bio_out \in Seq(Nat)
    /\ _payload \in [bytes : Seq(Nat), consumed : Nat]
    /\ Len(_payload.bytes) <= PACKET
    /\ _payload.consumed = 0 \/ _payload.consumed = Len(_payload.bytes)
    /\ output = "read_bio_stream" => Left = 0
    /\ \A i \in DOMAIN arrived : arrived[i] = i
    /\ Left > 0 => \A i \in DOMAIN _payload.bytes : _payload.bytes[i] = Len(arrived) + i
    /\ \A i \in DOMAIN bio_out : bio_out[i] = Len(arrived) + Left + i

LEMMA PacketNat == PACKET \in Nat /\ PACKET > 0 /\ HANDSHAKE \in Nat
BY LinkAssumption

LEMMA OutputKept ==
    ASSUME OutputInv, UNCHANGED outputVars
    PROVE  OutputInv'
BY DEF OutputInv, outputVars, Left

LEMMA WriteStep ==
    ASSUME OutputInv, TLSWrites
    PROVE  OutputInv'
<1>1. PICK n \in 1..HANDSHAKE : bio_out' = bio_out \o [i \in 1..n |-> Written + i]
  BY DEF TLSWrites
<1>2. UNCHANGED <<_payload, output, arrived>>
  BY DEF TLSWrites
<1>3. /\ Len(arrived) \in Nat /\ Left \in Nat /\ Len(bio_out) \in Nat /\ bio_out \in Seq(Nat) /\ n \in Nat
      /\ Written = Len(arrived) + Left + Len(bio_out)
  BY PacketNat DEF OutputInv, Left, Written
<1> DEFINE new == [i \in 1..n |-> Written + i]
<1>4. new \in Seq(Nat) /\ Len(new) = n /\ \A i \in 1..n : new[i] = Written + i
  BY <1>3
<1> HIDE DEF new
<1>5. /\ bio_out' \in Seq(Nat)
      /\ \A i \in DOMAIN bio_out' : \/ i \in DOMAIN bio_out /\ bio_out'[i] = bio_out[i]
                                    \/ i - Len(bio_out) \in 1..n /\ bio_out'[i] = new[i - Len(bio_out)]
  BY <1>1, <1>3, <1>4 DEF new
<1>6. \A i \in DOMAIN bio_out' : bio_out'[i] = Len(arrived) + Left + i
  <2> TAKE i \in DOMAIN bio_out'
  <2>1. i \in Nat
    BY <1>5
  <2>2. CASE i \in DOMAIN bio_out /\ bio_out'[i] = bio_out[i]
    BY <2>2 DEF OutputInv
  <2>3. CASE i - Len(bio_out) \in 1..n /\ bio_out'[i] = new[i - Len(bio_out)]
    BY <1>3, <1>4, <2>1, <2>3
  <2> QED
    BY <1>5, <2>2, <2>3
<1> QED
  BY <1>2, <1>5, <1>6 DEF OutputInv, Left

LEMMA ReadStep ==
    ASSUME OutputInv, read_bio_stream
    PROVE  OutputInv'
<1> DEFINE n == Shorter(PACKET, Len(bio_out))
           b == SubSeq(bio_out, 1, n)
           rest == SubSeq(bio_out, n + 1, Len(bio_out))
<1>1. /\ _payload' = [bytes |-> b, consumed |-> 0] /\ bio_out' = rest /\ output' = "send" /\ arrived' = arrived
      /\ output = "read_bio_stream" /\ bio_out # <<>>
  BY DEF read_bio_stream, Capacity
<1>2. bio_out \in Seq(Nat) /\ Len(bio_out) \in Nat /\ Len(arrived) \in Nat /\ Left = 0
  BY <1>1 DEF OutputInv
<1>3. n \in Nat /\ n <= PACKET /\ n <= Len(bio_out)
  BY <1>2, PacketNat DEF Shorter
<1> HIDE DEF n
<1>4. /\ b \in Seq(Nat) /\ Len(b) = n /\ \A i \in DOMAIN b : i \in DOMAIN bio_out /\ b[i] = bio_out[i]
  BY <1>2, <1>3
<1>5. /\ rest \in Seq(Nat) /\ Len(rest) = Len(bio_out) - n
      /\ \A i \in DOMAIN rest : i \in Nat /\ i + n \in DOMAIN bio_out /\ rest[i] = bio_out[i + n]
  BY <1>2, <1>3, SMTT(30)
<1> HIDE DEF b, rest
<1>6. \A i \in DOMAIN bio_out : bio_out[i] = Len(arrived) + i
  BY <1>2 DEF OutputInv
<1>7. Left' = n
  BY <1>1, <1>3, <1>4 DEF Left
<1>8. \A i \in DOMAIN rest : rest[i] = Len(arrived) + n + i
  BY <1>2, <1>3, <1>5, <1>6
<1> QED
  BY <1>1, <1>3, <1>4, <1>5, <1>6, <1>7, <1>8 DEF OutputInv

LEMMA SendStep ==
    ASSUME OutputInv, send
    PROVE  OutputInv'
<1>1. bio_out' = bio_out /\ PACKET \in Nat
  BY PacketNat DEF send
<1>2. /\ _payload \in [bytes : Seq(Nat), consumed : Nat] /\ Len(_payload.bytes) \in Nat /\ Left \in Nat
      /\ Left = Len(_payload.bytes) - _payload.consumed /\ arrived \in Seq(Nat) /\ Len(arrived) \in Nat
      /\ Len(_payload.bytes) <= PACKET
  BY DEF OutputInv, Left
<1>3. CASE /\ Left = 0 /\ output' = "read_bio_stream" /\ _payload' = [bytes |-> <<>>, consumed |-> 0]
           /\ arrived' = arrived
  <2>1. Left' = 0 /\ Len(_payload'.bytes) = 0
    BY <1>3 DEF Left
  <2>2. _payload' \in [bytes : Seq(Nat), consumed : Nat]
    BY <1>3
  <2> QED
    BY <1>1, <1>3, <2>1, <2>2 DEF OutputInv
<1>4. CASE /\ Left > 0 /\ _payload' = [_payload EXCEPT !.consumed = @ + Shorter(Left, PACKET)]
           /\ arrived' = arrived \o SubSeq(_payload.bytes, 1, Shorter(Left, PACKET)) /\ output' = output
  <2> DEFINE b == _payload.bytes
  <2>1. _payload.consumed = 0 /\ Left = Len(b)
    BY <1>2, <1>4 DEF OutputInv
  <2>2. Shorter(Left, PACKET) = Len(b) /\ b \in Seq(Nat)
    BY <1>1, <1>2, <2>1 DEF Shorter
  <2>3. \A i \in DOMAIN b : b[i] = Len(arrived) + i
    BY <1>4 DEF OutputInv
  <2>4. /\ _payload'.bytes = b /\ _payload'.consumed = Len(b) /\ _payload' \in [bytes : Seq(Nat), consumed : Nat]
    BY <1>2, <1>4, <2>1, <2>2, SMTT(30)
  <2>5. Left' = 0
    BY <2>2, <2>4 DEF Left
  <2>6. arrived' = arrived \o b
    BY <1>4, <2>2
  <2> HIDE DEF b
  <2>7. /\ arrived' \in Seq(Nat) /\ Len(arrived') = Len(arrived) + Len(b)
        /\ \A i \in DOMAIN arrived' : \/ i \in DOMAIN arrived /\ arrived'[i] = arrived[i]
                                      \/ i - Len(arrived) \in DOMAIN b /\ arrived'[i] = b[i - Len(arrived)]
    BY <1>2, <2>2, <2>6, SMTT(30)
  <2>8. \A i \in DOMAIN arrived' : arrived'[i] = i
    <3> TAKE i \in DOMAIN arrived'
    <3>1. i \in Nat
      BY <2>7
    <3>2. CASE i \in DOMAIN arrived /\ arrived'[i] = arrived[i]
      BY <3>2 DEF OutputInv
    <3>3. CASE i - Len(arrived) \in DOMAIN b /\ arrived'[i] = b[i - Len(arrived)]
      BY <1>2, <2>3, <3>1, <3>3
    <3> QED
      BY <2>7, <3>2, <3>3
  <2>9. \A i \in DOMAIN bio_out' : bio_out'[i] = Len(arrived') + Left' + i
    <3>1. bio_out \in Seq(Nat) /\ \A i \in DOMAIN bio_out : bio_out[i] = Len(arrived) + Len(b) + i
      BY <2>1 DEF OutputInv
    <3>2. \A i \in DOMAIN bio_out : i \in Nat
      BY <3>1
    <3> QED
      BY <1>1, <1>2, <2>2, <2>5, <2>7, <3>1, <3>2
  <2>10. Len(b) <= PACKET /\ bio_out' \in Seq(Nat)
    BY <1>1, <1>2 DEF OutputInv, b
  <2> QED
    BY <2>4, <2>5, <2>7, <2>8, <2>9, <2>10 DEF OutputInv
<1>5. CASE Left > 0 /\ UNCHANGED <<_payload, arrived>> /\ (output' = "done" \/ output' = output)
  BY <1>1, <1>5 DEF OutputInv, Left
<1> QED
  BY <1>3, <1>4, <1>5 DEF send

\* The sensor receives what TLS wrote, each byte once and in order: read_bio_stream()
\* fills a payload of one packet only when the last one has been sent completely,
\* and send() passes it on with one transfer.
THEOREM AlwaysSentInOrder == Spec => []SentInOrder
<1>1. Init => OutputInv
  <2> SUFFICES ASSUME Init PROVE OutputInv
    OBVIOUS
  <2>1. _payload = [bytes |-> <<>>, consumed |-> 0] /\ arrived = <<>> /\ bio_out = <<>>
    BY DEF Init
  <2>2. Left = 0 /\ <<>> \in Seq(Nat) /\ Len(<<>>) = 0
    BY <2>1 DEF Left
  <2> QED
    BY <2>1, <2>2, PacketNat DEF OutputInv
<1>2. OutputInv /\ [Next]_vars => OutputInv'
  <2> SUFFICES ASSUME OutputInv, [Next]_vars PROVE OutputInv'
    BY Zenon
  <2>1. TLSWrites \/ read_bio_stream \/ send \/ UNCHANGED outputVars
    BY Zenon DEF Next, vars, USBInput, SendClear, SendSecure, Seal, Overflow, parse, handle_tls_data, process
  <2> QED
    BY <2>1, OutputKept, WriteStep, ReadStep, SendStep
<1>3. OutputInv => SentInOrder
  BY DEF OutputInv, SentInOrder
<1> QED
  BY <1>1, <1>2, <1>3, PTL DEF Spec

-------------------------------------------------------------------------------
\* Sequences that are put together and cut.

Less == {p \in Nat \X Nat : p[1] < p[2]}

LEMMA Least ==
    ASSUME NEW S, S \subseteq Nat, S # {}
    PROVE  \E m \in S : \A n \in S : m <= n
<1>1. Less = OpToRel(<, Nat)
  BY DEF Less, OpToRel
<1>2. IsWellFoundedOn(Less, Nat)
  BY <1>1, NatLessThanWellFounded
<1>3. PICK m \in S : \A n \in S : ~(<<n, m>> \in Less)
  BY <1>2, WFMin
<1>4. ASSUME NEW n \in S PROVE m <= n
  <2>1. n \in Nat /\ m \in Nat /\ ~(<<n, m>> \in Nat \X Nat /\ n < m)
    BY <1>3 DEF Less
  <2> QED
    BY <2>1
<1> QED
  BY <1>4

\* a \o b and FlattenSeq as functions that the provers take as they are.
Cat(a, b) == a \o b
Flat(s) == FlattenSeq(s)

LEMMA CatType ==
    ASSUME NEW X, NEW a \in Seq(X), NEW b \in Seq(X)
    PROVE  Cat(a, b) \in Seq(X) /\ Len(Cat(a, b)) = Len(a) + Len(b)
BY DEF Cat

LEMMA CatAssoc ==
    ASSUME NEW X, NEW a \in Seq(X), NEW b \in Seq(X), NEW c \in Seq(X)
    PROVE  Cat(Cat(a, b), c) = Cat(a, Cat(b, c))
BY ConcatAssociative DEF Cat

LEMMA CatEmpty ==
    ASSUME NEW X, NEW a \in Seq(X)
    PROVE  Cat(a, <<>>) = a /\ Cat(<<>>, a) = a
BY ConcatEmptySeq DEF Cat

LEMMA CatAt ==
    ASSUME NEW X, NEW a \in Seq(X), NEW b \in Seq(X)
    PROVE  \A i \in 1..Len(a) : Cat(a, b)[i] = a[i]
BY DEF Cat

LEMMA CatAfter ==
    ASSUME NEW X, NEW a \in Seq(X), NEW b \in Seq(X), NEW i \in 1..Len(b)
    PROVE  Cat(a, b)[Len(a) + i] = b[i]
BY DEF Cat

LEMMA CatSplit ==
    ASSUME NEW X, NEW a \in Seq(X), NEW b \in Seq(X), NEW c \in Seq(X), NEW d \in Seq(X),
           Cat(a, b) = Cat(c, d), Len(a) = Len(c)
    PROVE  a = c /\ b = d
<1>1. Len(b) = Len(d)
  <2>1. Len(Cat(a, b)) = Len(a) + Len(b)
    BY CatType
  <2>2. Len(Cat(c, d)) = Len(c) + Len(d)
    BY CatType
  <2>3. Len(a) \in Nat /\ Len(b) \in Nat /\ Len(d) \in Nat
    OBVIOUS
  <2> QED
    BY <2>1, <2>2, <2>3
<1>2. \A i \in 1..Len(a) : a[i] = c[i]
  BY CatAt
<1>6. ASSUME NEW i \in 1..Len(b) PROVE b[i] = d[i]
  <2>1. Cat(a, b)[Len(a) + i] = b[i]
    BY CatAfter
  <2>2. Cat(c, d)[Len(c) + i] = d[i]
    BY <1>1, CatAfter
  <2> QED
    BY <2>1, <2>2
<1>7. a = c
  BY <1>2, SeqEqual
<1>8. b = d
  BY <1>1, <1>6, SeqEqual
<1> QED
  BY <1>7, <1>8

\* f has the concatenation of the first i members of s, for each i.
Flattening(f, s, m) ==
    f = [i \in 1..m |-> IF i = 1 THEN s[i] ELSE f[i - 1] \o s[i]]

LEMMA FlatteningExists ==
    ASSUME NEW s, NEW m \in Nat
    PROVE  \E f : Flattening(f, s, m)
<1> DEFINE Bad == {n \in Nat : ~\E f : Flattening(f, s, n)}
<1> SUFFICES ASSUME m \in Bad PROVE FALSE
  OBVIOUS
<1>1. PICK n \in Bad : \A k \in Bad : n <= k
  BY Least
<1>2. CASE n = 0
  <2> DEFINE f == [i \in 1..0 |-> s[i]]
  <2>1. Flattening(f, s, 0)
    BY DEF Flattening
  <2> QED
    BY <1>2, <2>1
<1>3. CASE n # 0
  <2>1. n - 1 \in Nat /\ n - 1 \notin Bad
    BY <1>1, <1>3
  <2>2. PICK f : Flattening(f, s, n - 1)
    BY <2>1
  <2> DEFINE last == IF n = 1 THEN s[n] ELSE f[n - 1] \o s[n]
             g == [k \in 1..n |-> IF k = n THEN last ELSE f[k]]
  <2>3. \A k \in 1..(n - 1) : g[k] = f[k]
    BY <2>1
  <2>4. ASSUME NEW k \in 1..n
        PROVE  g[k] = IF k = 1 THEN s[k] ELSE g[k - 1] \o s[k]
    <3>1. CASE k = n
      <4>1. g[k] = last
        BY <3>1
      <4>2. k # 1 => g[k - 1] = f[k - 1]
        BY <2>1, <2>3, <3>1
      <4> HIDE DEF g
      <4> QED
        BY <3>1, <4>1, <4>2
    <3>2. CASE k # n
      <4>1. k \in 1..(n - 1) /\ (k # 1 => k - 1 \in 1..(n - 1))
        BY <2>1, <3>2
      <4>2. f[k] = IF k = 1 THEN s[k] ELSE f[k - 1] \o s[k]
        BY <2>2, <4>1 DEF Flattening
      <4> HIDE DEF g
      <4> QED
        BY <2>3, <4>1, <4>2
    <3> QED
      BY <3>1, <3>2
  <2>5. Flattening(g, s, n)
    BY <2>4 DEF Flattening
  <2> QED
    BY <1>1, <2>5
<1> QED
  BY <1>2, <1>3

Agree(a, b, m) == \A i \in 1..m : a[i] = b[i]

LEMMA FlatteningUnique ==
    ASSUME NEW s, NEW t, NEW m \in Nat, NEW n \in Nat, m <= n, Agree(s, t, m),
           NEW f, Flattening(f, s, m), NEW g, Flattening(g, t, n)
    PROVE  Agree(f, g, m)
<1> DEFINE Bad == {i \in 1..m : f[i] # g[i]}
<1> SUFFICES ASSUME Bad # {} PROVE FALSE
  BY DEF Agree
<1>1. Bad \subseteq Nat
  OBVIOUS
<1>2. PICK k \in Bad : \A i \in Bad : k <= i
  BY <1>1, Least
<1>3. k \in 1..m /\ k \in 1..n /\ k \in Nat /\ s[k] = t[k]
  BY DEF Agree
<1>4. f[k] = IF k = 1 THEN s[k] ELSE f[k - 1] \o s[k]
  BY <1>3 DEF Flattening
<1>5. g[k] = IF k = 1 THEN t[k] ELSE g[k - 1] \o t[k]
  BY <1>3 DEF Flattening
<1>6. k # 1 => f[k - 1] = g[k - 1]
  BY <1>2, <1>3
<1> QED
  BY <1>3, <1>4, <1>5, <1>6

LEMMA FlatValue ==
    ASSUME NEW X, NEW s \in Seq(X), s # <<>>, NEW f, Flattening(f, s, Len(s))
    PROVE  Flat(s) = f[Len(s)]
<1> DEFINE g == CHOOSE h : Flattening(h, s, Len(s))
<1>1. Flattening(g, s, Len(s))
  OBVIOUS
<1>2. Flat(s) = g[Len(s)]
  BY DEF Flat, FlattenSeq, Flattening
<1>3. Len(s) \in Nat /\ Len(s) \in 1..Len(s)
  OBVIOUS
<1> HIDE DEF g
<1>4. Agree(s, s, Len(s))
  BY DEF Agree
<1>5. Agree(g, f, Len(s))
  BY <1>1, <1>3, <1>4, FlatteningUnique
<1>6. g[Len(s)] = f[Len(s)]
  BY <1>3, <1>5 DEF Agree
<1> QED
  BY <1>2, <1>6

LEMMA FlatEmpty == Flat(<<>>) = <<>>
BY DEF Flat, FlattenSeq

LEMMA FlatAppend ==
    ASSUME NEW X, NEW s \in Seq(Seq(X)), NEW a \in Seq(X)
    PROVE  Flat(Append(s, a)) = Cat(Flat(s), a)
<1> DEFINE t == Append(s, a)
<1>0. s \in Seq(Seq(X)) /\ a \in Seq(X)
  OBVIOUS
<1>1. /\ t \in Seq(Seq(X)) /\ t # <<>> /\ Len(s) \in Nat /\ Len(t) = Len(s) + 1 /\ Len(t) \in Nat
      /\ (\A i \in 1..Len(s) : t[i] = s[i]) /\ t[Len(t)] = a
  BY <1>0, AppendProperties
<1> HIDE DEF t
<1>2. PICK g : Flattening(g, t, Len(t))
  BY <1>1, FlatteningExists
<1>3. Flat(t) = g[Len(t)]
  BY <1>1, <1>2, FlatValue
<1>4. g[Len(t)] = IF Len(t) = 1 THEN t[Len(t)] ELSE g[Len(t) - 1] \o t[Len(t)]
  <2>1. PICK k \in 1..Len(t) : k = Len(t)
    BY <1>1
  <2>2. g[k] = IF k = 1 THEN t[k] ELSE g[k - 1] \o t[k]
    BY <1>2 DEF Flattening
  <2> QED
    BY <2>1, <2>2
<1>5. CASE s = <<>>
  <2>1. Flat(t) = a
    BY <1>1, <1>3, <1>4, <1>5
  <2>2. Cat(<<>>, a) = a
    BY CatEmpty
  <2> QED
    BY <1>5, <2>1, <2>2, FlatEmpty DEF t
<1>6. CASE s # <<>>
  <2>1. PICK f : Flattening(f, s, Len(s))
    BY <1>1, FlatteningExists
  <2>2. Flat(s) = f[Len(s)]
    BY <1>6, <2>1, FlatValue
  <2>3. Len(s) \in 1..Len(s) /\ Len(t) # 1 /\ Len(t) - 1 = Len(s)
    BY <1>1, <1>6
  <2>4. f[Len(s)] = g[Len(s)]
    <3>3. Agree(s, t, Len(s))
      BY <1>1 DEF Agree
    <3>4. Agree(f, g, Len(s))
      BY <1>1, <1>2, <2>1, <3>3, FlatteningUnique
    <3> QED
      BY <2>3, <3>4 DEF Agree
  <2>5. Flat(t) = Flat(s) \o a
    BY <1>1, <1>3, <1>4, <2>2, <2>3, <2>4
  <2> QED
    BY <2>5 DEF Cat, t
<1> QED
  BY <1>5, <1>6

LEMMA FlatType ==
    ASSUME NEW X, NEW s \in Seq(Seq(X))
    PROVE  Flat(s) \in Seq(X)
<1> DEFINE Bad == {n \in Nat : \E t \in Seq(Seq(X)) : Len(t) = n /\ Flat(t) \notin Seq(X)}
<1> SUFFICES ASSUME Len(s) \in Bad PROVE FALSE
  OBVIOUS
<1>1. PICK n \in Bad : \A k \in Bad : n <= k
  BY Least
<1>2. PICK t \in Seq(Seq(X)) : Len(t) = n /\ Flat(t) \notin Seq(X)
  BY <1>1
<1>3. t # <<>>
  BY <1>2, FlatEmpty
<1>4. PICK u \in Seq(Seq(X)), a \in Seq(X) : t = Append(u, a)
  BY <1>3, SequenceEmptyOrAppend
<1>5. Len(u) \in Nat /\ Len(u) < n
  BY <1>2, <1>4
<1>6. Flat(u) \in Seq(X)
  BY <1>1, <1>5
<1>7. Flat(t) = Cat(Flat(u), a)
  BY <1>4, FlatAppend
<1> QED
  BY <1>2, <1>6, <1>7, CatType

LEMMA CatAppend ==
    ASSUME NEW X, NEW s \in Seq(X), NEW t \in Seq(X), NEW a \in X
    PROVE  Cat(s, Append(t, a)) = Append(Cat(s, t), a)
<1> DEFINE o == <<a>>
<1>1. o \in Seq(X) /\ Cat(s, t) \in Seq(X)
  BY CatType
<1>2. Append(t, a) = Cat(t, o)
  BY AppendIsConcat DEF Cat
<1>3. Append(Cat(s, t), a) = Cat(Cat(s, t), o)
  BY <1>1, AppendIsConcat DEF Cat
<1> HIDE DEF o
<1>4. Cat(Cat(s, t), o) = Cat(s, Cat(t, o))
  BY <1>1, CatAssoc
<1> QED
  BY <1>2, <1>3, <1>4

LEMMA FlatCat ==
    ASSUME NEW X, NEW s \in Seq(Seq(X)), NEW t \in Seq(Seq(X))
    PROVE  Flat(Cat(s, t)) = Cat(Flat(s), Flat(t))
<1> DEFINE Fits(u) == Flat(Cat(s, u)) = Cat(Flat(s), Flat(u))
           Bad == {n \in Nat : \E u \in Seq(Seq(X)) : Len(u) = n /\ ~Fits(u)}
<1> SUFFICES ASSUME Len(t) \in Bad PROVE FALSE
  OBVIOUS
<1>1. PICK n \in Bad : \A k \in Bad : n <= k
  BY Least
<1>2. PICK u \in Seq(Seq(X)) : Len(u) = n /\ ~Fits(u)
  BY <1>1
<1>3. u # <<>>
  <2>1. Cat(s, <<>>) = s
    BY CatEmpty
  <2>2. Cat(Flat(s), <<>>) = Flat(s)
    BY FlatType, CatEmpty
  <2> QED
    BY <1>2, <2>1, <2>2, FlatEmpty
<1>4. PICK v \in Seq(Seq(X)), a \in Seq(X) : u = Append(v, a)
  BY <1>3, SequenceEmptyOrAppend
<1>5. Len(v) \in Nat /\ Len(v) < n
  BY <1>2, <1>4
<1>6. Fits(v)
  BY <1>1, <1>5
<1>7. Flat(u) = Cat(Flat(v), a) /\ Cat(s, u) = Append(Cat(s, v), a)
  BY <1>4, FlatAppend, CatAppend
<1>8. Flat(Cat(s, u)) = Cat(Flat(Cat(s, v)), a)
  <2>1. Cat(s, v) \in Seq(Seq(X))
    BY CatType
  <2> QED
    BY <1>7, <2>1, FlatAppend
<1>9. Cat(Cat(Flat(s), Flat(v)), a) = Cat(Flat(s), Cat(Flat(v), a))
  BY FlatType, CatAssoc
<1> QED
  BY <1>2, <1>6, <1>7, <1>8, <1>9

LEMMA FlatOne ==
    ASSUME NEW X, NEW a \in Seq(X)
    PROVE  Flat(<<a>>) = a
<1>1. <<a>> = Append(<<>>, a) /\ <<>> \in Seq(Seq(X))
  OBVIOUS
<1>2. Flat(<<a>>) = Cat(Flat(<<>>), a)
  BY <1>1, FlatAppend
<1> QED
  BY <1>2, FlatEmpty, CatEmpty

LEMMA CutAt ==
    ASSUME NEW X, NEW s \in Seq(X), NEW k \in 0..Len(s)
    PROVE  /\ SubSeq(s, 1, k) \in Seq(X) /\ SubSeq(s, k + 1, Len(s)) \in Seq(X)
           /\ Len(SubSeq(s, 1, k)) = k /\ Len(SubSeq(s, k + 1, Len(s))) = Len(s) - k
           /\ s = Cat(SubSeq(s, 1, k), SubSeq(s, k + 1, Len(s)))
<1>1. Len(s) \in Nat /\ k \in Nat /\ k <= Len(s) /\ \A i \in 1..Len(s) : s[i] \in X
  OBVIOUS
<1>2. SubSeq(s, 1, k) \in Seq(X) /\ Len(SubSeq(s, 1, k)) = k
  BY <1>1, SubSeqProperties
<1>3. SubSeq(s, k + 1, Len(s)) \in Seq(X) /\ Len(SubSeq(s, k + 1, Len(s))) = Len(s) - k
  BY <1>1, SubSeqProperties
<1>4. 1 \in 1..Len(s) + 1 /\ k \in 1 - 1..Len(s) /\ Len(s) \in k..Len(s)
  BY <1>1
<1>5. SubSeq(s, 1, k) \o SubSeq(s, k + 1, Len(s)) = SubSeq(s, 1, Len(s))
  BY <1>4, ConcatAdjacentSubSeq
<1> QED
  BY <1>2, <1>3, <1>5, SubSeqFull DEF Cat

LEMMA FlatCut ==
    ASSUME NEW X, NEW s \in Seq(Seq(X)), NEW k \in 0..Len(s)
    PROVE  Flat(s) = Cat(Flat(SubSeq(s, 1, k)), Flat(SubSeq(s, k + 1, Len(s))))
<1>1. SubSeq(s, 1, k) \in Seq(Seq(X)) /\ SubSeq(s, k + 1, Len(s)) \in Seq(Seq(X))
  BY CutAt
<1>2. s = Cat(SubSeq(s, 1, k), SubSeq(s, k + 1, Len(s)))
  BY CutAt
<1> QED
  BY <1>1, <1>2, FlatCat

\* What the members of g after the n-th hold together.
Ahead(g, n) == Flat(SubSeq(g, n + 1, Len(g)))

LEMMA AheadType ==
    ASSUME NEW X, NEW g \in Seq(Seq(X)), NEW n \in 0..Len(g)
    PROVE  Ahead(g, n) \in Seq(X)
BY CutAt, FlatType DEF Ahead

LEMMA AheadEnd ==
    ASSUME NEW X, NEW g \in Seq(X)
    PROVE  Ahead(g, Len(g)) = <<>>
<1>1. Len(g) + 1 \in Int /\ Len(g) \in Int /\ Len(g) < Len(g) + 1
  OBVIOUS
<1>2. SubSeq(g, Len(g) + 1, Len(g)) = <<>>
  BY <1>1, SubSeqEmpty
<1> QED
  BY <1>2, FlatEmpty DEF Ahead

LEMMA AheadAll ==
    ASSUME NEW X, NEW g \in Seq(X)
    PROVE  Ahead(g, 0) = Flat(g)
<1>1. SubSeq(g, 1, Len(g)) = g
  BY SubSeqFull
<1>2. 0 + 1 = 1
  OBVIOUS
<1> QED
  BY <1>1, <1>2 DEF Ahead

LEMMA AheadNext ==
    ASSUME NEW X, NEW g \in Seq(Seq(X)), NEW n \in Nat, n < Len(g)
    PROVE  /\ n + 1 \in 1..Len(g) /\ g[n + 1] \in Seq(X)
           /\ Ahead(g, n) = Cat(g[n + 1], Ahead(g, n + 1))
<1>1. Len(g) \in Nat /\ n + 1 \in 1..Len(g) /\ g[n + 1] \in Seq(X)
  OBVIOUS
<1>2. Len(g) \in n + 1..Len(g)
  BY <1>1
<1>3. SubSeq(g, n + 1, Len(g)) = Cat(<<g[n + 1]>>, SubSeq(g, n + 2, Len(g)))
  BY <1>1, <1>2, SubSeqRecursiveFirst DEF Cat
<1>4. <<g[n + 1]>> \in Seq(Seq(X)) /\ SubSeq(g, n + 2, Len(g)) \in Seq(Seq(X))
  BY <1>1, CutAt
<1> DEFINE o == <<g[n + 1]>>
           r == SubSeq(g, n + 2, Len(g))
<1>5. Flat(o) = g[n + 1]
  BY <1>1, FlatOne
<1> HIDE DEF o, r
<1>6. Flat(Cat(o, r)) = Cat(Flat(o), Flat(r))
  BY <1>4, FlatCat DEF o, r
<1>7. n + 1 + 1 = n + 2
  OBVIOUS
<1>8. Ahead(g, n) = Flat(Cat(o, r))
  BY <1>3 DEF Ahead, o, r
<1>9. Ahead(g, n + 1) = Flat(r)
  BY <1>7 DEF Ahead, r
<1> QED
  BY <1>1, <1>5, <1>6, <1>8, <1>9

LEMMA AheadAppend ==
    ASSUME NEW X, NEW g \in Seq(Seq(X)), NEW n \in 0..Len(g), NEW a \in Seq(X)
    PROVE  Ahead(Append(g, a), n) = Cat(Ahead(g, n), a)
<1> DEFINE h == Append(g, a)
           s == SubSeq(g, n + 1, Len(g))
           t == SubSeq(h, n + 1, Len(h))
<1>1. /\ h \in Seq(Seq(X)) /\ Len(g) \in Nat /\ Len(h) = Len(g) + 1 /\ n \in 0..Len(h)
      /\ (\A i \in 1..Len(g) : h[i] = g[i]) /\ h[Len(h)] = a
  BY AppendProperties
<1>2. s \in Seq(Seq(X)) /\ Len(s) = Len(g) - n /\ t \in Seq(Seq(X)) /\ Len(t) = Len(h) - n
  BY <1>1, CutAt, ZenonT(30)
<1> HIDE DEF h
<1>3. \A i \in 1..Len(s) : s[i] = g[n + i]
  BY <1>1, <1>2
<1>4. \A i \in 1..Len(t) : t[i] = h[n + i]
  BY <1>1, <1>2
<1> HIDE DEF s, t
<1> DEFINE u == Append(s, a)
<1>5. /\ u \in Seq(Seq(X)) /\ Len(u) = Len(s) + 1 /\ u[Len(s) + 1] = a
      /\ \A i \in 1..Len(s) : u[i] = s[i]
  BY <1>2, AppendProperties
<1>6. Flat(u) = Cat(Flat(s), a)
  BY <1>2, FlatAppend
<1> HIDE DEF u
<1>7. Len(u) = Len(t)
  BY <1>1, <1>2, <1>5
<1>8. ASSUME NEW i \in 1..Len(t) PROVE t[i] = u[i]
  <2>1. CASE i \in 1..Len(s)
    <3>1. n + i \in 1..Len(g)
      BY <1>1, <1>2, <2>1
    <3>2. t[i] = h[n + i] /\ h[n + i] = g[n + i]
      BY <1>1, <1>4, <3>1
    <3>3. s[i] = g[n + i] /\ u[i] = s[i]
      BY <1>3, <1>5, <2>1
    <3> QED
      BY <3>2, <3>3
  <2>2. CASE i = Len(s) + 1
    <3>1. n + i = Len(h)
      BY <1>1, <1>2, <2>2
    <3> QED
      BY <1>1, <1>4, <1>5, <2>2, <3>1
  <2> QED
    BY <1>1, <1>2, <2>1, <2>2, SMTT(30)
<1>9. t = u
  BY <1>2, <1>5, <1>7, <1>8, SeqEqual
<1> QED
  BY <1>6, <1>9 DEF Ahead, h, s, t

LEMMA FlatFull ==
    ASSUME NEW X, NEW s \in Seq(Seq(X)), NEW p \in Nat, \A i \in 1..Len(s) : Len(s[i]) = p
    PROVE  Len(Flat(s)) = Len(s) * p
<1> DEFINE Full(u) == \A i \in 1..Len(u) : Len(u[i]) = p
           Bad == {n \in Nat : \E u \in Seq(Seq(X)) : Len(u) = n /\ Full(u) /\ Len(Flat(u)) # n * p}
<1> SUFFICES ASSUME Len(s) \in Bad PROVE FALSE
  OBVIOUS
<1>1. PICK n \in Bad : \A k \in Bad : n <= k
  BY Least
<1>2. PICK u \in Seq(Seq(X)) : Len(u) = n /\ Full(u) /\ Len(Flat(u)) # n * p
  BY <1>1
<1>3. u # <<>>
  BY <1>2, FlatEmpty
<1>4. PICK v \in Seq(Seq(X)), a \in Seq(X) : u = Append(v, a)
  BY <1>3, SequenceEmptyOrAppend
<1>5. Len(v) \in Nat /\ Len(v) + 1 = n /\ Len(a) = p /\ Full(v)
  BY <1>2, <1>4
<1>6. Len(Flat(v)) = Len(v) * p
  BY <1>1, <1>5
<1>7. Flat(u) = Cat(Flat(v), a)
  BY <1>4, FlatAppend
<1>8. Len(Flat(u)) = Len(Flat(v)) + p
  <2>1. Flat(v) \in Seq(X)
    BY FlatType
  <2>2. Len(Cat(Flat(v), a)) = Len(Flat(v)) + Len(a)
    BY <2>1, CatType
  <2> QED
    BY <1>5, <1>7, <2>2
<1>9. (Len(v) + 1) * p = Len(v) * p + p
  BY <1>5
<1> QED
  BY <1>2, <1>5, <1>6, <1>8, <1>9

-------------------------------------------------------------------------------
\* The invariant of the way in.

\* The bytes, the packets of a tidy sensor, the clear events and the TLS records of
\* the events on the bus, by event.
wire    == [n \in 1..Len(onBus) |-> Bytes(n, onBus[n].length)]
packets == [n \in 1..Len(onBus) |-> Packets(wire[n], TRUE)]
clears  == [n \in 1..Len(onBus) |-> IF onBus[n].record = <<>> THEN <<wire[n]>> ELSE <<>>]
records == [n \in 1..Len(onBus) |-> IF onBus[n].record = <<>> THEN <<>> ELSE <<onBus[n].record>>]

LinkType ==
    /\ onBus \in Seq([length : Length, record : Seq(Nat)]) /\ Len(onBus) <= MaxEvents
    /\ usb \in Seq(Seq(Nat)) /\ plain \in Seq(Nat) /\ bio \in Seq(Seq(Nat)) /\ tls_buffers \in Seq(Nat)
    /\ pc \in {"recv", "handle_tls_data"}
    /\ _buffers \in Seq(Seq(Nat)) /\ _buffers # <<>> /\ _received_length \in Nat /\ _buffer_index \in Nat
    /\ sent \in [Channels -> Seq(Seq(Nat))] /\ received \in [Channels -> Seq(Seq(Nat))]
    /\ Len(sent.secure) <= MaxSecure
    /\ \A n \in 1..Len(sent.secure) : \E length \in InnerLength : sent.secure[n] = Bytes(n, length)

\* USBInput has taken n events whole; the buffers and the bus have the bytes of
\* the rest.
Buffered(n) ==
    IF pc = "recv"
    THEN /\ Cat(Flat(_buffers), Flat(usb)) = Ahead(wire, n)
         /\ _received_length = Len(Flat(_buffers))
    ELSE /\ Flat(usb) = Ahead(wire, n) /\ _received_length = 0
         /\ n > 0 /\ onBus[n].record # <<>> /\ _buffers[1] # <<>> /\ _buffers[1][1] = n
         /\ _buffer_index \in 1..(Len(_buffers) + 1)

\* The clear events that it has not taken are those that have not been received.
Delivered(n) == sent.clear = Cat(received.clear, Ahead(clears, n))

\* The record of an event whose buffers are not all passed is not there for TLS.
Passing(n) == IF pc = "handle_tls_data" /\ ~Passed THEN n - 1 ELSE n
Waiting(n) == Cat(bio, Ahead(records, Passing(n)))
TLSBytes(n) == Cat(tls_buffers, Cat(Flat(Waiting(n)), plain))

Sealed(n) ==
    LET k == Len(received.secure) IN
    /\ k <= Len(sent.secure)
    /\ TLSBytes(n) = Ahead(sent.secure, k)
    /\ tls_buffers # <<>> => k < Len(sent.secure) /\ Len(tls_buffers) < Len(sent.secure[k + 1])

InFrame(n) == Buffered(n) /\ Delivered(n) /\ Sealed(n)
Framed == failed = "none" => \E n \in 0..Len(onBus) : InFrame(n)

-------------------------------------------------------------------------------
\* The packets of an event hold its bytes.

LEMMA LinkConstants ==
    /\ HEADER \in Nat /\ PACKET \in Nat /\ BUFFER \in Nat /\ MaxEvents \in Nat /\ MaxSecure \in Nat
    /\ HEADER > 0 /\ PACKET > 0 /\ HEADER < BUFFER
    /\ \A n \in Length : n \in Nat /\ n >= HEADER
BY LinkAssumption

LEMMA Division ==
    ASSUME NEW n \in Nat, NEW p \in Nat, p > 0
    PROVE  \E d \in Nat, r \in Nat : d = n \div p /\ r = n % p /\ r < p /\ n = d * p + r
<1> DEFINE d == n \div p
<1>1. d \in Int /\ d * p <= n /\ n < (d + 1) * p
  BY SMT
<1>2. d >= 0
  BY SMT
<1>3. ASSUME NEW e \in Nat, NEW r \in Nat, r < p, n = e * p + r
      PROVE  n % p = r
  BY <1>3, SMT
<1> HIDE DEF d
<1>4. d * p \in Int /\ (d + 1) * p = d * p + p
  BY <1>1
<1>5. PICK e \in Nat : e = d
  BY <1>1, <1>2
<1>6. PICK r \in Nat : r < p /\ n = e * p + r
  <2>1. n - d * p \in Nat /\ n - d * p < p /\ n = d * p + (n - d * p)
    BY <1>1, <1>4
  <2> QED
    BY <1>5, <2>1
<1>7. n % p = r
  BY <1>3, <1>5, <1>6
<1>8. e = n \div p
  BY <1>5 DEF d
<1> QED
  BY <1>5, <1>6, <1>7, <1>8

LEMMA FunctionSeq ==
    ASSUME NEW X, NEW n \in Nat, NEW f, f = [i \in 1..n |-> f[i]], \A i \in 1..n : f[i] \in X
    PROVE  f \in Seq(X) /\ Len(f) = n
<1> DEFINE g == [i \in 1..n |-> f[i]]
<1>1. g \in Seq(X) /\ Len(g) = n
  OBVIOUS
<1> QED
  BY <1>1

\* The full packets of b hold its first bytes.
Cut(b, m) == [i \in 1..m |-> SubSeq(b, (i - 1) * PACKET + 1, i * PACKET)]

LEMMA CutFlat ==
    ASSUME NEW b \in Seq(Nat), NEW m \in Nat, m * PACKET <= Len(b)
    PROVE  /\ Cut(b, m) \in Seq(Seq(Nat)) /\ Len(Cut(b, m)) = m
           /\ \A i \in 1..m : Len(Cut(b, m)[i]) = PACKET
           /\ Flat(Cut(b, m)) = SubSeq(b, 1, m * PACKET)
<1> DEFINE Fits(n) ==
               /\ Cut(b, n) \in Seq(Seq(Nat)) /\ Len(Cut(b, n)) = n
               /\ \A i \in 1..n : Len(Cut(b, n)[i]) = PACKET
               /\ Flat(Cut(b, n)) = SubSeq(b, 1, n * PACKET)
           Bad == {n \in Nat : n * PACKET <= Len(b) /\ ~Fits(n)}
<1> SUFFICES ASSUME m \in Bad PROVE FALSE
  OBVIOUS
<1>1. PICK n \in Bad : \A k \in Bad : n <= k
  BY Least
<1>2. PACKET \in Nat /\ PACKET > 0 /\ Len(b) \in Nat /\ n \in Nat /\ n * PACKET <= Len(b)
  BY <1>1, LinkConstants
<1>3. CASE n = 0
  <2>1. Cut(b, 0) = <<>> /\ 0 * PACKET = 0 /\ SubSeq(b, 1, 0) = <<>>
    BY <1>2, SubSeqEmpty DEF Cut
  <2>2. <<>> \in Seq(Seq(Nat)) /\ Len(<<>>) = 0
    OBVIOUS
  <2>3. Flat(Cut(b, 0)) = SubSeq(b, 1, 0 * PACKET)
    BY <2>1, FlatEmpty
  <2>4. \A i \in 1..0 : Len(Cut(b, 0)[i]) = PACKET
    OBVIOUS
  <2>5. Fits(0)
    BY <2>1, <2>2, <2>3, <2>4
  <2> QED
    BY <1>1, <1>3, <2>5
<1>4. CASE n # 0
  <2>1. PICK k \in Nat : n = k + 1
    BY <1>2, <1>4
  <2>2. k * PACKET \in Nat /\ (k + 1) * PACKET = k * PACKET + PACKET
    BY <1>2
  <2>3. Fits(k)
    BY <1>1, <1>2, <2>1, <2>2, SMTT(30)
  <2>4. PICK lo \in Nat : lo = k * PACKET
    BY <2>2
  <2>5. PICK hi \in Nat : hi = n * PACKET
    <3>1. n * PACKET = k * PACKET + PACKET
      BY <2>1, <2>2
    <3> QED
      BY <1>2, <2>2, <3>1
  <2> DEFINE last == SubSeq(b, lo + 1, hi)
  <2>6. hi = lo + PACKET /\ hi <= Len(b) /\ \A i \in lo + 1..hi : b[i] \in Nat
    <3>1. n * PACKET = k * PACKET + PACKET
      BY <2>1, <2>2
    <3>2. hi = lo + PACKET /\ hi <= Len(b)
      BY <1>2, <2>4, <2>5, <3>1
    <3>3. ASSUME NEW i \in lo + 1..hi PROVE b[i] \in Nat
      <4>1. i \in 1..Len(b)
        BY <1>2, <3>2
      <4> QED
        BY <4>1, ElementOfSeq
    <3> QED
      BY <3>2, <3>3
  <2>7. last \in Seq(Nat) /\ Len(last) = PACKET /\ SubSeq(b, 1, hi) = Cat(SubSeq(b, 1, lo), last)
    <3>1. 1 \in 1..Len(b) + 1 /\ lo \in 1 - 1..Len(b) /\ hi \in lo..Len(b)
      BY <1>2, <2>6, SMTT(30)
    <3>2. SubSeq(b, 1, hi) = Cat(SubSeq(b, 1, lo), last)
      BY <3>1, ConcatAdjacentSubSeq DEF Cat
    <3>3. last \in Seq(Nat) /\ Len(last) = PACKET
      BY <1>2, <2>6, SubSeqProperties
    <3> QED
      BY <3>2, <3>3
  <2>8. Cut(b, n) = [i \in 1..n |-> Cut(b, n)[i]] /\ Cut(b, n)[n] = last
    <3>1. n \in 1..n /\ n - 1 = k
      BY <1>2, <2>1
    <3>2. Cut(b, n)[n] = SubSeq(b, (n - 1) * PACKET + 1, n * PACKET)
      BY <3>1 DEF Cut
    <3>3. (n - 1) * PACKET = lo
      BY <2>4, <3>1
    <3>4. Cut(b, n) = [i \in 1..n |-> Cut(b, n)[i]]
      BY DEF Cut
    <3> QED
      BY <2>5, <3>2, <3>3, <3>4
  <2> HIDE DEF last
  <2>9. ASSUME NEW i \in 1..n
        PROVE  \/ i \in 1..k /\ Cut(b, n)[i] = Cut(b, k)[i]
               \/ i = n /\ Cut(b, n)[i] = last
    <3>1. i \in 1..k \/ i = n
      BY <2>1
    <3>2. ASSUME i \in 1..k PROVE Cut(b, n)[i] = Cut(b, k)[i]
      BY <3>2 DEF Cut
    <3>3. Cut(b, n)[n] = last
      BY <2>8
    <3> QED
      BY <3>1, <3>2, <3>3
  <2>10. /\ Cut(b, n) \in Seq(Seq(Nat)) /\ Len(Cut(b, n)) = n
         /\ \A i \in 1..n : Len(Cut(b, n)[i]) = PACKET
    <3>1. \A i \in 1..k : Cut(b, k)[i] \in Seq(Nat)
      BY <2>3
    <3>2. \A i \in 1..n : Cut(b, n)[i] \in Seq(Nat)
      BY <2>7, <2>9, <3>1
    <3>3. \A i \in 1..n : Len(Cut(b, n)[i]) = PACKET
      BY <2>3, <2>7, <2>9
    <3>4. Cut(b, n) \in Seq(Seq(Nat)) /\ Len(Cut(b, n)) = n
      BY <2>8, <3>2, FunctionSeq
    <3> QED
      BY <3>3, <3>4
  <2>11. Cut(b, n) = Append(Cut(b, k), last)
    <3> DEFINE u == Append(Cut(b, k), last)
    <3>0. Cut(b, k) \in Seq(Seq(Nat)) /\ Len(Cut(b, k)) = k /\ last \in Seq(Nat)
      BY <2>3, <2>7
    <3>1. /\ u \in Seq(Seq(Nat)) /\ Len(u) = n /\ u[n] = last
          /\ \A i \in 1..k : u[i] = Cut(b, k)[i]
      BY <2>1, <3>0, AppendProperties
    <3> HIDE DEF u
    <3>2. \A i \in 1..n : Cut(b, n)[i] = u[i]
      BY <2>9, <3>1
    <3>3. Cut(b, n) = u
      BY <2>10, <3>1, <3>2, SeqEqual
    <3> QED
      BY <3>3 DEF u
  <2>12. Flat(Cut(b, n)) = SubSeq(b, 1, n * PACKET)
    <3>1. Flat(Cut(b, n)) = Cat(Flat(Cut(b, k)), last)
      BY <2>3, <2>7, <2>11, FlatAppend
    <3> QED
      BY <2>3, <2>4, <2>5, <2>7, <3>1
  <2> QED
    BY <1>1, <2>10, <2>12
<1> QED
  BY <1>3, <1>4

\* Packets loses nothing and keeps the order; the packets of a closed write are
\* full up to a short one.
LEMMA PacketsWhole ==
    ASSUME NEW b \in Seq(Nat), NEW closed \in BOOLEAN
    PROVE  /\ Packets(b, closed) \in Seq(Seq(Nat)) /\ Flat(Packets(b, closed)) = b
           /\ closed => \E full \in Nat :
                  /\ Len(Packets(b, closed)) = full + 1
                  /\ full * PACKET <= Len(b) /\ Len(b) < full * PACKET + PACKET
                  /\ \A i \in 1..full : Len(Packets(b, closed)[i]) = PACKET
                  /\ Len(Packets(b, closed)[full + 1]) = Len(b) - full * PACKET
<1>1. PACKET \in Nat /\ PACKET > 0 /\ Len(b) \in Nat
  BY LinkConstants
<1>2. PICK full \in Nat, r \in Nat : /\ full = Len(b) \div PACKET /\ r = Len(b) % PACKET
                                     /\ r < PACKET /\ Len(b) = full * PACKET + r
  BY <1>1, Division, ZenonT(30)
<1>3. full * PACKET \in Nat /\ full * PACKET <= Len(b) /\ full * PACKET \in 0..Len(b)
  BY <1>1, <1>2
<1> DEFINE rest == SubSeq(b, full * PACKET + 1, Len(b))
           tail == IF r # 0 THEN <<rest>> ELSE IF closed THEN << <<>> >> ELSE <<>>
           p == Packets(b, closed)
<1>4. p = Cat(Cut(b, full), tail)
  BY <1>2 DEF Packets, Cut, Cat
<1>5. /\ Cut(b, full) \in Seq(Seq(Nat)) /\ Len(Cut(b, full)) = full
      /\ \A i \in 1..full : Len(Cut(b, full)[i]) = PACKET
      /\ Flat(Cut(b, full)) = SubSeq(b, 1, full * PACKET)
  BY <1>3, CutFlat
<1>6. /\ SubSeq(b, 1, full * PACKET) \in Seq(Nat) /\ rest \in Seq(Nat) /\ Len(rest) = Len(b) - full * PACKET
      /\ b = Cat(SubSeq(b, 1, full * PACKET), rest)
  BY <1>3, CutAt, ZenonT(30)
<1> HIDE DEF rest
<1>7. tail \in Seq(Seq(Nat)) /\ Flat(tail) = rest /\ (closed => Len(tail) = 1 /\ tail[1] = rest)
  <2>1. CASE r # 0
    <3>1. Flat(<<rest>>) = rest
      BY <1>6, FlatOne
    <3> QED
      BY <1>6, <2>1, <3>1
  <2>2. CASE r = 0
    <3>1. rest = <<>>
      BY <1>1, <1>2, <1>6, <2>2
    <3>2. Flat(<< <<>> >>) = <<>>
      <4>1. <<>> \in Seq(Nat)
        OBVIOUS
      <4> QED
        BY <4>1, FlatOne
    <3> QED
      BY <2>2, <3>1, <3>2, FlatEmpty
  <2> QED
    BY <2>1, <2>2
<1> HIDE DEF tail, p
<1>8. p \in Seq(Seq(Nat)) /\ Len(p) = full + Len(tail)
  BY <1>4, <1>5, <1>7, CatType
<1>9. Flat(p) = b
  BY <1>4, <1>5, <1>6, <1>7, FlatCat
<1>10. \A i \in 1..full : p[i] = Cut(b, full)[i]
  BY <1>4, <1>5, <1>7, CatAt, ZenonT(30)
<1>11. closed => p[full + 1] = rest
  <2> SUFFICES ASSUME closed PROVE p[full + 1] = rest
    OBVIOUS
  <2>1. Len(tail) = 1 /\ tail[1] = rest
    BY <1>7, Zenon
  <2>2. 1 \in 1..Len(tail)
    BY <2>1
  <2>3. Cat(Cut(b, full), tail)[Len(Cut(b, full)) + 1] = tail[1]
    BY <1>5, <1>7, <2>2, CatAfter
  <2> QED
    BY <1>4, <1>5, <2>1, <2>3
<1>12. Len(b) < full * PACKET + PACKET
  BY <1>1, <1>2, <1>3
<1> QED
  BY <1>3, <1>5, <1>6, <1>7, <1>8, <1>9, <1>10, <1>11, <1>12 DEF p

-------------------------------------------------------------------------------
\* What the sensor has put on the bus.

LEMMA BytesType ==
    ASSUME NEW n \in Nat, NEW length \in Nat
    PROVE  /\ Bytes(n, length) \in Seq(Nat) /\ Len(Bytes(n, length)) = length
           /\ \A i \in 1..length : Bytes(n, length)[i] = n
BY DEF Bytes

LEMMA EventType ==
    ASSUME LinkType
    PROVE  /\ Len(onBus) \in Nat
           /\ \A n \in 1..Len(onBus) : /\ onBus[n].length \in Length /\ onBus[n].length \in Nat
                                       /\ onBus[n].record \in Seq(Nat)
                                       /\ onBus[n].length >= HEADER
<1>1. onBus \in Seq([length : Length, record : Seq(Nat)])
  BY DEF LinkType
<1>2. ASSUME NEW n \in 1..Len(onBus)
      PROVE  /\ onBus[n].length \in Length /\ onBus[n].length \in Nat /\ onBus[n].record \in Seq(Nat)
             /\ onBus[n].length >= HEADER
  <2>1. onBus[n] \in [length : Length, record : Seq(Nat)]
    BY <1>1, ElementOfSeq
  <2> QED
    BY <2>1, LinkConstants
<1>3. Len(onBus) \in Nat
  BY <1>1
<1> QED
  BY <1>2, <1>3, Zenon

LEMMA WireType ==
    ASSUME LinkType
    PROVE  /\ wire \in Seq(Seq(Nat)) /\ Len(wire) = Len(onBus)
           /\ \A n \in 1..Len(onBus) : wire[n] = Bytes(n, onBus[n].length)
<1>1. Len(onBus) \in Nat /\ \A n \in 1..Len(onBus) : Bytes(n, onBus[n].length) \in Seq(Nat)
  <2>1. Len(onBus) \in Nat /\ \A n \in 1..Len(onBus) : n \in Nat /\ onBus[n].length \in Nat
    BY EventType
  <2> QED
    BY <2>1, BytesType
<1> DEFINE f == wire
<1>2. \A n \in 1..Len(onBus) : f[n] = Bytes(n, onBus[n].length)
  BY DEF wire
<1>3. f = [n \in 1..Len(onBus) |-> f[n]]
  BY DEF wire
<1>4. \A n \in 1..Len(onBus) : f[n] \in Seq(Nat)
  BY <1>1, <1>2
<1>5. f \in Seq(Seq(Nat)) /\ Len(f) = Len(onBus)
  BY <1>1, <1>3, <1>4, FunctionSeq
<1> QED
  BY <1>2, <1>5

LEMMA PacketsType ==
    ASSUME LinkType
    PROVE  /\ packets \in Seq(Seq(Seq(Nat))) /\ Len(packets) = Len(onBus)
           /\ \A n \in 1..Len(onBus) : packets[n] = Packets(wire[n], TRUE)
<1>1. Len(onBus) \in Nat /\ \A n \in 1..Len(onBus) : wire[n] \in Seq(Nat)
  BY EventType, WireType
<1>2. \A n \in 1..Len(onBus) : packets[n] = Packets(wire[n], TRUE)
  BY DEF packets
<1>3. \A n \in 1..Len(onBus) : packets[n] \in Seq(Seq(Nat))
  BY <1>1, <1>2, PacketsWhole
<1>4. packets = [n \in 1..Len(onBus) |-> packets[n]]
  BY DEF packets
<1>5. packets \in Seq(Seq(Seq(Nat))) /\ Len(packets) = Len(onBus)
  BY <1>1, <1>3, <1>4, FunctionSeq
<1> QED
  BY <1>2, <1>5

LEMMA ClearsType ==
    ASSUME LinkType
    PROVE  /\ clears \in Seq(Seq(Seq(Nat))) /\ Len(clears) = Len(onBus)
           /\ \A n \in 1..Len(onBus) : /\ onBus[n].record = <<>> => clears[n] = <<wire[n]>>
                                       /\ onBus[n].record # <<>> => clears[n] = <<>>
<1>1. Len(onBus) \in Nat /\ \A n \in 1..Len(onBus) : wire[n] \in Seq(Nat)
  BY EventType, WireType
<1>2. \A n \in 1..Len(onBus) : clears[n] = IF onBus[n].record = <<>> THEN <<wire[n]>> ELSE <<>>
  BY DEF clears
<1>3. ASSUME NEW n \in 1..Len(onBus) PROVE clears[n] \in Seq(Seq(Nat))
  <2>1. wire[n] \in Seq(Nat)
    BY <1>1
  <2>2. <<>> \in Seq(Seq(Nat)) /\ <<wire[n]>> \in Seq(Seq(Nat))
    BY <2>1
  <2> QED
    BY <1>2, <2>2
<1>4. clears = [n \in 1..Len(onBus) |-> clears[n]]
  BY DEF clears
<1>5. clears \in Seq(Seq(Seq(Nat))) /\ Len(clears) = Len(onBus)
  BY <1>1, <1>3, <1>4, FunctionSeq
<1> QED
  BY <1>2, <1>5

LEMMA RecordsType ==
    ASSUME LinkType
    PROVE  /\ records \in Seq(Seq(Seq(Nat))) /\ Len(records) = Len(onBus)
           /\ \A n \in 1..Len(onBus) : /\ onBus[n].record # <<>> => records[n] = <<onBus[n].record>>
                                       /\ onBus[n].record = <<>> => records[n] = <<>>
<1>1. Len(onBus) \in Nat /\ \A n \in 1..Len(onBus) : onBus[n].record \in Seq(Nat)
  BY EventType
<1>2. \A n \in 1..Len(onBus) : records[n] = IF onBus[n].record = <<>> THEN <<>> ELSE <<onBus[n].record>>
  BY DEF records
<1>3. ASSUME NEW n \in 1..Len(onBus) PROVE records[n] \in Seq(Seq(Nat))
  <2>1. onBus[n].record \in Seq(Nat)
    BY <1>1
  <2>2. <<>> \in Seq(Seq(Nat)) /\ <<onBus[n].record>> \in Seq(Seq(Nat))
    BY <2>1
  <2> QED
    BY <1>2, <2>2
<1>4. records = [n \in 1..Len(onBus) |-> records[n]]
  BY DEF records
<1>5. records \in Seq(Seq(Seq(Nat))) /\ Len(records) = Len(onBus)
  BY <1>1, <1>3, <1>4, FunctionSeq
<1> QED
  BY <1>2, <1>5

LEMMA WritesWhole ==
    ASSUME NEW b \in Seq(Nat), Len(b) >= HEADER, NEW p \in Writes(b)
    PROVE  p \in Seq(Seq(Nat)) /\ Flat(p) = b
<1>1. CASE \E closed \in BOOLEAN : p = Packets(b, closed)
  BY <1>1, PacketsWhole
<1>2. CASE \E k \in 1..HEADER : p = Packets(SubSeq(b, 1, k), TRUE) \o Packets(SubSeq(b, k + 1, Len(b)), TRUE)
  <2>1. PICK k \in 1..HEADER : p = Packets(SubSeq(b, 1, k), TRUE) \o Packets(SubSeq(b, k + 1, Len(b)), TRUE)
    BY <1>2
  <2> DEFINE c == SubSeq(b, 1, k)
             d == SubSeq(b, k + 1, Len(b))
  <2>2. k \in 0..Len(b)
    BY LinkConstants
  <2>3. c \in Seq(Nat) /\ d \in Seq(Nat) /\ b = Cat(c, d)
    BY <2>2, CutAt
  <2> HIDE DEF c, d
  <2>4. Packets(c, TRUE) \in Seq(Seq(Nat)) /\ Flat(Packets(c, TRUE)) = c
    BY <2>3, PacketsWhole
  <2>5. Packets(d, TRUE) \in Seq(Seq(Nat)) /\ Flat(Packets(d, TRUE)) = d
    BY <2>3, PacketsWhole
  <2>6. p = Cat(Packets(c, TRUE), Packets(d, TRUE))
    BY <2>1 DEF Cat, c, d
  <2> QED
    BY <2>3, <2>4, <2>5, <2>6, CatType, FlatCat, ZenonT(30)
<1> QED
  BY <1>1, <1>2 DEF Writes

\* An event that is put on the bus is put behind everything.
LEMMA PutGrows ==
    ASSUME LinkType, NEW length \in Length, NEW record \in Seq(Nat), PutOnBus(length, record)
    PROVE  LET e == Bytes(Len(onBus) + 1, length) IN
           /\ onBus' \in Seq([length : Length, record : Seq(Nat)])
           /\ Len(onBus') = Len(onBus) + 1 /\ Len(onBus') <= MaxEvents
           /\ \A n \in 1..Len(onBus) : onBus'[n] = onBus[n]
           /\ onBus'[Len(onBus) + 1] = [length |-> length, record |-> record]
           /\ wire' = Append(wire, e) /\ packets' = Append(packets, Packets(e, TRUE))
           /\ clears' = Append(clears, IF record = <<>> THEN <<e>> ELSE <<>>)
           /\ records' = Append(records, IF record = <<>> THEN <<>> ELSE <<record>>)
           /\ usb' \in Seq(Seq(Nat)) /\ Flat(usb') = Cat(Flat(usb), e)
           /\ tidy => usb' = Cat(usb, Packets(e, TRUE))
<1> DEFINE e == Bytes(Len(onBus) + 1, length)
           m == Len(onBus)
           v == [length |-> length, record |-> record]
<1>1. /\ onBus \in Seq([length : Length, record : Seq(Nat)]) /\ v \in [length : Length, record : Seq(Nat)]
      /\ m \in Nat /\ m < MaxEvents /\ onBus' = Append(onBus, v) /\ length \in Nat /\ length >= HEADER
      /\ MaxEvents \in Nat /\ usb \in Seq(Seq(Nat))
  BY LinkConstants DEF PutOnBus, LinkType
<1>2. /\ onBus' \in Seq([length : Length, record : Seq(Nat)]) /\ Len(onBus') = m + 1 /\ onBus'[m + 1] = v
      /\ \A n \in 1..m : onBus'[n] = onBus[n]
  BY <1>1, AppendProperties
<1>3. m + 1 <= MaxEvents
  BY <1>1
<1>4. e \in Seq(Nat) /\ Len(e) = length
  BY <1>1, BytesType
<1>5. PICK p \in Writes(e) : usb' = usb \o p
  BY <1>2 DEF PutOnBus
<1>6. p \in Seq(Seq(Nat)) /\ Flat(p) = e
  BY <1>1, <1>4, <1>5, WritesWhole
<1>7. usb' = Cat(usb, p)
  BY <1>5 DEF Cat
<1>8. usb' \in Seq(Seq(Nat)) /\ Flat(usb') = Cat(Flat(usb), e)
  BY <1>1, <1>6, <1>7, CatType, FlatCat
<1>9. tidy => p = Packets(e, TRUE)
  BY <1>5 DEF Writes
<1> HIDE DEF e, v
<1>10. wire' = Append(wire, e)
  <2> DEFINE s == Append(wire, e)
  <2>1. wire \in Seq(Seq(Nat)) /\ Len(wire) = m /\ \A n \in 1..m : wire[n] = Bytes(n, onBus[n].length)
    BY WireType
  <2>2. Len(s) = m + 1 /\ s \in Seq(Seq(Nat)) /\ s[m + 1] = e /\ \A n \in 1..m : s[n] = wire[n]
    BY <1>4, <2>1, AppendProperties
  <2>3. wire' = [n \in 1..(m + 1) |-> Bytes(n, onBus'[n].length)]
    BY <1>2 DEF wire
  <2> HIDE DEF s
  <2>4. \A n \in 1..(m + 1) : Bytes(n, onBus'[n].length) = s[n]
    BY <1>1, <1>2, <2>1, <2>2 DEF e, v
  <2>5. s = [n \in 1..(m + 1) |-> s[n]]
    BY <1>1, <2>2
  <2> QED
    BY <2>3, <2>4, <2>5 DEF s
<1>11. packets' = Append(packets, Packets(e, TRUE))
  <2> DEFINE k == Packets(e, TRUE)
             s == Append(packets, k)
  <2>1. packets \in Seq(Seq(Seq(Nat))) /\ Len(packets) = m /\ \A n \in 1..m : packets[n] = Packets(wire[n], TRUE)
    BY PacketsType
  <2>2. k \in Seq(Seq(Nat))
    BY <1>4, PacketsWhole
  <2> HIDE DEF k
  <2>3. Len(s) = m + 1 /\ s \in Seq(Seq(Seq(Nat))) /\ s[m + 1] = k /\ \A n \in 1..m : s[n] = packets[n]
    BY <2>1, <2>2, AppendProperties
  <2>4. packets' = [n \in 1..(m + 1) |-> Packets(wire'[n], TRUE)]
    BY <1>2 DEF packets
  <2>5. wire'[m + 1] = e /\ \A n \in 1..m : wire'[n] = wire[n]
    BY <1>4, <1>10, WireType, AppendProperties
  <2> HIDE DEF s
  <2>6. ASSUME NEW n \in 1..(m + 1) PROVE Packets(wire'[n], TRUE) = s[n]
    <3>1. CASE n \in 1..m
      BY <2>1, <2>3, <2>5, <3>1
    <3>2. CASE n = m + 1
      BY <2>3, <2>5, <3>2 DEF k
    <3>3. n \in 1..m \/ n = m + 1
      <4>1. m \in Nat
        BY <1>1
      <4> QED
        BY <4>1
    <3> QED
      BY <3>1, <3>2, <3>3
  <2>7. s = [n \in 1..(m + 1) |-> s[n]]
    BY <1>1, <2>3
  <2> QED
    BY <2>4, <2>6, <2>7 DEF s, k
<1>12. clears' = Append(clears, IF record = <<>> THEN <<e>> ELSE <<>>)
  <2> DEFINE c == IF record = <<>> THEN <<e>> ELSE <<>>
             s == Append(clears, c)
  <2>1. /\ clears \in Seq(Seq(Seq(Nat))) /\ Len(clears) = m
        /\ \A n \in 1..m : clears[n] = IF onBus[n].record = <<>> THEN <<wire[n]>> ELSE <<>>
    BY ClearsType
  <2>2. c \in Seq(Seq(Nat))
    BY <1>4
  <2>3. Len(s) = m + 1 /\ s \in Seq(Seq(Seq(Nat))) /\ s[m + 1] = c /\ \A n \in 1..m : s[n] = clears[n]
    BY <2>1, <2>2, AppendProperties
  <2>4. clears' = [n \in 1..(m + 1) |-> IF onBus'[n].record = <<>> THEN <<wire'[n]>> ELSE <<>>]
    BY <1>2 DEF clears
  <2>5. wire'[m + 1] = e /\ \A n \in 1..m : wire'[n] = wire[n]
    BY <1>4, <1>10, WireType, AppendProperties
  <2> HIDE DEF s
  <2>6. ASSUME NEW n \in 1..(m + 1)
        PROVE  (IF onBus'[n].record = <<>> THEN <<wire'[n]>> ELSE <<>>) = s[n]
    <3>1. CASE n \in 1..m
      BY <1>2, <2>1, <2>3, <2>5, <3>1
    <3>2. CASE n = m + 1
      BY <1>2, <2>3, <2>5, <3>2 DEF v
    <3>3. n \in 1..m \/ n = m + 1
      <4>1. m \in Nat
        BY <1>1
      <4> QED
        BY <4>1
    <3> QED
      BY <3>1, <3>2, <3>3
  <2>7. s = [n \in 1..(m + 1) |-> s[n]]
    BY <1>1, <2>3
  <2> QED
    BY <2>4, <2>6, <2>7 DEF s
<1>13. records' = Append(records, IF record = <<>> THEN <<>> ELSE <<record>>)
  <2> DEFINE c == IF record = <<>> THEN <<>> ELSE <<record>>
             s == Append(records, c)
  <2>1. /\ records \in Seq(Seq(Seq(Nat))) /\ Len(records) = m
        /\ \A n \in 1..m : records[n] = IF onBus[n].record = <<>> THEN <<>> ELSE <<onBus[n].record>>
    BY RecordsType
  <2>2. c \in Seq(Seq(Nat))
    OBVIOUS
  <2>3. Len(s) = m + 1 /\ s \in Seq(Seq(Seq(Nat))) /\ s[m + 1] = c /\ \A n \in 1..m : s[n] = records[n]
    BY <2>1, <2>2, AppendProperties
  <2>4. records' = [n \in 1..(m + 1) |-> IF onBus'[n].record = <<>> THEN <<>> ELSE <<onBus'[n].record>>]
    BY <1>2 DEF records
  <2> HIDE DEF s
  <2>6. ASSUME NEW n \in 1..(m + 1)
        PROVE  (IF onBus'[n].record = <<>> THEN <<>> ELSE <<onBus'[n].record>>) = s[n]
    <3>1. CASE n \in 1..m
      BY <1>2, <2>1, <2>3, <3>1
    <3>2. CASE n = m + 1
      BY <1>2, <2>3, <3>2 DEF v
    <3>3. n \in 1..m \/ n = m + 1
      <4>1. m \in Nat
        BY <1>1
      <4> QED
        BY <4>1
    <3> QED
      BY <3>1, <3>2, <3>3
  <2>7. s = [n \in 1..(m + 1) |-> s[n]]
    BY <1>1, <2>3
  <2> QED
    BY <2>4, <2>6, <2>7 DEF s
<1> QED
  BY <1>2, <1>3, <1>7, <1>8, <1>9, <1>10, <1>11, <1>12, <1>13 DEF e, v

LEMMA LinkCounts ==
    ASSUME LinkType
    PROVE  Len(onBus) \in Nat /\ Len(sent.secure) \in Nat /\ Len(received.secure) \in Nat
<1>1. Len(onBus) \in Nat
  BY DEF LinkType
<1>2. sent.secure \in Seq(Seq(Nat)) /\ received.secure \in Seq(Seq(Nat))
  BY DEF LinkType, Channels
<1>3. Len(sent.secure) \in Nat /\ Len(received.secure) \in Nat
  BY <1>2
<1> QED
  BY <1>1, <1>3

LEMMA LinkTypes ==
    ASSUME LinkType
    PROVE  /\ onBus \in Seq([length : Length, record : Seq(Nat)]) /\ Len(onBus) \in Nat
           /\ usb \in Seq(Seq(Nat)) /\ plain \in Seq(Nat) /\ bio \in Seq(Seq(Nat)) /\ tls_buffers \in Seq(Nat)
           /\ _buffers \in Seq(Seq(Nat)) /\ _buffers # <<>>
           /\ sent.clear \in Seq(Seq(Nat)) /\ sent.secure \in Seq(Seq(Nat))
           /\ received.clear \in Seq(Seq(Nat)) /\ received.secure \in Seq(Seq(Nat))
           /\ Len(sent.secure) \in Nat /\ Len(received.secure) \in Nat /\ Len(bio) \in Nat /\ Len(tls_buffers) \in Nat
           /\ Flat(_buffers) \in Seq(Nat) /\ Flat(usb) \in Seq(Nat)
<1>1. /\ onBus \in Seq([length : Length, record : Seq(Nat)])
      /\ usb \in Seq(Seq(Nat)) /\ plain \in Seq(Nat) /\ bio \in Seq(Seq(Nat)) /\ tls_buffers \in Seq(Nat)
      /\ _buffers \in Seq(Seq(Nat)) /\ _buffers # <<>>
  BY DEF LinkType
<1>2. /\ sent.clear \in Seq(Seq(Nat)) /\ sent.secure \in Seq(Seq(Nat))
      /\ received.clear \in Seq(Seq(Nat)) /\ received.secure \in Seq(Seq(Nat))
  BY DEF LinkType, Channels
<1>3. Flat(_buffers) \in Seq(Nat) /\ Flat(usb) \in Seq(Nat)
  BY <1>1, FlatType
<1>4. Len(bio) \in Nat /\ Len(tls_buffers) \in Nat
  BY <1>1
<1> QED
  BY <1>1, <1>2, <1>3, <1>4, LinkCounts, Zenon

LEMMA WaitingType ==
    ASSUME LinkType, NEW n \in 0..Len(onBus), Buffered(n)
    PROVE  /\ Passing(n) \in 0..Len(onBus) /\ Ahead(records, Passing(n)) \in Seq(Seq(Nat))
           /\ Waiting(n) \in Seq(Seq(Nat)) /\ Flat(Waiting(n)) \in Seq(Nat)
           /\ Flat(Waiting(n)) = Cat(Flat(bio), Flat(Ahead(records, Passing(n))))
<1>1. Passing(n) \in 0..Len(onBus)
  BY LinkTypes DEF Passing, Buffered, LinkType
<1>2. Ahead(records, Passing(n)) \in Seq(Seq(Nat))
  BY <1>1, RecordsType, AheadType
<1>3. Waiting(n) \in Seq(Seq(Nat)) /\ Flat(Waiting(n)) = Cat(Flat(bio), Flat(Ahead(records, Passing(n))))
  BY <1>2, LinkTypes, CatType, FlatCat DEF Waiting
<1>4. Flat(Waiting(n)) \in Seq(Nat)
  BY <1>3, FlatType
<1> QED
  BY <1>1, <1>2, <1>3, <1>4

LEMMA PutKept ==
    ASSUME LinkType, NEW n \in 0..Len(onBus), Buffered(n),
           NEW length \in Length, NEW record \in Seq(Nat), PutOnBus(length, record), UNCHANGED <<inputVars, bio>>
    PROVE  LET e == Bytes(Len(onBus) + 1, length) IN
           /\ n \in 0..Len(onBus') /\ e \in Seq(Nat)
           /\ Buffered(n)'
           /\ Ahead(clears', n) = Cat(Ahead(clears, n), IF record = <<>> THEN <<e>> ELSE <<>>)
           /\ Waiting(n)' = Cat(Waiting(n), IF record = <<>> THEN <<>> ELSE <<record>>)
<1> DEFINE e == Bytes(Len(onBus) + 1, length)
           c == IF record = <<>> THEN <<e>> ELSE <<>>
           r == IF record = <<>> THEN <<>> ELSE <<record>>
<1>1. /\ Len(onBus) \in Nat /\ Len(onBus') = Len(onBus) + 1 /\ \A k \in 1..Len(onBus) : onBus'[k] = onBus[k]
      /\ wire' = Append(wire, e) /\ clears' = Append(clears, c) /\ records' = Append(records, r)
      /\ Flat(usb') = Cat(Flat(usb), e)
  BY LinkTypes, PutGrows
<1>2. e \in Seq(Nat)
  <2>1. length \in Nat /\ Len(onBus) + 1 \in Nat
    BY <1>1, LinkConstants
  <2> QED
    BY <2>1, BytesType
<1>3. c \in Seq(Seq(Nat)) /\ r \in Seq(Seq(Nat))
  BY <1>2
<1>4. UNCHANGED <<pc, _buffers, _received_length, _buffer_index, bio>>
  BY DEF inputVars
<1> HIDE DEF e, c, r
<1>5. /\ wire \in Seq(Seq(Nat)) /\ Len(wire) = Len(onBus) /\ clears \in Seq(Seq(Seq(Nat))) /\ Len(clears) = Len(onBus)
      /\ records \in Seq(Seq(Seq(Nat))) /\ Len(records) = Len(onBus)
  BY WireType, ClearsType, RecordsType
<1>6. Ahead(clears', n) = Cat(Ahead(clears, n), c)
  <2>1. n \in 0..Len(clears)
    BY <1>5
  <2> QED
    BY <1>1, <1>3, <1>5, <2>1, AheadAppend
<1>7. Ahead(wire', n) = Cat(Ahead(wire, n), e)
  <2>1. n \in 0..Len(wire)
    BY <1>5
  <2> QED
    BY <1>1, <1>2, <1>5, <2>1, AheadAppend
<1>8. Buffered(n)'
  <2>1. CASE pc = "recv"
    <3>1. Cat(Flat(_buffers), Cat(Flat(usb), e)) = Cat(Cat(Flat(_buffers), Flat(usb)), e)
      BY <1>2, LinkTypes, CatAssoc
    <3> QED
      BY <1>1, <1>4, <1>7, <2>1, <3>1 DEF Buffered
  <2>2. CASE pc # "recv"
    BY <1>1, <1>4, <1>7, <2>2 DEF Buffered
  <2> QED
    BY <2>1, <2>2
<1>9. Waiting(n)' = Cat(Waiting(n), r)
  <2>1. Passing(n)' = Passing(n)
    BY <1>4 DEF Passing, Passed
  <2> DEFINE k == Passing(n)
  <2>2. k \in 0..Len(onBus) /\ Ahead(records, k) \in Seq(Seq(Nat))
    BY WaitingType
  <2> HIDE DEF k
  <2>3. Ahead(records', k) = Cat(Ahead(records, k), r)
    BY <1>1, <1>3, <1>5, <2>2, AheadAppend
  <2>4. Cat(bio, Cat(Ahead(records, k), r)) = Cat(Cat(bio, Ahead(records, k)), r)
    BY <1>3, <2>2, LinkTypes, CatAssoc
  <2>5. Waiting(n)' = Cat(bio, Ahead(records', k))
    BY <1>4, <2>1 DEF Waiting, k
  <2>6. Waiting(n) = Cat(bio, Ahead(records, k))
    BY DEF Waiting, k
  <2> QED
    BY <2>3, <2>4, <2>5, <2>6
<1>10. n \in 0..Len(onBus')
  BY <1>1
<1> QED
  BY <1>2, <1>6, <1>8, <1>9, <1>10 DEF c, e, r

-------------------------------------------------------------------------------
\* The sensor.

\* SendClear.
LEMMA ClearType ==
    ASSUME LinkType, SendClear
    PROVE  LinkType'
<1>1. PICK length \in ClearLength : /\ PutOnBus(length, <<>>)
                                    /\ sent' = [sent EXCEPT !.clear = Append(@, Bytes(Len(onBus'), length))]
  BY DEF SendClear
<1>2. UNCHANGED <<received, plain, inputVars, bio, tls_buffers>>
  BY DEF SendClear
<1>3. length \in Length /\ <<>> \in Seq(Nat)
  BY DEF Length
<1>4. /\ onBus' \in Seq([length : Length, record : Seq(Nat)]) /\ Len(onBus') <= MaxEvents
      /\ Len(onBus') = Len(onBus) + 1 /\ usb' \in Seq(Seq(Nat))
  BY <1>1, <1>3, PutGrows
<1> DEFINE e == Bytes(Len(onBus'), length)
<1>5. e \in Seq(Nat)
  <2>1. length \in Nat /\ Len(onBus') \in Nat
    BY <1>3, <1>4, LinkCounts, LinkConstants
  <2> QED
    BY <2>1, BytesType
<1> HIDE DEF e
<1>6. /\ sent.clear \in Seq(Seq(Nat)) /\ sent' = [sent EXCEPT !.clear = Append(@, e)]
      /\ sent \in [Channels -> Seq(Seq(Nat))]
  BY <1>1, LinkTypes DEF e, LinkType
<1>7. Append(sent.clear, e) \in Seq(Seq(Nat))
  BY <1>5, <1>6, AppendProperties
<1>8. sent' \in [Channels -> Seq(Seq(Nat))] /\ sent'.secure = sent.secure
  BY <1>6, <1>7 DEF Channels
<1> QED
  BY <1>2, <1>4, <1>8 DEF LinkType, inputVars

LEMMA ClearFrame ==
    ASSUME LinkType, NEW n \in 0..Len(onBus), InFrame(n), SendClear
    PROVE  n \in 0..Len(onBus') /\ InFrame(n)' /\ Waiting(n)' = Waiting(n)
<1>1. PICK length \in ClearLength : /\ PutOnBus(length, <<>>)
                                    /\ sent' = [sent EXCEPT !.clear = Append(@, Bytes(Len(onBus'), length))]
  BY DEF SendClear
<1>2. UNCHANGED <<received, plain, inputVars, bio, tls_buffers>>
  BY DEF SendClear
<1>3. length \in Length /\ <<>> \in Seq(Nat) /\ Buffered(n)
  BY DEF Length, InFrame
<1> DEFINE e == Bytes(Len(onBus) + 1, length)
           o == <<e>>
<1>4. /\ n \in 0..Len(onBus') /\ e \in Seq(Nat) /\ Buffered(n)'
      /\ Ahead(clears', n) = Cat(Ahead(clears, n), o) /\ Waiting(n)' = Cat(Waiting(n), <<>>)
  BY <1>1, <1>2, <1>3, PutKept
<1>5. Waiting(n)' = Waiting(n)
  BY <1>3, <1>4, WaitingType, CatEmpty
<1>6. Len(onBus') = Len(onBus) + 1
  BY <1>1, <1>3, PutGrows
<1>7. o \in Seq(Seq(Nat)) /\ sent.clear \in Seq(Seq(Nat)) /\ Append(sent.clear, e) = Cat(sent.clear, o)
  <2>1. sent.clear \in Seq(Seq(Nat)) /\ e \in Seq(Nat)
    BY <1>4, LinkTypes
  <2>2. Append(sent.clear, e) = sent.clear \o o
    BY <2>1, AppendIsConcat
  <2>3. o \in Seq(Seq(Nat))
    BY <2>1
  <2> QED
    BY <2>1, <2>2, <2>3 DEF Cat
<1>8. sent'.clear = Cat(sent.clear, o) /\ sent'.secure = sent.secure
  BY <1>1, <1>6, <1>7 DEF LinkType, Channels
<1> HIDE DEF o, e
<1>9. Delivered(n)'
  <2>1. Ahead(clears, n) \in Seq(Seq(Nat)) /\ received.clear \in Seq(Seq(Nat))
    BY ClearsType, AheadType, LinkTypes
  <2>2. Cat(Cat(received.clear, Ahead(clears, n)), o) = Cat(received.clear, Cat(Ahead(clears, n), o))
    BY <1>7, <2>1, CatAssoc
  <2> QED
    BY <1>2, <1>4, <1>8, <2>2 DEF Delivered, InFrame
<1>10. Sealed(n)'
  <2>1. TLSBytes(n)' = TLSBytes(n)
    BY <1>2, <1>5 DEF TLSBytes
  <2> QED
    BY <1>2, <1>8, <2>1 DEF Sealed, InFrame
<1> QED
  BY <1>4, <1>5, <1>9, <1>10 DEF InFrame

\* SendSecure.
LEMMA SecureType ==
    ASSUME LinkType, SendSecure
    PROVE  LinkType'
<1>1. PICK length \in InnerLength :
          /\ plain' = plain \o Bytes(Len(sent.secure) + 1, length)
          /\ sent' = [sent EXCEPT !.secure = Append(@, Bytes(Len(sent.secure) + 1, length))]
  BY DEF SendSecure
<1>2. UNCHANGED <<received, usb, onBus, inputVars, bio, tls_buffers>> /\ Len(sent.secure) < MaxSecure
  BY DEF SendSecure
<1> DEFINE e == Bytes(Len(sent.secure) + 1, length)
<1>3. e \in Seq(Nat)
  <2>1. length \in Nat /\ Len(sent.secure) + 1 \in Nat
    BY LinkCounts, LinkConstants DEF Length
  <2> QED
    BY <2>1, BytesType
<1> HIDE DEF e
<1>4. plain' = Cat(plain, e) /\ sent' = [sent EXCEPT !.secure = Append(@, e)]
  BY <1>1 DEF e, Cat
<1>5. plain' \in Seq(Nat)
  BY <1>3, <1>4, LinkTypes, CatType
<1> DEFINE s == sent.secure
<1>6. s \in Seq(Seq(Nat)) /\ sent \in [Channels -> Seq(Seq(Nat))] /\ Len(s) \in Nat
  BY LinkTypes DEF LinkType
<1>7. /\ Append(s, e) \in Seq(Seq(Nat)) /\ Len(Append(s, e)) = Len(s) + 1
      /\ Append(s, e)[Len(s) + 1] = e /\ \A i \in 1..Len(s) : Append(s, e)[i] = s[i]
  BY <1>3, <1>6, AppendProperties
<1>8. sent' \in [Channels -> Seq(Seq(Nat))] /\ sent'.secure = Append(s, e)
  BY <1>4, <1>6, <1>7 DEF Channels
<1>9. Len(sent'.secure) <= MaxSecure
  BY <1>2, <1>6, <1>7, <1>8, LinkConstants
<1>10. \A i \in 1..Len(sent'.secure) : \E l \in InnerLength : sent'.secure[i] = Bytes(i, l)
  <2> TAKE i \in 1..Len(sent'.secure)
  <2>1. CASE i \in 1..Len(s)
    BY <1>7, <1>8, <2>1 DEF LinkType
  <2>2. CASE i = Len(s) + 1
    BY <1>7, <1>8, <2>2 DEF e
  <2> QED
    BY <1>6, <1>7, <1>8, <2>1, <2>2
<1> QED
  BY <1>2, <1>5, <1>8, <1>9, <1>10 DEF LinkType, inputVars

LEMMA SecureFrame ==
    ASSUME LinkType, NEW n \in 0..Len(onBus), InFrame(n), SendSecure
    PROVE  InFrame(n)' /\ Waiting(n)' = Waiting(n)
<1>1. PICK length \in InnerLength :
          /\ plain' = plain \o Bytes(Len(sent.secure) + 1, length)
          /\ sent' = [sent EXCEPT !.secure = Append(@, Bytes(Len(sent.secure) + 1, length))]
  BY DEF SendSecure
<1>2. UNCHANGED <<received, usb, onBus, inputVars, bio, tls_buffers>>
  BY DEF SendSecure
<1> DEFINE e == Bytes(Len(sent.secure) + 1, length)
           s == sent.secure
           k == Len(received.secure)
<1>3. e \in Seq(Nat) /\ s \in Seq(Seq(Nat)) /\ Len(s) \in Nat
  <2>1. length \in Nat /\ Len(sent.secure) + 1 \in Nat /\ Len(s) \in Nat
    BY LinkCounts, LinkConstants DEF Length
  <2>2. s \in Seq(Seq(Nat))
    BY LinkTypes
  <2> QED
    BY <2>1, <2>2, BytesType
<1>4. sent'.secure = Append(s, e) /\ sent'.clear = sent.clear /\ plain' = Cat(plain, e)
  BY <1>1 DEF Cat, LinkType, Channels
<1> HIDE DEF e
<1>5. UNCHANGED <<pc, _buffers, _received_length, _buffer_index, onBus, usb, wire, clears, records>>
  BY <1>2 DEF inputVars, wire, clears, records
<1>6. Buffered(n)' /\ Delivered(n)'
  BY <1>2, <1>4, <1>5 DEF Buffered, Delivered, InFrame
<1>7. Waiting(n)' = Waiting(n)
  BY <1>2, <1>5 DEF Waiting, Passing, Passed
<1>8. Sealed(n)'
  <2> DEFINE w == Flat(Waiting(n))
  <2>1. /\ w \in Seq(Nat) /\ plain \in Seq(Nat) /\ tls_buffers \in Seq(Nat) /\ k \in 0..Len(s)
        /\ TLSBytes(n) = Cat(tls_buffers, Cat(w, plain)) /\ TLSBytes(n) = Ahead(s, k)
    BY WaitingType, LinkTypes DEF InFrame, Sealed, TLSBytes
  <2>2. TLSBytes(n)' = Cat(tls_buffers, Cat(w, Cat(plain, e)))
    BY <1>2, <1>4, <1>7 DEF TLSBytes
  <2> HIDE DEF w
  <2>3. Cat(w, Cat(plain, e)) = Cat(Cat(w, plain), e) /\ Cat(w, plain) \in Seq(Nat)
    BY <1>3, <2>1, CatAssoc, CatType
  <2>4. Cat(tls_buffers, Cat(Cat(w, plain), e)) = Cat(Cat(tls_buffers, Cat(w, plain)), e)
    <3> DEFINE z == Cat(w, plain)
    <3>1. z \in Seq(Nat) /\ e \in Seq(Nat) /\ tls_buffers \in Seq(Nat)
      BY <1>3, <2>1, <2>3
    <3> HIDE DEF z
    <3>2. Cat(tls_buffers, Cat(z, e)) = Cat(Cat(tls_buffers, z), e)
      BY <3>1, CatAssoc
    <3> QED
      BY <3>2 DEF z
  <2>5. Ahead(Append(s, e), k) = Cat(Ahead(s, k), e)
    BY <1>3, <2>1, AheadAppend
  <2>6. /\ Len(Append(s, e)) = Len(s) + 1 /\ \A i \in 1..Len(s) : Append(s, e)[i] = s[i]
    BY <1>3, AppendProperties
  <2>7. TLSBytes(n)' = Ahead(sent'.secure, k)
    BY <1>4, <2>1, <2>2, <2>3, <2>4, <2>5
  <2>8. k <= Len(s) + 1 /\ (k < Len(s) => k + 1 \in 1..Len(s))
    BY <1>3, <2>1, SMTT(30)
  <2>9. tls_buffers # <<>> => k < Len(s) /\ Len(tls_buffers) < Len(s[k + 1])
    BY DEF InFrame, Sealed
  <2> DEFINE t == Append(s, e)
  <2>10. ASSUME tls_buffers # <<>> PROVE k < Len(t) /\ Len(tls_buffers) < Len(t[k + 1])
    <3>1. k < Len(s) /\ Len(tls_buffers) < Len(s[k + 1]) /\ k + 1 \in 1..Len(s)
      BY <2>8, <2>9, <2>10
    <3>2. t[k + 1] = s[k + 1] /\ Len(t) = Len(s) + 1
      BY <2>6, <3>1
    <3>3. k \in Nat /\ Len(s) \in Nat
      BY <1>3, <2>1
    <3> HIDE DEF t, s, k
    <3> QED
      BY <3>1, <3>2, <3>3
  <2> HIDE DEF t
  <2>11. sent'.secure = t /\ Len(t) = Len(s) + 1
    BY <1>4, <2>6 DEF t
  <2> QED
    BY <1>2, <2>7, <2>8, <2>10, <2>11 DEF Sealed
<1> QED
  BY <1>6, <1>7, <1>8 DEF InFrame

\* Seal.
LEMMA SealType ==
    ASSUME LinkType, Seal
    PROVE  LinkType'
<1>1. PICK k \in 1..Len(plain), length \in TLSLength :
          PutOnBus(length, SubSeq(plain, 1, k)) /\ plain' = SubSeq(plain, k + 1, Len(plain))
  BY DEF Seal
<1>2. UNCHANGED <<sent, received, inputVars, bio, tls_buffers>>
  BY DEF Seal
<1>3. length \in Length /\ k \in 0..Len(plain)
  BY LinkTypes DEF Length
<1>4. SubSeq(plain, 1, k) \in Seq(Nat) /\ plain' \in Seq(Nat)
  BY <1>1, <1>3, LinkTypes, CutAt
<1>5. /\ onBus' \in Seq([length : Length, record : Seq(Nat)]) /\ Len(onBus') <= MaxEvents
      /\ usb' \in Seq(Seq(Nat))
  BY <1>1, <1>3, <1>4, PutGrows
<1> QED
  BY <1>2, <1>4, <1>5 DEF LinkType, inputVars

LEMMA SealFrame ==
    ASSUME LinkType, NEW n \in 0..Len(onBus), InFrame(n), NEW k \in 1..Len(plain), NEW length \in TLSLength,
           PutOnBus(length, SubSeq(plain, 1, k)), plain' = SubSeq(plain, k + 1, Len(plain)),
           UNCHANGED <<sent, received, inputVars, bio, tls_buffers>>
    PROVE  LET r == SubSeq(plain, 1, k) IN
           /\ r \in Seq(Nat) /\ Len(r) = k /\ plain = Cat(r, plain')
           /\ n \in 0..Len(onBus') /\ InFrame(n)' /\ Waiting(n)' = Cat(Waiting(n), <<r>>)
<1> DEFINE r == SubSeq(plain, 1, k)
           e == Bytes(Len(onBus) + 1, length)
           o == <<r>>
           w == Flat(Waiting(n))
<1>1. length \in Length /\ k \in 0..Len(plain) /\ Buffered(n) /\ plain \in Seq(Nat) /\ tls_buffers \in Seq(Nat)
      /\ k > 0
  BY LinkTypes DEF Length, InFrame
<1>2. r \in Seq(Nat) /\ Len(r) = k /\ plain = Cat(r, plain') /\ plain' \in Seq(Nat)
  BY <1>1, CutAt, ZenonT(30)
<1> HIDE DEF r
<1>3. r # <<>> /\ PutOnBus(length, r)
  <2>1. PutOnBus(length, r)
    BY DEF r
  <2> QED
    BY <1>1, <1>2, <2>1
<1>4. /\ n \in 0..Len(onBus') /\ e \in Seq(Nat) /\ Buffered(n)'
      /\ Ahead(clears', n) = Cat(Ahead(clears, n), <<>>) /\ Waiting(n)' = Cat(Waiting(n), o)
  BY <1>1, <1>2, <1>3, PutKept
<1>5. Ahead(clears, n) \in Seq(Seq(Nat))
  BY ClearsType, AheadType
<1>6. Delivered(n)'
  BY <1>4, <1>5, CatEmpty DEF Delivered, InFrame
<1>7. /\ Waiting(n) \in Seq(Seq(Nat)) /\ w \in Seq(Nat) /\ o \in Seq(Seq(Nat))
  BY <1>1, <1>2, WaitingType
<1>8. Flat(o) = r
  BY <1>2, FlatOne
<1> HIDE DEF o
<1>9. Flat(Waiting(n)') = Cat(w, r)
  BY <1>4, <1>7, <1>8, FlatCat
<1>10. TLSBytes(n)' = Cat(tls_buffers, Cat(Cat(w, r), plain'))
  BY <1>9 DEF TLSBytes
<1>11. TLSBytes(n) = Cat(tls_buffers, Cat(w, Cat(r, plain')))
  BY <1>2 DEF TLSBytes
<1> HIDE DEF w
<1>12. Cat(Cat(w, r), plain') = Cat(w, Cat(r, plain'))
  <2> DEFINE v == plain'
  <2>1. w \in Seq(Nat) /\ r \in Seq(Nat) /\ v \in Seq(Nat)
    BY <1>2, <1>7
  <2> HIDE DEF v
  <2>2. Cat(Cat(w, r), v) = Cat(w, Cat(r, v))
    BY <2>1, CatAssoc
  <2> QED
    BY <2>2 DEF v
<1>13. Sealed(n)'
  BY <1>10, <1>11, <1>12 DEF Sealed, InFrame
<1> QED
  BY <1>2, <1>4, <1>6, <1>13 DEF InFrame, r, o

\* handle_tls_data.
LEMMA HandleType ==
    ASSUME LinkType, handle_tls_data, NEW n \in 0..Len(onBus), Buffered(n)
    PROVE  LinkType'
<1>1. UNCHANGED <<failed, received, sensorVars, tls_buffers>>
  BY DEF handle_tls_data
<1>2. pc = "handle_tls_data" /\ _buffers[1][1] = n /\ n \in 1..Len(onBus) /\ _buffer_index \in Nat
  BY LinkTypes DEF handle_tls_data, Buffered, LinkType
<1>3. bio' \in Seq(Seq(Nat))
  <2>1. onBus[n].record \in Seq(Nat) /\ bio \in Seq(Seq(Nat))
    BY <1>2, EventType, LinkTypes
  <2>2. Append(bio, onBus[n].record) \in Seq(Seq(Nat))
    BY <2>1, AppendProperties
  <2>3. bio' = bio \/ bio' = Append(bio, onBus[n].record)
    BY <1>2 DEF handle_tls_data
  <2> QED
    BY <2>1, <2>2, <2>3
<1>4. << <<>> >> \in Seq(Seq(Nat)) /\ << <<>> >> # <<>>
  <2>1. <<>> \in Seq(Nat)
    OBVIOUS
  <2> QED
    BY <2>1
<1>5. _buffers' \in Seq(Seq(Nat)) /\ _buffers' # <<>>
  BY <1>4, LinkTypes DEF handle_tls_data, Emptied
<1>6. _received_length' \in Nat /\ _buffer_index' \in Nat /\ pc' \in {"recv", "handle_tls_data"}
  <2>1. _received_length \in Nat /\ pc \in {"recv", "handle_tls_data"}
    BY DEF LinkType
  <2>2. /\ _received_length' = _received_length /\ pc' \in {"recv", pc}
        /\ _buffer_index' \in {0, _buffer_index + 1}
    BY DEF handle_tls_data
  <2> QED
    BY <1>2, <2>1, <2>2
<1> QED
  BY <1>1, <1>3, <1>5, <1>6 DEF LinkType, sensorVars

LEMMA HandleFrame ==
    ASSUME LinkType, NEW n \in 0..Len(onBus), InFrame(n), handle_tls_data
    PROVE  InFrame(n)' /\ Waiting(n)' = Waiting(n)
<1>1. UNCHANGED <<failed, received, sensorVars, tls_buffers, wire, clears, records>>
  BY DEF handle_tls_data, sensorVars, wire, clears, records
<1>2. pc = "handle_tls_data" /\ Buffered(n) /\ _received_length' = _received_length
  BY DEF handle_tls_data, InFrame
<1>3. /\ Flat(usb) = Ahead(wire, n) /\ _received_length = 0 /\ n > 0 /\ onBus[n].record # <<>>
      /\ _buffers[1] # <<>> /\ _buffers[1][1] = n /\ _buffer_index \in 1..(Len(_buffers) + 1)
      /\ n \in Nat /\ n <= Len(onBus) /\ Len(_buffers) \in Nat /\ bio \in Seq(Seq(Nat))
  BY <1>2, LinkTypes DEF Buffered
<1>4. Buffered(n)' /\ Waiting(n)' = Waiting(n)
  <2>1. CASE Passed
    <3>1. pc' = "recv" /\ _buffers' = << <<>> >> /\ bio' = bio
      BY <2>1 DEF handle_tls_data, Emptied
    <3>2. Flat(<< <<>> >>) = <<>>
      <4>1. <<>> \in Seq(Nat)
        OBVIOUS
      <4> QED
        BY <4>1, FlatOne
    <3>3. Cat(Flat(_buffers'), Flat(usb')) = Flat(usb) /\ Len(Flat(_buffers')) = 0
      BY <1>1, <3>1, <3>2, LinkTypes, CatEmpty DEF sensorVars
    <3>4. Buffered(n)'
      BY <1>1, <1>2, <1>3, <3>1, <3>3 DEF Buffered
    <3>5. Passing(n)' = Passing(n)
      BY <2>1, <3>1 DEF Passing
    <3> QED
      BY <1>1, <3>1, <3>4, <3>5 DEF Waiting
  <2>2. CASE ~Passed
    <3>1. /\ UNCHANGED <<pc, _buffers>> /\ _buffer_index' = _buffer_index + 1
          /\ bio' = IF _buffer_index = Len(_buffers) THEN Append(bio, onBus[n].record) ELSE bio
      BY <1>3, <2>2 DEF handle_tls_data
    <3>2. _buffer_index \in 1..Len(_buffers) /\ _buffer_index' \in 1..(Len(_buffers) + 1)
      BY <1>3, <2>2, <3>1 DEF Passed
    <3>3. Buffered(n)'
      BY <1>1, <1>2, <1>3, <3>1, <3>2 DEF Buffered, sensorVars
    <3>4. CASE _buffer_index < Len(_buffers)
      <4>1. ~Passed' /\ bio' = bio
        BY <1>3, <3>1, <3>2, <3>4 DEF Passed
      <4>2. Passing(n)' = Passing(n)
        BY <2>2, <3>1, <4>1 DEF Passing
      <4> QED
        BY <1>1, <3>3, <4>1, <4>2 DEF Waiting
    <3>5. CASE _buffer_index = Len(_buffers)
      <4> DEFINE r == onBus[n].record
                 o == <<r>>
                 a == Ahead(records, n)
      <4>1. Passed'
        BY <1>3, <3>1, <3>2, <3>5 DEF Passed
      <4>2. Passing(n)' = n /\ Passing(n) = n - 1
        BY <1>2, <2>2, <4>1 DEF Passing
      <4>3. PICK m \in Nat : m = n - 1 /\ m + 1 = n /\ m < Len(onBus)
        BY <1>3
      <4>4. Ahead(records, m) = Cat(records[m + 1], Ahead(records, m + 1)) /\ a \in Seq(Seq(Nat))
        BY <4>3, RecordsType, AheadNext, AheadType
      <4>5. r \in Seq(Nat) /\ records[n] = o
        <5>1. n \in 1..Len(onBus)
          BY <1>3
        <5> QED
          BY <1>3, <5>1, EventType, RecordsType
      <4>6. bio' = Append(bio, r) /\ o \in Seq(Seq(Nat))
        BY <3>1, <3>5, <4>5
      <4>7. bio' = Cat(bio, o)
        BY <1>3, <4>5, <4>6, AppendIsConcat DEF Cat
      <4> HIDE DEF o, a
      <4>8. Cat(Cat(bio, o), a) = Cat(bio, Cat(o, a))
        BY <1>3, <4>4, <4>6, CatAssoc
      <4>9. Waiting(n)' = Cat(Cat(bio, o), a)
        BY <1>1, <4>2, <4>7 DEF Waiting, a
      <4>10. Waiting(n) = Cat(bio, Cat(o, a))
        BY <4>2, <4>3, <4>4, <4>5 DEF Waiting, a
      <4> QED
        BY <3>3, <4>8, <4>9, <4>10
    <3> QED
      BY <1>3, <3>2, <3>4, <3>5
  <2> QED
    BY <2>1, <2>2
<1>5. Delivered(n)' /\ Sealed(n)'
  BY <1>1, <1>4 DEF Delivered, Sealed, TLSBytes, InFrame, sensorVars
<1> QED
  BY <1>4, <1>5 DEF InFrame

-------------------------------------------------------------------------------
\* TLSEventReader.

\* process: what SSL_read gives is the begin of what waits.
Given == Shorter(BUFFER, Len(bio[1]))

LEMMA ReadParts ==
    ASSUME LinkType, bio # <<>>, NEW n \in 0..Len(onBus), Buffered(n),
           bio' = IF Given = Len(bio[1]) THEN Tail(bio)
                  ELSE [bio EXCEPT ![1] = SubSeq(@, Given + 1, Len(@))],
           UNCHANGED <<sensorVars, inputVars>>
    PROVE  LET data == SubSeq(bio[1], 1, Given)
               left == SubSeq(bio[1], Given + 1, Len(bio[1]))
           IN
           /\ bio[1] \in Seq(Nat) /\ Given \in 0..Len(bio[1]) /\ Given <= BUFFER
           /\ Given = BUFFER \/ Given = Len(bio[1])
           /\ data \in Seq(Nat) /\ Len(data) = Given /\ left \in Seq(Nat) /\ bio[1] = Cat(data, left)
           /\ bio' \in Seq(Seq(Nat)) /\ Waiting(n)' \in Seq(Seq(Nat))
           /\ \E rest \in Seq(Seq(Nat)) :
                /\ Waiting(n) = Cat(<<bio[1]>>, rest)
                /\ Waiting(n)' = IF Given = Len(bio[1]) THEN rest ELSE Cat(<<left>>, rest)
           /\ Flat(Waiting(n)) = Cat(data, Flat(Waiting(n)'))
<1> DEFINE d == bio[1]
           data == SubSeq(d, 1, Given)
           left == SubSeq(d, Given + 1, Len(d))
           a == Ahead(records, Passing(n))
           t == Tail(bio)
           rest == Cat(t, a)
           o == <<d>>
           l == <<left>>
<1>1. d \in Seq(Nat) /\ bio \in Seq(Seq(Nat)) /\ t \in Seq(Seq(Nat))
  BY LinkTypes, HeadTailProperties
<1>2. Given \in 0..Len(d) /\ Given <= BUFFER /\ (Given = BUFFER \/ Given = Len(d))
  BY <1>1, LinkConstants DEF Given, Shorter
<1>3. data \in Seq(Nat) /\ Len(data) = Given /\ left \in Seq(Nat) /\ d = Cat(data, left)
      /\ Len(left) = Len(d) - Given
  BY <1>1, <1>2, CutAt, ZenonT(30)
<1>4. o \in Seq(Seq(Nat)) /\ l \in Seq(Seq(Nat)) /\ Flat(o) = d /\ Flat(l) = left
  <2>1. Flat(<<d>>) = d
    BY <1>1, FlatOne
  <2>2. Flat(<<left>>) = left
    BY <1>3, FlatOne
  <2>3. o \in Seq(Seq(Nat))
    BY <1>1
  <2>4. l \in Seq(Seq(Nat))
    BY <1>3
  <2> QED
    BY <2>1, <2>2, <2>3, <2>4
<1>5. bio = Cat(o, t)
  <2>1. 1 \in 1..Len(bio) /\ Len(bio) \in 1..Len(bio)
    BY <1>1
  <2>2. SubSeq(bio, 1, Len(bio)) = o \o SubSeq(bio, 2, Len(bio))
    BY <1>1, <2>1, SubSeqRecursiveFirst
  <2>3. SubSeq(bio, 1, Len(bio)) = bio /\ SubSeq(bio, 2, Len(bio)) = t
    BY <1>1, SubSeqFull, TailIsSubSeq
  <2> QED
    BY <2>2, <2>3 DEF Cat
<1>6. a \in Seq(Seq(Nat)) /\ Waiting(n) = Cat(bio, a)
  BY WaitingType DEF Waiting
<1>7. UNCHANGED <<records, Passing(n)>>
  BY DEF sensorVars, inputVars, records, Passing, Passed
<1>8. bio' = IF Given = Len(d) THEN t ELSE Cat(l, t)
  <2>1. CASE Given = Len(d)
    BY <2>1
  <2>2. CASE Given # Len(d)
    <3> DEFINE u == Cat(l, t)
               v == [bio EXCEPT ![1] = left]
    <3>0. Len(l) = 1 /\ l[1] = left
      OBVIOUS
    <3> HIDE DEF l, left
    <3>9. /\ Len(t) = Len(bio) - 1 /\ Len(bio) \in Nat /\ Len(bio) > 0
           /\ \A i \in 1..Len(t) : t[i] = bio[i + 1]
      BY <1>1, HeadTailProperties
    <3>1. /\ Len(l) = 1 /\ l[1] = left /\ Len(t) = Len(bio) - 1 /\ Len(bio) \in Nat /\ Len(bio) > 0
          /\ \A i \in 1..Len(t) : t[i] = bio[i + 1]
      BY <3>0, <3>9
    <3>3. v \in Seq(Seq(Nat)) /\ Len(v) = Len(bio) /\ v[1] = left /\ \A i \in 2..Len(bio) : v[i] = bio[i]
      <4>1. 1 \in 1..Len(bio)
        BY <3>1
      <4>2. /\ v \in Seq(Seq(Nat)) /\ Len(v) = Len(bio)
            /\ \A i \in 1..Len(bio) : v[i] = IF i = 1 THEN left ELSE bio[i]
        BY <1>1, <1>3, <4>1, ExceptSeq
      <4> QED
        BY <4>1, <4>2
    <3> HIDE DEF v, t
    <3>2. u \in Seq(Seq(Nat)) /\ Len(u) = Len(bio)
      <4>1. u \in Seq(Seq(Nat)) /\ Len(u) = Len(l) + Len(t)
        BY <1>1, <1>4, CatType
      <4> HIDE DEF u
      <4> QED
        BY <3>1, <4>1
    <3>4. u[1] = left
      <4>1. 1 \in 1..Len(l)
        BY <3>1
      <4> QED
        BY <1>1, <1>4, <3>1, <4>1, CatAt
    <3>5. \A i \in 1..Len(t) : u[Len(l) + i] = t[i]
      <4> QED
        BY <1>1, <1>4, CatAfter
    <3> HIDE DEF u, v, t, l
    <3>6. ASSUME NEW i \in 2..Len(bio) PROVE u[i] = bio[i]
      <4>1. i - 1 \in 1..Len(t) /\ 1 + (i - 1) = i /\ i - 1 + 1 = i
        BY <3>1
      <4> QED
        BY <3>1, <3>5, <4>1
    <3>7. ASSUME NEW i \in 1..Len(bio) PROVE u[i] = v[i]
      <4>1. i = 1 \/ i \in 2..Len(bio)
        OBVIOUS
      <4> QED
        BY <3>3, <3>4, <3>6, <4>1
    <3>8. u = v
      BY <3>2, <3>3, <3>7, SeqEqual
    <3> QED
      BY <2>2, <3>8 DEF u, v, t, l, left
  <2> QED
    BY <2>1, <2>2
<1> HIDE DEF d, data, left, a, t, o, l
<1>9. rest \in Seq(Seq(Nat)) /\ Waiting(n) = Cat(o, rest)
  BY <1>1, <1>4, <1>5, <1>6, CatType, CatAssoc
<1>10. Waiting(n)' = IF Given = Len(d) THEN rest ELSE Cat(l, rest)
  <2>1. Cat(Cat(l, t), a) = Cat(l, rest)
    BY <1>1, <1>4, <1>6, CatAssoc
  <2>2. Waiting(n)' = Cat(bio', a)
    BY <1>7 DEF Waiting, a
  <2> QED
    BY <1>8, <2>1, <2>2
<1> HIDE DEF rest
<1>11. bio' \in Seq(Seq(Nat)) /\ Waiting(n)' \in Seq(Seq(Nat))
  <2>1. Cat(l, t) \in Seq(Seq(Nat)) /\ Cat(l, rest) \in Seq(Seq(Nat))
    BY <1>1, <1>4, <1>9, CatType
  <2> QED
    BY <1>1, <1>8, <1>9, <1>10, <2>1
<1>12. Flat(Waiting(n)) = Cat(data, Flat(Waiting(n)'))
  <2>1. Flat(rest) \in Seq(Nat) /\ Flat(Waiting(n)) = Cat(Cat(data, left), Flat(rest))
    BY <1>3, <1>4, <1>9, FlatType, FlatCat
  <2>2. CASE Given = Len(d)
    <3>1. left = <<>>
      BY <1>3, <2>2
    <3>2. Cat(data, left) = data
      BY <1>3, <3>1, CatEmpty
    <3> QED
      BY <1>10, <2>1, <2>2, <3>2
  <2>3. CASE Given # Len(d)
    <3>1. Flat(Waiting(n)') = Cat(left, Flat(rest))
      BY <1>4, <1>9, <1>10, <2>3, FlatCat
    <3> QED
      BY <1>3, <2>1, <3>1, CatAssoc
  <2> QED
    BY <2>2, <2>3
<1> QED
  BY <1>1, <1>2, <1>3, <1>9, <1>10, <1>11, <1>12 DEF d, data, left, o, l

\* The bytes at hand begin the first event inside TLS that has not been received.
LEMMA ReadEvent ==
    ASSUME LinkType, NEW n \in 0..Len(onBus), InFrame(n), failed = "none", process
    PROVE  LET bytes == Cat(tls_buffers, SubSeq(bio[1], 1, Given))
               k == Len(received.secure)
               event == sent.secure[k + 1]
           IN
           /\ bytes \in Seq(Nat) /\ bytes = tls_buffers \o SubSeq(bio[1], 1, Given)
           /\ Cat(bytes, Cat(Flat(Waiting(n)'), plain)) = Ahead(sent.secure, k)
           /\ tls_buffers # <<>> \/ Given >= HEADER =>
                /\ k \in Nat /\ k < Len(sent.secure) /\ Len(sent.secure[bytes[1]]) = Len(event)
                /\ bytes # <<>> /\ event \in Seq(Nat) /\ event # <<>> /\ Len(event) >= HEADER
                /\ Ahead(sent.secure, k) = Cat(event, Ahead(sent.secure, k + 1))
                /\ event = Bytes(k + 1, Len(event))
<1> DEFINE data == SubSeq(bio[1], 1, Given)
           bytes == Cat(tls_buffers, data)
           k == Len(received.secure)
           s == sent.secure
           f == Flat(Waiting(n)')
           event == s[k + 1]
<1>1. /\ bio # <<>> /\ UNCHANGED <<sensorVars, inputVars>> /\ Buffered(n)
      /\ bio' = IF Given = Len(bio[1]) THEN Tail(bio) ELSE [bio EXCEPT ![1] = SubSeq(@, Given + 1, Len(@))]
  BY DEF process, Given, InFrame
<1>2. /\ data \in Seq(Nat) /\ Len(data) = Given /\ Given \in Nat
      /\ f \in Seq(Nat) /\ Flat(Waiting(n)) = Cat(data, f)
  BY <1>1, ReadParts, FlatType
<1>3. bytes \in Seq(Nat) /\ Len(bytes) = Len(tls_buffers) + Given
  BY <1>2, LinkTypes, CatType
<1>4. Cat(bytes, Cat(f, plain)) = Ahead(s, k)
  <2> HIDE DEF data, f
  <2>4. plain \in Seq(Nat) /\ tls_buffers \in Seq(Nat)
    BY LinkTypes
  <2>5. Cat(Cat(data, f), plain) = Cat(data, Cat(f, plain))
    BY <1>2, <2>4, CatAssoc
  <2>6. Cat(f, plain) \in Seq(Nat)
    BY <1>2, <2>4, CatType
  <2>1. Cat(Cat(data, f), plain) = Cat(data, Cat(f, plain)) /\ Cat(f, plain) \in Seq(Nat)
    BY <2>5, <2>6
  <2> DEFINE g == Cat(f, plain)
  <2> HIDE DEF g
  <2>2. Cat(Cat(tls_buffers, data), g) = Cat(tls_buffers, Cat(data, g))
    BY <1>2, <2>4, <2>6, CatAssoc DEF g
  <2>3. Ahead(s, k) = Cat(tls_buffers, Cat(Cat(data, f), plain))
    BY <1>2 DEF InFrame, Sealed, TLSBytes
  <2> QED
    BY <2>1, <2>2, <2>3 DEF g, bytes
<1>5. bytes = tls_buffers \o data
  BY DEF Cat
<1>6. ASSUME tls_buffers # <<>> \/ Given >= HEADER
      PROVE  /\ k \in Nat /\ k < Len(s) /\ Len(s[bytes[1]]) = Len(event)
             /\ bytes # <<>> /\ event \in Seq(Nat) /\ event # <<>> /\ Len(event) >= HEADER
             /\ Ahead(s, k) = Cat(event, Ahead(s, k + 1))
             /\ event = Bytes(k + 1, Len(event))
  <2> HIDE DEF data, bytes
  <2>1. bytes # <<>> /\ Len(bytes) \in Nat /\ Len(bytes) > 0
    <3>1. Len(tls_buffers) \in Nat /\ (tls_buffers # <<>> => Len(tls_buffers) > 0)
      BY LinkTypes
    <3>2. HEADER \in Nat /\ HEADER > 0
      BY LinkConstants
    <3>3. Len(bytes) > 0
      BY <1>2, <1>3, <1>6, <3>1, <3>2
    <3> QED
      BY <1>3, <3>3
  <2>2. k \in Nat /\ k <= Len(s) /\ s \in Seq(Seq(Nat)) /\ Len(s) \in Nat /\ plain \in Seq(Nat)
    BY LinkTypes DEF InFrame, Sealed
  <2>3. Cat(f, plain) \in Seq(Nat)
    BY <1>2, <2>2, CatType
  <2>4. 1 \in 1..Len(bytes) /\ Ahead(s, k)[1] = bytes[1] /\ Len(Ahead(s, k)) > 0
    <3> DEFINE g == Cat(f, plain)
    <3> HIDE DEF f, g
    <3>1. 1 \in 1..Len(bytes) /\ g \in Seq(Nat)
      BY <2>1, <2>3 DEF g
    <3>2. Cat(bytes, g)[1] = bytes[1] /\ Len(Cat(bytes, g)) = Len(bytes) + Len(g) /\ Len(g) \in Nat
      <4>1. Cat(bytes, g)[1] = bytes[1]
        BY <1>3, <3>1, CatAt
      <4>2. Len(Cat(bytes, g)) = Len(bytes) + Len(g)
        BY <1>3, <3>1, CatType
      <4> QED
        BY <3>1, <4>1, <4>2
    <3> QED
      BY <1>4, <2>1, <3>1, <3>2 DEF g
  <2>5. k < Len(s)
    <3>1. k = Len(s) => Ahead(s, k) = <<>>
      BY <2>2, AheadEnd
    <3> QED
      BY <2>2, <2>4, <3>1
  <2>6. k + 1 \in 1..Len(s) /\ event \in Seq(Nat) /\ Ahead(s, k) = Cat(event, Ahead(s, k + 1))
    BY <2>2, <2>5, AheadNext
  <2>7. PICK l \in InnerLength : event = Bytes(k + 1, l)
    BY <2>6 DEF LinkType
  <2>8. l \in Nat /\ l >= HEADER /\ l > 0
    BY LinkConstants DEF Length
  <2>9. Len(event) = l /\ event[1] = k + 1
    <3>1. k + 1 \in Nat /\ 1 \in 1..l
      BY <2>2, <2>8
    <3>2. Len(Bytes(k + 1, l)) = l /\ Bytes(k + 1, l)[1] = k + 1
      BY <2>8, <3>1, BytesType
    <3> QED
      BY <2>7, <3>2
  <2>10. k + 1 \in 0..Len(s) /\ Ahead(s, k + 1) \in Seq(Nat)
    BY <2>2, <2>6, AheadType
  <2>11. Ahead(s, k)[1] = k + 1
    <3>1. 1 \in 1..Len(event)
      BY <2>8, <2>9
    <3> HIDE DEF event
    <3> QED
      BY <2>6, <2>9, <2>10, <3>1, CatAt
  <2>12. Len(s[bytes[1]]) = Len(event)
    BY <2>4, <2>11
  <2>13. Len(event) >= HEADER /\ event = Bytes(k + 1, Len(event))
    BY <2>7, <2>8, <2>9
  <2>14. event # <<>>
    BY <2>6, <2>8, <2>9
  <2> QED
    BY <2>1, <2>2, <2>5, <2>6, <2>12, <2>13, <2>14, Zenon
<1> QED
  BY <1>3, <1>4, <1>5, <1>6

\* What process does with the bytes at hand.
LEMMA ProcessOutcome ==
    ASSUME LinkType, NEW n \in 0..Len(onBus), InFrame(n), failed = "none", process
    PROVE  LET bytes == Cat(tls_buffers, SubSeq(bio[1], 1, Given))
               k == Len(received.secure)
               event == sent.secure[k + 1]
           IN
           \/ failed' = "abort" /\ tls_buffers = <<>> /\ Given < HEADER /\ UNCHANGED <<received, tls_buffers>>
           \/ /\ failed' = "misframed" /\ (tls_buffers # <<>> \/ Given >= HEADER) /\ Len(bytes) > Len(event)
              /\ UNCHANGED <<received, tls_buffers>>
           \/ /\ UNCHANGED <<failed, received>> /\ tls_buffers' = bytes
              /\ bytes \in Seq(Nat) /\ k < Len(sent.secure) /\ Len(bytes) < Len(event)
              /\ Cat(bytes, Cat(Flat(Waiting(n)'), plain)) = Ahead(sent.secure, k)
           \/ /\ UNCHANGED failed /\ tls_buffers' = <<>> /\ event \in Seq(Nat) /\ k < Len(sent.secure)
              /\ bytes = event /\ event = Bytes(k + 1, Len(event)) /\ Len(event) >= HEADER
              /\ received' = [received EXCEPT !.secure = Append(@, event)]
              /\ Cat(Flat(Waiting(n)'), plain) = Ahead(sent.secure, k + 1)
<1> DEFINE data == SubSeq(bio[1], 1, Given)
           bytes == Cat(tls_buffers, data)
           k == Len(received.secure)
           s == sent.secure
           f == Flat(Waiting(n)')
           event == s[k + 1]
<1>1. /\ bytes \in Seq(Nat) /\ bytes = tls_buffers \o data
      /\ Cat(bytes, Cat(f, plain)) = Ahead(s, k)
  BY ReadEvent
<1>2. tls_buffers # <<>> \/ Given >= HEADER =>
         /\ k \in Nat /\ k < Len(s) /\ Len(s[bytes[1]]) = Len(event)
         /\ bytes # <<>> /\ event \in Seq(Nat) /\ event # <<>> /\ Len(event) >= HEADER
         /\ Ahead(s, k) = Cat(event, Ahead(s, k + 1))
         /\ event = Bytes(k + 1, Len(event))
  BY ReadEvent
<1> HIDE DEF bytes, data
<1>3. \/ tls_buffers = <<>> /\ Given < HEADER /\ failed' = "abort" /\ UNCHANGED <<received, tls_buffers>>
      \/ /\ tls_buffers # <<>> \/ Given >= HEADER
         /\ \/ Len(bytes) < Len(s[bytes[1]]) /\ tls_buffers' = bytes /\ UNCHANGED <<failed, received>>
            \/ failed' = "misframed" /\ Len(bytes) > Len(s[bytes[1]]) /\ UNCHANGED <<received, tls_buffers>>
            \/ /\ Len(bytes) >= Len(s[bytes[1]]) /\ ~(Len(bytes) > Len(s[bytes[1]]))
               /\ received' = [received EXCEPT !.secure = Append(@, bytes)]
               /\ tls_buffers' = <<>> /\ UNCHANGED failed
  BY <1>1 DEF process, Given, Excess, Fail, data
<1>4. CASE failed' = "abort" /\ tls_buffers = <<>> /\ Given < HEADER /\ UNCHANGED <<received, tls_buffers>>
  BY <1>4
<1>7. CASE /\ failed' = "misframed" /\ (tls_buffers # <<>> \/ Given >= HEADER)
           /\ Len(bytes) > Len(s[bytes[1]]) /\ UNCHANGED <<received, tls_buffers>>
  <2>1. Len(bytes) > Len(event)
    BY <1>2, <1>7
  <2> HIDE DEF event
  <2> QED
    BY <1>7, <2>1 DEF bytes, data, event
<1>5. CASE /\ tls_buffers # <<>> \/ Given >= HEADER
           /\ Len(bytes) < Len(s[bytes[1]]) /\ tls_buffers' = bytes /\ UNCHANGED <<failed, received>>
  <2>1. k < Len(s) /\ Len(bytes) < Len(event)
    BY <1>2, <1>5
  <2> HIDE DEF f, k, s, event
  <2> QED
    BY <1>1, <1>5, <2>1 DEF f, k, s, event, bytes, data
<1>6. CASE /\ tls_buffers # <<>> \/ Given >= HEADER
           /\ Len(bytes) >= Len(s[bytes[1]]) /\ ~(Len(bytes) > Len(s[bytes[1]]))
           /\ received' = [received EXCEPT !.secure = Append(@, bytes)]
           /\ tls_buffers' = <<>> /\ UNCHANGED failed
  <2>1. /\ k \in Nat /\ k < Len(s) /\ Len(s[bytes[1]]) = Len(event) /\ event \in Seq(Nat) /\ Len(event) >= HEADER
        /\ Ahead(s, k) = Cat(event, Ahead(s, k + 1)) /\ event = Bytes(k + 1, Len(event))
    BY <1>2, <1>6
  <2>2. f \in Seq(Nat) /\ plain \in Seq(Nat) /\ s \in Seq(Seq(Nat))
    <3>1. /\ bio # <<>> /\ UNCHANGED <<sensorVars, inputVars>> /\ Buffered(n)
          /\ bio' = IF Given = Len(bio[1]) THEN Tail(bio) ELSE [bio EXCEPT ![1] = SubSeq(@, Given + 1, Len(@))]
      BY DEF process, Given, InFrame
    <3>2. Waiting(n)' \in Seq(Seq(Nat))
      BY <3>1, ReadParts
    <3> QED
      BY <3>2, FlatType, LinkTypes
  <2> HIDE DEF f, k, event
  <2>3. Cat(f, plain) \in Seq(Nat)
    BY <2>2, CatType
  <2>4. Ahead(s, k + 1) \in Seq(Nat)
    <3>1. k + 1 \in 0..Len(s)
      BY <2>1, <2>2
    <3> QED
      BY <2>2, <3>1, AheadType
  <2>5. Len(bytes) = Len(event)
    <3>1. Len(bytes) \in Nat /\ Len(event) \in Nat
      BY <1>1, <2>1, SMTT(30)
    <3> QED
      BY <1>6, <2>1, <3>1
  <2> DEFINE g == Cat(f, plain)
             h == Ahead(s, k + 1)
  <2>6. Cat(bytes, g) = Cat(event, h)
    BY <1>1, <2>1
  <2> HIDE DEF g, h
  <2>7. bytes = event /\ g = h
    <3>1. bytes \in Seq(Nat) /\ event \in Seq(Nat) /\ g \in Seq(Nat) /\ h \in Seq(Nat)
      BY <1>1, <2>1, <2>3, <2>4 DEF g, h
    <3> QED
      BY <2>5, <2>6, <3>1, CatSplit
  <2>8. received' = [received EXCEPT !.secure = Append(@, event)]
    BY <1>6, <2>7
  <2> QED
    BY <1>6, <2>1, <2>7, <2>8 DEF f, k, event, g, h, bytes, data
<1> QED
  BY <1>3, <1>4, <1>5, <1>6, <1>7, Zenon

LEMMA ProcessBio ==
    ASSUME LinkType, NEW n \in 0..Len(onBus), InFrame(n), process
    PROVE  UNCHANGED <<sensorVars, inputVars>> /\ bio' \in Seq(Seq(Nat)) /\ Waiting(n)' \in Seq(Seq(Nat))
<1>1. /\ bio # <<>> /\ UNCHANGED <<sensorVars, inputVars>> /\ Buffered(n)
      /\ bio' = IF Given = Len(bio[1]) THEN Tail(bio) ELSE [bio EXCEPT ![1] = SubSeq(@, Given + 1, Len(@))]
  BY DEF process, Given, InFrame
<1> QED
  BY <1>1, ReadParts

LEMMA ReceivedSecure ==
    ASSUME LinkType, NEW e \in Seq(Nat), received' = [received EXCEPT !.secure = Append(@, e)]
    PROVE  /\ received' \in [Channels -> Seq(Seq(Nat))] /\ received'.clear = received.clear
           /\ received'.secure = Append(received.secure, e)
           /\ Len(received'.secure) = Len(received.secure) + 1
<1>1. received.secure \in Seq(Seq(Nat)) /\ received \in [Channels -> Seq(Seq(Nat))]
  BY LinkTypes DEF LinkType
<1>2. /\ Append(received.secure, e) \in Seq(Seq(Nat))
      /\ Len(Append(received.secure, e)) = Len(received.secure) + 1
  BY <1>1, AppendProperties
<1> QED
  BY <1>1, <1>2 DEF Channels

LEMMA ProcessType ==
    ASSUME LinkType, NEW n \in 0..Len(onBus), InFrame(n), failed = "none", process
    PROVE  LinkType'
<1>1. UNCHANGED <<sensorVars, inputVars>> /\ bio' \in Seq(Seq(Nat))
  BY ProcessBio
<1>2. tls_buffers' \in Seq(Nat) /\ received' \in [Channels -> Seq(Seq(Nat))]
  <2>1. tls_buffers \in Seq(Nat) /\ <<>> \in Seq(Nat) /\ received \in [Channels -> Seq(Seq(Nat))]
    BY DEF LinkType
  <2>2. \/ UNCHANGED <<received, tls_buffers>>
        \/ UNCHANGED received /\ tls_buffers' \in Seq(Nat)
        \/ tls_buffers' = <<>> /\ \E e \in Seq(Nat) : received' = [received EXCEPT !.secure = Append(@, e)]
    BY ProcessOutcome
  <2> QED
    BY <2>1, <2>2, ReceivedSecure
<1> QED
  BY <1>1, <1>2 DEF LinkType, sensorVars, inputVars

LEMMA ProcessFrame ==
    ASSUME LinkType, NEW n \in 0..Len(onBus), InFrame(n), failed = "none", process, failed' = "none"
    PROVE  InFrame(n)'
<1> DEFINE bytes == Cat(tls_buffers, SubSeq(bio[1], 1, Given))
           k == Len(received.secure)
           event == sent.secure[k + 1]
           f == Flat(Waiting(n)')
<1>1. UNCHANGED <<sensorVars, inputVars>> /\ Waiting(n)' \in Seq(Seq(Nat)) /\ f \in Seq(Nat)
  BY ProcessBio, FlatType
<1>2. UNCHANGED <<pc, _buffers, _received_length, _buffer_index, usb, onBus, plain, sent, wire, clears>>
  BY <1>1 DEF sensorVars, inputVars, wire, clears
<1>3. Buffered(n)'
  BY <1>2 DEF Buffered, InFrame
<1>4. TLSBytes(n)' = Cat(tls_buffers', Cat(f, plain))
  BY <1>2 DEF TLSBytes
<1>5. \/ /\ UNCHANGED received /\ tls_buffers' = bytes /\ k < Len(sent.secure) /\ Len(bytes) < Len(event)
         /\ Cat(bytes, Cat(f, plain)) = Ahead(sent.secure, k)
      \/ /\ tls_buffers' = <<>> /\ event \in Seq(Nat) /\ k < Len(sent.secure)
         /\ received' = [received EXCEPT !.secure = Append(@, event)]
         /\ Cat(f, plain) = Ahead(sent.secure, k + 1)
  BY ProcessOutcome
<1> HIDE DEF f, bytes
<1>6. received'.clear = received.clear /\ Sealed(n)'
  <2>1. CASE /\ UNCHANGED received /\ tls_buffers' = bytes /\ k < Len(sent.secure) /\ Len(bytes) < Len(event)
             /\ Cat(bytes, Cat(f, plain)) = Ahead(sent.secure, k)
    <3>1. k \in Nat /\ Len(sent.secure) \in Nat
      BY LinkTypes
    <3> QED
      BY <1>2, <1>4, <2>1, <3>1 DEF Sealed
  <2>2. CASE /\ tls_buffers' = <<>> /\ event \in Seq(Nat) /\ k < Len(sent.secure)
             /\ received' = [received EXCEPT !.secure = Append(@, event)]
             /\ Cat(f, plain) = Ahead(sent.secure, k + 1)
    <3>1. received'.clear = received.clear /\ Len(received'.secure) = k + 1
      BY <2>2, ReceivedSecure
    <3>2. k \in Nat /\ Len(sent.secure) \in Nat /\ Cat(f, plain) \in Seq(Nat)
      BY <1>1, LinkTypes, CatType
    <3>3. Cat(<<>>, Cat(f, plain)) = Cat(f, plain)
      BY <3>2, CatEmpty
    <3> QED
      BY <1>2, <1>4, <2>2, <3>1, <3>2, <3>3 DEF Sealed
  <2> QED
    BY <1>5, <2>1, <2>2
<1>7. Delivered(n)'
  BY <1>2, <1>6 DEF Delivered, InFrame
<1> QED
  BY <1>3, <1>6, <1>7 DEF InFrame

-------------------------------------------------------------------------------
\* USBInput.

LEMMA HeadOfCat ==
    ASSUME NEW X, NEW a \in Seq(X), NEW b \in Seq(X), a # <<>>
    PROVE  Cat(a, b)[1] = a[1] /\ Cat(a, b) # <<>> /\ Cat(a, b) \in Seq(X)
<1>1. 1 \in 1..Len(a) /\ Len(a) \in Nat /\ Len(b) \in Nat /\ Len(a) > 0
  OBVIOUS
<1>2. Cat(a, b)[1] = a[1]
  BY <1>1, CatAt
<1>3. Cat(a, b) \in Seq(X) /\ Len(Cat(a, b)) = Len(a) + Len(b)
  BY CatType
<1>4. Cat(a, b) # <<>>
  BY <1>1, <1>3
<1> QED
  BY <1>2, <1>3, <1>4

LEMMA FlatLast ==
    ASSUME NEW X, NEW s \in Seq(Seq(X)), s # <<>>, NEW d \in Seq(X), NEW t \in Seq(Seq(X)),
           Len(t) = Len(s), t[Len(s)] = Cat(s[Len(s)], d), Agree(t, s, Len(s) - 1)
    PROVE  Flat(t) = Cat(Flat(s), d)
<1> DEFINE v == Cat(s[Len(s)], d)
<1>1. PICK u \in Seq(Seq(X)), a \in Seq(X) : s = Append(u, a)
  BY SequenceEmptyOrAppend
<1>2. Len(u) \in Nat /\ Len(s) = Len(u) + 1 /\ s[Len(u) + 1] = a /\ \A i \in 1..Len(u) : s[i] = u[i]
  BY <1>1, AppendProperties
<1>3. v \in Seq(X) /\ v = Cat(a, d)
  BY <1>1, <1>2, CatType
<1> HIDE DEF v
<1>4. /\ t \in Seq(Seq(X)) /\ Len(t) = Len(u) + 1 /\ t[Len(u) + 1] = v
      /\ \A i \in 1..Len(u) : t[i] = u[i]
  BY <1>2 DEF Agree, v
<1> DEFINE z == Append(u, v)
<1>5. z \in Seq(Seq(X)) /\ Len(z) = Len(u) + 1 /\ z[Len(u) + 1] = v /\ \A i \in 1..Len(u) : z[i] = u[i]
  BY <1>1, <1>3, AppendProperties
<1> HIDE DEF z
<1>6. ASSUME NEW i \in 1..Len(t) PROVE t[i] = z[i]
  <2>1. i \in 1..Len(u) \/ i = Len(u) + 1
    BY <1>2, <1>4
  <2> QED
    BY <1>4, <1>5, <2>1
<1>7. t = z
  BY <1>4, <1>5, <1>6, SeqEqual
<1>8. Flat(z) = Cat(Flat(u), Cat(a, d)) /\ Flat(s) = Cat(Flat(u), a)
  BY <1>1, <1>3, FlatAppend DEF z
<1>9. Flat(u) \in Seq(X)
  BY <1>1, FlatType
<1>10. Cat(Cat(Flat(u), a), d) = Cat(Flat(u), Cat(a, d))
  BY <1>1, <1>9, CatAssoc
<1> QED
  BY <1>7, <1>8, <1>10

\* parse: the bytes of a transfer, and the buffers with them.
Taken(k) == FlattenSeq(SubSeq(usb, 1, k))
Filled(k) == [Transfer EXCEPT ![Len(Transfer)] = @ \o Taken(k)]

LEMMA TransferType ==
    ASSUME LinkType
    PROVE  Transfer \in Seq(Seq(Nat)) /\ Transfer # <<>> /\ Flat(Transfer) = Flat(_buffers)
<1> DEFINE o == <<>>
<1>1. _buffers \in Seq(Seq(Nat)) /\ _buffers # <<>> /\ o \in Seq(Nat) /\ Flat(_buffers) \in Seq(Nat)
  BY LinkTypes
<1>2. CASE Room = 0
  <2> DEFINE t == Append(_buffers, o)
  <2>1. t \in Seq(Seq(Nat)) /\ Len(t) = Len(_buffers) + 1 /\ Len(_buffers) \in Nat
    BY <1>1, AppendProperties
  <2>2. t # <<>>
    <3> HIDE DEF t
    <3> QED
      BY <2>1
  <2>3. Flat(t) = Cat(Flat(_buffers), o)
    BY <1>1, FlatAppend
  <2>4. Cat(Flat(_buffers), o) = Flat(_buffers)
    BY <1>1, CatEmpty
  <2> QED
    BY <1>2, <2>1, <2>2, <2>3, <2>4 DEF Transfer
<1>3. CASE Room # 0
  BY <1>1, <1>3 DEF Transfer
<1> QED
  BY <1>2, <1>3

LEMMA FilledType ==
    ASSUME LinkType, NEW k \in DOMAIN usb, Taken(k) \in Seq(Nat)
    PROVE  /\ Filled(k) \in Seq(Seq(Nat)) /\ Len(Filled(k)) = Len(Transfer) /\ Filled(k) # <<>>
           /\ Filled(k)[Len(Transfer)] = Cat(Transfer[Len(Transfer)], Taken(k))
           /\ Agree(Filled(k), Transfer, Len(Transfer) - 1)
<1> DEFINE t == Transfer
           m == Len(t)
           v == Cat(t[m], Taken(k))
           f == [t EXCEPT ![m] = v]
<1>1. t \in Seq(Seq(Nat)) /\ t # <<>>
  BY TransferType
<1> HIDE DEF t
<1>2. m \in Nat /\ m \in 1..Len(t) /\ t[m] \in Seq(Nat)
  BY <1>1
<1>3. v \in Seq(Nat)
  BY <1>2, CatType
<1> HIDE DEF v
<1>4. /\ f \in Seq(Seq(Nat)) /\ Len(f) = Len(t) /\ \A i \in 1..Len(t) : f[i] = IF i = m THEN v ELSE t[i]
  BY <1>1, <1>2, <1>3, ExceptSeq
<1>5. Filled(k) = f
  BY DEF Filled, t, v, Cat
<1> HIDE DEF f, m
<1>6. f[m] = v /\ \A i \in 1..(m - 1) : f[i] = t[i]
  BY <1>2, <1>4
<1>7. f # <<>>
  BY <1>2, <1>4
<1> QED
  BY <1>4, <1>5, <1>6, <1>7 DEF m, v, t, Agree

LEMMA ParseParts ==
    ASSUME LinkType, NEW n \in 0..Len(onBus), Buffered(n), pc = "recv", NEW k \in DOMAIN usb,
           usb' = SubSeq(usb, k + 1, Len(usb))
    PROVE  /\ Taken(k) \in Seq(Nat) /\ Filled(k) \in Seq(Seq(Nat)) /\ Filled(k) # <<>>
           /\ Flat(Filled(k)) \in Seq(Nat)
           /\ _received_length + Len(Taken(k)) = Len(Flat(Filled(k)))
           /\ usb' \in Seq(Seq(Nat)) /\ Flat(usb') \in Seq(Nat)
           /\ Cat(Flat(Filled(k)), Flat(usb')) = Ahead(wire, n)
<1> DEFINE d == Taken(k)
           b == Flat(_buffers)
<1>1. usb \in Seq(Seq(Nat)) /\ k \in 0..Len(usb)
  <2>1. usb \in Seq(Seq(Nat))
    BY LinkTypes
  <2> QED
    BY <2>1
<1>2. d = Flat(SubSeq(usb, 1, k))
  BY DEF Taken, Flat
<1>3. SubSeq(usb, 1, k) \in Seq(Seq(Nat)) /\ usb' \in Seq(Seq(Nat))
  BY <1>1, CutAt
<1>4. d \in Seq(Nat) /\ Flat(usb') \in Seq(Nat)
  BY <1>2, <1>3, FlatType
<1>5. Flat(usb) = Cat(d, Flat(usb'))
  BY <1>1, <1>2, FlatCut
<1> HIDE DEF d
<1>6. Transfer \in Seq(Seq(Nat)) /\ Transfer # <<>> /\ Flat(Transfer) = b
  BY TransferType
<1>7. Filled(k) \in Seq(Seq(Nat)) /\ Filled(k) # <<>> /\ Flat(Filled(k)) = Cat(b, d)
  <2> DEFINE t == Transfer
             f == Filled(k)
  <2>1. d \in Seq(Nat)
    BY <1>4
  <2>2. /\ f \in Seq(Seq(Nat)) /\ Len(f) = Len(t) /\ f # <<>> /\ f[Len(t)] = Cat(t[Len(t)], d)
        /\ Agree(f, t, Len(t) - 1)
    BY <2>1, FilledType DEF d
  <2>3. t \in Seq(Seq(Nat)) /\ t # <<>> /\ Flat(t) = b
    BY <1>6
  <2> HIDE DEF t, f
  <2>4. Flat(f) = Cat(Flat(t), d)
    BY <2>1, <2>2, <2>3, FlatLast
  <2> QED
    BY <2>2, <2>3, <2>4 DEF f
<1>8. b \in Seq(Nat) /\ _received_length = Len(b) /\ Cat(b, Flat(usb)) = Ahead(wire, n)
  BY LinkTypes DEF Buffered
<1> HIDE DEF b
<1>9. Cat(b, d) \in Seq(Nat) /\ Len(Cat(b, d)) = Len(b) + Len(d)
  BY <1>4, <1>8, CatType
<1>10. Cat(Cat(b, d), Flat(usb')) = Cat(b, Cat(d, Flat(usb')))
  <2> DEFINE v == Flat(usb')
  <2>1. v \in Seq(Nat)
    BY <1>4
  <2> HIDE DEF v
  <2>2. Cat(Cat(b, d), v) = Cat(b, Cat(d, v))
    BY <1>4, <1>8, <2>1, CatAssoc
  <2> QED
    BY <2>2 DEF v
<1> QED
  BY <1>3, <1>4, <1>5, <1>7, <1>8, <1>9, <1>10 DEF d

\* The header in the first buffer is that of the first event that is not taken.
LEMMA ParseEvent ==
    ASSUME LinkType, NEW n \in 0..Len(onBus), Buffered(n), pc = "recv", NEW k \in DOMAIN usb,
           usb' = SubSeq(usb, k + 1, Len(usb)), Len(Filled(k)[1]) >= HEADER
    PROVE  /\ n < Len(onBus) /\ n + 1 \in 1..Len(onBus) /\ Filled(k)[1] # <<>> /\ Filled(k)[1][1] = n + 1
           /\ wire[n + 1] \in Seq(Nat) /\ Len(wire[n + 1]) = onBus[n + 1].length
           /\ Ahead(wire, n) = Cat(wire[n + 1], Ahead(wire, n + 1)) /\ Ahead(wire, n + 1) \in Seq(Nat)
<1> DEFINE f == Filled(k)
           u == Flat(usb')
           r == Ahead(f, 1)
<1>1. f \in Seq(Seq(Nat)) /\ f # <<>> /\ u \in Seq(Nat) /\ Cat(Flat(f), u) = Ahead(wire, n)
  BY ParseParts
<1>2. f[1] \in Seq(Nat) /\ Len(f) \in Nat /\ 0 < Len(f)
  BY <1>1, SMTT(30)
<1>3. f[1] # <<>>
  BY <1>2, LinkConstants
<1> HIDE DEF f, u
<1>4. Flat(f) = Cat(f[1], r)
  <2>1. Ahead(f, 0) = Flat(f)
    BY <1>1, AheadAll
  <2>2. 0 \in Nat /\ 0 + 1 = 1
    OBVIOUS
  <2>3. Ahead(f, 0) = Cat(f[0 + 1], Ahead(f, 0 + 1))
    BY <1>1, <1>2, <2>2, AheadNext
  <2> QED
    BY <2>1, <2>2, <2>3
<1>5. r \in Seq(Nat)
  <2>1. 1 \in 0..Len(f)
    BY <1>2
  <2> QED
    BY <1>1, <2>1, AheadType
<1> HIDE DEF r
<1>6. Flat(f)[1] = f[1][1] /\ Flat(f) # <<>> /\ Flat(f) \in Seq(Nat)
  BY <1>2, <1>3, <1>4, <1>5, HeadOfCat
<1>7. Ahead(wire, n)[1] = f[1][1] /\ Ahead(wire, n) # <<>>
  <2> DEFINE g == Flat(f)
  <2>1. g[1] = f[1][1] /\ g # <<>> /\ g \in Seq(Nat) /\ Cat(g, u) = Ahead(wire, n)
    BY <1>1, <1>6
  <2> HIDE DEF g
  <2>2. Cat(g, u)[1] = g[1] /\ Cat(g, u) # <<>>
    BY <1>1, <2>1, HeadOfCat
  <2> QED
    BY <2>1, <2>2
<1>8. /\ wire \in Seq(Seq(Nat)) /\ Len(wire) = Len(onBus) /\ Len(onBus) \in Nat
      /\ \A i \in 1..Len(onBus) : wire[i] = Bytes(i, onBus[i].length)
  BY WireType, LinkTypes
<1>9. n < Len(onBus) /\ n \in Nat
  <2>1. n = Len(onBus) => Ahead(wire, n) = <<>>
    BY <1>8, AheadEnd
  <2> QED
    BY <1>7, <1>8, <2>1
<1>10. /\ n + 1 \in 1..Len(onBus) /\ wire[n + 1] \in Seq(Nat)
       /\ Ahead(wire, n) = Cat(wire[n + 1], Ahead(wire, n + 1))
  BY <1>8, <1>9, AheadNext
<1>11. Ahead(wire, n + 1) \in Seq(Nat)
  <2>1. n + 1 \in 0..Len(wire)
    BY <1>8, <1>10
  <2> QED
    BY <1>8, <2>1, AheadType
<1> DEFINE l == onBus[n + 1].length
<1>12. l \in Nat /\ l > 0 /\ n + 1 \in Nat
  BY <1>9, <1>10, EventType, LinkConstants, SMTT(30)
<1>13. Len(wire[n + 1]) = l /\ wire[n + 1][1] = n + 1
  <2>1. 1 \in 1..l /\ wire[n + 1] = Bytes(n + 1, l)
    BY <1>8, <1>10, <1>12
  <2> HIDE DEF l
  <2>2. Len(Bytes(n + 1, l)) = l /\ Bytes(n + 1, l)[1] = n + 1
    BY <1>12, <2>1, BytesType
  <2> QED
    BY <2>1, <2>2
<1>14. Ahead(wire, n)[1] = n + 1
  <2>1. wire[n + 1] # <<>>
    BY <1>10, <1>12, <1>13
  <2> QED
    BY <1>10, <1>11, <1>13, <2>1, HeadOfCat
<1> QED
  BY <1>3, <1>7, <1>9, <1>10, <1>11, <1>13, <1>14 DEF f

\* The three ways of parse: the event is not whole, it is in clear, or it is for
\* TLS.  A failure is the fourth.
Whole(k) == Len(Filled(k)[1]) >= HEADER /\ _received_length + Len(Taken(k)) >= onBus[Filled(k)[1][1]].length

Parsed(k, n) ==
    \/ failed' = "misframed" /\ UNCHANGED <<received, inputVars>> /\ Whole(k)
       /\ _received_length + Len(Taken(k)) > onBus[n + 1].length
    \/ /\ ~Whole(k) /\ _buffers' = Filled(k) /\ _received_length' = _received_length + Len(Taken(k))
       /\ UNCHANGED <<failed, received, pc, _buffer_index>>
    \/ /\ Whole(k) /\ UNCHANGED failed /\ _received_length' = 0
       /\ n < Len(onBus) /\ n + 1 \in 1..Len(onBus) /\ Flat(Filled(k)) = wire[n + 1] /\ Flat(usb') = Ahead(wire, n + 1)
       /\ \/ /\ onBus[n + 1].record = <<>>
             /\ received' = [received EXCEPT !.clear = Append(@, wire[n + 1])]
             /\ Emptied /\ UNCHANGED <<pc, _buffer_index>>
          \/ /\ onBus[n + 1].record # <<>> /\ Filled(k)[1] # <<>> /\ Filled(k)[1][1] = n + 1
             /\ pc' = "handle_tls_data" /\ _buffer_index' = 1 /\ _buffers' = Filled(k)
             /\ UNCHANGED received

LEMMA ParseOutcome ==
    ASSUME LinkType, NEW n \in 0..Len(onBus), Buffered(n), failed = "none", parse
    PROVE  /\ UNCHANGED <<tidy, onBus, plain, sent, bio, tls_buffers>> /\ pc = "recv"
           /\ \E k \in DOMAIN usb : Done(k) /\ usb' = SubSeq(usb, k + 1, Len(usb)) /\ Parsed(k, n)
<1>1. UNCHANGED <<tidy, onBus, plain, sent, bio, tls_buffers>> /\ pc = "recv"
  BY Zenon DEF parse
<1>2. PICK k \in DOMAIN usb :
        LET have  == _received_length + Len(Taken(k))
            event == onBus[Filled(k)[1][1]]
            whole == IF Len(Filled(k)[1]) < HEADER THEN FALSE ELSE have >= event.length
        IN
        /\ Done(k)
        /\ usb' = SubSeq(usb, k + 1, Len(usb))
        /\ \/ /\ ~whole
              /\ _buffers' = Filled(k) /\ _received_length' = have
              /\ UNCHANGED <<failed, received, pc, _buffer_index>>
           \/ /\ whole /\ Excess(have, event.length)
              /\ Fail("misframed")
              /\ UNCHANGED <<received, inputVars>>
           \/ /\ whole /\ ~Excess(have, event.length)
              /\ \/ /\ event.record = <<>>
                    /\ received' = [received EXCEPT !.clear = Append(@, FlattenSeq(Filled(k)))]
                    /\ Emptied
                    /\ UNCHANGED <<pc, _buffer_index>>
                 \/ /\ event.record # <<>>
                    /\ pc' = "handle_tls_data" /\ _buffer_index' = 1
                    /\ _buffers' = Filled(k)
                    /\ UNCHANGED received
              /\ _received_length' = NextCount(have)
              /\ UNCHANGED failed
  BY Zenon DEF parse, Taken, Filled
<1> DEFINE have == _received_length + Len(Taken(k))
           b == Filled(k)
           event == onBus[b[1][1]]
<1>3. Done(k) /\ usb' = SubSeq(usb, k + 1, Len(usb))
  BY <1>2
<1>4. /\ b \in Seq(Seq(Nat)) /\ b # <<>> /\ Flat(b) \in Seq(Nat) /\ have = Len(Flat(b))
      /\ Flat(usb') \in Seq(Nat) /\ Cat(Flat(b), Flat(usb')) = Ahead(wire, n)
  BY <1>1, <1>3, ParseParts
<1>5. /\ Len(b[1]) \in Nat /\ HEADER \in Nat /\ have \in Nat
  <2>1. b[1] \in Seq(Nat)
    BY <1>4
  <2> QED
    BY <1>4, <2>1, LinkConstants
<1>6. Len(b[1]) >= HEADER =>
        /\ n < Len(onBus) /\ n + 1 \in 1..Len(onBus) /\ b[1] # <<>> /\ b[1][1] = n + 1
        /\ wire[n + 1] \in Seq(Nat) /\ Len(wire[n + 1]) = onBus[n + 1].length
        /\ Ahead(wire, n) = Cat(wire[n + 1], Ahead(wire, n + 1)) /\ Ahead(wire, n + 1) \in Seq(Nat)
  BY <1>1, <1>3, ParseEvent
<1> HIDE DEF have, b
<1>7. (IF Len(b[1]) < HEADER THEN FALSE ELSE have >= event.length) <=> Whole(k)
  BY <1>5 DEF Whole, have, b
<1>8. \/ ~Whole(k) /\ _buffers' = b /\ _received_length' = have /\ UNCHANGED <<failed, received, pc, _buffer_index>>
      \/ Whole(k) /\ have > event.length /\ failed' = "misframed" /\ UNCHANGED <<received, inputVars>>
      \/ /\ Whole(k) /\ ~(have > event.length)
         /\ \/ /\ event.record = <<>>
               /\ received' = [received EXCEPT !.clear = Append(@, Flat(b))]
               /\ Emptied
               /\ UNCHANGED <<pc, _buffer_index>>
            \/ /\ event.record # <<>>
               /\ pc' = "handle_tls_data" /\ _buffer_index' = 1 /\ _buffers' = b
               /\ UNCHANGED received
         /\ _received_length' = 0 /\ UNCHANGED failed
  BY <1>2, <1>7 DEF Excess, Fail, NextCount, Flat, have, b
<1>9. CASE ~Whole(k) /\ _buffers' = b /\ _received_length' = have /\ UNCHANGED <<failed, received, pc, _buffer_index>>
  BY <1>1, <1>3, <1>9 DEF Parsed, have, b
<1>10. CASE Whole(k) /\ have > event.length /\ failed' = "misframed" /\ UNCHANGED <<received, inputVars>>
  <2>1. Len(b[1]) >= HEADER
    BY <1>10 DEF Whole, b
  <2>2. have > onBus[n + 1].length
    BY <1>6, <1>10, <2>1
  <2> QED
    BY <1>1, <1>3, <1>10, <2>2 DEF Parsed, have, b
<1>11. CASE /\ Whole(k) /\ ~(have > event.length)
            /\ \/ /\ event.record = <<>>
                  /\ received' = [received EXCEPT !.clear = Append(@, Flat(b))]
                  /\ Emptied
                  /\ UNCHANGED <<pc, _buffer_index>>
               \/ /\ event.record # <<>>
                  /\ pc' = "handle_tls_data" /\ _buffer_index' = 1 /\ _buffers' = b
                  /\ UNCHANGED received
            /\ _received_length' = 0 /\ UNCHANGED failed
  <2>1. Len(b[1]) >= HEADER /\ have >= event.length
    BY <1>11 DEF Whole, b, have
  <2>2. /\ n < Len(onBus) /\ n + 1 \in 1..Len(onBus) /\ b[1] # <<>> /\ b[1][1] = n + 1
        /\ wire[n + 1] \in Seq(Nat) /\ Len(wire[n + 1]) = onBus[n + 1].length
        /\ Ahead(wire, n) = Cat(wire[n + 1], Ahead(wire, n + 1)) /\ Ahead(wire, n + 1) \in Seq(Nat)
    BY <1>6, <2>1
  <2>3. event = onBus[n + 1]
    BY <2>2
  <2>4. Len(Flat(b)) = Len(wire[n + 1])
    <3>1. onBus[n + 1].length \in Nat
      BY <2>2, EventType
    <3> QED
      BY <1>4, <1>5, <1>11, <2>1, <2>2, <2>3, <3>1, SMTT(30)
  <2> DEFINE f == Flat(b)
             u == Flat(usb')
             w == wire[n + 1]
             v == Ahead(wire, n + 1)
  <2>5. f \in Seq(Nat) /\ u \in Seq(Nat) /\ w \in Seq(Nat) /\ v \in Seq(Nat) /\ Len(f) = Len(w)
        /\ Cat(f, u) = Cat(w, v)
    BY <1>4, <2>2, <2>4
  <2> HIDE DEF f, u, w, v
  <2>6. f = w /\ u = v
    BY <2>5, CatSplit
  <2>7. Flat(b) = wire[n + 1] /\ Flat(usb') = Ahead(wire, n + 1)
    BY <2>6 DEF f, u, w, v
  <2> HIDE DEF event
  <2> QED
    BY <1>1, <1>3, <1>11, <2>2, <2>3, <2>7 DEF Parsed, b
<1> QED
  BY <1>8, <1>9, <1>10, <1>11, SMTT(30)

LEMMA ReceivedClear ==
    ASSUME LinkType, NEW e \in Seq(Nat), received' = [received EXCEPT !.clear = Append(@, e)]
    PROVE  /\ received' \in [Channels -> Seq(Seq(Nat))] /\ received'.secure = received.secure
           /\ received'.clear = Append(received.clear, e)
<1>1. received.clear \in Seq(Seq(Nat)) /\ received \in [Channels -> Seq(Seq(Nat))]
  BY LinkTypes DEF LinkType
<1>2. Append(received.clear, e) \in Seq(Seq(Nat))
  BY <1>1, AppendProperties
<1> QED
  BY <1>1, <1>2 DEF Channels

LEMMA ParseType ==
    ASSUME LinkType, NEW n \in 0..Len(onBus), Buffered(n), failed = "none", parse
    PROVE  LinkType'
<1>1. UNCHANGED <<onBus, plain, sent, bio, tls_buffers>> /\ pc = "recv"
  BY ParseOutcome
<1>2. PICK k \in DOMAIN usb : usb' = SubSeq(usb, k + 1, Len(usb)) /\ Parsed(k, n)
  BY ParseOutcome
<1>3. /\ Filled(k) \in Seq(Seq(Nat)) /\ Filled(k) # <<>> /\ usb' \in Seq(Seq(Nat))
      /\ _received_length + Len(Taken(k)) \in Nat
  <2>1. /\ Filled(k) \in Seq(Seq(Nat)) /\ Filled(k) # <<>> /\ usb' \in Seq(Seq(Nat))
        /\ _received_length + Len(Taken(k)) = Len(Flat(Filled(k))) /\ Flat(Filled(k)) \in Seq(Nat)
    BY <1>1, <1>2, ParseParts
  <2> QED
    BY <2>1
<1>4. << <<>> >> \in Seq(Seq(Nat)) /\ << <<>> >> # <<>>
  <2>1. <<>> \in Seq(Nat)
    OBVIOUS
  <2> QED
    BY <2>1
<1>5. _buffers' \in Seq(Seq(Nat)) /\ _buffers' # <<>>
  BY <1>2, <1>3, <1>4 DEF Parsed, Emptied, LinkType, inputVars
<1>6. _received_length' \in Nat /\ _buffer_index' \in Nat /\ pc' \in {"recv", "handle_tls_data"}
  <2>1. \/ UNCHANGED <<_received_length, _buffer_index, pc>>
        \/ _received_length' = _received_length + Len(Taken(k)) /\ UNCHANGED <<pc, _buffer_index>>
        \/ _received_length' = 0 /\ UNCHANGED <<pc, _buffer_index>>
        \/ _received_length' = 0 /\ pc' = "handle_tls_data" /\ _buffer_index' = 1
    BY <1>2 DEF Parsed, inputVars
  <2>2. _received_length \in Nat /\ _buffer_index \in Nat /\ pc \in {"recv", "handle_tls_data"}
    BY DEF LinkType
  <2> QED
    BY <1>3, <2>1, <2>2
<1>7. received' \in [Channels -> Seq(Seq(Nat))]
  <2>1. UNCHANGED received \/ \E e \in Seq(Nat) : received' = [received EXCEPT !.clear = Append(@, e)]
    <3>1. UNCHANGED received \/ (n + 1 \in 1..Len(onBus) /\ received' = [received EXCEPT !.clear = Append(@, wire[n + 1])])
      BY <1>2 DEF Parsed
    <3>2. n + 1 \in 1..Len(onBus) => wire[n + 1] \in Seq(Nat)
      <4>1. wire \in Seq(Seq(Nat)) /\ Len(wire) = Len(onBus)
        BY WireType
      <4> QED
        BY <4>1, ElementOfSeq
    <3> QED
      BY <3>1, <3>2
  <2> QED
    BY <2>1, ReceivedClear DEF LinkType
<1> QED
  BY <1>1, <1>3, <1>5, <1>6, <1>7 DEF LinkType

\* What becomes of the framing when parse takes no event, or one.
LEMMA ParseKept ==
    ASSUME LinkType, NEW n \in 0..Len(onBus), InFrame(n), failed = "none", parse, NEW k \in DOMAIN usb,
           usb' = SubSeq(usb, k + 1, Len(usb)), ~Whole(k), Parsed(k, n), failed' = "none"
    PROVE  InFrame(n)' /\ Waiting(n)' = Waiting(n)
<1>1. UNCHANGED <<onBus, plain, sent, bio, tls_buffers, wire, clears, records>> /\ pc = "recv" /\ Buffered(n)
  BY ParseOutcome DEF InFrame, wire, clears, records
<1>2. /\ _buffers' = Filled(k) /\ _received_length' = _received_length + Len(Taken(k))
      /\ UNCHANGED <<received, pc, _buffer_index>>
  BY DEF Parsed
<1>3. /\ _received_length + Len(Taken(k)) = Len(Flat(Filled(k)))
      /\ Cat(Flat(Filled(k)), Flat(usb')) = Ahead(wire, n)
  BY <1>1, ParseParts
<1>4. Buffered(n)'
  BY <1>1, <1>2, <1>3 DEF Buffered
<1>5. Waiting(n)' = Waiting(n)
  BY <1>1, <1>2 DEF Waiting, Passing
<1>6. Delivered(n)' /\ Sealed(n)'
  BY <1>1, <1>2, <1>5 DEF Delivered, Sealed, TLSBytes, InFrame
<1> QED
  BY <1>4, <1>5, <1>6 DEF InFrame

LEMMA ParseTaken ==
    ASSUME LinkType, NEW n \in 0..Len(onBus), InFrame(n), failed = "none", parse, NEW k \in DOMAIN usb,
           usb' = SubSeq(usb, k + 1, Len(usb)), Whole(k), Parsed(k, n), failed' = "none"
    PROVE  n + 1 \in 0..Len(onBus') /\ InFrame(n + 1)' /\ Waiting(n + 1)' = Waiting(n)
<1> DEFINE c == Ahead(clears, n + 1)
           r == Ahead(records, n + 1)
           w == wire[n + 1]
<1>1. UNCHANGED <<onBus, plain, sent, bio, tls_buffers, wire, clears, records>> /\ pc = "recv" /\ Buffered(n)
  BY ParseOutcome DEF InFrame, wire, clears, records
<1>2. /\ _received_length' = 0 /\ n < Len(onBus) /\ n + 1 \in 1..Len(onBus)
      /\ Flat(Filled(k)) = w /\ Flat(usb') = Ahead(wire, n + 1)
      /\ \/ /\ onBus[n + 1].record = <<>>
            /\ received' = [received EXCEPT !.clear = Append(@, w)]
            /\ Emptied /\ UNCHANGED <<pc, _buffer_index>>
         \/ /\ onBus[n + 1].record # <<>> /\ Filled(k)[1] # <<>> /\ Filled(k)[1][1] = n + 1
            /\ pc' = "handle_tls_data" /\ _buffer_index' = 1 /\ _buffers' = Filled(k)
            /\ UNCHANGED received
  BY DEF Parsed
<1>3. n \in Nat /\ n + 1 \in 0..Len(onBus) /\ Len(onBus) \in Nat /\ w \in Seq(Nat)
  <2>1. wire \in Seq(Seq(Nat)) /\ Len(wire) = Len(onBus) /\ Len(onBus) \in Nat
    BY WireType, LinkTypes
  <2>2. w \in Seq(Nat)
    BY <1>2, <2>1, ElementOfSeq
  <2> QED
    BY <1>2, <2>1, <2>2
<1>4. /\ Ahead(clears, n) = Cat(clears[n + 1], c) /\ c \in Seq(Seq(Nat))
      /\ onBus[n + 1].record = <<>> => clears[n + 1] = <<w>>
      /\ onBus[n + 1].record # <<>> => clears[n + 1] = <<>>
  BY <1>2, <1>3, ClearsType, AheadNext, AheadType
<1>5. /\ Ahead(records, n) = Cat(records[n + 1], r) /\ r \in Seq(Seq(Nat)) /\ Ahead(records, n) \in Seq(Seq(Nat))
      /\ onBus[n + 1].record = <<>> => records[n + 1] = <<>>
  BY <1>2, <1>3, RecordsType, AheadNext, AheadType
<1>6. Waiting(n) = Cat(bio, Ahead(records, n))
  BY <1>1 DEF Waiting, Passing
<1>7. received'.secure = received.secure
  BY <1>2, <1>3, ReceivedClear
<1> HIDE DEF c, r, w
<1>8. CASE /\ onBus[n + 1].record = <<>>
           /\ received' = [received EXCEPT !.clear = Append(@, w)]
           /\ Emptied /\ UNCHANGED <<pc, _buffer_index>>
  <2>1. Flat(<< <<>> >>) = <<>>
    <3>1. <<>> \in Seq(Nat)
      OBVIOUS
    <3> QED
      BY <3>1, FlatOne
  <2>2. Cat(<<>>, Flat(usb')) = Flat(usb') /\ Cat(<<>>, r) = r
    <3>1. Flat(usb') \in Seq(Nat)
      BY <1>1, ParseParts
    <3> QED
      BY <1>5, <3>1, CatEmpty
  <2>3. Buffered(n + 1)'
    BY <1>1, <1>2, <1>8, <2>1, <2>2 DEF Buffered, Emptied
  <2>4. Waiting(n + 1)' = Waiting(n)
    <3>1. Waiting(n + 1)' = Cat(bio, r)
      BY <1>1, <1>8 DEF Waiting, Passing, r
    <3> QED
      BY <1>5, <1>6, <1>8, <2>2, <3>1
  <2>5. Delivered(n + 1)'
    <3> DEFINE o == <<w>>
               a == received.clear
    <3>1. o \in Seq(Seq(Nat)) /\ a \in Seq(Seq(Nat)) /\ w \in Seq(Nat)
      BY <1>3, LinkTypes
    <3>2. Append(a, w) = Cat(a, o)
      BY <3>1, AppendIsConcat DEF Cat
    <3>3. received'.clear = Append(a, w)
      BY <1>3, <1>8, ReceivedClear
    <3> HIDE DEF o
    <3>4. Cat(Cat(a, o), c) = Cat(a, Cat(o, c))
      BY <1>4, <3>1, CatAssoc
    <3>5. sent.clear = Cat(a, Cat(o, c))
      BY <1>4, <1>8 DEF InFrame, Delivered, o
    <3>6. sent'.clear = Cat(received'.clear, c)
      BY <1>1, <3>2, <3>3, <3>4, <3>5
    <3>7. c = Ahead(clears', n + 1)
      BY <1>1 DEF c
    <3> QED
      BY <3>6, <3>7 DEF Delivered
  <2>6. Sealed(n + 1)'
    BY <1>1, <1>7, <2>4 DEF Sealed, TLSBytes, InFrame
  <2> QED
    BY <1>1, <1>3, <2>3, <2>4, <2>5, <2>6 DEF InFrame
<1>9. CASE /\ onBus[n + 1].record # <<>> /\ Filled(k)[1] # <<>> /\ Filled(k)[1][1] = n + 1
           /\ pc' = "handle_tls_data" /\ _buffer_index' = 1 /\ _buffers' = Filled(k)
           /\ UNCHANGED received
  <2>1. Len(_buffers') \in Nat /\ Len(_buffers') > 0 /\ 1 \in 1..(Len(_buffers') + 1)
    <3>1. Filled(k) \in Seq(Seq(Nat)) /\ Filled(k) # <<>>
      BY <1>1, ParseParts
    <3> QED
      BY <1>9, <3>1
  <2>2. Buffered(n + 1)'
    BY <1>1, <1>2, <1>3, <1>9, <2>1 DEF Buffered
  <2>3. Waiting(n + 1)' = Waiting(n)
    <3>1. ~Passed' /\ n + 1 - 1 = n
      BY <1>3, <1>9, <2>1 DEF Passed
    <3>2. Passing(n + 1)' = n
      BY <1>9, <3>1 DEF Passing
    <3> QED
      BY <1>1, <1>6, <3>2 DEF Waiting
  <2>4. Delivered(n + 1)'
    <3>1. Cat(<<>>, c) = c
      BY <1>4, CatEmpty
    <3> QED
      BY <1>1, <1>4, <1>9, <3>1 DEF Delivered, InFrame, c
  <2>5. Sealed(n + 1)'
    BY <1>1, <1>7, <2>3 DEF Sealed, TLSBytes, InFrame
  <2> QED
    BY <1>1, <1>3, <2>2, <2>3, <2>4, <2>5 DEF InFrame
<1> QED
  BY <1>2, <1>8, <1>9

-------------------------------------------------------------------------------
\* The channel.

\* What the framing speaks of.
linkVars == <<received, sensorVars, inputVars, bio, tls_buffers>>

LEMMA LinkKept ==
    ASSUME UNCHANGED linkVars
    PROVE  /\ LinkType => LinkType'
           /\ \A n : (InFrame(n) => InFrame(n)') /\ Waiting(n)' = Waiting(n)
<1>1. /\ UNCHANGED <<received, usb, onBus, plain, sent, pc, _buffers, _received_length, _buffer_index, bio, tls_buffers>>
      /\ UNCHANGED <<wire, clears, records>>
  BY DEF linkVars, sensorVars, inputVars, wire, clears, records
<1>2. LinkType => LinkType'
  BY <1>1 DEF LinkType
<1>3. ASSUME NEW n PROVE (InFrame(n) => InFrame(n)') /\ Waiting(n)' = Waiting(n)
  BY <1>1 DEF InFrame, Buffered, Delivered, Sealed, TLSBytes, Waiting, Passing, Passed
<1> QED
  BY <1>2, <1>3

LEMMA FrameInit ==
    ASSUME Init
    PROVE  LinkType /\ InFrame(0) /\ Waiting(0) = <<>> /\ Len(onBus) = 0
<1>1. /\ sent = [c \in Channels |-> <<>>] /\ received = [c \in Channels |-> <<>>]
      /\ usb = <<>> /\ onBus = <<>> /\ plain = <<>>
      /\ pc = "recv" /\ _buffers = << <<>> >> /\ _received_length = 0 /\ _buffer_index = 0
      /\ bio = <<>> /\ tls_buffers = <<>>
  BY DEF Init
<1>2. <<>> \in Seq(Nat) /\ <<>> \in Seq(Seq(Nat)) /\ <<>> \in Seq(Seq(Seq(Nat))) /\ Len(<<>>) = 0
  OBVIOUS
<1>3. << <<>> >> \in Seq(Seq(Nat)) /\ << <<>> >> # <<>> /\ Flat(<< <<>> >>) = <<>>
  <2>1. Flat(<< <<>> >>) = <<>>
    BY <1>2, FlatOne
  <2> QED
    BY <1>2, <2>1
<1>4. sent.clear = <<>> /\ sent.secure = <<>> /\ received.clear = <<>> /\ received.secure = <<>>
  BY <1>1 DEF Channels
<1>5. LinkType
  <2>1. sent \in [Channels -> Seq(Seq(Nat))] /\ received \in [Channels -> Seq(Seq(Nat))]
    BY <1>1, <1>2
  <2>2. onBus \in Seq([length : Length, record : Seq(Nat)]) /\ Len(onBus) = 0
    BY <1>1
  <2>3. 0 <= MaxEvents /\ 0 <= MaxSecure /\ 0 \in Nat
    BY LinkConstants
  <2>4. \A n \in 1..Len(sent.secure) : FALSE
    BY <1>2, <1>4
  <2> QED
    BY <1>1, <1>2, <1>3, <1>4, <2>1, <2>2, <2>3, <2>4 DEF LinkType
<1>6. Ahead(wire, 0) = <<>> /\ Ahead(clears, 0) = <<>> /\ Ahead(records, 0) = <<>>
  <2>1. Len(onBus) = 0
    BY <1>1, <1>2
  <2>2. wire \in Seq(Seq(Nat)) /\ Len(wire) = 0 /\ clears \in Seq(Seq(Seq(Nat))) /\ Len(clears) = 0
        /\ records \in Seq(Seq(Seq(Nat))) /\ Len(records) = 0
    BY <1>5, <2>1, WireType, ClearsType, RecordsType
  <2>3. Ahead(wire, Len(wire)) = <<>>
    BY <2>2, AheadEnd
  <2>4. Ahead(clears, Len(clears)) = <<>>
    BY <2>2, AheadEnd
  <2>5. Ahead(records, Len(records)) = <<>>
    BY <2>2, AheadEnd
  <2> QED
    BY <2>2, <2>3, <2>4, <2>5
<1>7. Cat(<<>>, <<>>) = <<>>
  BY <1>2, CatEmpty
<1>8. Buffered(0)
  BY <1>1, <1>2, <1>3, <1>6, <1>7, FlatEmpty DEF Buffered
<1>9. Delivered(0)
  BY <1>4, <1>6, <1>7 DEF Delivered
<1>10. Waiting(0) = <<>>
  BY <1>1, <1>6, <1>7 DEF Waiting, Passing
<1>11. Sealed(0)
  <2>1. TLSBytes(0) = <<>>
    BY <1>1, <1>7, <1>10, FlatEmpty DEF TLSBytes
  <2>2. Ahead(sent.secure, Len(received.secure)) = <<>>
    <3>1. sent.secure \in Seq(Seq(Nat)) /\ Len(sent.secure) = Len(received.secure)
      BY <1>2, <1>4
    <3>2. Ahead(sent.secure, Len(sent.secure)) = <<>>
      BY <3>1, AheadEnd
    <3> QED
      BY <3>1, <3>2
  <2> QED
    BY <1>1, <1>2, <1>4, <2>1, <2>2 DEF Sealed
<1> QED
  BY <1>1, <1>2, <1>5, <1>8, <1>9, <1>10, <1>11 DEF InFrame

LEMMA SealParts ==
    ASSUME Seal
    PROVE  \E k \in 1..Len(plain), length \in TLSLength :
               /\ tidy => TidyRecord(SubSeq(plain, 1, k))
               /\ PutOnBus(length, SubSeq(plain, 1, k)) /\ plain' = SubSeq(plain, k + 1, Len(plain))
               /\ UNCHANGED <<sent, received, inputVars, bio, tls_buffers>>
BY DEF Seal

\* Overflow, TLSWrites, read_bio_stream and send leave the link alone.
LEMMA Unlinked ==
    ASSUME [Next]_vars
    PROVE  \/ SendClear \/ SendSecure \/ Seal \/ parse \/ handle_tls_data \/ process
           \/ Overflow /\ UNCHANGED linkVars
           \/ UNCHANGED linkVars /\ failed' \in {failed, "transfer"}
<1>1. CASE Overflow
  BY <1>1 DEF Overflow, linkVars
<1>2. CASE TLSWrites \/ read_bio_stream
  BY <1>2 DEF TLSWrites, read_bio_stream, linkVars
<1>3. CASE send
  BY <1>3 DEF send, linkVars, Fail
<1>4. CASE UNCHANGED vars
  BY <1>4 DEF vars, linkVars
<1> QED
  BY <1>1, <1>2, <1>3, <1>4 DEF Next, USBInput

LEMMA FrameStep ==
    ASSUME LinkType, Framed, [Next]_vars
    PROVE  LinkType' /\ Framed'
<1>1. CASE UNCHANGED linkVars /\ failed = "none"
  <2>1. PICK n \in 0..Len(onBus) : InFrame(n)
    BY <1>1 DEF Framed
  <2>2. onBus' = onBus
    BY <1>1 DEF linkVars, sensorVars
  <2> QED
    BY <1>1, <2>1, <2>2, LinkKept DEF Framed
<1>2. CASE failed # "none"
  <2>1. UNCHANGED linkVars /\ UNCHANGED failed
    BY <1>2, Zenon DEF Next, vars, linkVars, USBInput, SendClear, SendSecure, Seal, PutOnBus, Overflow, parse, handle_tls_data,
       process, TLSWrites, read_bio_stream, send
  <2> QED
    BY <1>2, <2>1, LinkKept, Zenon DEF Framed
<1>3. CASE failed = "none" /\ (SendClear \/ SendSecure \/ Seal \/ parse \/ handle_tls_data \/ process)
  <2>1. PICK n \in 0..Len(onBus) : InFrame(n)
    BY <1>3 DEF Framed
  <2>2. Buffered(n)
    BY <2>1 DEF InFrame
  <2>3. CASE SendClear
    <3>1. LinkType' /\ n \in 0..Len(onBus') /\ InFrame(n)'
      BY <2>1, <2>3, ClearType, ClearFrame
    <3> QED
      BY <3>1 DEF Framed
  <2>4. CASE SendSecure
    <3>1. LinkType' /\ InFrame(n)' /\ onBus' = onBus
      BY <2>1, <2>4, SecureType, SecureFrame DEF SendSecure
    <3> QED
      BY <3>1 DEF Framed
  <2>5. CASE Seal
    <3>1. LinkType'
      BY <2>5, SealType
    <3>2. PICK k \in 1..Len(plain), length \in TLSLength :
               /\ PutOnBus(length, SubSeq(plain, 1, k)) /\ plain' = SubSeq(plain, k + 1, Len(plain))
               /\ UNCHANGED <<sent, received, inputVars, bio, tls_buffers>>
      BY <2>5, SealParts
    <3>3. n \in 0..Len(onBus') /\ InFrame(n)'
      BY <2>1, <3>2, SealFrame
    <3> QED
      BY <3>1, <3>3 DEF Framed
  <2>6. CASE parse
    <3>1. LinkType' /\ onBus' = onBus
      BY <1>3, <2>2, <2>6, ParseType, ParseOutcome
    <3>2. PICK k \in DOMAIN usb : usb' = SubSeq(usb, k + 1, Len(usb)) /\ Parsed(k, n)
      BY <1>3, <2>2, <2>6, ParseOutcome
    <3>3. CASE failed' # "none"
      BY <3>1, <3>3 DEF Framed
    <3>4. CASE failed' = "none" /\ Whole(k)
      <4>1. n + 1 \in 0..Len(onBus') /\ InFrame(n + 1)'
        BY <1>3, <2>1, <2>6, <3>2, <3>4, ParseTaken
      <4> QED
        BY <3>1, <4>1 DEF Framed
    <3>5. CASE failed' = "none" /\ ~Whole(k)
      <4>1. InFrame(n)'
        BY <1>3, <2>1, <2>6, <3>2, <3>5, ParseKept
      <4> QED
        BY <3>1, <4>1 DEF Framed
    <3> QED
      BY <3>3, <3>4, <3>5
  <2>7. CASE handle_tls_data
    <3>1. LinkType' /\ InFrame(n)' /\ onBus' = onBus
      BY <2>1, <2>2, <2>7, HandleType, HandleFrame, Zenon DEF handle_tls_data, sensorVars
    <3> QED
      BY <3>1 DEF Framed
  <2>8. CASE process
    <3>1. LinkType' /\ (failed' = "none" => InFrame(n)') /\ onBus' = onBus
      BY <1>3, <2>1, <2>8, ProcessType, ProcessFrame, Zenon DEF process, sensorVars
    <3> QED
      BY <3>1 DEF Framed
  <2> QED
    BY <1>3, <2>3, <2>4, <2>5, <2>6, <2>7, <2>8
<1> QED
  BY <1>1, <1>2, <1>3, Unlinked

THEOREM AlwaysFramed == Spec => [](LinkType /\ Framed)
<1>1. Init => LinkType /\ Framed
  <2> SUFFICES ASSUME Init PROVE LinkType /\ Framed
    OBVIOUS
  <2>1. LinkType /\ InFrame(0) /\ Len(onBus) = 0
    BY FrameInit
  <2>2. 0 \in 0..Len(onBus)
    BY <2>1
  <2> QED
    BY <2>1, <2>2 DEF Framed
<1>2. (LinkType /\ Framed) /\ [Next]_vars => (LinkType /\ Framed)'
  BY FrameStep
<1> QED
  BY <1>1, <1>2, PTL DEF Spec

\* Each step of the link is one of the channel.
LEMMA ChannelKept ==
    ASSUME UNCHANGED <<sent, received>>
    PROVE  (failed' = "none" /\ failed # "none") \/ [Channel!Next]_(Channel!vars)
<1>1. CASE UNCHANGED failed
  BY <1>1 DEF Channel!vars
<1>2. CASE failed' # "none"
  BY <1>2 DEF Channel!Next, Channel!Break
<1> QED
  BY <1>1, <1>2

LEMMA ChannelStep ==
    ASSUME LinkType, Framed, [Next]_vars
    PROVE  [Channel!Next]_(Channel!vars)
<1>1. CASE UNCHANGED linkVars
  <2>1. UNCHANGED <<sent, received>>
    BY <1>1, Zenon DEF linkVars, sensorVars
  <2>2. ~(failed' = "none" /\ failed # "none")
    BY Zenon DEF Next, vars, USBInput, SendClear, SendSecure, Seal, PutOnBus, Overflow, parse, handle_tls_data,
       process, TLSWrites, read_bio_stream, send
  <2> QED
    BY <2>1, <2>2, ChannelKept
<1>2. CASE SendClear
  <2>1. PICK length \in ClearLength : /\ PutOnBus(length, <<>>)
                                      /\ sent' = [sent EXCEPT !.clear = Append(@, Bytes(Len(onBus'), length))]
    BY <1>2 DEF SendClear
  <2>2. length \in Length /\ <<>> \in Seq(Nat)
    BY DEF Length
  <2>3. Len(onBus') = Len(onBus) + 1 /\ Len(onBus') <= MaxEvents
    BY <2>1, <2>2, PutGrows
  <2>4. Len(onBus') \in 1..(MaxEvents + MaxSecure)
    BY <2>3, LinkCounts, LinkConstants
  <2>5. Bytes(Len(onBus'), length) \in Events
    BY <2>2, <2>4 DEF Events
  <2>6. UNCHANGED <<received, failed>>
    BY <1>2 DEF SendClear
  <2>7. PICK e \in Events : sent' = [sent EXCEPT !.clear = Append(@, e)]
    BY <2>1, <2>5
  <2>8. Channel!Send("clear")
    <3>1. UNCHANGED <<received, failed # "none">>
      BY <2>6
    <3>2. \E f \in Events : sent' = [sent EXCEPT !["clear"] = Append(@, f)]
      BY <2>7, Zenon
    <3> QED
      BY <3>1, <3>2, Zenon DEF Channel!Send
  <2> QED
    BY <2>8 DEF Channel!Next, Channels
<1>3. CASE SendSecure
  <2>1. PICK length \in InnerLength :
            sent' = [sent EXCEPT !.secure = Append(@, Bytes(Len(sent.secure) + 1, length))]
    BY <1>3 DEF SendSecure
  <2>2. UNCHANGED <<received, failed>> /\ Len(sent.secure) < MaxSecure
    BY <1>3 DEF SendSecure
  <2>3. Len(sent.secure) + 1 \in 1..(MaxEvents + MaxSecure)
    BY <2>2, LinkCounts, LinkConstants
  <2>4. length \in Length
    BY DEF Length
  <2>5. Bytes(Len(sent.secure) + 1, length) \in Events
    BY <2>3, <2>4 DEF Events
  <2>6. PICK e \in Events : sent' = [sent EXCEPT !.secure = Append(@, e)]
    BY <2>1, <2>5
  <2>7. Channel!Send("secure")
    <3>1. UNCHANGED <<received, failed # "none">>
      BY <2>2
    <3>2. \E f \in Events : sent' = [sent EXCEPT !["secure"] = Append(@, f)]
      BY <2>6, Zenon
    <3> QED
      BY <3>1, <3>2, Zenon DEF Channel!Send
  <2> QED
    BY <2>7 DEF Channel!Next, Channels
<1>4. CASE Seal \/ handle_tls_data
  <2>1. UNCHANGED <<sent, received, failed>>
    BY <1>4 DEF Seal, handle_tls_data, sensorVars
  <2> QED
    BY <2>1 DEF Channel!vars
<1>5. CASE parse \/ process
  <2>1. failed = "none" /\ UNCHANGED sent
    BY <1>5, Zenon DEF parse, process, sensorVars
  <2>2. PICK n \in 0..Len(onBus) : InFrame(n)
    BY <2>1 DEF Framed
  <2>3. CASE UNCHANGED received
    BY <2>1, <2>3, ChannelKept
  <2>4. CASE parse /\ ~UNCHANGED received
    <3>1. Buffered(n)
      BY <2>2 DEF InFrame
    <3>2. PICK k \in DOMAIN usb : Parsed(k, n)
      BY <2>1, <2>4, <3>1, ParseOutcome
    <3>3. /\ UNCHANGED failed /\ n < Len(onBus) /\ n + 1 \in 1..Len(onBus) /\ onBus[n + 1].record = <<>>
          /\ received' = [received EXCEPT !.clear = Append(@, wire[n + 1])]
      BY <2>4, <3>2 DEF Parsed
    <3> DEFINE w == wire[n + 1]
               a == received.clear
               c == Ahead(clears, n)
               r == Ahead(clears, n + 1)
               o == <<w>>
    <3>4. n \in Nat /\ clears \in Seq(Seq(Seq(Nat))) /\ Len(clears) = Len(onBus) /\ clears[n + 1] = o
          /\ Len(onBus) \in Nat
      <4>1. clears \in Seq(Seq(Seq(Nat))) /\ Len(clears) = Len(onBus)
        BY ClearsType
      <4>2. clears[n + 1] = o
        BY <3>3, ClearsType
      <4>3. Len(onBus) \in Nat
        BY LinkTypes
      <4> QED
        BY <4>1, <4>2, <4>3
    <3>5. c = Cat(o, r) /\ c \in Seq(Seq(Nat)) /\ r \in Seq(Seq(Nat))
      <4>1. n \in 0..Len(clears) /\ n + 1 \in 0..Len(clears) /\ n < Len(clears)
        BY <3>3, <3>4
      <4>2. c = Cat(clears[n + 1], r)
        BY <3>4, <4>1, AheadNext
      <4>3. c \in Seq(Seq(Nat)) /\ r \in Seq(Seq(Nat))
        BY <3>4, <4>1, AheadType
      <4> QED
        BY <3>4, <4>2, <4>3
    <3>6. w \in Seq(Nat)
      <4>1. wire \in Seq(Seq(Nat)) /\ Len(wire) = Len(onBus)
        BY WireType
      <4> QED
        BY <3>3, <4>1, ElementOfSeq
    <3>7. o \in Seq(Seq(Nat)) /\ o # <<>> /\ o[1] = w
      BY <3>6
    <3> HIDE DEF o, r
    <3>8. c[1] = w /\ c # <<>>
      BY <3>5, <3>7, HeadOfCat
    <3>9. a \in Seq(Seq(Nat)) /\ Len(a) \in Nat /\ sent.clear = Cat(a, c)
      <4>1. a \in Seq(Seq(Nat)) /\ Len(a) \in Nat
        <5>1. a \in Seq(Seq(Nat))
          BY LinkTypes
        <5> QED
          BY <5>1
      <4> QED
        BY <2>2, <4>1 DEF InFrame, Delivered
    <3> HIDE DEF a, c
    <3>10. Len(c) \in Nat /\ Len(c) > 0 /\ 1 \in 1..Len(c)
      BY <3>5, <3>8
    <3>11. Cat(a, c)[Len(a) + 1] = c[1]
      BY <3>5, <3>9, <3>10, CatAfter
    <3>12. Len(Cat(a, c)) = Len(a) + Len(c)
      BY <3>5, <3>9, CatType
    <3>13. Len(a) < Len(sent.clear) /\ sent.clear[Len(a) + 1] = w
      BY <3>8, <3>9, <3>10, <3>11, <3>12
    <3>14. Channel!Deliver("clear")
      BY <2>1, <3>3, <3>13 DEF Channel!Deliver, a
    <3> QED
      BY <3>14 DEF Channel!Next, Channels
  <2>5. CASE process /\ ~UNCHANGED received
    <3>1. /\ UNCHANGED failed /\ Len(received.secure) < Len(sent.secure)
          /\ received' = [received EXCEPT !.secure = Append(@, sent.secure[Len(received.secure) + 1])]
      BY <2>1, <2>2, <2>5, ProcessOutcome
    <3>2. Channel!Deliver("secure")
      BY <2>1, <3>1 DEF Channel!Deliver
    <3> QED
      BY <3>2 DEF Channel!Next, Channels
  <2> QED
    BY <1>5, <2>3, <2>4, <2>5
<1> QED
  BY <1>1, <1>2, <1>3, <1>4, <1>5, Unlinked

THEOREM AlwaysImplementsChannel == Spec => ImplementsChannel
<1>1. Init => Channel!Init
  BY DEF Init, Channel!Init
<1>2. (LinkType /\ Framed) /\ [Next]_vars => [Channel!Next]_(Channel!vars)
  BY ChannelStep
<1> QED
  BY <1>1, <1>2, AlwaysFramed, PTL DEF Spec, ImplementsChannel, Channel!Spec

-------------------------------------------------------------------------------
\* A tidy sensor: the packets that it has sent.

\* The transfers of a tidy sensor.  USBInput has taken full packets of the next
\* event only, into full buffers; or the last event has filled its transfer and its
\* empty packet is left on the bus.
FreshBuffers == pc = "recv" => _buffers = << <<>> >>
LeftPacket(n) == usb = Cat(<< <<>> >>, Ahead(packets, n)) /\ _received_length = 0 /\ FreshBuffers

PartTaken(n, full) ==
    /\ Cat(full, usb) = Ahead(packets, n)
    /\ \A i \in 1..Len(full) : Len(full[i]) = PACKET
    /\ _received_length = Len(full) * PACKET
    /\ IF full = <<>> THEN FreshBuffers
       ELSE /\ pc = "recv" /\ n < Len(onBus) /\ _received_length < onBus[n + 1].length
            /\ \A i \in 1..Len(_buffers) : Len(_buffers[i]) = BUFFER

TidyPackets(n) == LeftPacket(n) \/ \E full \in Seq(Seq(Nat)) : PartTaken(n, full)

\* A transfer asks for a whole buffer then, and puts it into a new one.
LEMMA TidyTransfer ==
    ASSUME LinkType, NEW n \in 0..Len(onBus), TidyPackets(n), pc = "recv"
    PROVE  /\ Wanted = BUFFER /\ Transfer[Len(Transfer)] = <<>>
           /\ \A i \in 1..(Len(Transfer) - 1) : Len(Transfer[i]) = BUFFER
           /\ \/ _buffers = << <<>> >> /\ Len(Transfer) = 1
              \/ _buffers # << <<>> >> /\ Len(Transfer) > 1
<1>1. _buffers \in Seq(Seq(Nat)) /\ _buffers # <<>> /\ BUFFER \in Nat /\ BUFFER > 0
  <2>1. BUFFER \in Nat /\ BUFFER > 0
    BY LinkConstants
  <2> QED
    BY <2>1, LinkTypes
<1>2. CASE _buffers = << <<>> >>
  <2>1. Last(_buffers) = <<>> /\ Room = BUFFER
    <3>1. Last(_buffers) = <<>>
      BY <1>2 DEF Last
    <3> QED
      BY <1>1, <3>1 DEF Room
  <2>2. Transfer = << <<>> >> /\ Wanted = BUFFER
    BY <1>1, <1>2, <2>1 DEF Transfer, Wanted
  <2> QED
    BY <1>2, <2>2
<1>3. CASE \A i \in 1..Len(_buffers) : Len(_buffers[i]) = BUFFER
  <2>1. Len(_buffers) \in 1..Len(_buffers) /\ Len(_buffers) \in Nat
    BY <1>1
  <2>2. Room = 0
    BY <1>1, <1>3, <2>1 DEF Room, Last
  <2>3. Transfer = Append(_buffers, <<>>) /\ Wanted = BUFFER
    BY <2>2 DEF Transfer, Wanted
  <2> DEFINE b == _buffers
             t == Append(b, <<>>)
  <2>4. <<>> \in Seq(Nat) /\ b \in Seq(Seq(Nat))
    BY <1>1
  <2>5. Len(t) = Len(b) + 1 /\ t[Len(b) + 1] = <<>> /\ \A i \in 1..Len(b) : t[i] = b[i]
    BY <2>4, AppendProperties
  <2> HIDE DEF t
  <2>6. t[Len(t)] = <<>> /\ \A i \in 1..(Len(t) - 1) : Len(t[i]) = BUFFER
    BY <1>3, <2>1, <2>5
  <2>7. _buffers # << <<>> >>
    <3>1. _buffers = << <<>> >> => Len(_buffers[1]) = 0
      OBVIOUS
    <3> QED
      BY <1>1, <1>3, <2>1, <3>1
  <2>8. Len(t) > 1
    BY <2>1, <2>5
  <2> QED
    BY <2>3, <2>6, <2>7, <2>8 DEF t
<1> QED
  BY <1>2, <1>3 DEF TidyPackets, LeftPacket, PartTaken, FreshBuffers

\* The buffers after a transfer: all are full but the last, which has what came.
LEMMA TidyFilled ==
    ASSUME LinkType, NEW n \in 0..Len(onBus), TidyPackets(n), pc = "recv",
           NEW k \in DOMAIN usb, Taken(k) \in Seq(Nat)
    PROVE  /\ Filled(k) \in Seq(Seq(Nat)) /\ Filled(k) # <<>>
           /\ Filled(k)[Len(Filled(k))] = Taken(k)
           /\ \A i \in 1..(Len(Filled(k)) - 1) : Len(Filled(k)[i]) = BUFFER
           /\ \/ _buffers = << <<>> >> /\ Filled(k) = <<Taken(k)>>
              \/ _buffers # << <<>> >> /\ Len(Filled(k)) > 1 /\ Len(Filled(k)[1]) = BUFFER
<1> DEFINE f == Filled(k)
           t == Transfer
           d == Taken(k)
<1>1. /\ f \in Seq(Seq(Nat)) /\ Len(f) = Len(t) /\ f # <<>>
      /\ f[Len(t)] = Cat(t[Len(t)], d) /\ Agree(f, t, Len(t) - 1)
  BY FilledType
<1>2. /\ t[Len(t)] = <<>> /\ \A i \in 1..(Len(t) - 1) : Len(t[i]) = BUFFER
      /\ \/ _buffers = << <<>> >> /\ Len(t) = 1
         \/ _buffers # << <<>> >> /\ Len(t) > 1
  BY TidyTransfer
<1>3. Cat(<<>>, d) = d
  BY CatEmpty
<1> HIDE DEF f, t, d
<1>4. f[Len(f)] = d /\ Len(f) \in Nat /\ \A i \in 1..(Len(f) - 1) : Len(f[i]) = BUFFER
  BY <1>1, <1>2, <1>3 DEF Agree
<1>5. Len(f) = 1 => f = <<d>>
  <2>1. Len(f) = 1 => \A i \in 1..Len(f) : f[i] = <<d>>[i]
    BY <1>1, <1>4
  <2>2. d \in Seq(Nat)
    BY DEF d
  <2>3. <<d>> \in Seq(Seq(Nat)) /\ Len(<<d>>) = 1
    BY <2>2
  <2> QED
    BY <1>1, <2>1, <2>3, SeqEqual
<1>6. Len(f) > 1 => Len(f[1]) = BUFFER
  BY <1>4
<1> QED
  BY <1>1, <1>2, <1>4, <1>5, <1>6 DEF f, t, d

\* The packets in a transfer: the last alone may be short, and each fits.
LEMMA TakenFull ==
    ASSUME NEW u \in Seq(Seq(Nat)), NEW k \in 1..Len(u), \A i \in 1..(k - 1) : Len(u[i]) = PACKET
    PROVE  Len(Flat(SubSeq(u, 1, k))) = (k - 1) * PACKET + Len(u[k])
<1>1. k - 1 \in Nat /\ k - 1 \in 0..Len(u) /\ k \in 0..Len(u) /\ PACKET \in Nat /\ Len(u) \in Nat
  BY LinkConstants
<1> DEFINE s == SubSeq(u, 1, k - 1)
           t == SubSeq(u, 1, k)
<1>2. s \in Seq(Seq(Nat)) /\ Len(s) = k - 1 /\ t \in Seq(Seq(Nat)) /\ Len(t) = k
  BY <1>1, CutAt
<1>3. \A i \in 1..(k - 1) : s[i] = u[i] /\ Len(s[i]) = PACKET
  BY <1>1
<1>4. t = Append(s, u[k]) /\ u[k] \in Seq(Nat)
  <2>1. u[k] \in Seq(Nat)
    OBVIOUS
  <2>2. \A i \in 1..k : t[i] = u[i]
    BY <1>1
  <2>3. /\ Append(s, u[k]) \in Seq(Seq(Nat)) /\ Len(Append(s, u[k])) = k
        /\ (\A i \in 1..(k - 1) : Append(s, u[k])[i] = s[i]) /\ Append(s, u[k])[k] = u[k]
    <3> HIDE DEF s
    <3>1. Len(s) + 1 = k
      BY <1>1, <1>2
    <3> QED
      BY <1>1, <1>2, <2>1, <3>1, AppendProperties
  <2>4. \A i \in 1..k : t[i] = Append(s, u[k])[i]
    <3> HIDE DEF s, t
    <3>1. ASSUME NEW i \in 1..k PROVE t[i] = Append(s, u[k])[i]
      <4>1. CASE i = k
        BY <2>2, <2>3, <4>1
      <4>2. CASE i # k
        <5>1. i \in 1..(k - 1)
          BY <4>2
        <5> QED
          BY <1>3, <2>2, <2>3, <5>1
      <4> QED
        BY <4>1, <4>2
    <3> QED
      BY <3>1
  <2> HIDE DEF s, t
  <2> QED
    BY <1>2, <2>1, <2>3, <2>4, SeqEqual
<1> HIDE DEF s, t
<1>5. Flat(t) = Cat(Flat(s), u[k]) /\ Flat(s) \in Seq(Nat)
  BY <1>2, <1>4, FlatAppend, FlatType
<1>6. Len(Flat(s)) = (k - 1) * PACKET
  <2>1. \A i \in 1..Len(s) : Len(s[i]) = PACKET
    BY <1>2, <1>3
  <2>2. Len(Flat(s)) = Len(s) * PACKET
    BY <1>1, <1>2, <2>1, FlatFull
  <2> QED
    BY <1>2, <2>2
<1>7. Len(Cat(Flat(s), u[k])) = Len(Flat(s)) + Len(u[k])
  BY <1>4, <1>5, CatType
<1> QED
  BY <1>5, <1>6, <1>7 DEF t

LEMMA Multiple ==
    ASSUME NEW a \in Nat, NEW b \in Nat, NEW p \in Nat
    PROVE  /\ a * p \in Nat /\ b * p \in Nat /\ (a + b) * p = a * p + b * p /\ (a + 1) * p = a * p + p
           /\ a < b => a * p + p <= b * p
           /\ a <= b => a * p <= b * p
<1>1. a * p \in Nat /\ b * p \in Nat /\ (a + b) * p = a * p + b * p /\ (a + 1) * p = a * p + p
  OBVIOUS
<1>2. a <= b => a * p <= b * p
  OBVIOUS
<1>3. a < b => (a + 1) * p <= b * p
  OBVIOUS
<1> QED
  BY <1>1, <1>2, <1>3

\* The packets that a transfer takes, when full ones have been taken before: they
\* are the next ones of the event, up to its short one at most.
LEMMA TidyNext ==
    ASSUME LinkType, NEW n \in 0..Len(onBus), NEW full \in Seq(Seq(Nat)), PartTaken(n, full),
           NEW k \in DOMAIN usb, Before(k)
    PROVE  LET p == packets[n + 1] IN
           /\ n \in Nat /\ n < Len(onBus) /\ p \in Seq(Seq(Nat))
           /\ Cat(full, usb) = Cat(p, Ahead(packets, n + 1)) /\ Ahead(packets, n + 1) \in Seq(Seq(Nat))
           /\ \E f \in Nat :
                /\ Len(p) = f + 1 /\ Len(p[f + 1]) = onBus[n + 1].length - f * PACKET
                /\ f * PACKET <= onBus[n + 1].length /\ onBus[n + 1].length < f * PACKET + PACKET
                /\ Len(full) + k <= f + 1
                /\ \A i \in 1..k : Len(full) + i <= f => Len(usb[i]) = PACKET
                /\ Len(full) + k = f + 1 => usb[k] = p[f + 1]
<1> DEFINE p == packets[n + 1]
           g == Ahead(packets, n + 1)
           q == Len(full)
           L == onBus[n + 1].length
           w == wire[n + 1]
<1>1. /\ usb \in Seq(Seq(Nat)) /\ Len(usb) \in Nat /\ k \in 1..Len(usb) /\ n \in Nat /\ q \in Nat
      /\ Len(onBus) \in Nat /\ PACKET \in Nat /\ PACKET > 0
  <2>1. usb \in Seq(Seq(Nat)) /\ Len(onBus) \in Nat
    BY LinkTypes
  <2>2. PACKET \in Nat /\ PACKET > 0
    BY LinkConstants
  <2> QED
    BY <2>1, <2>2
<1>2. Cat(full, usb) = Ahead(packets, n) /\ \A i \in 1..q : Len(full[i]) = PACKET
  BY DEF PartTaken
<1>3. packets \in Seq(Seq(Seq(Nat))) /\ Len(packets) = Len(onBus)
  BY PacketsType
<1>4. Len(Cat(full, usb)) = q + Len(usb)
  BY <1>1, CatType
<1>5. n < Len(onBus)
  <2>1. n = Len(onBus) => Ahead(packets, n) = <<>>
    BY <1>3, AheadEnd
  <2>2. n = Len(onBus) => Len(Cat(full, usb)) = 0
    BY <1>2, <2>1
  <2> QED
    BY <1>1, <1>4, <2>2
<1>6. /\ n + 1 \in 1..Len(packets) /\ p \in Seq(Seq(Nat)) /\ Ahead(packets, n) = Cat(p, g)
  BY <1>1, <1>3, <1>5, AheadNext
<1>7. g \in Seq(Seq(Nat))
  <2>1. n + 1 \in 0..Len(packets)
    BY <1>6
  <2> QED
    BY <1>3, <2>1, AheadType
<1>8. p = Packets(w, TRUE) /\ w \in Seq(Nat) /\ Len(w) = L /\ L \in Nat
  <2>1. n + 1 \in 1..Len(onBus) /\ n + 1 \in Nat
    BY <1>1, <1>3, <1>6
  <2>2. L \in Nat /\ w = Bytes(n + 1, L)
    BY <2>1, EventType, WireType
  <2>3. Bytes(n + 1, L) \in Seq(Nat) /\ Len(Bytes(n + 1, L)) = L
    <3> HIDE DEF L
    <3> QED
      BY <2>1, <2>2, BytesType
  <2>4. p = Packets(w, TRUE)
    BY <2>1, PacketsType
  <2> HIDE DEF L, w, p
  <2> QED
    BY <2>2, <2>3, <2>4
<1>9. PICK f \in Nat : /\ Len(p) = f + 1 /\ f * PACKET <= L /\ L < f * PACKET + PACKET
                       /\ \A i \in 1..f : Len(p[i]) = PACKET
                       /\ Len(p[f + 1]) = L - f * PACKET
  BY <1>8, PacketsWhole
<1>15. /\ q \in Nat /\ k \in Nat /\ k >= 1 /\ Len(usb) \in Nat /\ k <= Len(usb) /\ f \in Nat
       /\ PACKET \in Nat /\ PACKET > 0 /\ f * PACKET \in Nat
  <2>1. f * PACKET \in Nat
    BY <1>1, Multiple
  <2> QED
    BY <1>1, <2>1
<1> HIDE DEF p, g, w, L
<1>10. q <= f
  <2>1. q * PACKET <= L
    <3>1. q = 0 => q * PACKET = 0
      BY <1>15
    <3>2. full # <<>> => q * PACKET < L
      BY DEF PartTaken, L
    <3>3. q * PACKET \in Nat
      BY <1>15, Multiple
    <3>4. full = <<>> => q = 0
      OBVIOUS
    <3> QED
      BY <1>8, <3>1, <3>2, <3>3, <3>4
  <2> HIDE DEF q
  <2>2. q * PACKET \in Nat /\ (f < q => f * PACKET + PACKET <= q * PACKET)
    BY <1>15, Multiple
  <2> DEFINE m == f * PACKET
             o == q * PACKET
  <2>3. m \in Nat /\ o \in Nat /\ o <= L /\ L < m + PACKET /\ (f < q => m + PACKET <= o)
    BY <1>9, <1>15, <2>1, <2>2
  <2> HIDE DEF m, o
  <2>4. ~(f < q)
    BY <1>8, <1>15, <2>3
  <2> QED
    BY <1>15, <2>4
<1>11. ASSUME NEW i \in 1..Len(usb), q + i <= f + 1
       PROVE  usb[i] = p[q + i]
  <2>1. Cat(full, usb)[q + i] = usb[i]
    BY <1>1, CatAfter
  <2>2. q + i \in 1..Len(p)
    BY <1>1, <1>9, <1>11
  <2>3. Cat(p, g)[q + i] = p[q + i]
    BY <1>6, <1>7, <2>2, CatAt
  <2> QED
    BY <1>2, <1>6, <2>1, <2>3
<1>12. q + k <= f + 1
  <2> SUFFICES ASSUME q + k > f + 1 PROVE FALSE
    BY <1>1
  <2> DEFINE i == f + 1 - q
  <2>1. i \in 1..(k - 1) /\ i \in 1..Len(usb) /\ q + i = f + 1
    <3> HIDE DEF q
    <3> QED
      BY <1>10, <1>15
  <2> HIDE DEF i
  <2>2. usb[i] = p[f + 1]
    BY <1>11, <1>15, <2>1
  <2>3. Len(usb[i]) = PACKET
    BY <2>1 DEF Before
  <2>4. PACKET = L - f * PACKET
    BY <1>9, <2>2, <2>3
  <2> QED
    BY <1>8, <1>9, <1>15, <2>4
<1>13. ASSUME NEW i \in 1..k, q + i <= f PROVE Len(usb[i]) = PACKET
  <2>1. i \in 1..Len(usb) /\ q + i \in 1..f /\ q + i <= f + 1
    BY <1>1, <1>13
  <2> QED
    BY <1>9, <1>11, <2>1
<1>14. q + k = f + 1 => usb[k] = p[f + 1]
  <2>1. q + k = f + 1 => k \in 1..Len(usb) /\ q + k <= f + 1
    BY <1>1, <1>15
  <2> HIDE DEF q
  <2> QED
    BY <1>11, <2>1
<1> QED
  BY <1>1, <1>2, <1>5, <1>6, <1>7, <1>9, <1>12, <1>13, <1>14 DEF p, g, L

\* The count after the transfer: that of whole packets, or the event is complete.
LEMMA TidyCount ==
    ASSUME LinkType, NEW n \in 0..Len(onBus), NEW full \in Seq(Seq(Nat)), PartTaken(n, full), pc = "recv",
           NEW k \in DOMAIN usb, Before(k)
    PROVE  /\ Taken(k) \in Seq(Nat) /\ Len(Taken(k)) = Total(k) /\ Total(k) <= BUFFER /\ Wanted = BUFFER
           /\ _received_length + Total(k) <= onBus[n + 1].length
           /\ Len(usb[k]) < PACKET =>
                _received_length + Total(k) = onBus[n + 1].length /\ Len(full) + k = Len(packets[n + 1])
           /\ Len(usb[k]) >= PACKET =>
                /\ Len(usb[k]) = PACKET /\ _received_length + Total(k) = (Len(full) + k) * PACKET
                /\ _received_length + Total(k) = onBus[n + 1].length =>
                       Len(full) + k + 1 = Len(packets[n + 1]) /\ packets[n + 1][Len(full) + k + 1] = <<>>
<1> DEFINE p == packets[n + 1]
           q == Len(full)
           L == onBus[n + 1].length
<1>1. /\ usb \in Seq(Seq(Nat)) /\ Len(usb) \in Nat /\ k \in 1..Len(usb) /\ q \in Nat
      /\ PACKET \in Nat /\ PACKET > 0 /\ BUFFER \in Nat
  <2>1. usb \in Seq(Seq(Nat))
    BY LinkTypes
  <2>2. PACKET \in Nat /\ PACKET > 0 /\ BUFFER \in Nat
    BY LinkConstants
  <2> QED
    BY <2>1, <2>2
<1>2. PICK f \in Nat :
        /\ Len(p) = f + 1 /\ Len(p[f + 1]) = L - f * PACKET
        /\ f * PACKET <= L /\ L < f * PACKET + PACKET
        /\ q + k <= f + 1
        /\ \A i \in 1..k : q + i <= f => Len(usb[i]) = PACKET
        /\ q + k = f + 1 => usb[k] = p[f + 1]
  BY TidyNext
<1>3. L \in Nat
  <2>1. n < Len(onBus) /\ n \in Nat /\ Len(onBus) \in Nat
    BY TidyNext, LinkTypes
  <2>2. n + 1 \in 1..Len(onBus)
    BY <2>1
  <2> QED
    BY <2>2, EventType
<1>17. p \in Seq(Seq(Nat))
  BY TidyNext
<1>14. /\ q \in Nat /\ k \in Nat /\ k >= 1 /\ k - 1 \in Nat /\ f \in Nat
       /\ PACKET \in Nat /\ PACKET > 0 /\ BUFFER \in Nat
  BY <1>1
<1> HIDE DEF p, q, L
<1>15. q + k = f + 1 \/ q + k <= f
  <2>1. q + k <= f + 1
    BY <1>2
  <2> QED
    BY <1>14, <2>1
<1>4. Wanted = BUFFER
  <2>1. TidyPackets(n)
    BY DEF TidyPackets
  <2> QED
    BY <2>1, TidyTransfer
<1>5. Taken(k) \in Seq(Nat) /\ Len(Taken(k)) = Total(k)
  <2>1. Taken(k) = Flat(SubSeq(usb, 1, k)) /\ Total(k) = (k - 1) * PACKET + Len(usb[k])
    BY DEF Taken, Flat, Total
  <2>2. \A i \in 1..(k - 1) : Len(usb[i]) = PACKET
    BY DEF Before
  <2>3. k \in 0..Len(usb)
    BY <1>1
  <2>4. SubSeq(usb, 1, k) \in Seq(Seq(Nat))
    BY <1>1, <2>3, CutAt
  <2> QED
    BY <1>1, <2>1, <2>2, <2>4, TakenFull, FlatType
<1>6. PICK a \in Nat, b \in Nat, c \in Nat :
          a = (k - 1) * PACKET /\ b = q * PACKET /\ c = f * PACKET
  <2>1. (k - 1) * PACKET \in Nat /\ q * PACKET \in Nat /\ f * PACKET \in Nat
    BY <1>14, Multiple
  <2> QED
    BY <2>1
<1>16. a \in Nat /\ b \in Nat /\ c \in Nat
  OBVIOUS
<1>7. k * PACKET = a + PACKET /\ (q + k) * PACKET = b + a + PACKET
  <2>1. ((k - 1) + 1) * PACKET = (k - 1) * PACKET + PACKET /\ (k - 1) + 1 = k
    BY <1>14, Multiple
  <2>2. (q + k) * PACKET = q * PACKET + k * PACKET
    BY <1>14, Multiple
  <2>3. k * PACKET = a + PACKET
    BY <1>6, <2>1
  <2>4. (q + k) * PACKET = b + (a + PACKET)
    BY <1>6, <2>2, <2>3
  <2> QED
    BY <1>6, <1>14, <2>3, <2>4
<1>8. usb[k] \in Seq(Nat) /\ Len(usb[k]) \in Nat /\ Len(usb[k]) <= PACKET
  <2>1. usb[k] \in Seq(Nat)
    BY <1>1
  <2>2. k \in 1..k
    BY <1>1
  <2>3. q + k <= f => Len(usb[k]) = PACKET
    BY <1>2, <2>2
  <2>4. q + k = f + 1 => Len(usb[k]) = L - c
    BY <1>2, <1>6
  <2>5. L < c + PACKET
    BY <1>2, <1>6
  <2>6. Len(usb[k]) \in Nat
    BY <2>1
  <2>7. Len(usb[k]) <= PACKET
    <3>1. CASE q + k <= f
      BY <1>14, <2>3, <3>1
    <3>2. CASE q + k = f + 1
      BY <1>3, <1>14, <1>16, <2>4, <2>5, <3>2
    <3> QED
      BY <1>15, <3>1, <3>2
  <2> QED
    BY <2>1, <2>6, <2>7
<1>9. a + PACKET <= BUFFER
  <2>1. BUFFER % PACKET = 0 /\ a < BUFFER
    BY <1>4, <1>6, LinkAssumption DEF Before
  <2>2. PICK d \in Nat, r \in Nat : d = BUFFER \div PACKET /\ r = BUFFER % PACKET /\ r < PACKET /\ BUFFER = d * PACKET + r
    BY <1>1, Division
  <2>3. BUFFER = d * PACKET
    BY <1>1, <2>1, <2>2
  <2>4. d <= k - 1 => d * PACKET <= (k - 1) * PACKET
    BY <1>14, Multiple
  <2>5. k <= d
    <3>1. ~(BUFFER <= a)
      BY <1>6, <1>14, <2>1
    <3>2. ~(d <= k - 1)
      BY <1>6, <2>3, <2>4, <3>1
    <3> QED
      BY <1>14, <3>2
  <2>6. k * PACKET <= d * PACKET
    BY <1>14, <2>5, Multiple
  <2> QED
    BY <1>7, <2>3, <2>6
<1>10. Total(k) = a + Len(usb[k]) /\ _received_length = b
  BY <1>6 DEF Total, PartTaken, q
<1>11. q + k <= f => b + a + PACKET <= c
  <2>1. q + k <= f => (q + k) * PACKET <= f * PACKET
    <3>1. q + k \in Nat
      BY <1>14
    <3> QED
      BY <1>14, <3>1, Multiple
  <2> QED
    BY <1>6, <1>7, <2>1
<1>12. CASE q + k = f + 1
  <2>1. c = b + a
    <3>1. (f + 1) * PACKET = f * PACKET + PACKET
      BY <1>14, Multiple
    <3>2. c + PACKET = b + a + PACKET
      BY <1>6, <1>7, <1>12, <3>1
    <3> QED
      BY <1>16, <1>14, <3>2
  <2>2. Len(usb[k]) = L - c /\ Len(usb[k]) < PACKET
    <3>1. Len(usb[k]) = L - c /\ L < c + PACKET
      BY <1>2, <1>6, <1>12
    <3> QED
      BY <1>3, <1>6, <1>14, <3>1
  <2>3. b + Total(k) = L
    BY <1>3, <1>8, <1>10, <2>1, <2>2
  <2>4. Total(k) <= BUFFER
    BY <1>16, <1>8, <1>9, <1>10, <1>14
  <2>5. _received_length + Total(k) = L /\ Len(full) + k = Len(p) /\ L <= L
    BY <1>2, <1>3, <1>10, <1>12, <2>3 DEF q
  <2>6. ~(Len(usb[k]) >= PACKET)
    BY <1>8, <1>14, <2>2
  <2> QED
    BY <1>4, <1>5, <2>4, <2>5, <2>6 DEF p, L
<1>13. CASE q + k <= f
  <2>1. Len(usb[k]) = PACKET
    <3>1. k \in 1..k
      BY <1>1
    <3> QED
      BY <1>2, <1>13, <3>1
  <2>2. b + Total(k) = (q + k) * PACKET /\ b + Total(k) <= c
    BY <1>7, <1>10, <1>11, <1>13, <2>1
  <2>3. b + Total(k) <= L /\ Total(k) <= BUFFER
    <3>1. c <= L
      BY <1>2, <1>6
    <3> QED
      BY <1>3, <1>16, <1>8, <1>9, <1>10, <1>14, <2>1, <2>2, <3>1
  <2>4. ASSUME b + Total(k) = L
        PROVE  q + k + 1 = Len(p) /\ p[q + k + 1] = <<>>
    <3>1. q + k = f
      <4>1. q + k \in Nat
        BY <1>14
      <4>2. q + k < f => (q + k) * PACKET + PACKET <= f * PACKET
        BY <1>14, <4>1, Multiple
      <4>3. q + k < f => L + PACKET <= c
        BY <1>6, <2>2, <2>4, <4>2
      <4>4. c <= L
        BY <1>2, <1>6
      <4>5. ~(L + PACKET <= c)
        BY <1>3, <1>14, <1>16, <4>4
      <4>6. ~(q + k < f)
        BY <4>3, <4>5
      <4>7. \A x, y \in Nat : x <= y /\ ~(x < y) => x = y
        OBVIOUS
      <4> QED
        BY <1>13, <1>14, <4>1, <4>6, <4>7, Zenon
    <3>2. L = c
      BY <1>6, <2>2, <2>4, <3>1
    <3>3. Len(p[f + 1]) = L - c /\ Len(p) = f + 1 /\ p \in Seq(Seq(Nat))
      BY <1>2, <1>6, <1>17
    <3>4. f + 1 \in 1..Len(p)
      BY <1>14, <3>3
    <3>5. p[f + 1] \in Seq(Nat)
      BY <3>3, <3>4
    <3>6. p[f + 1] = <<>>
      BY <1>3, <3>2, <3>3, <3>5
    <3> QED
      BY <3>1, <3>3, <3>6
  <2>5. ~(Len(usb[k]) < PACKET)
    BY <1>14, <2>1
  <2>6. /\ _received_length + Total(k) = (Len(full) + k) * PACKET
        /\ _received_length + Total(k) = L => Len(full) + k + 1 = Len(p) /\ p[Len(full) + k + 1] = <<>>
    BY <1>10, <2>2, <2>4 DEF q
  <2> QED
    BY <1>4, <1>5, <1>10, <2>1, <2>3, <2>5, <2>6 DEF p, L
<1> QED
  BY <1>12, <1>13, <1>15

\* The empty packet that is left makes a transfer of its own.
LEMMA TidyLeft ==
    ASSUME LinkType, NEW n \in 0..Len(onBus), LeftPacket(n), pc = "recv", NEW k \in DOMAIN usb, Before(k)
    PROVE  /\ k = 1 /\ Total(k) = 0 /\ Wanted = BUFFER /\ Taken(k) = <<>> /\ Filled(k) = << <<>> >>
           /\ ~Whole(k)
<1>1. usb \in Seq(Seq(Nat)) /\ Len(usb) \in Nat /\ k \in 1..Len(usb)
  <2>1. usb \in Seq(Seq(Nat))
    BY LinkTypes
  <2> QED
    BY <2>1
<1>2. usb[1] = <<>>
  <2> DEFINE o == << <<>> >>
             g == Ahead(packets, n)
  <2>1. o \in Seq(Seq(Nat)) /\ o # <<>> /\ o[1] = <<>>
    <3>1. <<>> \in Seq(Nat)
      OBVIOUS
    <3> QED
      BY <3>1
  <2>2. g \in Seq(Seq(Nat))
    <3>1. n \in 0..Len(packets) /\ packets \in Seq(Seq(Seq(Nat)))
      BY PacketsType
    <3> QED
      BY <3>1, AheadType
  <2>3. usb = Cat(o, g)
    BY DEF LeftPacket
  <2> HIDE DEF o, g
  <2> QED
    BY <2>1, <2>2, <2>3, HeadOfCat
<1>3. PACKET \in Nat /\ PACKET > 0 /\ HEADER \in Nat /\ HEADER > 0
  BY LinkConstants
<1>4. k = 1
  <2>1. k # 1 => 1 \in 1..(k - 1)
    BY <1>1
  <2>2. k # 1 => Len(usb[1]) = PACKET
    BY <2>1 DEF Before
  <2>3. Len(usb[1]) = 0
    BY <1>2
  <2> QED
    BY <1>3, <2>2, <2>3
<1>5. Total(k) = 0
  <2>1. Total(1) = (1 - 1) * PACKET + Len(<<>>)
    BY <1>2 DEF Total
  <2>2. (1 - 1) * PACKET = 0 /\ Len(<<>>) = 0
    BY <1>3
  <2> QED
    BY <1>4, <2>1, <2>2
<1>6. Taken(k) = <<>>
  <2>1. Taken(k) = Flat(SubSeq(usb, 1, k)) /\ Total(k) = (k - 1) * PACKET + Len(usb[k])
    BY DEF Taken, Flat, Total
  <2>2. \A i \in 1..(k - 1) : Len(usb[i]) = PACKET
    BY DEF Before
  <2>3. Len(Taken(k)) = 0
    BY <1>1, <1>5, <2>1, <2>2, TakenFull
  <2>4. k \in 0..Len(usb)
    BY <1>1
  <2>5. SubSeq(usb, 1, k) \in Seq(Seq(Nat))
    BY <1>1, <2>4, CutAt
  <2>6. Taken(k) \in Seq(Nat)
    BY <2>1, <2>5, FlatType
  <2> QED
    BY <2>3, <2>6
<1>7. TidyPackets(n) /\ _buffers = << <<>> >>
  BY DEF TidyPackets, LeftPacket, FreshBuffers
<1>8. Taken(k) \in Seq(Nat)
  BY <1>6
<1>9. Filled(k) = <<Taken(k)>> /\ Wanted = BUFFER
  BY <1>7, <1>8, TidyFilled, TidyTransfer
<1>10. ~Whole(k)
  <2>1. Len(Filled(k)[1]) = 0
    BY <1>6, <1>9
  <2> QED
    BY <1>3, <2>1 DEF Whole
<1> QED
  BY <1>4, <1>5, <1>6, <1>9, <1>10

\* No transfer of a tidy sensor is too long.
LEMMA TidyFits ==
    ASSUME LinkType, NEW n \in 0..Len(onBus), TidyPackets(n)
    PROVE  ~Overflow
<1> SUFFICES ASSUME Overflow PROVE FALSE
  OBVIOUS
<1>1. PICK k \in DOMAIN usb : Before(k) /\ Total(k) > Wanted
  BY DEF Overflow
<1>2. pc = "recv" /\ BUFFER \in Nat
  BY LinkConstants DEF Overflow
<1>3. CASE LeftPacket(n)
  <2>1. Total(k) = 0 /\ Wanted = BUFFER
    BY <1>1, <1>2, <1>3, TidyLeft
  <2> QED
    BY <1>1, <1>2, <2>1
<1>4. CASE \E full \in Seq(Seq(Nat)) : PartTaken(n, full)
  <2>1. PICK full \in Seq(Seq(Nat)) : PartTaken(n, full)
    BY <1>4
  <2>2. Total(k) <= BUFFER /\ Wanted = BUFFER /\ Len(Taken(k)) = Total(k) /\ Taken(k) \in Seq(Nat)
    BY <1>1, <1>2, <2>1, TidyCount
  <2>3. Total(k) \in Nat
    BY <2>2
  <2> QED
    BY <1>1, <1>2, <2>2, <2>3
<1> QED
  BY <1>3, <1>4 DEF TidyPackets

\* An event is complete when its bytes are there, and never has more.
LEMMA TidyWhole ==
    ASSUME LinkType, NEW n \in 0..Len(onBus), Buffered(n), NEW full \in Seq(Seq(Nat)), PartTaken(n, full),
           pc = "recv", NEW k \in DOMAIN usb, Done(k), usb' = SubSeq(usb, k + 1, Len(usb))
    PROVE  /\ _received_length + Len(Taken(k)) <= onBus[n + 1].length
           /\ Whole(k) <=> _received_length + Len(Taken(k)) = onBus[n + 1].length
           /\ Len(usb[k]) < PACKET => Whole(k)
           /\ Len(usb[k]) >= PACKET => \A i \in 1..Len(Filled(k)) : Len(Filled(k)[i]) = BUFFER
<1> DEFINE L == onBus[n + 1].length
           f == Filled(k)
           have == _received_length + Total(k)
<1>1. Before(k) /\ (Len(usb[k]) < PACKET \/ Total(k) = Wanted)
  BY DEF Done
<1>2. /\ Taken(k) \in Seq(Nat) /\ Len(Taken(k)) = Total(k) /\ Total(k) <= BUFFER /\ Wanted = BUFFER
      /\ have <= L /\ (Len(usb[k]) < PACKET => have = L)
  BY <1>1, TidyCount
<1>3. TidyPackets(n)
  BY DEF TidyPackets
<1>4. /\ f \in Seq(Seq(Nat)) /\ f # <<>> /\ f[Len(f)] = Taken(k)
      /\ \A i \in 1..(Len(f) - 1) : Len(f[i]) = BUFFER
      /\ \/ _buffers = << <<>> >> /\ f = <<Taken(k)>>
         \/ _buffers # << <<>> >> /\ Len(f) > 1 /\ Len(f[1]) = BUFFER
  BY <1>2, <1>3, TidyFilled
<1>5. L \in Nat /\ L >= HEADER
  <2>1. n < Len(onBus) /\ n \in Nat /\ Len(onBus) \in Nat
    BY <1>1, TidyNext, LinkTypes
  <2>2. n + 1 \in 1..Len(onBus)
    BY <2>1
  <2> QED
    BY <2>2, EventType
<1>6. /\ HEADER \in Nat /\ BUFFER \in Nat /\ HEADER < BUFFER /\ PACKET \in Nat
      /\ _received_length \in Nat /\ Total(k) \in Nat
  <2>1. HEADER \in Nat /\ BUFFER \in Nat /\ HEADER < BUFFER /\ PACKET \in Nat
    BY LinkConstants
  <2>2. _received_length \in Nat
    BY DEF LinkType
  <2> QED
    BY <1>2, <2>1, <2>2
<1> HIDE DEF f, L
<1>7. Len(f[1]) >= HEADER
  <2>1. CASE f = <<Taken(k)>> /\ _buffers = << <<>> >>
    <3>1. Len(f[1]) = Total(k)
      BY <1>2, <2>1
    <3>2. full = <<>>
      <4>1. full # <<>> => \A i \in 1..Len(_buffers) : Len(_buffers[i]) = BUFFER
        BY DEF PartTaken
      <4>2. Len(_buffers) = 1 /\ Len(_buffers[1]) = 0
        BY <2>1
      <4>3. 1 \in 1..Len(_buffers)
        BY <4>2
      <4> QED
        BY <1>6, <4>1, <4>2, <4>3
    <3>3. _received_length = 0
      <4>1. _received_length = Len(full) * PACKET /\ Len(full) = 0
        BY <3>2 DEF PartTaken
      <4> QED
        BY <1>6, <4>1
    <3>4. Total(k) = L \/ Total(k) = BUFFER
      <4>1. CASE Len(usb[k]) < PACKET
        BY <1>2, <1>6, <3>3, <4>1
      <4>2. CASE Total(k) = Wanted
        BY <1>2, <4>2
      <4> QED
        BY <1>1, <4>1, <4>2
    <3> QED
      BY <1>5, <1>6, <3>1, <3>4
  <2>2. CASE Len(f[1]) = BUFFER
    BY <1>6, <2>2
  <2> QED
    BY <1>4, <2>1, <2>2
<1>8. f[1][1] = n + 1
  BY <1>7, ParseEvent DEF f
<1>9. Whole(k) <=> have = L
  <2>1. Whole(k) <=> have >= L
    BY <1>2, <1>7, <1>8 DEF Whole, f, L
  <2>2. have \in Nat
    BY <1>6
  <2> HIDE DEF have
  <2> QED
    BY <1>2, <1>5, <2>1, <2>2
<1>10. Len(usb[k]) >= PACKET => \A i \in 1..Len(f) : Len(f[i]) = BUFFER
  <2> SUFFICES ASSUME Len(usb[k]) >= PACKET PROVE \A i \in 1..Len(f) : Len(f[i]) = BUFFER
    OBVIOUS
  <2>1. usb[k] \in Seq(Nat)
    BY LinkTypes
  <2>2. Total(k) = BUFFER
    <3>1. Len(usb[k]) \in Nat
      BY <2>1
    <3> QED
      BY <1>1, <1>2, <1>6, <3>1
  <2>3. Len(f[Len(f)]) = BUFFER /\ Len(f) \in Nat
    BY <1>2, <1>4, <2>2
  <2>4. ASSUME NEW i \in 1..Len(f) PROVE Len(f[i]) = BUFFER
    <3>1. i = Len(f) \/ i \in 1..(Len(f) - 1)
      BY <2>3
    <3> QED
      BY <1>4, <2>3, <3>1
  <2> QED
    BY <2>4
<1> QED
  BY <1>2, <1>9, <1>10 DEF f, L

LEMMA AllTaken ==
    ASSUME LinkType, NEW n \in 0..Len(onBus), Len(packets') = Len(packets), packets' = packets, onBus' = onBus,
           usb' = Ahead(packets, n), _received_length' = 0, FreshBuffers'
    PROVE  TidyPackets(n)'
<1>1. <<>> \in Seq(Seq(Nat)) /\ Len(<<>>) = 0 /\ PACKET \in Nat
  BY LinkConstants
<1>2. Cat(<<>>, Ahead(packets, n)) = Ahead(packets, n)
  <2>1. n \in 0..Len(packets) /\ packets \in Seq(Seq(Seq(Nat)))
    BY PacketsType
  <2>2. Ahead(packets, n) \in Seq(Seq(Nat))
    BY <2>1, AheadType
  <2> QED
    BY <2>2, CatEmpty
<1>3. 0 * PACKET = 0
  BY <1>1
<1>4. PartTaken(n, <<>>)'
  BY <1>1, <1>2, <1>3 DEF PartTaken
<1> QED
  BY <1>1, <1>4 DEF TidyPackets

\* A parse goes on with the packets of the event, or starts with those of the next.
LEMMA TidyParse ==
    ASSUME LinkType, NEW n \in 0..Len(onBus), InFrame(n), TidyPackets(n), failed = "none", parse,
           NEW k \in DOMAIN usb, Done(k), usb' = SubSeq(usb, k + 1, Len(usb)), Parsed(k, n)
    PROVE  failed' = "none" /\ IF Whole(k) THEN TidyPackets(n + 1)' ELSE TidyPackets(n)'
<1>1. UNCHANGED <<onBus, packets>> /\ pc = "recv" /\ Buffered(n)
  <2>1. UNCHANGED onBus /\ pc = "recv" /\ Buffered(n)
    BY ParseOutcome DEF InFrame
  <2> QED
    BY <2>1 DEF packets, wire
<1>2. Before(k)
  BY DEF Done
<1>3. CASE LeftPacket(n)
  <2>1. k = 1 /\ Taken(k) = <<>> /\ Filled(k) = << <<>> >> /\ ~Whole(k)
    BY <1>1, <1>2, <1>3, TidyLeft
  <2>2. /\ _buffers' = << <<>> >> /\ _received_length' = _received_length + Len(Taken(k))
        /\ UNCHANGED <<failed, pc>>
    BY <2>1 DEF Parsed
  <2>3. _received_length' = 0
    BY <1>3, <2>1, <2>2 DEF LeftPacket
  <2>4. usb' = Ahead(packets, n)
    <3> DEFINE o == << <<>> >>
               g == Ahead(packets, n)
               s == SubSeq(usb, 1, 1)
    <3>1. o \in Seq(Seq(Nat)) /\ Len(o) = 1
      <4>1. <<>> \in Seq(Nat)
        OBVIOUS
      <4> QED
        BY <4>1
    <3>2. g \in Seq(Seq(Nat))
      <4>1. n \in 0..Len(packets) /\ packets \in Seq(Seq(Seq(Nat)))
        BY PacketsType
      <4> QED
        BY <4>1, AheadType
    <3>3. usb = Cat(o, g) /\ usb \in Seq(Seq(Nat))
      BY <1>3, LinkTypes DEF LeftPacket
    <3>4. 1 \in 0..Len(usb)
      BY <2>1, <3>3
    <3>5. s \in Seq(Seq(Nat)) /\ Len(s) = 1 /\ usb' \in Seq(Seq(Nat)) /\ usb = Cat(s, usb')
      BY <2>1, <3>3, <3>4, CutAt
    <3> DEFINE v == usb'
    <3>6. v \in Seq(Seq(Nat)) /\ Cat(s, v) = Cat(o, g)
      BY <3>3, <3>5
    <3> HIDE DEF o, g, s, v
    <3>7. v = g
      BY <3>1, <3>2, <3>5, <3>6, CatSplit
    <3> QED
      BY <3>7 DEF g, v
  <2>5. TidyPackets(n)'
    <3>1. FreshBuffers'
      BY <2>2 DEF FreshBuffers
    <3> QED
      BY <1>1, <2>3, <2>4, <3>1, AllTaken
  <2> QED
    BY <2>1, <2>2, <2>5
<1>4. CASE \E full \in Seq(Seq(Nat)) : PartTaken(n, full)
  <2>1. PICK full \in Seq(Seq(Nat)) : PartTaken(n, full)
    BY <1>4
  <2> DEFINE L == onBus[n + 1].length
             have == _received_length + Len(Taken(k))
             p == packets[n + 1]
             g == Ahead(packets, n + 1)
             s == SubSeq(usb, 1, k)
             v == usb'
  <2>2. /\ have <= L /\ (Whole(k) <=> have = L) /\ (Len(usb[k]) < PACKET => Whole(k))
        /\ Len(usb[k]) >= PACKET => \A i \in 1..Len(Filled(k)) : Len(Filled(k)[i]) = BUFFER
    BY <1>1, <2>1, TidyWhole
  <2>3. /\ n \in Nat /\ n < Len(onBus) /\ p \in Seq(Seq(Nat)) /\ g \in Seq(Seq(Nat))
        /\ Cat(full, usb) = Cat(p, g)
    BY <1>2, <2>1, TidyNext
  <2>4. /\ Taken(k) \in Seq(Nat) /\ Len(Taken(k)) = Total(k)
        /\ Len(usb[k]) < PACKET => Len(full) + k = Len(p)
        /\ Len(usb[k]) >= PACKET =>
             /\ Len(usb[k]) = PACKET /\ _received_length + Total(k) = (Len(full) + k) * PACKET
             /\ _received_length + Total(k) = L =>
                    Len(full) + k + 1 = Len(p) /\ p[Len(full) + k + 1] = <<>>
    BY <1>1, <1>2, <2>1, TidyCount
  <2>5. L \in Nat /\ have \in Nat /\ PACKET \in Nat /\ PACKET > 0
    <3>1. n + 1 \in 1..Len(onBus)
      BY <2>3, LinkCounts
    <3>2. L \in Nat /\ _received_length \in Nat /\ PACKET \in Nat /\ PACKET > 0
      BY <3>1, EventType, LinkConstants DEF LinkType
    <3> HIDE DEF L
    <3> QED
      BY <2>4, <3>2
  <2>6. /\ usb \in Seq(Seq(Nat)) /\ k \in 1..Len(usb) /\ s \in Seq(Seq(Nat)) /\ Len(s) = k
        /\ usb' \in Seq(Seq(Nat)) /\ usb = Cat(s, usb') /\ usb[k] \in Seq(Nat) /\ k \in Nat
    <3>1. usb \in Seq(Seq(Nat))
      BY LinkTypes
    <3>2. k \in 0..Len(usb) /\ k \in 1..Len(usb) /\ k \in Nat /\ usb[k] \in Seq(Nat)
      BY <3>1
    <3> QED
      BY <3>1, <3>2, CutAt, SMTT(30)
  <2> HIDE DEF L, have, p, g, s, v
  <2>15. v \in Seq(Seq(Nat)) /\ usb = Cat(s, v) /\ usb' = v
    BY <2>6 DEF v
  <2>7. PICK u \in Seq(Seq(Nat)) : u = Cat(full, s) /\ Len(u) = Len(full) + k
    <3>1. Cat(full, s) \in Seq(Seq(Nat)) /\ Len(Cat(full, s)) = Len(full) + k
      BY <2>6, CatType
    <3> QED
      BY <3>1
  <2>16. Cat(u, v) = Cat(p, g)
    <3>1. Cat(Cat(full, s), v) = Cat(full, Cat(s, v))
      BY <2>6, <2>15, CatAssoc
    <3> QED
      BY <2>3, <2>7, <2>15, <3>1
  <2>17. PICK m \in Nat : m = Len(full)
    OBVIOUS
  <2>8. failed' = "none"
    <3>1. ~(have > L)
      BY <2>2, <2>5
    <3>2. ~(failed' = "misframed" /\ have > L)
      BY <3>1
    <3> QED
      BY <3>2 DEF Parsed, have, L
  <2>9. Whole(k) => _received_length' = 0 /\ FreshBuffers'
    <3>1. Whole(k) => _received_length' = 0 /\ (pc' = "recv" => Emptied)
      BY <1>1, <2>8 DEF Parsed
    <3> QED
      BY <3>1 DEF FreshBuffers, Emptied
  <2>10. n + 1 \in 0..Len(onBus)
    BY <2>3, LinkCounts
  <2>11. CASE Len(usb[k]) < PACKET
    <3>1. Len(u) = Len(p) /\ Whole(k)
      BY <2>2, <2>4, <2>7, <2>11
    <3>2. v = g
      BY <2>3, <2>15, <2>16, <3>1, CatSplit
    <3>3. TidyPackets(n + 1)'
      BY <1>1, <2>9, <2>10, <2>15, <3>1, <3>2, AllTaken DEF g
    <3> QED
      BY <2>8, <3>1, <3>3
  <2>12. CASE Len(usb[k]) >= PACKET /\ Whole(k)
    <3>1. Len(u) + 1 = Len(p) /\ p[Len(u) + 1] = <<>>
      BY <2>2, <2>4, <2>7, <2>12 DEF have
    <3> DEFINE c == SubSeq(p, 1, Len(u))
               d == SubSeq(p, Len(u) + 1, Len(p))
               o == << <<>> >>
    <3>2. Len(u) \in 0..Len(p) /\ Len(u) \in Nat /\ Len(p) \in Nat
      BY <2>3, <2>7, <3>1
    <3>9. p \in Seq(Seq(Nat))
      BY <2>3
    <3>3. c \in Seq(Seq(Nat)) /\ d \in Seq(Seq(Nat)) /\ Len(c) = Len(u) /\ p = Cat(c, d) /\ Len(d) = Len(p) - Len(u)
      BY <3>2, <3>9, CutAt, SMTT(30)
    <3> HIDE DEF c, d
    <3>4. d = o
      <4>1. Len(d) = 1 /\ 1 \in 1..Len(d)
        BY <3>1, <3>2, <3>3
      <4>6. c \in Seq(Seq(Nat)) /\ d \in Seq(Seq(Nat))
        BY <3>3
      <4>7. \A i \in 1..Len(d) : Cat(c, d)[Len(c) + i] = d[i]
        BY <4>6, CatAfter
      <4>2. Cat(c, d)[Len(c) + 1] = d[1]
        BY <4>1, <4>7
      <4>3. d[1] = <<>>
        BY <3>1, <3>3, <4>2
      <4>4. o \in Seq(Seq(Nat)) /\ Len(o) = 1 /\ o[1] = <<>>
        <5>1. <<>> \in Seq(Nat)
          OBVIOUS
        <5> QED
          BY <5>1
      <4>5. \A i \in 1..Len(d) : d[i] = o[i]
        BY <4>1, <4>3, <4>4
      <4> HIDE DEF o
      <4> QED
        BY <3>3, <4>1, <4>4, <4>5, SeqEqual
    <3> HIDE DEF o
    <3>5. Cat(Cat(c, d), g) = Cat(c, Cat(d, g)) /\ Cat(d, g) \in Seq(Seq(Nat))
      BY <2>3, <3>3, CatAssoc, CatType
    <3>6. Cat(u, v) = Cat(c, Cat(d, g))
      BY <2>16, <3>3, <3>5
    <3>7. v = Cat(d, g)
      <4> DEFINE dg == Cat(d, g)
      <4>1. dg \in Seq(Seq(Nat)) /\ Cat(u, v) = Cat(c, dg)
        BY <3>5, <3>6
      <4> HIDE DEF dg
      <4>2. v = dg
        BY <2>7, <2>15, <3>3, <4>1, CatSplit
      <4> QED
        BY <4>2 DEF dg
    <3>8. LeftPacket(n + 1)'
      BY <1>1, <2>9, <2>12, <2>15, <3>4, <3>7 DEF LeftPacket, g, o
    <3> QED
      BY <2>8, <2>12, <3>8 DEF TidyPackets
  <2>13. CASE Len(usb[k]) >= PACKET /\ ~Whole(k)
    <3>1. /\ _buffers' = Filled(k) /\ _received_length' = have /\ UNCHANGED pc
      BY <2>13 DEF Parsed, have
    <3>2. have < L /\ have = Len(u) * PACKET
      BY <2>2, <2>4, <2>5, <2>7, <2>13 DEF have
    <3>9. k >= 1 /\ k \in Nat /\ Len(s) = k /\ Len(u) = m + k
      BY <2>6, <2>7, <2>17
    <3>10. s \in Seq(Seq(Nat)) /\ u = Cat(full, s)
      BY <2>6, <2>7
    <3>3. u # <<>>
      <4>1. Len(u) > 0
        BY <3>9
      <4> QED
        BY <4>1
    <3>4. ASSUME NEW i \in 1..Len(u) PROVE Len(u[i]) = PACKET
      <4>1. CASE i <= m
        <5>1. i \in 1..Len(full)
          BY <2>17, <4>1
        <5>2. u[i] = full[i]
          BY <3>10, <5>1, CatAt
        <5> QED
          BY <2>1, <5>1, <5>2 DEF PartTaken
      <4>2. CASE i > m
        <5> DEFINE j == i - m
        <5>1. j \in 1..k /\ j \in 1..Len(s) /\ m + j = i
          BY <3>9, <4>2
        <5> HIDE DEF j
        <5>2. u[m + j] = s[j]
          <6>1. Cat(full, s)[Len(full) + j] = s[j]
            BY <3>10, <5>1, CatAfter
          <6> QED
            BY <2>17, <3>10, <6>1
        <5>3. s[j] = usb[j]
          BY <2>6, <2>15, <5>1, CatAt
        <5>4. Len(usb[j]) = PACKET
          <6>2. k \in Nat
            BY <3>9
          <6>1. j = k \/ j \in 1..(k - 1)
            BY <5>1, <6>2
          <6> QED
            BY <1>2, <2>4, <2>13, <6>1 DEF Before
        <5> QED
          BY <5>1, <5>2, <5>3, <5>4
      <4> QED
        BY <4>1, <4>2
    <3>5. Cat(u, usb') = Ahead(packets', n)
      <4>1. Ahead(packets, n) = Cat(p, g)
        BY <2>1, <2>3 DEF PartTaken
      <4> QED
        BY <1>1, <2>15, <2>16, <4>1
    <3>6. \A i \in 1..Len(_buffers') : Len(_buffers'[i]) = BUFFER
      BY <2>2, <2>13, <3>1
    <3>7. PartTaken(n, u)'
      <4>1. /\ Cat(u, usb') = Ahead(packets', n) /\ \A i \in 1..Len(u) : Len(u[i]) = PACKET
            /\ _received_length' = Len(u) * PACKET
        BY <3>1, <3>2, <3>4, <3>5
      <4>2. pc' = "recv" /\ n < Len(onBus') /\ _received_length' < onBus'[n + 1].length
        BY <1>1, <2>3, <3>1, <3>2 DEF L
      <4> QED
        BY <3>3, <3>6, <4>1, <4>2 DEF PartTaken
    <3> QED
      BY <2>8, <2>13, <3>7 DEF TidyPackets
  <2>14. Len(usb[k]) < PACKET \/ Len(usb[k]) >= PACKET
    <3>1. Len(usb[k]) \in Nat
      BY <2>6
    <3> QED
      BY <2>5, <3>1
  <2> QED
    BY <2>11, <2>12, <2>13, <2>14
<1> QED
  BY <1>3, <1>4 DEF TidyPackets

\* What the sensor sends goes behind the packets.
LEMMA TidyPut ==
    ASSUME LinkType, NEW n \in 0..Len(onBus), TidyPackets(n), tidy,
           NEW length \in Length, NEW record \in Seq(Nat), PutOnBus(length, record), UNCHANGED inputVars
    PROVE  TidyPackets(n)'
<1> DEFINE e == Bytes(Len(onBus) + 1, length)
           p == Packets(e, TRUE)
           g == Ahead(packets, n)
<1>1. /\ Len(onBus') = Len(onBus) + 1 /\ \A i \in 1..Len(onBus) : onBus'[i] = onBus[i]
      /\ packets' = Append(packets, p) /\ usb' = Cat(usb, p)
  BY PutGrows
<1>2. p \in Seq(Seq(Nat))
  <2>1. e \in Seq(Nat)
    <3>1. Len(onBus) + 1 \in Nat /\ length \in Nat
      BY LinkCounts, LinkConstants
    <3> QED
      BY <3>1, BytesType
  <2>2. TRUE \in BOOLEAN
    OBVIOUS
  <2> HIDE DEF e
  <2> QED
    BY <2>1, <2>2, PacketsWhole
<1> HIDE DEF p
<1>3. packets \in Seq(Seq(Seq(Nat))) /\ n \in 0..Len(packets) /\ usb \in Seq(Seq(Nat))
  BY PacketsType, LinkTypes
<1>4. g \in Seq(Seq(Nat)) /\ Ahead(packets', n) = Cat(g, p)
  BY <1>1, <1>2, <1>3, AheadType, AheadAppend
<1>5. UNCHANGED <<pc, _buffers, _received_length>>
  BY DEF inputVars
<1> HIDE DEF g
<1>6. CASE LeftPacket(n)
  <2> DEFINE o == << <<>> >>
  <2>1. o \in Seq(Seq(Nat))
    <3>1. <<>> \in Seq(Nat)
      OBVIOUS
    <3> QED
      BY <3>1
  <2>2. usb = Cat(o, g)
    BY <1>6 DEF LeftPacket, g
  <2> HIDE DEF o
  <2>3. Cat(Cat(o, g), p) = Cat(o, Cat(g, p))
    BY <1>2, <1>4, <2>1, CatAssoc
  <2>4. LeftPacket(n)'
    BY <1>1, <1>4, <1>5, <1>6, <2>2, <2>3 DEF LeftPacket, FreshBuffers, o
  <2> QED
    BY <2>4 DEF TidyPackets
<1>7. CASE \E full \in Seq(Seq(Nat)) : PartTaken(n, full)
  <2>1. PICK full \in Seq(Seq(Nat)) : PartTaken(n, full)
    BY <1>7
  <2>2. Cat(full, Cat(usb, p)) = Cat(Cat(full, usb), p)
    BY <1>2, <1>3, CatAssoc
  <2>3. Cat(full, usb') = Ahead(packets', n)
    BY <1>1, <1>4, <2>1, <2>2 DEF PartTaken, g
  <2>4. n < Len(onBus) => n < Len(onBus') /\ onBus'[n + 1].length = onBus[n + 1].length
    <3>1. n \in Nat /\ Len(onBus) \in Nat
      BY LinkCounts
    <3>2. n < Len(onBus) => n + 1 \in 1..Len(onBus)
      BY <3>1
    <3>3. n < Len(onBus) => n < Len(onBus')
      BY <1>1, <3>1
    <3> QED
      BY <1>1, <3>2, <3>3
  <2>5. PartTaken(n, full)'
    BY <1>5, <2>1, <2>3, <2>4 DEF PartTaken, FreshBuffers
  <2> QED
    BY <2>5 DEF TidyPackets
<1> QED
  BY <1>6, <1>7 DEF TidyPackets

\* The event that is passed to TLS has been taken whole.
LEMMA TidyHandle ==
    ASSUME NEW n \in 0..Len(onBus), TidyPackets(n), handle_tls_data
    PROVE  TidyPackets(n)'
<1>1. pc = "handle_tls_data" /\ UNCHANGED <<usb, onBus, packets, _received_length>>
  BY DEF handle_tls_data, sensorVars, packets, wire
<1>2. FreshBuffers'
  <2>1. pc' = "recv" => Emptied
    BY <1>1 DEF handle_tls_data
  <2> QED
    BY <2>1 DEF Emptied, FreshBuffers
<1>3. CASE LeftPacket(n)
  BY <1>1, <1>2, <1>3 DEF TidyPackets, LeftPacket
<1>4. CASE \E full \in Seq(Seq(Nat)) : PartTaken(n, full)
  <2>1. PICK full \in Seq(Seq(Nat)) : PartTaken(n, full)
    BY <1>4
  <2>2. full = <<>>
    BY <1>1, <2>1 DEF PartTaken
  <2>3. PartTaken(n, full)'
    BY <1>1, <1>2, <2>1, <2>2 DEF PartTaken
  <2> QED
    BY <2>3 DEF TidyPackets
<1> QED
  BY <1>3, <1>4 DEF TidyPackets

LEMMA TidyStays ==
    ASSUME NEW n, TidyPackets(n), UNCHANGED <<usb, onBus, inputVars>>
    PROVE  TidyPackets(n)'
<1>1. UNCHANGED <<usb, onBus, packets, pc, _buffers, _received_length>>
  BY DEF inputVars, packets, wire
<1>2. LeftPacket(n) => LeftPacket(n)'
  BY <1>1 DEF LeftPacket, FreshBuffers
<1>3. ASSUME NEW full \in Seq(Seq(Nat)), PartTaken(n, full) PROVE PartTaken(n, full)'
  BY <1>1, <1>3 DEF PartTaken, FreshBuffers
<1> QED
  BY <1>2, <1>3 DEF TidyPackets

-------------------------------------------------------------------------------
\* A tidy sensor: its records.

\* The records of a tidy sensor, w, when TLSEventReader has the bytes b: each has
\* bytes of one event, and a header's length if it starts the event.
Starts(b, w, i) == IF i = 1 THEN b = <<>> ELSE w[i - 1][1] # w[i][1]
TidyAt(b, w, i) == /\ w[i] # <<>>
                   /\ \A j \in 1..Len(w[i]) : w[i][j] = w[i][1]
                   /\ Starts(b, w, i) => Len(w[i]) >= HEADER
Tidied(b, w) == \A i \in 1..Len(w) : TidyAt(b, w, i)

\* The last record has bytes of event c, or TLSEventReader has them if none waits.
Continued(b, w, c) == IF w = <<>> THEN b # <<>> ELSE w[Len(w)][1] = c

TidyRecords(n) == Tidied(tls_buffers, Waiting(n))

\* What is not sealed yet starts with an event, or continues the last record.
Unsealed(n, c, x) ==
    /\ plain = Cat(Bytes(c, x), Ahead(sent.secure, c))
    /\ x = Len(sent.secure[c]) \/ Continued(tls_buffers, Waiting(n), c)
TidyPlain(n) ==
    plain # <<>> => /\ plain[1] \in 1..Len(sent.secure)
                    /\ \E x \in 1..Len(sent.secure[plain[1]]) : Unsealed(n, plain[1], x)

\* One member before the rest.
LEMMA ConsAt ==
    ASSUME NEW X, NEW d \in X, NEW rest \in Seq(X)
    PROVE  /\ Cat(<<d>>, rest) \in Seq(X) /\ Len(Cat(<<d>>, rest)) = 1 + Len(rest) /\ Cat(<<d>>, rest)[1] = d
           /\ \A i \in 1..Len(rest) : Cat(<<d>>, rest)[i + 1] = rest[i]
BY DEF Cat

LEMMA ConsHead ==
    ASSUME NEW X, NEW d \in X, NEW rest \in Seq(X)
    PROVE  Len(Cat(<<d>>, rest)) = 1 + Len(rest) /\ Cat(<<d>>, rest)[1] = d
BY ConsAt

LEMMA ConsRest ==
    ASSUME NEW X, NEW d \in X, NEW rest \in Seq(X)
    PROVE  \A i \in 1..Len(rest) : Cat(<<d>>, rest)[i + 1] = rest[i]
BY ConsAt

LEMMA TidiedNext ==
    ASSUME NEW b, NEW d \in Seq(Nat), NEW rest \in Seq(Seq(Nat)), Tidied(b, Cat(<<d>>, rest))
    PROVE  /\ d # <<>> /\ \A j \in 1..Len(d) : d[j] = d[1]
           /\ b = <<>> => Len(d) >= HEADER
           /\ \A a : a # <<>> \/ rest = <<>> \/ rest[1][1] # d[1] => Tidied(a, rest)
<1> DEFINE w == Cat(<<d>>, rest)
<1>1. Len(rest) \in Nat
  OBVIOUS
<1>2. Len(w) = 1 + Len(rest) /\ w[1] = d
  BY ConsHead
<1>3. ASSUME NEW i \in 1..Len(rest) PROVE w[i + 1] = rest[i] /\ i + 1 \in 1..Len(w)
  <2>1. w[i + 1] = rest[i]
    BY ConsRest
  <2> HIDE DEF w
  <2> QED
    BY <1>1, <1>2, <2>1
<1>4. Tidied(b, w)
  OBVIOUS
<1> HIDE DEF w
<1>5. 1 \in 1..Len(w)
  BY <1>1, <1>2
<1>6. d # <<>> /\ (\A j \in 1..Len(d) : d[j] = d[1]) /\ (b = <<>> => Len(d) >= HEADER)
  <2>1. TidyAt(b, w, 1)
    BY <1>4, <1>5 DEF Tidied
  <2>2. b = <<>> => Starts(b, w, 1)
    BY DEF Starts
  <2> QED
    BY <1>2, <2>1, <2>2 DEF TidyAt
<1>7. ASSUME NEW a, a # <<>> \/ rest = <<>> \/ rest[1][1] # d[1] PROVE Tidied(a, rest)
  <2> SUFFICES ASSUME NEW i \in 1..Len(rest) PROVE TidyAt(a, rest, i)
    BY DEF Tidied
  <2>1. w[i + 1] = rest[i] /\ i + 1 \in 1..Len(w) /\ i + 1 # 1 /\ (i + 1) - 1 = i /\ i \in Nat
    BY <1>1, <1>3
  <2>4. TidyAt(b, w, i + 1)
    BY <1>4, <2>1 DEF Tidied
  <2>2. /\ rest[i] # <<>> /\ \A j \in 1..Len(rest[i]) : rest[i][j] = rest[i][1]
        /\ w[i][1] # rest[i][1] => Len(rest[i]) >= HEADER
    BY <2>1, <2>4 DEF TidyAt, Starts
  <2>3. Starts(a, rest, i) => w[i][1] # rest[i][1]
    <3>1. CASE i = 1
      <4>1. rest # <<>>
        BY <3>1
      <4> QED
        BY <1>2, <1>7, <3>1, <4>1 DEF Starts
    <3>2. CASE i # 1
      <4>1. i - 1 \in 1..Len(rest) /\ (i - 1) + 1 = i
        BY <1>1, <3>2
      <4>2. w[i] = rest[i - 1]
        BY <1>3, <4>1
      <4> QED
        BY <3>2, <4>2 DEF Starts
    <3> QED
      BY <3>1, <3>2
  <2> QED
    BY <2>2, <2>3 DEF TidyAt
<1> QED
  BY <1>6, <1>7

LEMMA TidiedLeft ==
    ASSUME NEW b, NEW d \in Seq(Nat), NEW rest \in Seq(Seq(Nat)), Tidied(b, Cat(<<d>>, rest)),
           NEW a, a # <<>>, NEW left \in Seq(Nat), left # <<>>, \A j \in 1..Len(left) : left[j] = d[1]
    PROVE  Tidied(a, Cat(<<left>>, rest))
<1> DEFINE w == Cat(<<d>>, rest)
           v == Cat(<<left>>, rest)
<1>1. Len(rest) \in Nat
  OBVIOUS
<1>2. Len(w) = 1 + Len(rest) /\ w[1] = d /\ Len(v) = 1 + Len(rest) /\ v[1] = left
  <2>1. Len(w) = 1 + Len(rest) /\ w[1] = d
    BY ConsHead
  <2>2. Len(v) = 1 + Len(rest) /\ v[1] = left
    BY ConsHead
  <2> QED
    BY <2>1, <2>2
<1>3. \A i \in 1..Len(rest) : w[i + 1] = rest[i] /\ v[i + 1] = rest[i]
  <2>1. \A i \in 1..Len(rest) : w[i + 1] = rest[i]
    BY ConsRest
  <2>2. \A i \in 1..Len(rest) : v[i + 1] = rest[i]
    BY ConsRest
  <2> HIDE DEF w, v
  <2> QED
    BY <2>1, <2>2
<1>4. Tidied(b, w)
  OBVIOUS
<1> HIDE DEF w, v
<1>5. left[1] = d[1]
  <2>1. 1 \in 1..Len(left)
    OBVIOUS
  <2> QED
    BY <2>1
<1>6. ASSUME NEW i \in 1..Len(v) PROVE TidyAt(a, v, i)
  <2>1. CASE i = 1
    BY <1>2, <1>5, <2>1 DEF Starts, TidyAt
  <2>2. CASE i # 1
    <3> DEFINE h == i - 1
    <3>1. h \in 1..Len(rest) /\ h + 1 = i /\ i \in 1..Len(w) /\ h \in Nat
      BY <1>1, <1>2, <2>2, SMTT(30)
    <3>2. v[i] = rest[h] /\ w[i] = rest[h]
      BY <1>3, <3>1
    <3>3. v[h][1] = w[h][1]
      <4>1. CASE h = 1
        BY <1>2, <1>5, <4>1
      <4>2. CASE h # 1
        <5>1. h - 1 \in 1..Len(rest) /\ (h - 1) + 1 = h
          BY <1>1, <3>1, <4>2
        <5> HIDE DEF h
        <5>2. v[h] = w[h]
          BY <1>3, <5>1
        <5> QED
          BY <5>2
      <4> QED
        BY <4>1, <4>2
    <3>4. Starts(a, v, i) => Starts(b, w, i)
      BY <2>2, <3>2, <3>3 DEF Starts
    <3>5. TidyAt(b, w, i)
      BY <1>4, <3>1 DEF Tidied
    <3> HIDE DEF h
    <3> QED
      BY <3>2, <3>4, <3>5 DEF TidyAt
  <2> QED
    BY <2>1, <2>2
<1>7. Tidied(a, v)
  BY <1>6 DEF Tidied
<1> QED
  BY <1>7 DEF v

LEMMA TidiedAppend ==
    ASSUME NEW b, NEW w \in Seq(Seq(Nat)), Tidied(b, w), NEW r \in Seq(Nat), r # <<>>,
           \A j \in 1..Len(r) : r[j] = r[1], ~Continued(b, w, r[1]) => Len(r) >= HEADER
    PROVE  Tidied(b, Append(w, r)) /\ Continued(b, Append(w, r), r[1])
<1> DEFINE v == Append(w, r)
           m == Len(w)
<1>1. /\ v \in Seq(Seq(Nat)) /\ m \in Nat /\ Len(v) = m + 1 /\ v[m + 1] = r
      /\ \A i \in 1..m : v[i] = w[i]
  BY AppendProperties
<1>2. m = 0 <=> w = <<>>
  OBVIOUS
<1> HIDE DEF v, m
<1>3. ASSUME NEW i \in 1..Len(v) PROVE TidyAt(b, v, i)
  <2>1. CASE i = m + 1
    <3>1. v[i] = r
      BY <1>1, <2>1
    <3>2. Starts(b, v, i) => ~Continued(b, w, r[1])
      <4>1. CASE m = 0
        <5>1. i = 1
          BY <2>1, <4>1
        <5> QED
          BY <1>2, <4>1, <5>1 DEF Starts, Continued
      <4>2. CASE m # 0
        <5>1. i # 1 /\ i - 1 = m /\ m \in 1..m
          BY <1>1, <2>1, <4>2
        <5>2. v[i - 1] = w[m]
          BY <1>1, <5>1
        <5> QED
          BY <1>2, <3>1, <4>2, <5>1, <5>2 DEF Starts, Continued, m
      <4> QED
        BY <4>1, <4>2
    <3> QED
      BY <3>1, <3>2 DEF TidyAt
  <2>2. CASE i # m + 1
    <3>1. i \in 1..m /\ (i # 1 => i - 1 \in 1..m)
      BY <1>1, <2>2
    <3>2. v[i] = w[i] /\ (i # 1 => v[i - 1] = w[i - 1])
      BY <1>1, <3>1
    <3>3. Starts(b, v, i) => Starts(b, w, i)
      BY <3>2 DEF Starts
    <3>4. i \in 1..Len(w)
      BY <3>1 DEF m
    <3>5. TidyAt(b, w, i)
      BY <3>4 DEF Tidied
    <3> QED
      BY <3>2, <3>3, <3>5 DEF TidyAt
  <2> QED
    BY <2>1, <2>2
<1>4. v # <<>> /\ v[Len(v)] = r
  <2>1. Len(v) > 0
    BY <1>1
  <2> QED
    BY <1>1, <2>1
<1> QED
  BY <1>3, <1>4 DEF Tidied, Continued, v

\* The events inside TLS that come after the c-th.
LEMMA AheadLater ==
    ASSUME LinkType, NEW c \in 0..Len(sent.secure)
    PROVE  /\ Ahead(sent.secure, c) \in Seq(Nat)
           /\ \A i \in 1..Len(Ahead(sent.secure, c)) : Ahead(sent.secure, c)[i] > c
<1> DEFINE s == sent.secure
           t == SubSeq(s, c + 1, Len(s))
           X == {j \in Nat : j > c}
<1>1. s \in Seq(Seq(Nat)) /\ Len(s) \in Nat /\ c \in Nat /\ c <= Len(s)
  <2>1. s \in Seq(Seq(Nat)) /\ Len(s) \in Nat
    BY LinkTypes
  <2> QED
    BY <2>1
<1>2. t \in Seq(Seq(Nat)) /\ Len(t) = Len(s) - c
  BY <1>1, CutAt
<1>3. ASSUME NEW i \in 1..Len(t) PROVE t[i] \in Seq(X)
  <2>1. c + i \in 1..Len(s) /\ c + i \in Nat /\ c + i > c
    BY <1>1, <1>2
  <2>2. PICK l \in InnerLength : s[c + i] = Bytes(c + i, l)
    BY <2>1 DEF LinkType
  <2>3. l \in Nat
    BY LinkConstants DEF Length
  <2>4. t[i] = s[c + i]
    <3> DEFINE u == SubSeq(s, 1, c)
    <3>1. u \in Seq(Seq(Nat)) /\ Len(u) = c /\ s = Cat(u, t)
      BY <1>1, CutAt
    <3> HIDE DEF u, t
    <3>3. t \in Seq(Seq(Nat))
      BY <1>2
    <3>2. Cat(u, t)[Len(u) + i] = t[i]
      BY <3>1, <3>3, CatAfter
    <3> QED
      BY <3>1, <3>2
  <2>5. Bytes(c + i, l) \in Seq(X)
    <3>1. c + i \in X
      BY <2>1
    <3> QED
      BY <2>3, <3>1 DEF Bytes
  <2> QED
    BY <2>2, <2>4, <2>5
<1>4. t \in Seq(Seq(X))
  <2> HIDE DEF t, X
  <2>1. t = [i \in 1..Len(t) |-> t[i]] /\ Len(t) \in Nat
    BY <1>2
  <2> QED
    BY <1>3, <2>1, FunctionSeq
<1>5. Ahead(s, c) = Flat(t)
  BY DEF Ahead
<1> HIDE DEF t
<1>6. Flat(t) \in Seq(X) /\ Flat(t) \in Seq(Nat)
  <2>1. Flat(t) \in Seq(Nat)
    BY <1>2, FlatType
  <2>2. Flat(t) \in Seq(X)
    <3> HIDE DEF X
    <3> QED
      BY <1>4, FlatType
  <2> QED
    BY <2>1, <2>2
<1>7. \A i \in 1..Len(Flat(t)) : Flat(t)[i] > c
  <2>1. \A i \in 1..Len(Flat(t)) : Flat(t)[i] \in X
    <3> HIDE DEF X
    <3> QED
      BY <1>6, ElementOfSeq
  <2> QED
    BY <2>1
<1> QED
  BY <1>5, <1>6, <1>7

\* The record at the front has bytes of the first event that has not been received,
\* a header's length at least if it starts it, and no more than the rest of it.
LEMMA TidyFront ==
    ASSUME LinkType, NEW n \in 0..Len(onBus), InFrame(n), TidyRecords(n), failed = "none", process
    PROVE  LET bytes == Cat(tls_buffers, SubSeq(bio[1], 1, Given))
               k == Len(received.secure)
           IN
           /\ tls_buffers # <<>> \/ Given >= HEADER
           /\ k \in Nat /\ k < Len(sent.secure) /\ Len(bytes) <= Len(sent.secure[k + 1]) /\ bytes # <<>>
           /\ bio[1] \in Seq(Nat) /\ bio[1] # <<>> /\ \A j \in 1..Len(bio[1]) : bio[1][j] = k + 1
           /\ \E rest \in Seq(Seq(Nat)) :
                /\ Waiting(n) = Cat(<<bio[1]>>, rest)
                /\ Waiting(n)' = IF Given = Len(bio[1]) THEN rest
                                 ELSE Cat(<<SubSeq(bio[1], Given + 1, Len(bio[1]))>>, rest)
<1> DEFINE d == bio[1]
           data == SubSeq(d, 1, Given)
           bytes == Cat(tls_buffers, data)
           k == Len(received.secure)
           s == sent.secure
           event == s[k + 1]
           h == Ahead(s, k + 1)
           f == Flat(Waiting(n)')
           g == Cat(f, plain)
           t == Len(tls_buffers)
           left == SubSeq(d, Given + 1, Len(d))
<1>1. /\ bio # <<>> /\ UNCHANGED <<sensorVars, inputVars>> /\ Buffered(n)
      /\ bio' = IF Given = Len(bio[1]) THEN Tail(bio) ELSE [bio EXCEPT ![1] = SubSeq(@, Given + 1, Len(@))]
  BY DEF process, Given, InFrame
<1>2. /\ d \in Seq(Nat) /\ Given \in 0..Len(d) /\ (Given = BUFFER \/ Given = Len(d))
      /\ data \in Seq(Nat) /\ Len(data) = Given /\ d = Cat(data, SubSeq(d, Given + 1, Len(d)))
      /\ SubSeq(d, Given + 1, Len(d)) \in Seq(Nat) /\ Waiting(n)' \in Seq(Seq(Nat))
  BY <1>1, ReadParts
<1>3. PICK rest \in Seq(Seq(Nat)) :
        /\ Waiting(n) = Cat(<<d>>, rest)
        /\ Waiting(n)' = IF Given = Len(d) THEN rest ELSE Cat(<<SubSeq(d, Given + 1, Len(d))>>, rest)
  BY <1>1, ReadParts
<1>4. d # <<>> /\ (\A j \in 1..Len(d) : d[j] = d[1]) /\ (tls_buffers = <<>> => Len(d) >= HEADER)
  <2> HIDE DEF d
  <2>1. Tidied(tls_buffers, Cat(<<d>>, rest)) /\ d \in Seq(Nat)
    BY <1>2, <1>3 DEF TidyRecords
  <2> QED
    BY <2>1, TidiedNext
<1>5. HEADER \in Nat /\ HEADER > 0 /\ BUFFER \in Nat /\ HEADER < BUFFER
  BY LinkConstants
<1>6. Given > 0 /\ Given \in Nat /\ (tls_buffers # <<>> \/ Given >= HEADER)
  <2>1. Len(d) \in Nat /\ Len(d) > 0
    <3> HIDE DEF d
    <3> QED
      BY <1>2, <1>4
  <2> HIDE DEF d
  <2> QED
    BY <1>2, <1>4, <1>5, <2>1
<1>7. /\ bytes \in Seq(Nat) /\ Cat(bytes, g) = Ahead(s, k) /\ bytes # <<>>
      /\ k \in Nat /\ k < Len(s) /\ event \in Seq(Nat) /\ Len(event) >= HEADER
      /\ Ahead(s, k) = Cat(event, h) /\ event = Bytes(k + 1, Len(event))
  BY <1>6, ReadEvent
<1>8. tls_buffers \in Seq(Nat) /\ t \in Nat /\ plain \in Seq(Nat) /\ f \in Seq(Nat) /\ Len(s) \in Nat
  <2>1. tls_buffers \in Seq(Nat) /\ plain \in Seq(Nat) /\ Len(s) \in Nat
    BY LinkTypes
  <2>2. f \in Seq(Nat)
    BY <1>2, FlatType
  <2> QED
    BY <2>1, <2>2
<1>18. k \in Nat /\ k < Len(s) /\ Len(s) \in Nat
  BY <1>7, <1>8
<1> HIDE DEF k
<1>9. k + 1 \in 0..Len(s)
  BY <1>18
<1> USE DEF k
<1>10. h \in Seq(Nat) /\ \A i \in 1..Len(h) : h[i] > k + 1
  BY <1>9, AheadLater
<1>11. t < Len(event) /\ Len(event) \in Nat
  <2>1. tls_buffers # <<>> => t < Len(event)
    BY DEF InFrame, Sealed
  <2>2. tls_buffers = <<>> => t = 0
    OBVIOUS
  <2>4. event \in Seq(Nat) /\ Len(event) >= HEADER
    BY <1>7
  <2> HIDE DEF event
  <2>3. Len(event) \in Nat
    BY <2>4
  <2> QED
    BY <1>5, <2>1, <2>2, <2>3, <2>4
<1>12. \A i \in 1..Len(event) : event[i] = k + 1
  <2>1. k + 1 \in Nat
    BY <1>7
  <2>2. \A i \in 1..Len(event) : Bytes(k + 1, Len(event))[i] = k + 1
    BY <1>11, <2>1, BytesType
  <2> QED
    BY <1>7, <2>2
<1> HIDE DEF d, data, bytes, event, h, f, g, left
<1>13. Len(bytes) = t + Given /\ \A i \in 1..Given : bytes[t + i] = d[1]
  <2>1. Len(bytes) = t + Given
    BY <1>2, <1>8, CatType DEF bytes
  <2>2. ASSUME NEW i \in 1..Given PROVE bytes[t + i] = d[1]
    <3>1. i \in 1..Len(data)
      BY <1>2
    <3>2. bytes[t + i] = data[i]
      BY <1>2, <1>8, <3>1, CatAfter DEF bytes
    <3>3. data[i] = d[i]
      <4>1. data \in Seq(Nat) /\ left \in Seq(Nat) /\ d = Cat(data, left)
        BY <1>2 DEF left
      <4>2. Cat(data, left)[i] = data[i]
        BY <3>1, <4>1, CatAt
      <4> QED
        BY <4>1, <4>2
    <3>4. i \in 1..Len(d)
      BY <1>2
    <3> QED
      BY <1>4, <3>2, <3>3, <3>4
  <2> QED
    BY <2>1, <2>2
<1>14. g \in Seq(Nat)
  BY <1>8, CatType DEF g
<1>15. d[1] = k + 1
  <2>1. 1 \in 1..Given /\ t + 1 \in 1..Len(bytes) /\ t + 1 \in 1..Len(event)
    BY <1>6, <1>8, <1>11, <1>13
  <2>2. Cat(bytes, g)[t + 1] = d[1]
    <3>1. Cat(bytes, g)[t + 1] = bytes[t + 1]
      BY <1>7, <1>14, <2>1, CatAt
    <3> QED
      BY <1>13, <2>1, <3>1
  <2>3. Cat(event, h)[t + 1] = k + 1
    <3>1. Cat(event, h)[t + 1] = event[t + 1]
      BY <1>7, <1>10, <2>1, CatAt
    <3> QED
      BY <1>12, <2>1, <3>1
  <2> QED
    BY <1>7, <2>2, <2>3
<1>16. Len(bytes) <= Len(event)
  <2> DEFINE e == Len(event)
  <2>1. e \in Nat /\ Len(bytes) \in Nat /\ t < e
    BY <1>11, <1>7
  <2> SUFFICES ASSUME e < Len(bytes) PROVE FALSE
    BY <2>1
  <2> HIDE DEF e
  <2>8. event \in Seq(Nat) /\ h \in Seq(Nat)
    BY <1>7, <1>10
  <2>2. e + 1 - t \in 1..Given /\ t + (e + 1 - t) = e + 1 /\ e + 1 \in 1..Len(bytes)
    BY <1>6, <1>8, <1>13, <2>1
  <2>3. bytes[e + 1] = k + 1
    BY <1>13, <1>15, <2>2
  <2>4. Cat(bytes, g)[e + 1] = k + 1
    <3>1. Cat(bytes, g)[e + 1] = bytes[e + 1]
      BY <1>7, <1>14, <2>2, CatAt
    <3> QED
      BY <2>3, <3>1
  <2>5. 1 \in 1..Len(h)
    <3>1. Len(Cat(bytes, g)) = Len(bytes) + Len(g) /\ Len(g) \in Nat
      BY <1>7, <1>14, CatType
    <3>2. Len(Cat(event, h)) = e + Len(h) /\ Len(h) \in Nat
      BY <2>8, CatType DEF e
    <3>3. e + Len(h) = Len(bytes) + Len(g)
      BY <1>7, <3>1, <3>2
    <3> QED
      BY <2>1, <3>1, <3>2, <3>3
  <2>6. Cat(event, h)[e + 1] = h[1]
    <3>1. Cat(event, h)[Len(event) + 1] = h[1]
      BY <2>5, <2>8, CatAfter
    <3> QED
      BY <3>1 DEF e
  <2>7. h[1] > k + 1
    BY <1>10, <2>5
  <2> QED
    BY <1>7, <2>4, <2>6, <2>7
<1>17. \A j \in 1..Len(d) : d[j] = k + 1
  BY <1>4, <1>15
<1> QED
  BY <1>2, <1>3, <1>4, <1>6, <1>7, <1>16, <1>17 DEF d, data, bytes, event

LEMMA FlatHead ==
    ASSUME NEW X, NEW s \in Seq(Seq(X)), s # <<>>, s[1] # <<>>
    PROVE  Flat(s) # <<>> /\ Flat(s)[1] = s[1][1]
<1>1. 0 \in Nat /\ 0 < Len(s) /\ 0 + 1 = 1 /\ 1 \in 0..Len(s)
  OBVIOUS
<1>2. s[1] \in Seq(X) /\ Ahead(s, 0) = Cat(s[1], Ahead(s, 1))
  BY <1>1, AheadNext
<1>3. Ahead(s, 1) \in Seq(X) /\ Ahead(s, 0) = Flat(s)
  BY <1>1, AheadType, AheadAll
<1> QED
  BY <1>2, <1>3, HeadOfCat

LEMMA ContinuedNext ==
    ASSUME NEW b, NEW d \in Seq(Nat), NEW rest \in Seq(Seq(Nat)), NEW c, Continued(b, Cat(<<d>>, rest), c)
    PROVE  /\ rest = <<>> => d[1] = c
           /\ \A a : (rest = <<>> => a # <<>>) => Continued(a, rest, c)
           /\ \A a : \A left \in Seq(Nat) : left[1] = d[1] => Continued(a, Cat(<<left>>, rest), c)
<1> DEFINE m == Len(rest)
           w == Cat(<<d>>, rest)
<1>1. m \in Nat /\ (m = 0 <=> rest = <<>>)
  OBVIOUS
<1>2. Len(w) = 1 + m /\ w[1] = d /\ (\A i \in 1..m : w[i + 1] = rest[i]) 
  <2>1. Len(w) = 1 + m /\ w[1] = d
    BY ConsHead
  <2>2. \A i \in 1..Len(rest) : w[i + 1] = rest[i]
    BY ConsRest
  <2> HIDE DEF w
  <2> QED
    BY <2>1, <2>2
<1> HIDE DEF w, m
<1>3. w[Len(w)][1] = c
  <2>1. w # <<>>
    BY <1>1, <1>2
  <2> QED
    BY <2>1 DEF Continued, w
<1>4. rest = <<>> => d[1] = c
  BY <1>1, <1>2, <1>3
<1>5. rest # <<>> => rest[m][1] = c
  <2>1. rest # <<>> => m \in 1..m /\ m + 1 = Len(w)
    BY <1>1, <1>2
  <2> QED
    BY <1>2, <1>3, <2>1
<1>6. ASSUME NEW a, rest = <<>> => a # <<>> PROVE Continued(a, rest, c)
  BY <1>5, <1>6 DEF Continued, m
<1>7. ASSUME NEW a, NEW left \in Seq(Nat), left[1] = d[1] PROVE Continued(a, Cat(<<left>>, rest), c)
  <2> DEFINE v == Cat(<<left>>, rest)
  <2>1. Len(v) = 1 + m /\ v[1] = left /\ (\A i \in 1..m : v[i + 1] = rest[i]) 
    <3>1. Len(v) = 1 + Len(rest) /\ v[1] = left
      BY ConsHead
    <3>2. \A i \in 1..Len(rest) : v[i + 1] = rest[i]
      BY ConsRest
    <3> HIDE DEF v
    <3> QED
      BY <3>1, <3>2 DEF m
  <2> HIDE DEF v
  <2>2. v # <<>>
    BY <1>1, <2>1
  <2>3. v[Len(v)][1] = c
    <3>1. CASE rest = <<>>
      BY <1>1, <1>4, <1>7, <2>1, <3>1
    <3>2. CASE rest # <<>>
      <4>1. m \in 1..m /\ m + 1 = Len(v)
        BY <1>1, <2>1, <3>2
      <4> QED
        BY <1>5, <2>1, <3>2, <4>1
    <3> QED
      BY <3>1, <3>2
  <2> QED
    BY <2>2, <2>3 DEF Continued, v
<1> QED
  BY <1>4, <1>6, <1>7

\* TLSEventReader takes the bytes; it neither aborts nor loses the framing.
LEMMA TidyRead ==
    ASSUME LinkType, NEW n \in 0..Len(onBus), InFrame(n), TidyRecords(n), TidyPlain(n), failed = "none", process
    PROVE  failed' = "none" /\ TidyRecords(n)' /\ TidyPlain(n)'
<1> DEFINE d == bio[1]
           data == SubSeq(d, 1, Given)
           left == SubSeq(d, Given + 1, Len(d))
           bytes == Cat(tls_buffers, data)
           k == Len(received.secure)
           s == sent.secure
           event == s[k + 1]
           f == Flat(Waiting(n)')
           w == Waiting(n)
           v == Waiting(n)'
<1>1. /\ tls_buffers # <<>> \/ Given >= HEADER
      /\ k \in Nat /\ k < Len(s) /\ Len(bytes) <= Len(event) /\ bytes # <<>>
      /\ d \in Seq(Nat) /\ d # <<>> /\ \A j \in 1..Len(d) : d[j] = k + 1
  BY TidyFront
<1>2. PICK rest \in Seq(Seq(Nat)) :
        /\ w = Cat(<<d>>, rest)
        /\ v = IF Given = Len(d) THEN rest ELSE Cat(<<left>>, rest)
  BY TidyFront
<1>3. UNCHANGED <<plain, sent>> /\ plain \in Seq(Nat) /\ s \in Seq(Seq(Nat)) /\ Len(s) \in Nat
  BY LinkTypes, ProcessBio DEF sensorVars
<1>4. \/ /\ UNCHANGED failed /\ tls_buffers' = bytes /\ bytes \in Seq(Nat)
      \/ /\ UNCHANGED failed /\ tls_buffers' = <<>>
         /\ Cat(f, plain) = Ahead(s, k + 1)
  <2>1. ~(tls_buffers = <<>> /\ Given < HEADER)
    <3>1. Given \in Nat /\ HEADER \in Nat
      <4>1. Given \in 0..Len(d)
        <5>1. /\ bio # <<>> /\ UNCHANGED <<sensorVars, inputVars>> /\ Buffered(n)
              /\ bio' = IF Given = Len(bio[1]) THEN Tail(bio) ELSE [bio EXCEPT ![1] = SubSeq(@, Given + 1, Len(@))]
          BY DEF process, Given, InFrame
        <5> QED
          BY <5>1, ReadParts
      <4> QED
        BY <4>1, LinkConstants
    <3> HIDE DEF bytes, event, s, k
    <3> QED
      BY <1>1, <3>1
  <2>2. Len(bytes) \in Nat /\ Len(event) \in Nat /\ ~(Len(bytes) > Len(event))
    <3>1. bytes \in Seq(Nat) /\ event \in Seq(Nat)
      BY <1>1, ReadEvent
    <3> HIDE DEF bytes, event
    <3> QED
      BY <1>1, <3>1
  <2> QED
    BY <2>1, <2>2, ProcessOutcome, Zenon
<1>5. Given \in Nat /\ Given <= Len(d) /\ Len(d) \in Nat /\ left \in Seq(Nat) /\ data \in Seq(Nat) /\ Len(data) = Given
      /\ d = Cat(data, left) /\ v \in Seq(Seq(Nat))
  <2>1. /\ bio # <<>> /\ UNCHANGED <<sensorVars, inputVars>> /\ Buffered(n)
        /\ bio' = IF Given = Len(bio[1]) THEN Tail(bio) ELSE [bio EXCEPT ![1] = SubSeq(@, Given + 1, Len(@))]
    BY DEF process, Given, InFrame
  <2>2. Given \in 0..Len(d) /\ left \in Seq(Nat) /\ data \in Seq(Nat) /\ Len(data) = Given
        /\ d = Cat(data, left) /\ v \in Seq(Seq(Nat)) /\ d \in Seq(Nat)
    BY <2>1, ReadParts
  <2> HIDE DEF d, left, data, v
  <2> QED
    BY <2>2
<1> HIDE DEF d, data, left, bytes, event, f, w, v
<1>6. /\ Tidied(tls_buffers, Cat(<<d>>, rest)) /\ d \in Seq(Nat) /\ d # <<>> /\ d[1] = k + 1
      /\ \A j \in 1..Len(d) : d[j] = d[1]
  <2>1. Tidied(tls_buffers, Cat(<<d>>, rest))
    BY <1>2 DEF TidyRecords, w
  <2>2. 1 \in 1..Len(d)
    BY <1>1
  <2> QED
    BY <1>1, <2>1, <2>2
<1>7. Given # Len(d) => left # <<>> /\ left[1] = d[1] /\ \A j \in 1..Len(left) : left[j] = d[1]
  <2> SUFFICES ASSUME Given # Len(d)
               PROVE  left # <<>> /\ left[1] = d[1] /\ \A j \in 1..Len(left) : left[j] = d[1]
    OBVIOUS
  <2>1. Len(d) = Given + Len(left) /\ Len(left) \in Nat
    <3>1. data \in Seq(Nat) /\ left \in Seq(Nat)
      BY <1>5
    <3>2. Len(Cat(data, left)) = Len(data) + Len(left)
      BY <3>1, CatType
    <3>3. Len(left) \in Nat
      BY <3>1
    <3> QED
      BY <1>5, <3>2, <3>3
  <2>2. ASSUME NEW j \in 1..Len(left) PROVE left[j] = d[1]
    <3>1. Cat(data, left)[Len(data) + j] = left[j]
      BY <1>5, CatAfter
    <3>2. Given + j \in 1..Len(d)
      BY <1>5, <2>1
    <3> QED
      BY <1>5, <1>6, <3>1, <3>2
  <2>3. Len(left) > 0 /\ 1 \in 1..Len(left)
    BY <1>5, <2>1
  <2>4. left # <<>>
    BY <2>3
  <2> QED
    BY <2>2, <2>3, <2>4
<1>8. \A a : a # <<>> \/ rest = <<>> \/ rest[1][1] # d[1] => Tidied(a, rest)
  BY <1>6, TidiedNext
<1>9. CASE UNCHANGED failed /\ tls_buffers' = bytes
  <2>1. Tidied(bytes, v)
    <3>1. CASE Given = Len(d)
      BY <1>1, <1>2, <1>8, <3>1
    <3>2. CASE Given # Len(d)
      BY <1>1, <1>2, <1>5, <1>6, <1>7, <3>2, TidiedLeft
    <3> QED
      BY <3>1, <3>2
  <2>2. ASSUME NEW c, Continued(tls_buffers, w, c) PROVE Continued(bytes, v, c)
    <3>1. Continued(tls_buffers, Cat(<<d>>, rest), c)
      BY <1>2, <2>2
    <3>2. /\ (rest = <<>> => bytes # <<>>) => Continued(bytes, rest, c)
          /\ \A l \in Seq(Nat) : l[1] = d[1] => Continued(bytes, Cat(<<l>>, rest), c)
      BY <1>6, <3>1, ContinuedNext
    <3>3. CASE Given = Len(d)
      BY <1>1, <1>2, <3>2, <3>3
    <3>4. CASE Given # Len(d)
      BY <1>2, <1>5, <1>7, <3>2, <3>4
    <3> QED
      BY <3>3, <3>4
  <2>3. TidyRecords(n)'
    BY <1>9, <2>1 DEF TidyRecords, v
  <2>4. ASSUME NEW c, NEW x, Unsealed(n, c, x) PROVE Unsealed(n, c, x)'
    <3>1. Continued(tls_buffers, Waiting(n), c) => Continued(tls_buffers', Waiting(n)', c)
      BY <1>9, <2>2 DEF w, v
    <3> QED
      BY <1>3, <2>4, <3>1 DEF Unsealed
  <2>5. TidyPlain(n)'
    BY <1>3, <2>4 DEF TidyPlain
  <2> QED
    BY <1>9, <2>3, <2>5
<1>10. CASE UNCHANGED failed /\ tls_buffers' = <<>> /\ Cat(f, plain) = Ahead(s, k + 1)
  <2> DEFINE a == Ahead(s, k + 1)
  <2>1. a \in Seq(Nat) /\ \A i \in 1..Len(a) : a[i] > k + 1
    <3>1. k + 1 \in 0..Len(s)
      <4>1. k \in Nat /\ k < Len(s) /\ Len(s) \in Nat
        BY <1>1, <1>3
      <4> HIDE DEF k, s
      <4> QED
        BY <4>1
    <3> QED
      BY <3>1, AheadLater
  <2>2. f \in Seq(Nat) /\ f = Flat(v)
    BY <1>5, FlatType DEF f, v
  <2>3. Len(a) = Len(f) + Len(plain) /\ Len(f) \in Nat /\ Len(plain) \in Nat
    <3>1. f \in Seq(Nat) /\ plain \in Seq(Nat)
      BY <1>3, <2>2
    <3>2. Len(Cat(f, plain)) = Len(f) + Len(plain)
      BY <3>1, CatType
    <3>3. Len(f) \in Nat /\ Len(plain) \in Nat
      BY <3>1
    <3> QED
      BY <1>10, <3>2, <3>3
  <2>4. f # <<>> => f[1] > k + 1
    <3> SUFFICES ASSUME f # <<>> PROVE f[1] > k + 1
      OBVIOUS
    <3>1. Cat(f, plain)[1] = f[1]
      BY <1>3, <2>2, HeadOfCat
    <3>2. Len(f) > 0
      BY <2>2
    <3> HIDE DEF a
    <3>3. 1 \in 1..Len(a)
      BY <2>3, <3>2
    <3> QED
      BY <1>10, <2>1, <3>1, <3>3 DEF a
  <2>5. plain # <<>> => plain[1] > k + 1
    <3> SUFFICES ASSUME plain # <<>> PROVE plain[1] > k + 1
      OBVIOUS
    <3>1. 1 \in 1..Len(plain)
      BY <1>3
    <3>2. Cat(f, plain)[Len(f) + 1] = plain[1]
      BY <1>3, <2>2, <3>1, CatAfter
    <3> HIDE DEF a
    <3>3. Len(f) + 1 \in 1..Len(a)
      BY <2>3, <3>1
    <3> QED
      BY <1>10, <2>1, <3>2, <3>3 DEF a
  <2> HIDE DEF a
  <2>6. v # <<>> /\ v[1] # <<>> => v[1][1] > k + 1
    <3>1. v # <<>> /\ v[1] # <<>> => Flat(v) # <<>> /\ Flat(v)[1] = v[1][1]
      BY <1>5, FlatHead
    <3> QED
      BY <2>2, <2>4, <3>1
  <2>7. v = rest
    <3> SUFFICES ASSUME Given # Len(d) PROVE FALSE
      BY <1>2
    <3>1. v = Cat(<<left>>, rest)
      BY <1>2
    <3>2. v[1] = left /\ Len(v) = 1 + Len(rest)
      <4>1. Cat(<<left>>, rest)[1] = left /\ Len(Cat(<<left>>, rest)) = 1 + Len(rest)
        BY <1>5, ConsHead
      <4> QED
        BY <3>1, <4>1
    <3>3. v # <<>>
      BY <3>2
    <3>4. k + 1 > k + 1 /\ k \in Nat
      BY <1>1, <1>6, <1>7, <2>6, <3>2, <3>3
    <3> HIDE DEF k
    <3> QED
      BY <3>4
  <2>8. rest = <<>> \/ rest[1][1] # d[1]
    <3> SUFFICES ASSUME rest # <<>> PROVE rest[1][1] # d[1]
      OBVIOUS
    <3>1. Tidied(bytes, rest)
      BY <1>1, <1>8
    <3>2. 1 \in 1..Len(rest)
      OBVIOUS
    <3>3. rest[1] # <<>>
      BY <3>1, <3>2 DEF Tidied, TidyAt
    <3>4. rest[1][1] > k + 1
      BY <2>6, <2>7, <3>3
    <3> QED
      BY <1>1, <1>6, <3>4
  <2>9. TidyRecords(n)'
    <3>1. Tidied(<<>>, rest)
      BY <1>8, <2>8
    <3> QED
      BY <1>10, <2>7, <3>1 DEF TidyRecords, v
  <2>10. TidyPlain(n)'
    <3> SUFFICES ASSUME plain # <<>>
                 PROVE  /\ plain[1] \in 1..Len(s)
                        /\ \E x \in 1..Len(s[plain[1]]) : Unsealed(n, plain[1], x)'
      BY <1>3 DEF TidyPlain
    <3>1. PICK x \in 1..Len(s[plain[1]]) : Unsealed(n, plain[1], x)
      BY DEF TidyPlain
    <3>2. Continued(tls_buffers, w, plain[1]) => Continued(<<>>, rest, plain[1])
      <4> SUFFICES ASSUME Continued(tls_buffers, w, plain[1]) PROVE Continued(<<>>, rest, plain[1])
        OBVIOUS
      <4>1. Continued(tls_buffers, Cat(<<d>>, rest), plain[1])
        BY <1>2
      <4>2. /\ rest = <<>> => d[1] = plain[1]
            /\ (rest = <<>> => <<>> # <<>>) => Continued(<<>>, rest, plain[1])
        BY <1>6, <4>1, ContinuedNext
      <4>3. d[1] # plain[1]
        <5>1. plain[1] > k + 1
          BY <2>5
        <5> QED
          BY <1>1, <1>6, <5>1
      <4> QED
        BY <4>2, <4>3
    <3>3. Unsealed(n, plain[1], x)'
      BY <1>3, <1>10, <2>7, <3>1, <3>2 DEF Unsealed, w, v
    <3>4. plain[1] \in 1..Len(s)
      BY DEF TidyPlain
    <3> QED
      BY <3>3, <3>4
  <2> QED
    BY <1>10, <2>9, <2>10
<1> QED
  BY <1>4, <1>9, <1>10

LEMMA TidyPlainNext ==
    ASSUME NEW n, NEW c, plain'[1] = c, c \in 1..Len(sent.secure'), NEW x \in 1..Len(sent.secure'[c]),
           Unsealed(n, c, x)'
    PROVE  TidyPlain(n)'
BY DEF TidyPlain

\* Bytes of one event, shortened or not.
LEMMA BytesOf ==
    ASSUME NEW b \in Seq(Nat), NEW c \in Nat, \A i \in 1..Len(b) : b[i] = c
    PROVE  b = Bytes(c, Len(b))
<1>1. Bytes(c, Len(b)) \in Seq(Nat) /\ Len(Bytes(c, Len(b))) = Len(b) /\ \A i \in 1..Len(b) : Bytes(c, Len(b))[i] = c
  BY BytesType
<1> QED
  BY <1>1, SeqEqual

\* An event inside TLS has its number in each byte, and a header at least.
LEMMA SecureBytes ==
    ASSUME LinkType, NEW c \in 1..Len(sent.secure)
    PROVE  LET e == sent.secure[c] IN
           /\ c \in Nat /\ e \in Seq(Nat) /\ Len(e) \in Nat /\ Len(e) >= HEADER /\ e = Bytes(c, Len(e))
           /\ e # <<>> /\ e[1] = c /\ Len(e) \in 1..Len(e)
<1>1. PICK l \in InnerLength : sent.secure[c] = Bytes(c, l)
  BY DEF LinkType
<1>2. l \in Nat /\ l >= HEADER /\ HEADER > 0 /\ HEADER \in Nat
  BY LinkConstants DEF Length
<1>3. c \in Nat
  BY LinkCounts
<1>4. Bytes(c, l) \in Seq(Nat) /\ Len(Bytes(c, l)) = l
  BY <1>2, <1>3, BytesType
<1>5. \A i \in 1..l : Bytes(c, l)[i] = c
  BY <1>2, <1>3, BytesType
<1>6. 1 \in 1..l /\ l \in 1..l
  BY <1>2
<1>7. Bytes(c, l) # <<>>
  BY <1>4, <1>6
<1> QED
  BY <1>1, <1>2, <1>3, <1>4, <1>5, <1>6, <1>7

\* A new event is sealed after those that are not sealed yet.
LEMMA TidySecure ==
    ASSUME LinkType, NEW n \in 0..Len(onBus), InFrame(n), TidyRecords(n), TidyPlain(n), SendSecure
    PROVE  TidyRecords(n)' /\ TidyPlain(n)'
<1>1. PICK length \in InnerLength :
          /\ plain' = plain \o Bytes(Len(sent.secure) + 1, length)
          /\ sent' = [sent EXCEPT !.secure = Append(@, Bytes(Len(sent.secure) + 1, length))]
  BY DEF SendSecure
<1>2. tls_buffers' = tls_buffers /\ Waiting(n)' = Waiting(n)
  BY SecureFrame DEF SendSecure
<1>3. TidyRecords(n)'
  BY <1>2 DEF TidyRecords
<1> DEFINE m == Len(sent.secure)
           s == sent.secure
           e == Bytes(m + 1, length)
           t == Append(s, e)
<1>4. s \in Seq(Seq(Nat)) /\ m \in Nat /\ plain \in Seq(Nat)
  BY LinkTypes
<1>5. length \in Nat /\ length > 0
  BY LinkConstants DEF Length
<1>6. e \in Seq(Nat) /\ Len(e) = length /\ e # <<>> /\ e[1] = m + 1
  <2>1. m + 1 \in Nat
    BY <1>4
  <2>2. e \in Seq(Nat) /\ Len(e) = length /\ \A i \in 1..length : e[i] = m + 1
    BY <1>5, <2>1, BytesType
  <2>3. 1 \in 1..length
    BY <1>5
  <2> HIDE DEF e, m
  <2> QED
    BY <1>5, <2>2, <2>3
<1>7. sent.secure' = t /\ plain' = Cat(plain, e)
  BY <1>1 DEF Cat, LinkType, Channels
<1>8. e = Bytes(m + 1, length)
  OBVIOUS
<1> HIDE DEF e
<1>9. t \in Seq(Seq(Nat)) /\ Len(t) = m + 1 /\ t[m + 1] = e /\ \A i \in 1..m : t[i] = s[i]
  BY <1>4, <1>6, AppendProperties
<1>10. m \in 0..Len(s) /\ m + 1 \in 1..Len(t)
  BY <1>4, <1>9
<1> HIDE DEF t
<1>11. CASE plain = <<>>
  <2>1. plain' = e
    BY <1>4, <1>6, <1>7, <1>11, CatEmpty
  <2>2. Ahead(t, m + 1) = <<>>
    BY <1>9, AheadEnd
  <2>3. Cat(Bytes(m + 1, length), <<>>) = e
    BY <1>6, <1>8, CatEmpty
  <2>4. length = Len(t[m + 1]) /\ length \in 1..Len(t[m + 1])
    BY <1>5, <1>6, <1>9
  <2>5. PICK c \in Nat : c = m + 1
    BY <1>4
  <2>6. Unsealed(n, c, length)'
    BY <1>7, <2>1, <2>2, <2>3, <2>4, <2>5 DEF Unsealed
  <2>7. plain'[1] = c /\ c \in 1..Len(sent.secure') /\ length \in 1..Len(sent.secure'[c])
    BY <1>6, <1>7, <1>10, <2>1, <2>4, <2>5
  <2>8. TidyPlain(n)'
    BY <2>6, <2>7, TidyPlainNext
  <2> QED
    BY <1>3, <2>8
<1>12. CASE plain # <<>>
  <2>1. PICK c \in 1..m : c = plain[1]
    BY <1>12 DEF TidyPlain
  <2>2. PICK x \in 1..Len(s[c]) : Unsealed(n, c, x)
    BY <1>12, <2>1 DEF TidyPlain
  <2> DEFINE h == Ahead(s, c)
             b == Bytes(c, x)
  <2>3. plain = Cat(b, h) /\ (x = Len(s[c]) \/ Continued(tls_buffers, Waiting(n), c))
    BY <2>2 DEF Unsealed
  <2>4. h \in Seq(Nat) /\ Ahead(t, c) = Cat(h, e)
    <3>1. c \in 0..Len(s)
      BY <1>4
    <3> QED
      BY <1>4, <1>6, <3>1, AheadType, AheadAppend DEF t
  <2>5. b \in Seq(Nat)
    <3>1. Len(s[c]) \in Nat /\ c \in Nat
      BY SecureBytes
    <3>2. x \in Nat
      BY <3>1
    <3> QED
      BY <3>1, <3>2, BytesType
  <2>6. t[c] = s[c] /\ c \in 1..Len(t)
    BY <1>4, <1>9
  <2> HIDE DEF h, b
  <2>7. plain' = Cat(b, Ahead(t, c))
    BY <1>6, <1>7, <2>3, <2>4, <2>5, CatAssoc
  <2>8. Unsealed(n, c, x)'
    BY <1>2, <1>7, <2>3, <2>6, <2>7 DEF Unsealed, b
  <2>9. plain'[1] = c
    <3>1. Cat(plain, e)[1] = plain[1]
      BY <1>4, <1>6, <1>12, HeadOfCat
    <3> QED
      BY <1>7, <2>1, <3>1
  <2>10. TidyPlain(n)'
    BY <1>7, <2>6, <2>8, <2>9, TidyPlainNext
  <2> QED
    BY <1>3, <2>10
<1> QED
  BY <1>11, <1>12

\* What is left of the bytes of one event when a record takes k of them.
LEMMA SealLeft ==
    ASSUME NEW c \in Nat, NEW x \in Nat, NEW k \in Nat, k <= x, NEW h \in Seq(Nat), NEW r \in Seq(Nat), NEW u \in Seq(Nat),
           Len(r) = k, \A i \in 1..k : r[i] = c, Cat(r, u) = Cat(Bytes(c, x), h)
    PROVE  u = Cat(Bytes(c, x - k), h)
<1> DEFINE a == Bytes(c, k)
           b == Bytes(c, x - k)
           d == Bytes(c, x)
<1>1. x - k \in Nat /\ k + (x - k) = x
  OBVIOUS
<1>2. a \in Seq(Nat) /\ Len(a) = k
  BY BytesType
<1>3. b \in Seq(Nat) /\ Len(b) = x - k
  BY <1>1, BytesType
<1>4. d \in Seq(Nat) /\ Len(d) = x
  BY BytesType
<1>5. r = a
  BY BytesOf
<1>6. \A i \in 1..k : a[i] = c
  BY BytesType
<1>7. \A i \in 1..(x - k) : b[i] = c
  BY <1>1, BytesType
<1>8. \A i \in 1..x : d[i] = c
  BY BytesType
<1> HIDE DEF a, b, d
<1>9. d = Cat(a, b)
  <2>1. Cat(a, b) \in Seq(Nat) /\ Len(Cat(a, b)) = x
    <3>1. Cat(a, b) \in Seq(Nat) /\ Len(Cat(a, b)) = Len(a) + Len(b)
      BY <1>2, <1>3, CatType
    <3> QED
      BY <1>1, <1>2, <1>3, <3>1
  <2>2. ASSUME NEW i \in 1..x PROVE Cat(a, b)[i] = c
    <3>1. CASE i <= k
      <4>1. i \in 1..Len(a) /\ i \in 1..k
        BY <1>2, <3>1
      <4>2. Cat(a, b)[i] = a[i]
        BY <1>2, <1>3, <4>1, CatAt
      <4> QED
        BY <1>6, <4>1, <4>2
    <3>2. CASE ~(i <= k)
      <4>1. i - k \in 1..(x - k) /\ k + (i - k) = i
        BY <3>2
      <4>2. Cat(a, b)[Len(a) + (i - k)] = b[i - k]
        <5>1. PICK j \in 1..Len(b) : j = i - k
          BY <1>3, <4>1
        <5>2. a \in Seq(Nat) /\ b \in Seq(Nat)
          BY <1>2, <1>3
        <5>3. Cat(a, b)[Len(a) + j] = b[j]
          BY <5>2, CatAfter
        <5> QED
          BY <5>1, <5>3
      <4> QED
        BY <1>2, <1>7, <4>1, <4>2
    <3> QED
      BY <3>1, <3>2
  <2> QED
    BY <1>4, <1>8, <2>1, <2>2, SeqEqual
<1>10. Cat(r, u) = Cat(r, Cat(b, h))
  BY <1>2, <1>3, <1>5, <1>9, CatAssoc DEF d
<1>11. Cat(b, h) \in Seq(Nat)
  BY <1>3, CatType
<1>12. u = Cat(b, h)
  BY <1>10, <1>11, CatSplit
<1> QED
  BY <1>12 DEF b

\* A record takes bytes of the event at the front alone, its header's length at least
\* if it is its first.
LEMMA TidyRecorded ==
    ASSUME LinkType, NEW n, NEW k \in 1..Len(plain), TidyRecord(SubSeq(plain, 1, k)),
           NEW c \in 1..Len(sent.secure), plain[1] = c, NEW x \in 1..Len(sent.secure[c]), Unsealed(n, c, x)
    PROVE  LET r == SubSeq(plain, 1, k) IN
           /\ k <= x /\ x \in Nat /\ \A j \in 1..k : r[j] = c
           /\ ~Continued(tls_buffers, Waiting(n), c) => k >= HEADER
<1> DEFINE r == SubSeq(plain, 1, k)
           u == SubSeq(plain, k + 1, Len(plain))
           s == sent.secure
           h == Ahead(s, c)
           b == Bytes(c, x)
           e == s[c]
<1>1. /\ c \in Nat /\ e \in Seq(Nat) /\ Len(e) \in Nat /\ e = Bytes(c, Len(e))
  BY SecureBytes
<1>2. x \in Nat /\ x > 0 /\ x <= Len(e)
  BY <1>1
<1>3. b \in Seq(Nat) /\ Len(b) = x
  BY <1>1, <1>2, BytesType
<1>4. \A i \in 1..x : b[i] = c
  BY <1>1, <1>2, BytesType
<1>5. plain = Cat(b, h) /\ (x = Len(e) \/ Continued(tls_buffers, Waiting(n), c))
  BY DEF Unsealed
<1>6. h \in Seq(Nat) /\ \A i \in 1..Len(h) : h[i] > c
  <2>1. c \in 0..Len(s)
    BY LinkCounts
  <2> QED
    BY <2>1, AheadLater
<1>7. plain \in Seq(Nat) /\ Len(plain) \in Nat /\ k \in Nat /\ k > 0 /\ k \in 0..Len(plain)
  <2>1. plain \in Seq(Nat)
    BY LinkTypes
  <2> QED
    BY <2>1
<1>0. plain \in Seq(Nat) /\ k \in 0..Len(plain)
  BY <1>7
<1>8. r \in Seq(Nat) /\ Len(r) = k
  BY <1>0, CutAt
<1>9. u \in Seq(Nat) /\ plain = Cat(r, u)
  BY <1>0, CutAt
<1>10. r[k] = r[1] /\ (IsPrefix(e, plain) => k >= HEADER)
  BY <1>8 DEF TidyRecord
<1> HIDE DEF r, u, h, b, e
<1>11. \A j \in 1..k : r[j] = plain[j]
  <2>1. \A j \in 1..Len(r) : Cat(r, u)[j] = r[j]
    BY <1>8, <1>9, CatAt
  <2> QED
    BY <1>8, <1>9, <2>1
<1>12. r[1] = c
  BY <1>7, <1>11
<1>13. k <= x
  <2> SUFFICES ASSUME x < k PROVE FALSE
    BY <1>2, <1>7
  <2>1. Len(plain) = x + Len(h) /\ Len(h) \in Nat
    <3>1. Len(Cat(b, h)) = Len(b) + Len(h)
      BY <1>3, <1>6, CatType
    <3>2. Len(h) \in Nat
      BY <1>6
    <3> QED
      BY <1>3, <1>5, <3>1, <3>2
  <2>2. k - x \in 1..Len(h) /\ x + (k - x) = k /\ k \in 1..k
    BY <1>2, <1>7, <2>1
  <2>3. Cat(b, h)[Len(b) + (k - x)] = h[k - x]
    <3>1. b \in Seq(Nat) /\ h \in Seq(Nat)
      BY <1>3, <1>6
    <3> QED
      BY <2>2, <3>1, CatAfter
  <2>4. plain[k] = h[k - x]
    BY <1>3, <1>5, <2>2, <2>3
  <2>5. c > c
    BY <1>6, <1>10, <1>11, <1>12, <2>2, <2>4
  <2> QED
    BY <1>1, <2>5
<1>14. \A j \in 1..k : r[j] = c
  <2> TAKE j \in 1..k
  <2>1. j \in 1..x /\ j \in 1..Len(b)
    BY <1>2, <1>3, <1>7, <1>13
  <2>2. Cat(b, h)[j] = b[j]
    BY <1>3, <1>6, <2>1, CatAt
  <2> QED
    BY <1>4, <1>5, <1>11, <2>1, <2>2
<1>15. ASSUME ~Continued(tls_buffers, Waiting(n), c) PROVE k >= HEADER
  <2>1. x = Len(e)
    BY <1>5, <1>15
  <2>2. plain = Cat(e, h)
    BY <1>1, <1>5, <2>1 DEF b
  <2>3. Len(plain) = Len(e) + Len(h) /\ Len(h) \in Nat
    <3>1. Len(Cat(e, h)) = Len(e) + Len(h)
      BY <1>1, <1>6, CatType
    <3>2. Len(h) \in Nat
      BY <1>6
    <3> QED
      BY <2>2, <3>1, <3>2
  <2>4. Len(e) <= Len(plain) /\ Len(e) \in 0..Len(plain)
    BY <1>1, <2>3
  <2>9. PICK m \in 0..Len(plain) : m = Len(e)
    BY <2>4
  <2> DEFINE a == SubSeq(plain, 1, m)
             v == SubSeq(plain, m + 1, Len(plain))
  <2>5. a \in Seq(Nat) /\ v \in Seq(Nat) /\ Len(a) = m /\ plain = Cat(a, v)
    <3>0. plain \in Seq(Nat)
      BY <1>0
    <3>1. a \in Seq(Nat) /\ Len(a) = m
      BY <3>0, CutAt, SMTT(30)
    <3>2. v \in Seq(Nat)
      BY <3>0, CutAt
    <3>3. plain = Cat(a, v)
      BY <3>0, CutAt, ZenonT(30)
    <3> QED
      BY <3>1, <3>2, <3>3
  <2> HIDE DEF v
  <2>6. a = e
    <3> HIDE DEF a
    <3> QED
      BY <1>1, <1>6, <2>2, <2>5, <2>9, CatSplit
  <2>7. SubSeq(e, 1, Len(e)) = e
    BY <1>1, SubSeqFull
  <2>8. IsPrefix(e, plain)
    BY <2>4, <2>6, <2>7, <2>9 DEF IsPrefix
  <2> QED
    BY <1>10, <2>8
<1> QED
  BY <1>2, <1>13, <1>14, <1>15 DEF r

LEMMA TidySeal ==
    ASSUME LinkType, NEW n \in 0..Len(onBus), InFrame(n), TidyRecords(n), TidyPlain(n),
           NEW k \in 1..Len(plain), NEW length \in TLSLength, TidyRecord(SubSeq(plain, 1, k)),
           PutOnBus(length, SubSeq(plain, 1, k)), plain' = SubSeq(plain, k + 1, Len(plain)),
           UNCHANGED <<sent, received, inputVars, bio, tls_buffers>>
    PROVE  TidyRecords(n)' /\ TidyPlain(n)'
<1> DEFINE r == SubSeq(plain, 1, k)
           s == sent.secure
           w == Waiting(n)
<1>1. r \in Seq(Nat) /\ Len(r) = k /\ plain = Cat(r, plain') /\ Waiting(n)' = Cat(w, <<r>>)
  BY SealFrame
<1>2. plain \in Seq(Nat) /\ s \in Seq(Seq(Nat)) /\ Len(s) \in Nat /\ k \in Nat /\ k > 0 /\ plain # <<>>
  <2>1. plain \in Seq(Nat) /\ s \in Seq(Seq(Nat)) /\ Len(s) \in Nat
    BY LinkTypes
  <2> HIDE DEF s
  <2> QED
    BY <2>1
<1>3. PICK c \in 1..Len(s) : c = plain[1]
  BY <1>2 DEF TidyPlain
<1>4. PICK x \in 1..Len(s[c]) : Unsealed(n, c, x)
  BY <1>2, <1>3 DEF TidyPlain
<1>5. TidyRecord(r)
  OBVIOUS
<1>6. k <= x /\ x \in Nat /\ (\A j \in 1..k : r[j] = c) /\ (~Continued(tls_buffers, w, c) => k >= HEADER)
  BY <1>3, <1>4, TidyRecorded
<1>7. w \in Seq(Seq(Nat))
  BY WaitingType DEF InFrame
<1>8. sent' = sent /\ tls_buffers' = tls_buffers
  OBVIOUS
<1> HIDE DEF r, w
<1>9. r # <<>> /\ r[1] = c /\ \A j \in 1..Len(r) : r[j] = r[1]
  BY <1>1, <1>2, <1>6
<1>10. Tidied(tls_buffers, Append(w, r)) /\ Continued(tls_buffers, Append(w, r), c)
  <2>1. Tidied(tls_buffers, w)
    BY DEF TidyRecords, w
  <2>2. ~Continued(tls_buffers, w, r[1]) => Len(r) >= HEADER
    BY <1>1, <1>6, <1>9
  <2>3. Tidied(tls_buffers, Append(w, r)) /\ Continued(tls_buffers, Append(w, r), r[1])
    BY <1>1, <1>7, <1>9, <2>1, <2>2, TidiedAppend
  <2> QED
    BY <1>9, <2>3
<1>11. Waiting(n)' = Append(w, r)
  <2>1. Append(w, r) = w \o <<r>>
    BY <1>1, <1>7, AppendIsConcat
  <2> QED
    BY <1>1, <2>1 DEF Cat
<1>12. TidyRecords(n)'
  BY <1>8, <1>10, <1>11 DEF TidyRecords
<1>13. c \in Nat /\ Len(s[c]) \in Nat /\ HEADER > 0
  BY SecureBytes, LinkConstants
<1>14. plain = Cat(Bytes(c, x), Ahead(s, c))
  BY <1>4 DEF Unsealed
<1>15. Ahead(s, c) \in Seq(Nat)
  <2>1. c \in 0..Len(s)
    BY <1>2
  <2> QED
    BY <2>1, AheadLater
<1>16. plain' \in Seq(Nat)
  <2>1. k \in 0..Len(plain)
    BY <1>2
  <2>2. SubSeq(plain, k + 1, Len(plain)) \in Seq(Nat)
    BY <1>2, <2>1, CutAt
  <2> QED
    BY <2>2
<1>17. plain' = Cat(Bytes(c, x - k), Ahead(s, c))
  <2> DEFINE u == plain'
  <2>1. u \in Seq(Nat) /\ Cat(r, u) = Cat(Bytes(c, x), Ahead(s, c))
    BY <1>1, <1>14, <1>16
  <2> DEFINE h == Ahead(s, c)
  <2> HIDE DEF u, h
  <2>3. /\ c \in Nat /\ x \in Nat /\ k \in Nat /\ k <= x /\ h \in Seq(Nat) /\ r \in Seq(Nat) /\ u \in Seq(Nat)
        /\ Len(r) = k /\ Cat(r, u) = Cat(Bytes(c, x), h)
    BY <1>1, <1>2, <1>6, <1>13, <1>15, <2>1 DEF h
  <2>4. \A i \in 1..k : r[i] = c
    BY <1>6
  <2>2. u = Cat(Bytes(c, x - k), h)
    BY <2>3, <2>4, SealLeft
  <2> QED
    BY <2>2 DEF u, h
<1>18. CASE k < x
  <2>1. x - k \in Nat /\ x - k \in 1..Len(s[c]) /\ 1 \in 1..(x - k)
    <3> DEFINE l == Len(s[c])
    <3>1. l \in Nat /\ x \in 1..l
      BY <1>13
    <3> HIDE DEF l
    <3>2. x - k \in Nat /\ x - k \in 1..l /\ 1 \in 1..(x - k)
      BY <1>2, <1>6, <1>18, <3>1
    <3> QED
      BY <3>2 DEF l
  <2> DEFINE b == Bytes(c, x - k)
  <2>2. b \in Seq(Nat) /\ Len(b) = x - k /\ \A i \in 1..(x - k) : b[i] = c
    BY <1>13, <2>1, BytesType
  <2>3. b # <<>> /\ b[1] = c
    <3> HIDE DEF b
    <3> QED
      BY <2>1, <2>2
  <2> HIDE DEF b
  <2>4. plain'[1] = c
    <3>1. Cat(b, Ahead(s, c))[1] = b[1]
      BY <1>15, <2>2, <2>3, HeadOfCat
    <3> QED
      BY <1>17, <2>3, <3>1 DEF b
  <2> DEFINE y == x - k
  <2>5. y \in 1..Len(s[c])
    BY <2>1
  <2>6. plain' = Cat(Bytes(c, y), Ahead(s, c))
    BY <1>17
  <2> HIDE DEF y
  <2>7. Unsealed(n, c, y)'
    BY <1>8, <1>10, <1>11, <2>6 DEF Unsealed, y
  <2>8. c \in 1..Len(sent.secure') /\ y \in 1..Len(sent.secure'[c])
    BY <1>8, <2>5
  <2>9. TidyPlain(n)'
    BY <2>4, <2>7, <2>8, TidyPlainNext DEF y
  <2> QED
    BY <1>12, <2>9
<1>19. CASE k = x
  <2>1. plain' = Ahead(s, c)
    <3>1. x - k = 0 /\ 0 \in Nat
      BY <1>6, <1>19
    <3>2. Bytes(c, 0) = <<>>
      <4>1. Bytes(c, 0) \in Seq(Nat) /\ Len(Bytes(c, 0)) = 0
        BY <1>13, <3>1, BytesType
      <4> QED
        BY <4>1
    <3> QED
      BY <1>15, <1>17, <3>1, <3>2, CatEmpty
  <2>2. CASE c = Len(s)
    <3>1. plain' = <<>>
      BY <1>2, <2>1, <2>2, AheadEnd
    <3>2. TidyPlain(n)'
      BY <3>1 DEF TidyPlain
    <3> QED
      BY <1>12, <3>2
  <2>3. CASE c < Len(s)
    <3>1. c + 1 \in 1..Len(s) /\ Ahead(s, c) = Cat(s[c + 1], Ahead(s, c + 1))
      BY <1>2, <1>13, <2>3, AheadNext
    <3>2. PICK d \in 1..Len(s) : d = c + 1
      BY <3>1
    <3>3. s[d] \in Seq(Nat) /\ s[d] # <<>> /\ s[d][1] = d /\ s[d] = Bytes(d, Len(s[d])) /\ Len(s[d]) \in 1..Len(s[d])
      BY SecureBytes
    <3>4. PICK y \in 1..Len(s[d]) : y = Len(s[d])
      BY <3>3
    <3>5. plain' = Cat(Bytes(d, y), Ahead(s, d))
      BY <2>1, <3>1, <3>2, <3>3, <3>4
    <3>6. Ahead(s, d) \in Seq(Nat)
      <4>1. d \in 0..Len(s)
        BY <1>2
      <4> QED
        BY <4>1, AheadLater
    <3>7. plain'[1] = d
      <4>1. Cat(s[d], Ahead(s, d))[1] = s[d][1]
        BY <3>3, <3>6, HeadOfCat
      <4> QED
        BY <2>1, <3>1, <3>2, <3>3, <4>1
    <3>8. Unsealed(n, d, y)'
      BY <1>8, <3>4, <3>5 DEF Unsealed
    <3>9. d \in 1..Len(sent.secure') /\ y \in 1..Len(sent.secure'[d])
      BY <1>8
    <3>10. TidyPlain(n)'
      BY <3>7, <3>8, <3>9, TidyPlainNext
    <3> QED
      BY <1>12, <3>10
  <2> QED
    BY <1>2, <2>2, <2>3
<1> QED
  BY <1>2, <1>6, <1>18, <1>19

-------------------------------------------------------------------------------
\* The framing of a tidy sensor, step by step.

\* The sensor leaves what it has not sealed alone, and TLSEventReader what it has.
LEMMA TidyKept ==
    ASSUME NEW n, NEW m, TidyRecords(n), TidyPlain(n), Waiting(m)' = Waiting(n),
           sent'.secure = sent.secure, UNCHANGED <<plain, tls_buffers>>
    PROVE  TidyRecords(m)' /\ TidyPlain(m)'
<1>1. TidyRecords(m)'
  BY DEF TidyRecords
<1>2. ASSUME NEW c, NEW x, Unsealed(n, c, x) PROVE Unsealed(m, c, x)'
  BY <1>2 DEF Unsealed
<1>3. TidyPlain(m)'
  BY <1>2 DEF TidyPlain
<1> QED
  BY <1>1, <1>3

TidyFrame(n) == InFrame(n) /\ TidyPackets(n) /\ TidyRecords(n) /\ TidyPlain(n)
TidyFramed == tidy => /\ failed \in Tolerated
                      /\ failed = "none" => \E n \in 0..Len(onBus) : TidyFrame(n)

LEMMA TidyInit ==
    ASSUME Init
    PROVE  TidyFramed
<1>1. LinkType /\ InFrame(0) /\ Waiting(0) = <<>> /\ Len(onBus) = 0
  BY FrameInit
<1>2. /\ failed = "none" /\ usb = <<>> /\ onBus = <<>> /\ plain = <<>> /\ _buffers = << <<>> >>
      /\ _received_length = 0
  BY DEF Init
<1>3. <<>> \in Seq(Seq(Nat)) /\ Len(<<>>) = 0 /\ 0 \in 0..Len(onBus)
  BY <1>1
<1>4. TidyPackets(0)
  <2>1. Ahead(packets, 0) = <<>>
    <3>1. packets \in Seq(Seq(Seq(Nat))) /\ Len(packets) = 0
      BY <1>1, PacketsType
    <3>2. Ahead(packets, Len(packets)) = <<>>
      BY <3>1, AheadEnd
    <3> QED
      BY <3>1, <3>2
  <2>2. Cat(<<>>, <<>>) = <<>>
    BY <1>3, CatEmpty
  <2>3. FreshBuffers
    BY <1>2 DEF FreshBuffers
  <2>4. 0 * PACKET = 0
    BY LinkConstants
  <2>5. PartTaken(0, <<>>)
    BY <1>2, <1>3, <2>1, <2>2, <2>3, <2>4 DEF PartTaken
  <2> QED
    BY <1>3, <2>5 DEF TidyPackets
<1>5. TidyRecords(0) /\ TidyPlain(0)
  BY <1>1, <1>2, <1>3 DEF TidyRecords, Tidied, TidyPlain
<1>6. TidyFrame(0)
  BY <1>1, <1>4, <1>5 DEF TidyFrame
<1>7. failed \in Tolerated
  BY <1>2 DEF Tolerated
<1> QED
  BY <1>2, <1>3, <1>6, <1>7 DEF TidyFramed

LEMMA TidySame ==
    ASSUME [Next]_vars
    PROVE  tidy' = tidy
BY Zenon DEF Next, vars, USBInput, SendClear, SendSecure, Seal, Overflow, parse, handle_tls_data, process, TLSWrites, read_bio_stream, send

\* One step of each action, from the frame of n events.
LEMMA TidyParsed ==
    ASSUME LinkType, NEW n \in 0..Len(onBus), TidyFrame(n), failed = "none", parse
    PROVE  failed' = "none" /\ \E m \in 0..Len(onBus') : TidyFrame(m)'
<1>1. InFrame(n) /\ TidyPackets(n) /\ TidyRecords(n) /\ TidyPlain(n) /\ Buffered(n)
  BY DEF TidyFrame, InFrame
<1>2. UNCHANGED <<onBus, plain, sent, tls_buffers>>
  BY <1>1, ParseOutcome
<1>3. PICK k \in DOMAIN usb : Done(k) /\ usb' = SubSeq(usb, k + 1, Len(usb)) /\ Parsed(k, n)
  BY <1>1, ParseOutcome
<1>4. failed' = "none" /\ IF Whole(k) THEN TidyPackets(n + 1)' ELSE TidyPackets(n)'
  BY <1>1, <1>3, TidyParse
<1>5. CASE Whole(k)
  <2>1. n + 1 \in 0..Len(onBus') /\ InFrame(n + 1)' /\ Waiting(n + 1)' = Waiting(n)
    BY <1>1, <1>3, <1>4, <1>5, ParseTaken
  <2>2. TidyRecords(n + 1)' /\ TidyPlain(n + 1)'
    BY <1>1, <1>2, <2>1, TidyKept
  <2>3. TidyFrame(n + 1)'
    BY <1>4, <1>5, <2>1, <2>2 DEF TidyFrame
  <2> QED
    BY <1>4, <2>1, <2>3
<1>6. CASE ~Whole(k)
  <2>1. InFrame(n)' /\ Waiting(n)' = Waiting(n)
    BY <1>1, <1>3, <1>4, <1>6, ParseKept
  <2>2. TidyRecords(n)' /\ TidyPlain(n)'
    BY <1>1, <1>2, <2>1, TidyKept
  <2>3. TidyFrame(n)'
    BY <1>4, <1>6, <2>1, <2>2 DEF TidyFrame
  <2> QED
    BY <1>2, <1>4, <2>3
<1> QED
  BY <1>5, <1>6

LEMMA TidyStep ==
    ASSUME LinkType, TidyFramed, [Next]_vars
    PROVE  TidyFramed'
<1> SUFFICES ASSUME tidy
             PROVE  /\ failed' \in Tolerated
                    /\ failed' = "none" => \E m \in 0..Len(onBus') : TidyFrame(m)'
  BY TidySame DEF TidyFramed
<1>1. CASE failed # "none"
  <2>1. UNCHANGED failed
    BY <1>1, Zenon DEF Next, vars, USBInput, SendClear, SendSecure, Seal, PutOnBus, Overflow, parse, handle_tls_data,
       process, TLSWrites, read_bio_stream, send
  <2> QED
    BY <1>1, <2>1 DEF TidyFramed
<1>2. CASE failed = "none"
  <2>1. PICK n \in 0..Len(onBus) : TidyFrame(n)
    BY <1>2 DEF TidyFramed
  <2>2. InFrame(n) /\ TidyPackets(n) /\ TidyRecords(n) /\ TidyPlain(n) /\ Buffered(n)
    BY <2>1 DEF TidyFrame, InFrame
  <2>3. CASE SendClear
    <3>1. n \in 0..Len(onBus') /\ InFrame(n)' /\ Waiting(n)' = Waiting(n)
      BY <2>2, <2>3, ClearFrame
    <3>2. PICK length \in ClearLength : PutOnBus(length, <<>>)
      BY <2>3 DEF SendClear
    <3>3. UNCHANGED <<failed, plain, inputVars, tls_buffers>> /\ sent'.secure = sent.secure
      BY <2>3 DEF SendClear, LinkType, Channels
    <3>4. TidyPackets(n)'
      <4>1. length \in Length /\ <<>> \in Seq(Nat)
        BY DEF Length
      <4> QED
        BY <2>2, <3>2, <3>3, <4>1, TidyPut
    <3>5. TidyRecords(n)' /\ TidyPlain(n)'
      BY <2>2, <3>1, <3>3, TidyKept
    <3>6. TidyFrame(n)'
      BY <3>1, <3>4, <3>5 DEF TidyFrame
    <3> QED
      BY <1>2, <3>1, <3>3, <3>6 DEF Tolerated
  <2>4. CASE SendSecure
    <3>1. UNCHANGED <<failed, usb, onBus, inputVars>>
      BY <2>4 DEF SendSecure
    <3>2. InFrame(n)'
      BY <2>2, <2>4, SecureFrame
    <3>3. TidyPackets(n)'
      BY <2>2, <3>1, TidyStays
    <3>4. TidyRecords(n)' /\ TidyPlain(n)'
      BY <2>2, <2>4, TidySecure
    <3>5. TidyFrame(n)'
      BY <3>2, <3>3, <3>4 DEF TidyFrame
    <3> QED
      BY <1>2, <3>1, <3>5 DEF Tolerated
  <2>5. CASE Seal
    <3>1. PICK k \in 1..Len(plain), length \in TLSLength :
               /\ tidy => TidyRecord(SubSeq(plain, 1, k))
               /\ PutOnBus(length, SubSeq(plain, 1, k)) /\ plain' = SubSeq(plain, k + 1, Len(plain))
               /\ UNCHANGED <<sent, received, inputVars, bio, tls_buffers>>
      BY <2>5, SealParts
    <3> DEFINE r == SubSeq(plain, 1, k)
    <3>2. r \in Seq(Nat) /\ n \in 0..Len(onBus') /\ InFrame(n)'
      BY <2>2, <3>1, SealFrame
    <3>3. TidyRecords(n)' /\ TidyPlain(n)'
      BY <2>2, <3>1, TidySeal
    <3>4. PutOnBus(length, r) /\ length \in Length /\ UNCHANGED inputVars
      BY <3>1 DEF Length
    <3> HIDE DEF r
    <3>5. TidyPackets(n)'
      BY <2>2, <3>2, <3>4, TidyPut
    <3>6. TidyFrame(n)'
      BY <3>2, <3>3, <3>5 DEF TidyFrame
    <3>7. UNCHANGED failed
      BY <2>5 DEF Seal
    <3> QED
      BY <1>2, <3>2, <3>6, <3>7 DEF Tolerated
  <2>6. CASE parse
    BY <1>2, <2>1, <2>6, TidyParsed DEF Tolerated
  <2>7. CASE handle_tls_data
    <3>1. UNCHANGED <<failed, onBus, plain, sent, tls_buffers>>
      BY <2>7 DEF handle_tls_data, sensorVars
    <3>2. InFrame(n)' /\ Waiting(n)' = Waiting(n)
      BY <2>2, <2>7, HandleFrame
    <3>3. TidyPackets(n)'
      BY <2>2, <2>7, TidyHandle
    <3>4. TidyRecords(n)' /\ TidyPlain(n)'
      BY <2>2, <3>1, <3>2, TidyKept
    <3>5. TidyFrame(n)'
      BY <3>2, <3>3, <3>4 DEF TidyFrame
    <3> QED
      BY <1>2, <3>1, <3>5 DEF Tolerated
  <2>8. CASE process
    <3>1. UNCHANGED <<usb, onBus, inputVars>>
      BY <2>8 DEF process, sensorVars
    <3>2. failed' = "none" /\ TidyRecords(n)' /\ TidyPlain(n)'
      BY <1>2, <2>2, <2>8, TidyRead
    <3>3. InFrame(n)'
      BY <1>2, <2>2, <2>8, <3>2, ProcessFrame
    <3>4. TidyPackets(n)'
      BY <2>2, <3>1, TidyStays
    <3>5. TidyFrame(n)'
      BY <3>2, <3>3, <3>4 DEF TidyFrame
    <3> QED
      BY <3>1, <3>2, <3>5 DEF Tolerated
  <2>9. ~Overflow
    BY <2>2, TidyFits
  <2>10. CASE UNCHANGED linkVars /\ failed' \in {failed, "transfer"}
    <3>1. UNCHANGED <<usb, onBus, plain, sent, inputVars, tls_buffers>>
      BY <2>10 DEF linkVars, sensorVars
    <3>2. InFrame(n)' /\ Waiting(n)' = Waiting(n)
      BY <2>2, <2>10, LinkKept
    <3>3. TidyPackets(n)'
      BY <2>2, <3>1, TidyStays
    <3>4. TidyRecords(n)' /\ TidyPlain(n)'
      BY <2>2, <3>1, <3>2, TidyKept
    <3>5. TidyFrame(n)'
      BY <3>2, <3>3, <3>4 DEF TidyFrame
    <3> QED
      BY <1>2, <2>10, <3>1, <3>5 DEF Tolerated
  <2> QED
    BY <2>3, <2>4, <2>5, <2>6, <2>7, <2>8, <2>9, <2>10, Unlinked
<1> QED
  BY <1>1, <1>2

\* Whatever the lengths of the events and the capacity of packets and buffers, the
\* assertions and checks that end the daemon or its framing never do if the sensor
\* is tidy: no transfer overflows, USBInput never has more than an event, TLSEventReader
\* never less than a header or more than an event.
THEOREM AlwaysTidyAccepted == Spec => []TidyAccepted
<1>1. Init => TidyFramed
  BY TidyInit
<1>2. LinkType /\ TidyFramed /\ [Next]_vars => TidyFramed'
  BY TidyStep
<1>3. TidyFramed => TidyAccepted
  BY DEF TidyFramed, TidyAccepted
<1> QED
  BY <1>1, <1>2, <1>3, AlwaysFramed, PTL DEF Spec
================================================================================
