----------------------------- MODULE PushProofs -----------------------------
(***************************************************************************)
(* Proofs about Push, for any lengths of bodies, any width of size_t that  *)
(* holds them, and any bounds on bodies and refused writes.                *)
(*                                                                         *)
(* Total is a recursive function, and what it computes is not proved by    *)
(* induction: that a function which solves its equation exists, and what   *)
(* every such function has to say of the wire, are invariants of the       *)
(* steps, each of which makes one body more at most.                       *)
(***************************************************************************)
EXTENDS PushStream, NatInduction, FiniteSetTheorems, SequenceTheorems

Byte == [body : Nat \ {0}, pos : Int]

\* The rest is kept in the PushChunkData of a retry only, and a refused write
\* adds one byte to it.
RestOK ==
  /\ pc # "retry" => nleft = 0
  /\ pc = "retry" => /\ nleft > 0 /\ Len(bodies) > 0
                     /\ nleft <= bodies[Len(bodies)] + refused

\* f is the sums of b, as Total defines them.
Sums(f, b) == f = [i \in 0 .. Len(b) |-> IF i = 0 THEN 0 ELSE b[i] + f[i-1]]

SumOK ==
  /\ \E f : Sums(f, bodies)
  /\ \A f : Sums(f, bodies) =>
       /\ f[Len(bodies)] \in Nat
       /\ Len(wire) + nleft = f[Len(bodies)] + refused

\* The bytes of body k that are due: all but those that a retry has still to
\* write.
Due(k) == 1 .. bodies[k] - (IF k = Len(bodies) THEN nleft ELSE 0)

\* Every byte of every body that is due has been sent, however the writes were cut
\* and refused: when no retry is pending the client has all of every body.
NothingLost ==
  \A k \in 1 .. Len(bodies) : \A p \in Due(k) :
    \E i \in 1 .. Len(wire) : wire[i] = [body |-> k, pos |-> p]

\* No byte of a body is sent before one of an earlier body, also not when it is
\* sent again by a retry.
InOrder ==
  /\ \A i \in 1 .. Len(wire) : wire[i].body <= Len(bodies)
  /\ \A i, j \in 1 .. Len(wire) : i < j => wire[i].body <= wire[j].body

IInv == TypeOK /\ RestOK /\ SumOK /\ NothingLost /\ InOrder

-----------------------------------------------------------------------------
LEMMA ModSmall == ASSUME NEW m \in Nat \ {0}, NEW x \in 0 .. m-1 PROVE x % m = x
OBVIOUS

LEMMA ModNegative == ASSUME NEW m \in Nat \ {0} PROVE (-1) % m = m - 1
OBVIOUS

LEMMA ModOver == ASSUME NEW m \in Nat \ {0}, NEW x \in 0 .. m-1 PROVE (x - m) % m = x
OBVIOUS

\* What the arithmetic of size_t makes of nleft: a refused write adds one.
LEMMA MinusIs ==
  ASSUME NEW n \in Nat, NEW result \in (1 .. n) \cup {-1},
         n < SizeT, result = -1 => n + 1 < SizeT
  PROVE  Minus(n, result) = IF result = -1 THEN n + 1 ELSE n - result
<1>0. SizeT \in Nat \ {0}
  BY ConstantsAssumption
<1>1. CASE result = -1
  <2>1. result % SizeT = SizeT - 1
    BY <1>0, <1>1, ModNegative
  <2>2. n - (SizeT - 1) = (n + 1) - SizeT /\ n + 1 \in 0 .. SizeT-1
    BY <1>0, <1>1
  <2>3. ((n + 1) - SizeT) % SizeT = n + 1
    BY <1>0, <2>2, ModOver
  <2> QED BY <1>1, <2>1, <2>2, <2>3 DEF Minus
<1>2. CASE result # -1
  <2>1. result \in 0 .. SizeT-1 /\ n - result \in 0 .. SizeT-1
    BY <1>0, <1>2
  <2>2. result % SizeT = result /\ (n - result) % SizeT = n - result
    BY <1>0, <2>1, ModSmall
  <2> QED BY <1>2, <2>2 DEF Minus
<1> QED BY <1>1, <1>2

LEMMA Concat ==
  ASSUME NEW S, NEW a \in Seq(S), NEW b \in Seq(S)
  PROVE  /\ a \o b \in Seq(S) /\ Len(a \o b) = Len(a) + Len(b)
         /\ \A i \in 1 .. Len(a) : (a \o b)[i] = a[i]
         /\ \A i \in 1 .. Len(b) : (a \o b)[Len(a) + i] = b[i]
OBVIOUS

\* What one write of the last n bytes of chunk k does when it sends some of them,
\* or none if it is refused.
Wrote(k, n, sent) ==
  /\ \/ sent = 0 /\ nleft' = n + 1 /\ refused' = refused + 1
     \/ nleft' = n - sent /\ refused' = refused
  /\ nleft' \in 0 .. SizeT-1 /\ nleft' <= bodies'[k] + refused'
  /\ refused' \in 0 .. MaxRefused
  /\ pc' = IF nleft' > 0 THEN "retry" ELSE "cond"
  /\ wire' \in Seq(Byte) /\ Len(wire') = Len(wire) + sent
  /\ \A i \in 1 .. Len(wire) : wire'[i] = wire[i]
  /\ \A i \in 1 .. sent :
       wire'[Len(wire) + i] = [body |-> k, pos |-> bodies'[k] - n + i]

LEMMA WriteEffect ==
  ASSUME TypeOK, NEW k \in Nat \ {0}, NEW n \in Nat \ {0}, NEW result \in PushResults(n),
         bodies' \in Seq(BodyLen), k = Len(bodies'), n <= bodies'[k] + refused,
         Write(k, n, result)
  PROVE  \E sent \in 0 .. n : Wrote(k, n, sent)
<1> DEFINE sent == IF result = -1 THEN 0 ELSE result
           more == [i \in 1 .. sent |-> [body |-> k, pos |-> bodies'[k] - n + i]]
<1>0. /\ wire \in Seq(Byte) /\ refused \in Nat /\ Len(wire) \in Nat
      /\ MaxRefused \in Nat /\ SizeT \in Nat \ {0}
  BY ConstantsAssumption DEF TypeOK, Byte
<1>1. result \in (1 .. n) \cup {-1} /\ sent \in 0 .. n
  BY DEF PushResults
<1>2. bodies'[k] \in BodyLen /\ bodies'[k] \in Nat /\ bodies'[k] + MaxRefused < SizeT
  <2>1. bodies'[k] \in BodyLen
    OBVIOUS
  <2> QED BY <2>1, ConstantsAssumption
<1>3. /\ refused' = refused + (IF result = -1 THEN 1 ELSE 0) /\ refused' <= MaxRefused
      /\ nleft' = Minus(n, result)
      /\ pc' = IF nleft' > 0 THEN "retry" ELSE "cond"
      /\ wire' = wire \o more
  BY DEF Write
<1>4. refused' \in 0 .. MaxRefused
  BY <1>0, <1>3
<1>5. n < SizeT /\ (result = -1 => n + 1 < SizeT)
  BY <1>0, <1>2, <1>3, <1>4
<1>6. nleft' = IF result = -1 THEN n + 1 ELSE n - result
  BY <1>1, <1>3, <1>5, MinusIs
<1>7. nleft' \in 0 .. SizeT-1 /\ nleft' <= bodies'[k] + refused'
  <2>1. CASE result = -1
    BY <1>0, <1>1, <1>2, <1>3, <1>5, <1>6, <2>1
  <2>2. CASE result # -1
    <3>1. result \in 1 .. n /\ nleft' = n - result /\ refused' = refused
      BY <1>0, <1>1, <1>3, <1>6, <2>2
    <3> QED BY <1>0, <1>2, <1>5, <3>1
  <2> QED BY <2>1, <2>2
<1>8. /\ more \in Seq(Byte) /\ Len(more) = sent
      /\ \A i \in 1 .. sent : more[i] = [body |-> k, pos |-> bodies'[k] - n + i]
  <2>1. \A i \in 1 .. sent : [body |-> k, pos |-> bodies'[k] - n + i] \in Byte
    BY <1>1, <1>2 DEF Byte
  <2>2. sent \in Nat
    BY <1>1
  <2> HIDE DEF sent
  <2> QED BY <2>1, <2>2
<1> HIDE DEF more
<1>9. /\ wire' \in Seq(Byte) /\ Len(wire') = Len(wire) + sent
      /\ \A i \in 1 .. Len(wire) : wire'[i] = wire[i]
      /\ \A i \in 1 .. sent : wire'[Len(wire) + i] = more[i]
  BY <1>0, <1>3, <1>8, Concat
<1>10. \/ result = -1 /\ sent = 0 /\ nleft' = n + 1 /\ refused' = refused + 1
       \/ result = sent /\ nleft' = n - sent /\ refused' = refused
  BY <1>0, <1>1, <1>3, <1>6
<1> HIDE DEF sent
<1> QED
  <2>1. Wrote(k, n, sent)
    BY <1>3, <1>4, <1>7, <1>8, <1>9, <1>10 DEF Wrote
  <2> QED BY <1>1, <2>1

\* The chunk that push_func makes.
LEMMA PushFuncEffect ==
  ASSUME IInv, PushFunc
  PROVE  /\ nleft = 0
         /\ \E len \in BodyLen : \E sent \in 0 .. len :
              /\ len \in Nat \ {0}
              /\ bodies' \in Seq(BodyLen) /\ Len(bodies') = Len(bodies) + 1
              /\ bodies'[Len(bodies')] = len
              /\ \A k \in 1 .. Len(bodies) : bodies'[k] = bodies[k]
              /\ Wrote(Len(bodies'), len, sent)
<1>1. PICK len \in BodyLen :
        /\ bodies' = Append(bodies, len)
        /\ \E result \in PushResults(len) : Write(Len(bodies'), len, result)
  BY DEF PushFunc
<1>2. bodies \in Seq(BodyLen) /\ nleft = 0 /\ len \in Nat \ {0} /\ refused \in Nat /\ TypeOK
  BY ConstantsAssumption DEF PushFunc, IInv, TypeOK, RestOK
<1>3. /\ bodies' \in Seq(BodyLen) /\ Len(bodies') = Len(bodies) + 1
      /\ Len(bodies') \in Nat \ {0}
      /\ bodies'[Len(bodies')] = len
      /\ \A k \in 1 .. Len(bodies) : bodies'[k] = bodies[k]
  BY <1>1, <1>2
<1>4. PICK result \in PushResults(len) : Write(Len(bodies'), len, result)
  BY <1>1
<1>5. len <= bodies'[Len(bodies')] + refused
  BY <1>2, <1>3
<1>6. \E sent \in 0 .. len : Wrote(Len(bodies'), len, sent)
  BY <1>2, <1>3, <1>4, <1>5, WriteEffect
<1> QED BY <1>2, <1>3, <1>6

\* A retry writes the rest of the last chunk.
LEMMA RetryEffect ==
  ASSUME IInv, Retry
  PROVE  /\ nleft \in Nat \ {0} /\ Len(bodies) > 0 /\ bodies' = bodies
         /\ \E sent \in 0 .. nleft : Wrote(Len(bodies), nleft, sent)
<1>1. PICK result \in PushResults(nleft) : PushRetry(result)
  BY DEF Retry
<1>2. /\ bodies' = bodies /\ pc = "retry"
      /\ Write(Len(bodies), nleft, result)
  BY <1>1 DEF PushRetry
<1>3. /\ bodies \in Seq(BodyLen) /\ nleft \in Nat \ {0} /\ Len(bodies) > 0
      /\ nleft <= bodies[Len(bodies)] + refused /\ TypeOK
  BY <1>2 DEF IInv, TypeOK, RestOK
<1>4. Len(bodies) \in Nat \ {0}
  BY <1>3
<1>5. \E sent \in 0 .. nleft : Wrote(Len(bodies), nleft, sent)
  BY <1>2, <1>3, <1>4, WriteEffect
<1> QED BY <1>2, <1>3, <1>5

\* The sums of a list with one length more.
LEMMA SumsGrow ==
  ASSUME NEW b \in Seq(BodyLen), NEW c \in Seq(BodyLen), Len(c) = Len(b) + 1,
         \A k \in 1 .. Len(b) : c[k] = b[k]
  PROVE  /\ \A f : Sums(f, b) => \E g : Sums(g, c)
         /\ \A g : Sums(g, c) => \E f : Sums(f, b) /\ g[Len(c)] = c[Len(c)] + f[Len(b)]
<1> DEFINE L == Len(b)
<1>0. L \in Nat /\ Len(c) = L + 1
  OBVIOUS
<1> HIDE DEF L
<1>1. ASSUME NEW f, Sums(f, b)
      PROVE  \E g : Sums(g, c)
  <2> DEFINE g == [i \in 0 .. L+1 |-> IF i = L+1 THEN c[i] + f[L] ELSE f[i]]
             h == [i \in 0 .. L+1 |-> IF i = 0 THEN 0 ELSE c[i] + g[i-1]]
  <2>1. \A i \in 0 .. L : f[i] = IF i = 0 THEN 0 ELSE b[i] + f[i-1]
    BY <1>1 DEF Sums, L
  <2>2. \A i \in 0 .. L : g[i] = f[i]
    BY <1>0
  <2>3. g[L+1] = c[L+1] + f[L]
    BY <1>0
  <2>4. ASSUME NEW i \in 0 .. L+1
        PROVE  g[i] = h[i]
    <3>1. CASE i = 0
      BY <1>0, <2>1, <2>2, <3>1
    <3>2. CASE i \in 1 .. L
      <4>1. i-1 \in 0 .. L /\ i \in 0 .. L /\ c[i] = b[i]
        BY <1>0, <3>2 DEF L
      <4>2. h[i] = c[i] + f[i-1]
        <5> HIDE DEF g
        <5> QED BY <1>0, <2>2, <3>2, <4>1
      <4>3. f[i] = b[i] + f[i-1]
        BY <2>1, <3>2, <4>1
      <4> QED BY <2>2, <4>1, <4>2, <4>3
    <3>3. CASE i = L+1
      <4>1. h[i] = c[i] + g[L] /\ g[L] = f[L]
        <5> HIDE DEF g
        <5> QED BY <1>0, <2>2, <3>3
      <4> QED BY <2>3, <3>3, <4>1
    <3> QED BY <1>0, <3>1, <3>2, <3>3
  <2>5. g = h
    BY <2>4
  <2> QED BY <1>0, <2>5 DEF Sums
<1>2. ASSUME NEW g, Sums(g, c)
      PROVE  \E f : Sums(f, b) /\ g[Len(c)] = c[Len(c)] + f[Len(b)]
  <2> DEFINE f == [i \in 0 .. L |-> g[i]]
             h == [i \in 0 .. L |-> IF i = 0 THEN 0 ELSE b[i] + f[i-1]]
  <2>1. \A i \in 0 .. L+1 : g[i] = IF i = 0 THEN 0 ELSE c[i] + g[i-1]
    BY <1>0, <1>2 DEF Sums
  <2>2. ASSUME NEW i \in 0 .. L
        PROVE  f[i] = h[i]
    <3>1. CASE i = 0
      BY <1>0, <2>1, <3>1
    <3>2. CASE i # 0
      <4>1. i-1 \in 0 .. L /\ i \in 0 .. L+1 /\ c[i] = b[i]
        BY <1>0, <3>2 DEF L
      <4>2. f[i] = g[i] /\ f[i-1] = g[i-1]
        BY <4>1
      <4>3. g[i] = c[i] + g[i-1]
        BY <2>1, <3>2, <4>1
      <4>4. h[i] = b[i] + f[i-1]
        BY <3>2
      <4> QED BY <4>1, <4>2, <4>3, <4>4
    <3> QED BY <3>1, <3>2
  <2>3. Sums(f, b)
    <3>1. f = h
      BY <2>2
    <3> QED BY <3>1 DEF Sums, L
  <2>4. g[L+1] = c[L+1] + f[L]
    <3>1. L + 1 \in 0 .. L+1 /\ L + 1 # 0 /\ (L + 1) - 1 = L /\ f[L] = g[L]
      BY <1>0
    <3>2. g[L+1] = c[L+1] + g[(L + 1) - 1]
      BY <2>1, <3>1
    <3> HIDE DEF f
    <3> QED BY <3>1, <3>2
  <2> QED BY <1>0, <2>3, <2>4 DEF L
<1> QED BY <1>1, <1>2

\* What every write of a chunk preserves.
LEMMA WriteKeeps ==
  ASSUME IInv, NEW k \in Nat \ {0}, NEW n \in Nat \ {0}, NEW sent \in 0 .. n,
         bodies' \in Seq(BodyLen), k = Len(bodies'), Len(bodies) <= k,
         Wrote(k, n, sent),
         \A j \in 1 .. k : \A p \in 1 .. bodies'[j] - (IF j = k THEN n ELSE 0) :
           \E i \in 1 .. Len(wire) : wire[i] = [body |-> j, pos |-> p]
  PROVE  /\ RestOK' /\ NothingLost' /\ InOrder'
         /\ Len(wire') + nleft' + refused = Len(wire) + n + refused'
<1>0. wire \in Seq(Byte) /\ Len(wire) \in Nat /\ refused \in Nat /\ Len(bodies) \in Nat
  BY DEF IInv, TypeOK, Byte
<1>1. /\ nleft' \in Nat /\ refused' \in Nat /\ nleft' <= bodies'[k] + refused'
      /\ pc' = IF nleft' > 0 THEN "retry" ELSE "cond"
  BY ConstantsAssumption DEF Wrote
<1>2. /\ Len(wire') = Len(wire) + sent
      /\ \A i \in 1 .. Len(wire) : wire'[i] = wire[i]
      /\ \A i \in 1 .. sent :
           wire'[Len(wire) + i] = [body |-> k, pos |-> bodies'[k] - n + i]
  BY DEF Wrote
<1>3. \/ sent = 0 /\ nleft' = n + 1 /\ refused' = refused + 1
      \/ nleft' = n - sent /\ refused' = refused
  BY DEF Wrote
<1>4. \A j \in 1 .. k : bodies'[j] \in Nat
  <2>1. \A j \in 1 .. k : bodies'[j] \in BodyLen
    OBVIOUS
  <2> QED BY <2>1, ConstantsAssumption
<1>5. RestOK'
  BY <1>1 DEF RestOK
<1>6. NothingLost'
  <2> SUFFICES ASSUME NEW j \in 1 .. k, NEW p \in Due(j)'
               PROVE  \E i \in 1 .. Len(wire') : wire'[i] = [body |-> j, pos |-> p]
    BY DEF NothingLost
  <2>1. p \in 1 .. bodies'[j] - (IF j = k THEN nleft' ELSE 0)
    BY DEF Due
  <2>2. CASE p \in 1 .. bodies'[j] - (IF j = k THEN n ELSE 0)
    <3>1. PICK i \in 1 .. Len(wire) : wire[i] = [body |-> j, pos |-> p]
      BY <2>2
    <3>2. i \in 1 .. Len(wire') /\ wire'[i] = wire[i]
      BY <1>0, <1>2
    <3> QED BY <3>1, <3>2
  <2>3. CASE p \notin 1 .. bodies'[j] - (IF j = k THEN n ELSE 0)
    <3>1. j = k /\ p \in Nat /\ p > bodies'[k] - n /\ p <= bodies'[k] - nleft' /\ p > 0
      BY <1>1, <1>4, <2>1, <2>3
    <3>2. nleft' = n - sent
      BY <1>3, <1>4, <3>1
    <3> DEFINE i == p - (bodies'[k] - n)
    <3>3. i \in 1 .. sent /\ bodies'[k] - n + i = p
      BY <1>4, <3>1, <3>2
    <3>4. Len(wire) + i \in 1 .. Len(wire')
      BY <1>0, <1>2, <3>3
    <3> HIDE DEF i
    <3> QED BY <1>2, <3>1, <3>3, <3>4
  <2> QED BY <2>2, <2>3
<1>7. InOrder'
  <2>1. \A i \in 1 .. Len(wire) : wire[i].body <= Len(bodies) /\ wire[i].body \in Nat
    <3>1. \A i \in 1 .. Len(wire) : wire[i] \in Byte
      BY <1>0
    <3>2. \A i \in 1 .. Len(wire) : wire[i].body \in Nat
      BY <3>1 DEF Byte
    <3> QED BY <3>2 DEF IInv, InOrder
  <2>2. \A i, j \in 1 .. Len(wire) : i < j => wire[i].body <= wire[j].body
    BY DEF IInv, InOrder
  <2>3. ASSUME NEW i \in 1 .. Len(wire')
        PROVE  \/ i \in 1 .. Len(wire) /\ wire'[i] = wire[i]
               \/ i > Len(wire) /\ wire'[i].body = k
    <3>1. CASE i \in 1 .. Len(wire)
      BY <1>2, <3>1
    <3>2. CASE i \notin 1 .. Len(wire)
      <4>1. i - Len(wire) \in 1 .. sent /\ Len(wire) + (i - Len(wire)) = i /\ i > Len(wire)
        BY <1>0, <1>2, <3>2
      <4>2. wire'[i] = [body |-> k, pos |-> bodies'[k] - n + (i - Len(wire))]
        BY <1>2, <4>1
      <4> QED BY <4>1, <4>2
    <3> QED BY <3>1, <3>2
  <2>4. \A i \in 1 .. Len(wire') : wire'[i].body <= k /\ wire'[i].body \in Nat
    <3>1. k \in Nat /\ k <= k /\ \A x \in Nat : x <= Len(bodies) => x <= k
      BY <1>0
    <3> QED BY <2>1, <2>3, <3>1
  <2>5. ASSUME NEW i \in 1 .. Len(wire'), NEW j \in 1 .. Len(wire'), i < j
        PROVE  wire'[i].body <= wire'[j].body
    <3>1. CASE j \in 1 .. Len(wire)
      <4>1. i \in 1 .. Len(wire) /\ wire'[i] = wire[i] /\ wire'[j] = wire[j]
        BY <1>0, <1>2, <2>5, <3>1
      <4> QED BY <2>2, <2>5, <3>1, <4>1
    <3>2. CASE j \notin 1 .. Len(wire)
      BY <2>3, <2>4, <3>2
    <3> QED BY <3>1, <3>2
  <2> QED BY <2>4, <2>5 DEF InOrder
<1>8. Len(wire') + nleft' + refused = Len(wire) + n + refused'
  <2>1. Len(wire') = Len(wire) + sent
    BY <1>2
  <2>2. PICK w \in Nat : w = Len(wire)
    BY <1>0
  <2>3. nleft' \in Nat /\ refused \in Nat /\ refused' \in Nat /\ sent \in Nat
    BY <1>0, <1>1
  <2>4. (w + sent) + nleft' + refused = w + n + refused'
    <3>1. CASE sent = 0 /\ nleft' = n + 1 /\ refused' = refused + 1
      BY <2>3, <3>1
    <3>2. CASE nleft' = n - sent /\ refused' = refused
      <4>1. n = sent + nleft'
        BY <2>3, <3>2
      <4> QED BY <2>3, <3>2, <4>1
    <3> QED BY <1>3, <3>1, <3>2
  <2> QED BY <2>1, <2>2, <2>4
<1> QED BY <1>5, <1>6, <1>7, <1>8

\* The sums before and after a write of n bytes, m of them of a new chunk.
LEMMA Balance ==
  ASSUME NEW w \in Nat, NEW w1 \in Nat, NEW t \in Nat, NEW n \in Nat, NEW m \in Nat,
         nleft \in Nat, nleft' \in Nat, refused \in Nat, refused' \in Nat,
         w + nleft = t + refused, w1 + nleft' + refused = w + n + refused', n = nleft + m
  PROVE  w1 + nleft' = (m + t) + refused' /\ m + t \in Nat
OBVIOUS

\* The steps that neither make a body nor write.
Quiet == UNCHANGED <<nleft, bodies, wire, refused>>

LEMMA QuietKeeps ==
  ASSUME IInv, Quiet, RestOK'
  PROVE  RestOK' /\ SumOK' /\ NothingLost' /\ InOrder'
<1>1. nleft' = nleft /\ bodies' = bodies /\ wire' = wire /\ refused' = refused
  BY DEF Quiet
<1>2. SumOK'
  BY <1>1 DEF IInv, SumOK, Sums
<1>3. NothingLost'
  BY <1>1 DEF IInv, NothingLost, Due
<1>4. InOrder'
  BY <1>1 DEF IInv, InOrder
<1> QED BY <1>2, <1>3, <1>4

LEMMA PushFuncKeeps ==
  ASSUME IInv, PushFunc
  PROVE  RestOK' /\ SumOK' /\ NothingLost' /\ InOrder'
<1>1. PICK len \in BodyLen : \E sent \in 0 .. len :
        /\ len \in Nat \ {0}
        /\ bodies' \in Seq(BodyLen) /\ Len(bodies') = Len(bodies) + 1
        /\ bodies'[Len(bodies')] = len
        /\ \A k \in 1 .. Len(bodies) : bodies'[k] = bodies[k]
        /\ Wrote(Len(bodies'), len, sent)
  BY PushFuncEffect
<1>2. PICK sent \in 0 .. len : Wrote(Len(bodies'), len, sent)
  BY <1>1
<1>3. /\ len \in Nat \ {0}
      /\ bodies' \in Seq(BodyLen) /\ Len(bodies') = Len(bodies) + 1
      /\ bodies'[Len(bodies')] = len
      /\ \A k \in 1 .. Len(bodies) : bodies'[k] = bodies[k]
  BY <1>1
<1>4. nleft = 0 /\ bodies \in Seq(BodyLen) /\ Len(bodies) \in Nat
  BY PushFuncEffect DEF IInv, TypeOK
<1>5. \A j \in 1 .. Len(bodies') :
        \A p \in 1 .. bodies'[j] - (IF j = Len(bodies') THEN len ELSE 0) :
          \E i \in 1 .. Len(wire) : wire[i] = [body |-> j, pos |-> p]
  <2> SUFFICES ASSUME NEW j \in 1 .. Len(bodies'),
                      NEW p \in 1 .. bodies'[j] - (IF j = Len(bodies') THEN len ELSE 0)
               PROVE  \E i \in 1 .. Len(wire) : wire[i] = [body |-> j, pos |-> p]
    OBVIOUS
  <2>1. j \in 1 .. Len(bodies)
    BY <1>3, <1>4
  <2>2. j # Len(bodies')
    BY <1>3, <1>4, <2>1
  <2>3. bodies'[j] = bodies[j] /\ bodies[j] \in Nat
    <3>1. bodies[j] \in BodyLen
      BY <1>4, <2>1
    <3> QED BY <1>3, <2>1, <3>1, ConstantsAssumption
  <2>4. p \in Due(j)
    BY <1>4, <2>2, <2>3 DEF Due
  <2> QED BY <2>1, <2>4 DEF IInv, NothingLost
<1>6. Len(bodies') \in Nat \ {0} /\ Len(bodies) <= Len(bodies')
  BY <1>3, <1>4
<1>7. /\ RestOK' /\ NothingLost' /\ InOrder'
      /\ Len(wire') + nleft' + refused = Len(wire) + len + refused'
  BY <1>2, <1>3, <1>5, <1>6, WriteKeeps
<1>8. SumOK'
  <2>1. /\ \A f : Sums(f, bodies) => \E g : Sums(g, bodies')
        /\ \A g : Sums(g, bodies') =>
             \E f : Sums(f, bodies) /\ g[Len(bodies')] = len + f[Len(bodies)]
    BY <1>3, <1>4, SumsGrow
  <2>2. \E g : Sums(g, bodies')
    BY <2>1 DEF IInv, SumOK
  <2>3. ASSUME NEW g, Sums(g, bodies')
        PROVE  /\ g[Len(bodies')] \in Nat
               /\ Len(wire') + nleft' = g[Len(bodies')] + refused'
    <3>1. PICK f : Sums(f, bodies) /\ g[Len(bodies')] = len + f[Len(bodies)]
      BY <2>1, <2>3
    <3>2. f[Len(bodies)] \in Nat /\ Len(wire) + nleft = f[Len(bodies)] + refused
      BY <3>1 DEF IInv, SumOK
    <3>3. /\ refused \in Nat /\ Len(wire) \in Nat
          /\ refused' \in Nat /\ nleft' \in Nat /\ Len(wire') \in Nat
      BY <1>2, ConstantsAssumption DEF IInv, TypeOK, Wrote
    <3>4. len \in Nat /\ nleft \in Nat /\ len = nleft + len
      BY <1>3, <1>4
    <3>5. PICK w \in Nat, w1 \in Nat, t \in Nat :
            w = Len(wire) /\ w1 = Len(wire') /\ t = f[Len(bodies)]
      BY <3>2, <3>3
    <3>6. w + nleft = t + refused /\ w1 + nleft' + refused = w + len + refused'
      BY <1>7, <3>2, <3>5
    <3>7. nleft' \in Nat /\ refused \in Nat /\ refused' \in Nat
      BY <3>3
    <3>8. w1 + nleft' = (len + t) + refused' /\ len + t \in Nat
      BY <3>4, <3>6, <3>7, Balance
    <3> QED BY <3>1, <3>5, <3>8
  <2> QED BY <2>2, <2>3 DEF SumOK
<1> QED BY <1>7, <1>8

LEMMA RetryKeeps ==
  ASSUME IInv, Retry
  PROVE  RestOK' /\ SumOK' /\ NothingLost' /\ InOrder'
<1>1. /\ nleft \in Nat \ {0} /\ Len(bodies) > 0 /\ bodies' = bodies
      /\ \E sent \in 0 .. nleft : Wrote(Len(bodies), nleft, sent)
  BY RetryEffect
<1>2. PICK sent \in 0 .. nleft : Wrote(Len(bodies), nleft, sent)
  BY <1>1
<1>3. bodies \in Seq(BodyLen) /\ Len(bodies) \in Nat \ {0}
  BY <1>1 DEF IInv, TypeOK
<1>4. \A j \in 1 .. Len(bodies) :
        \A p \in 1 .. bodies'[j] - (IF j = Len(bodies) THEN nleft ELSE 0) :
          \E i \in 1 .. Len(wire) : wire[i] = [body |-> j, pos |-> p]
  BY <1>1 DEF IInv, NothingLost, Due
<1>5. bodies' \in Seq(BodyLen) /\ Len(bodies) = Len(bodies') /\ Len(bodies) <= Len(bodies)
  BY <1>1, <1>3
<1>6. /\ RestOK' /\ NothingLost' /\ InOrder'
      /\ Len(wire') + nleft' + refused = Len(wire) + nleft + refused'
  BY <1>1, <1>2, <1>3, <1>4, <1>5, WriteKeeps
<1>7. SumOK'
  <2>1. /\ refused \in Nat /\ Len(wire) \in Nat
        /\ refused' \in Nat /\ nleft' \in Nat /\ Len(wire') \in Nat
    BY <1>2, ConstantsAssumption DEF IInv, TypeOK, Wrote
  <2>2. \E f : Sums(f, bodies')
    BY <1>1 DEF IInv, SumOK
  <2>3. ASSUME NEW f, Sums(f, bodies')
        PROVE  /\ f[Len(bodies')] \in Nat
               /\ Len(wire') + nleft' = f[Len(bodies')] + refused'
    <3>1. Sums(f, bodies)
      BY <1>1, <2>3
    <3>2. f[Len(bodies)] \in Nat /\ Len(wire) + nleft = f[Len(bodies)] + refused
      BY <3>1 DEF IInv, SumOK
    <3>3. nleft \in Nat
      BY <1>1
    <3>4. PICK w \in Nat, w1 \in Nat, t \in Nat :
            w = Len(wire) /\ w1 = Len(wire') /\ t = f[Len(bodies)]
      BY <2>1, <3>2
    <3>5. w + nleft = t + refused /\ w1 + nleft' + refused = w + nleft + refused'
      BY <1>6, <3>2, <3>4
    <3>6. nleft' \in Nat /\ refused \in Nat /\ refused' \in Nat
      BY <2>1
    <3>7. w1 + nleft' = t + refused'
      BY <3>3, <3>5, <3>6
    <3> QED BY <1>1, <3>2, <3>4, <3>7
  <2> QED BY <2>2, <2>3 DEF SumOK
<1> QED BY <1>6, <1>7

LEMMA TypeStep ==
  ASSUME IInv, Next
  PROVE  TypeOK'
<1> USE DEF IInv, TypeOK
<1>1. CASE Push
  <2>1. header' \in 0 .. HeaderLen
    BY <1>1, ConstantsAssumption DEF Push
  <2> QED BY <1>1, <2>1 DEF Push
<1>2. CASE PushFunc
  <2>1. PICK len \in BodyLen : \E sent \in 0 .. len :
          bodies' \in Seq(BodyLen) /\ Wrote(Len(bodies'), len, sent)
    BY <1>2, PushFuncEffect
  <2>2. /\ pc' \in {"retry", "cond"} /\ nleft' \in 0 .. SizeT-1 /\ refused' \in 0 .. MaxRefused
        /\ wire' \in Seq([body : Nat \ {0}, pos : Int]) /\ bodies' \in Seq(BodyLen)
    BY <2>1 DEF Wrote, Byte
  <2> QED BY <1>2, <2>2 DEF PushFunc
<1>3. CASE Retry
  <2>1. PICK sent \in 0 .. nleft : bodies' = bodies /\ Wrote(Len(bodies), nleft, sent)
    BY <1>3, RetryEffect
  <2>2. /\ pc' \in {"retry", "cond"} /\ nleft' \in 0 .. SizeT-1 /\ refused' \in 0 .. MaxRefused
        /\ wire' \in Seq([body : Nat \ {0}, pos : Int]) /\ bodies' = bodies
    BY <2>1 DEF Wrote, Byte
  <2> QED BY <1>3, <2>2 DEF Retry, PushRetry
<1>4. CASE Signal \/ CondDone \/ PushFuncCloses \/ Finish \/ Stop \/ PeerLeaves
  BY <1>4 DEF Signal, CondDone, PushFuncCloses, Finish, Stop, PeerLeaves
<1> QED BY <1>1, <1>2, <1>3, <1>4 DEF Next

LEMMA QuietStep ==
  ASSUME IInv,
         Push \/ Signal \/ CondDone \/ PushFuncCloses \/ Finish \/ Stop \/ PeerLeaves
  PROVE  Quiet /\ RestOK'
<1> USE DEF IInv, RestOK, Quiet
<1>1. CASE Push
  BY <1>1 DEF Push
<1>2. CASE Signal
  BY <1>2 DEF Signal
<1>3. CASE CondDone
  BY <1>3 DEF CondDone
<1>4. CASE PushFuncCloses
  BY <1>4 DEF PushFuncCloses
<1>5. CASE Finish
  BY <1>5 DEF Finish
<1>6. CASE Stop
  BY <1>6 DEF Stop
<1>7. CASE PeerLeaves
  BY <1>7 DEF PeerLeaves
<1> QED BY <1>1, <1>2, <1>3, <1>4, <1>5, <1>6, <1>7

\* Push keeps the inductive invariant, whatever the socket takes of each write.
THEOREM Invariance == Spec => []IInv
<1>1. Init => IInv
  <2> SUFFICES ASSUME Init PROVE IInv
    OBVIOUS
  <2>1. TypeOK
    <3>1. 0 \in 0 .. SizeT-1 /\ 0 \in 0 .. HeaderLen /\ 0 \in 0 .. MaxRefused
      BY ConstantsAssumption
    <3>2. bodies \in Seq(BodyLen) /\ wire \in Seq([body : Nat \ {0}, pos : Int])
      BY DEF Init
    <3> QED BY <3>1, <3>2 DEF Init, TypeOK
  <2>2. RestOK
    BY DEF Init, RestOK
  <2>3. Len(bodies) = 0 /\ Len(wire) = 0 /\ nleft = 0 /\ refused = 0
    BY DEF Init
  <2>4. SumOK
    <3>1. \E f : Sums(f, bodies)
      <4> DEFINE f == [i \in 0 .. 0 |-> 0]
      <4>1. f = [i \in 0 .. 0 |-> IF i = 0 THEN 0 ELSE bodies[i] + f[i-1]]
        OBVIOUS
      <4> QED BY <2>3, <4>1 DEF Sums
    <3>2. \A f : Sums(f, bodies) => f[0] = 0
      BY <2>3 DEF Sums
    <3> QED BY <2>3, <3>1, <3>2 DEF SumOK
  <2>5. NothingLost /\ InOrder
    BY <2>3 DEF NothingLost, InOrder
  <2> QED BY <2>1, <2>2, <2>4, <2>5 DEF IInv
<1>2. IInv /\ [Next]_vars => IInv'
  <2> SUFFICES ASSUME IInv, [Next]_vars PROVE IInv'
    OBVIOUS
  <2>1. CASE UNCHANGED vars
    <3>1. Quiet /\ RestOK'
      BY <2>1 DEF vars, Quiet, IInv, RestOK
    <3>2. TypeOK'
      BY <2>1 DEF vars, IInv, TypeOK
    <3> QED BY <3>1, <3>2, QuietKeeps DEF IInv
  <2>2. CASE PushFunc
    BY <2>2, PushFuncKeeps, TypeStep DEF IInv, Next
  <2>3. CASE Retry
    BY <2>3, RetryKeeps, TypeStep DEF IInv, Next
  <2>4. CASE Push \/ Signal \/ CondDone \/ PushFuncCloses \/ Finish \/ Stop \/ PeerLeaves
    <3>1. Next
      BY <2>4 DEF Next
    <3>2. TypeOK'
      BY <3>1, TypeStep
    <3> QED BY <2>4, <3>2, QuietStep, QuietKeeps DEF IInv
  <2> QED BY <2>1, <2>2, <2>3, <2>4 DEF Next
<1> QED BY <1>1, <1>2, PTL DEF Spec

\* Every variable of a push stream always holds what the code can store in it.
THEOREM AlwaysTypeOK == Spec => []TypeOK
<1>1. IInv => TypeOK
  BY DEF IInv
<1> QED BY <1>1, Invariance, PTL

\* Each write that the socket refuses costs the stream exactly one byte too many,
\* because push_func and push_retry_callback subtract the -1 as a size_t.
THEOREM AlwaysRefusalCostsAByte == Spec => []RefusalCostsAByte
<1>1. IInv => RefusalCostsAByte
  <2> SUFFICES ASSUME IInv PROVE RefusalCostsAByte
    OBVIOUS
  <2>1. Sums(CHOOSE f : Sums(f, bodies), bodies)
    BY DEF IInv, SumOK
  <2>2. Total(Len(bodies)) = (CHOOSE f : Sums(f, bodies))[Len(bodies)]
    BY DEF Total, Sums
  <2> QED BY <2>1, <2>2 DEF IInv, SumOK, RefusalCostsAByte
<1> QED BY <1>1, Invariance, PTL

\* No byte of a chunk is lost: however the socket cuts and refuses the writes, the
\* bytes that push_retry_callback does not hold for a retry were sent.
THEOREM AlwaysNothingLost == Spec => []NothingLost
<1>1. IInv => NothingLost
  BY DEF IInv
<1> QED BY <1>1, Invariance, PTL

\* The chunks are on the wire one after the other, because push_func puts the
\* timer of the retry in front of the series and the next conditional at its end.
THEOREM AlwaysInOrder == Spec => []InOrder
<1>1. IInv => InOrder
  BY DEF IInv
<1> QED BY <1>1, Invariance, PTL

-----------------------------------------------------------------------------
(***************************************************************************)
(* Push implements ChunkStream.  What a client has is computed by a        *)
(* recursive function along the wire, which is dealt with by induction on  *)
(* the length of the wire.                                                 *)
(***************************************************************************)
\* What byte i of w adds to the bytes a client has.
Gain(w, i) == IF Fresh(w, i) THEN <<w[i]>> ELSE <<>>

\* f is the recursive function of FirstBytes, up to n.
Upto(f, w, n) == f = [i \in 0 .. n |-> IF i = 0 THEN <<>> ELSE f[i-1] \o Gain(w, i)]

\* w and v have the same first m bytes.
SameTo(w, v, m) == \A j \in 1 .. m : w[j] = v[j]

\* A byte is fresh by what comes before it.
LEMMA GainSame ==
  ASSUME NEW w, NEW v, NEW i \in Nat \ {0}, SameTo(w, v, i)
  PROVE  Gain(w, i) = Gain(v, i)
BY DEF Gain, Fresh, SameTo

LEMMA UptoAt ==
  ASSUME NEW w, NEW n \in Nat, NEW f, Upto(f, w, n)
  PROVE  /\ f[0] = <<>>
         /\ \A i \in 1 .. n : f[i] = f[i-1] \o Gain(w, i)
<1>1. f = [i \in 0 .. n |-> IF i = 0 THEN <<>> ELSE f[i-1] \o Gain(w, i)]
  BY DEF Upto
<1> HIDE DEF Upto
<1>2. \A i \in 0 .. n : f[i] = IF i = 0 THEN <<>> ELSE f[i-1] \o Gain(w, i)
  BY <1>1
<1>3. f[0] = <<>>
  BY <1>2
<1>4. ASSUME NEW i \in 1 .. n PROVE f[i] = f[i-1] \o Gain(w, i)
  <2>1. i \in 0 .. n /\ i # 0
    OBVIOUS
  <2> QED BY <1>2, <2>1
<1> QED BY <1>3, <1>4

\* The recursive function exists.
LEMMA UptoExists ==
  ASSUME NEW w, NEW n \in Nat
  PROVE  \E f : Upto(f, w, n)
<1> DEFINE S == {m \in Nat : \E f : Upto(f, w, m)}
<1>1. 0 \in S
  <2> DEFINE f == [i \in 0 .. 0 |-> <<>>]
  <2>1. Upto(f, w, 0)
    BY DEF Upto
  <2> QED BY <2>1
<1>2. ASSUME NEW m \in S PROVE m + 1 \in S
  <2>1. PICK f : Upto(f, w, m)
    OBVIOUS
  <2>2. f[0] = <<>> /\ \A i \in 1 .. m : f[i] = f[i-1] \o Gain(w, i)
    <3> HIDE DEF S
    <3>1. m \in Nat
      BY DEF S
    <3> QED BY <2>1, <3>1, UptoAt
  <2> DEFINE g == [i \in 0 .. m + 1 |-> IF i = m + 1 THEN f[m] \o Gain(w, m + 1) ELSE f[i]]
             h == [i \in 0 .. m + 1 |-> IF i = 0 THEN <<>> ELSE g[i-1] \o Gain(w, i)]
  <2>3. m \in Nat
    OBVIOUS
  <2>4. \A i \in 0 .. m : g[i] = f[i]
    BY <2>3
  <2>5. g[m + 1] = f[m] \o Gain(w, m + 1)
    OBVIOUS
  <2>6. ASSUME NEW i \in 0 .. m + 1
        PROVE  g[i] = IF i = 0 THEN <<>> ELSE g[i-1] \o Gain(w, i)
    <3> HIDE DEF g, S
    <3>1. CASE i = 0
      <4>1. f[0] = <<>> /\ 0 \in 0 .. m
        BY <2>3, <2>2
      <4> QED BY <2>4, <3>1, <4>1
    <3>2. CASE i \in 1 .. m
      <4>1. f[i] = f[i-1] \o Gain(w, i)
        BY <2>2, <3>2
      <4>2. g[i] = f[i] /\ g[i-1] = f[i-1]
        BY <2>3, <2>4, <3>2
      <4>3. i # 0
        BY <2>3, <3>2
      <4> QED BY <4>1, <4>2, <4>3
    <3>3. CASE i = m + 1
      <4>1. g[i-1] = f[m]
        BY <2>3, <2>4, <3>3
      <4>2. i # 0
        BY <2>3, <3>3
      <4> QED BY <2>5, <3>3, <4>1, <4>2
    <3> QED BY <2>3, <3>1, <3>2, <3>3
  <2>7. g = h
    BY <2>6
  <2>8. Upto(g, w, m + 1)
    BY <2>7 DEF Upto
  <2> QED BY <2>8
<1>3. S = Nat
  <2>1. S \in SUBSET Nat
    OBVIOUS
  <2> HIDE DEF S
  <2> QED BY <1>1, <1>2, <2>1, SetInduction
<1> QED BY <1>3

\* Two such functions agree as far as the bytes agree.
LEMMA UptoSame ==
  ASSUME NEW w, NEW v, NEW m \in Nat, NEW n \in Nat, m <= n, SameTo(w, v, m),
         NEW f, Upto(f, w, m), NEW g, Upto(g, v, n)
  PROVE  f[m] = g[m]
<1>1. f[0] = <<>> /\ \A i \in 1 .. m : f[i] = f[i-1] \o Gain(w, i)
  BY UptoAt
<1>2. g[0] = <<>> /\ \A i \in 1 .. n : g[i] = g[i-1] \o Gain(v, i)
  BY UptoAt
<1> DEFINE S == {i \in Nat : i <= m => f[i] = g[i]}
<1>3. 0 \in S
  BY <1>1, <1>2
<1>4. ASSUME NEW i \in S PROVE i + 1 \in S
  <2> SUFFICES ASSUME i + 1 <= m PROVE f[i+1] = g[i+1]
    OBVIOUS
  <2>1. f[i] = g[i]
    OBVIOUS
  <2>2. i \in Nat /\ i + 1 \in 1 .. m /\ i + 1 \in 1 .. n /\ (i + 1) - 1 = i
    OBVIOUS
  <2>3. f[i+1] = f[i] \o Gain(w, i+1) /\ g[i+1] = g[i] \o Gain(v, i+1)
    BY <1>1, <1>2, <2>2
  <2>4. Gain(w, i+1) = Gain(v, i+1)
    <3>1. SameTo(w, v, i+1)
      BY <2>2 DEF SameTo
    <3>2. i+1 \in Nat \ {0}
      BY <2>2
    <3> QED BY <3>1, <3>2, GainSame
  <2> QED BY <2>1, <2>3, <2>4
<1>5. S = Nat
  <2>1. S \in SUBSET Nat
    OBVIOUS
  <2> HIDE DEF S
  <2> QED BY <1>3, <1>4, <2>1, SetInduction
<1> QED BY <1>5

LEMMA FirstBytesIs ==
  ASSUME NEW w \in Seq(Byte)
  PROVE  \E f : Upto(f, w, Len(w)) /\ FirstBytes(w) = f[Len(w)]
<1> DEFINE f == CHOOSE g : Upto(g, w, Len(w))
<1>1. Len(w) \in Nat
  OBVIOUS
<1>2. Upto(f, w, Len(w))
  BY <1>1, UptoExists
<1>3. FirstBytes(w) = f[Len(w)]
  BY DEF FirstBytes, Upto, Gain
<1> QED BY <1>2, <1>3

-----------------------------------------------------------------------------
(***************************************************************************)
(* One write.                                                              *)
(***************************************************************************)

\* Of body k exactly the first h bytes are in w.
Reached(w, k, h) ==
  \A p \in Nat \ {0} : (\E j \in 1 .. Len(w) : w[j] = [body |-> k, pos |-> p]) <=> p <= h

\* The bytes h+1 .. g of body k, as ChunkStream has them.
Piece(k, h, g) == [i \in 1 .. g - h |-> [body |-> k, pos |-> h + i]]

\* v is w and s bytes of body k more, those from position a+1 on.
Block(w, v, k, a, s) ==
  /\ w \in Seq(Byte) /\ v \in Seq(Byte) /\ Len(v) = Len(w) + s
  /\ \A j \in 1 .. Len(w) : v[j] = w[j]
  /\ \A j \in 1 .. s : v[Len(w) + j] = [body |-> k, pos |-> a + j]

Higher(h, x) == IF x > h THEN x ELSE h

\* Of the bytes of a write those beyond the highest one sent before are new.
LEMMA BlockFresh ==
  ASSUME NEW k \in Nat \ {0}, NEW h \in Nat, NEW a \in Int, NEW s \in Nat, a <= h,
         NEW w, NEW v, Block(w, v, k, a, s), Reached(w, k, h), NEW i \in 1 .. s
  PROVE  Fresh(v, Len(w) + i) <=> a + i > h
<1> DEFINE L == Len(w)
<1>0. L \in Nat
  BY DEF Block
<1>1. v[L + i] = [body |-> k, pos |-> a + i]
  BY DEF Block
<1>2. \A j \in 1 .. L : v[j] = w[j]
  BY DEF Block
<1>3. \A j \in 1 .. s : v[L + j] = [body |-> k, pos |-> a + j]
  BY DEF Block
<1> HIDE DEF L
<1>4. ASSUME a + i > h PROVE Fresh(v, L + i)
  <2>1. a + i \in Nat \ {0}
    BY <1>4
  <2>2. ASSUME NEW j \in 1 .. L PROVE v[j] # v[L + i]
    <3>1. w[j] # [body |-> k, pos |-> a + i]
      BY <1>4, <2>1 DEF Reached, L
    <3> QED BY <1>1, <1>2, <3>1
  <2>3. ASSUME NEW j \in 1 .. s, j < i PROVE v[L + j] # v[L + i]
    <3>1. a + j # a + i
      BY <2>3
    <3>2. v[L + j] = [body |-> k, pos |-> a + j]
      BY <1>3
    <3> QED BY <1>1, <3>1, <3>2
  <2>4. ASSUME NEW j \in 1 .. (L + i) - 1 PROVE v[j] # v[L + i]
    <3>1. CASE j \in 1 .. L
      BY <2>2, <3>1
    <3>2. CASE j \notin 1 .. L
      <4>1. j - L \in 1 .. s /\ j - L < i /\ L + (j - L) = j
        BY <1>0, <3>2
      <4> QED BY <2>3, <4>1
    <3> QED BY <3>1, <3>2
  <2>5. v[L + i].pos > 0
    BY <1>1, <2>1
  <2> QED BY <2>4, <2>5 DEF Fresh
<1>5. ASSUME ~ (a + i > h), Fresh(v, L + i) PROVE FALSE
  <2>1. a + i \in Nat \ {0} /\ a + i <= h
    BY <1>1, <1>5 DEF Fresh
  <2>2. PICK j \in 1 .. L : w[j] = [body |-> k, pos |-> a + i]
    BY <2>1 DEF Reached, L
  <2>3. j \in 1 .. (L + i) - 1
    BY <1>0
  <2> QED BY <1>1, <1>2, <1>5, <2>2, <2>3 DEF Fresh
<1> QED BY <1>4, <1>5 DEF L

\* After the write the body has been reached up to the end of it.
LEMMA BlockReaches ==
  ASSUME NEW k \in Nat \ {0}, NEW h \in Nat, NEW a \in Int, NEW s \in Nat, a <= h,
         NEW w, NEW v, Block(w, v, k, a, s), Reached(w, k, h)
  PROVE  Reached(v, k, Higher(h, a + s))
<1> DEFINE L == Len(w)
<1>0. L \in Nat /\ Len(v) = L + s
  BY DEF Block
<1>2. \A j \in 1 .. L : v[j] = w[j]
  BY DEF Block
<1>3. \A j \in 1 .. s : v[L + j] = [body |-> k, pos |-> a + j]
  BY DEF Block
<1> SUFFICES ASSUME NEW p \in Nat \ {0}
             PROVE  (\E j \in 1 .. Len(v) : v[j] = [body |-> k, pos |-> p])
                      <=> p <= Higher(h, a + s)
  BY DEF Reached
<1>4. (\E j \in 1 .. L : w[j] = [body |-> k, pos |-> p]) <=> p <= h
  BY DEF Reached
<1> HIDE DEF L
<1>5. ASSUME NEW j \in 1 .. Len(v), v[j] = [body |-> k, pos |-> p]
      PROVE  p <= Higher(h, a + s)
  <2>1. CASE j \in 1 .. L
    BY <1>2, <1>4, <1>5, <2>1 DEF Higher
  <2>2. CASE j \notin 1 .. L
    <3>1. j - L \in 1 .. s /\ L + (j - L) = j
      BY <1>0, <2>2
    <3>2. v[j] = [body |-> k, pos |-> a + (j - L)]
      BY <1>3, <3>1
    <3>3. p = a + (j - L)
      BY <1>5, <3>2
    <3> QED BY <3>1, <3>3 DEF Higher
  <2> QED BY <2>1, <2>2
<1>6. ASSUME p <= Higher(h, a + s)
      PROVE  \E j \in 1 .. Len(v) : v[j] = [body |-> k, pos |-> p]
  <2>1. CASE p <= h
    <3>1. PICK j \in 1 .. L : w[j] = [body |-> k, pos |-> p]
      BY <1>4, <2>1
    <3>2. j \in 1 .. Len(v) /\ v[j] = w[j]
      BY <1>0, <1>2
    <3> QED BY <3>1, <3>2
  <2>2. CASE ~ (p <= h)
    <3>1. p - a \in 1 .. s /\ a + (p - a) = p
      BY <1>6, <2>2 DEF Higher
    <3>2. v[L + (p - a)] = [body |-> k, pos |-> p]
      BY <1>3, <3>1
    <3>3. L + (p - a) \in 1 .. Len(v)
      BY <1>0, <3>1
    <3> QED BY <3>2, <3>3
  <2> QED BY <2>1, <2>2
<1> QED BY <1>5, <1>6

\* One byte more.
LEMMA PieceGrows ==
  ASSUME NEW k \in Nat \ {0}, NEW h \in Nat, NEW g \in Nat, h <= g,
         NEW f \in Seq(Byte)
  PROVE  (f \o Piece(k, h, g)) \o <<[body |-> k, pos |-> g + 1]>> = f \o Piece(k, h, g + 1)
<1> DEFINE b == [body |-> k, pos |-> g + 1]
<1>1. Piece(k, h, g) \in Seq(Byte) /\ Len(Piece(k, h, g)) = g - h /\ b \in Byte
  <2>1. \A i \in 1 .. g - h : [body |-> k, pos |-> h + i] \in Byte
    BY DEF Byte
  <2>2. g - h \in Nat /\ b \in Byte
    BY DEF Byte
  <2>3. Piece(k, h, g) \in Seq(Byte) /\ Len(Piece(k, h, g)) = g - h
    <3> HIDE DEF b
    <3> QED BY <2>1, <2>2 DEF Piece
  <2> QED BY <2>2, <2>3
<1>2. Piece(k, h, g + 1) \in Seq(Byte) /\ Len(Piece(k, h, g + 1)) = (g - h) + 1
  <2>1. \A i \in 1 .. (g + 1) - h : [body |-> k, pos |-> h + i] \in Byte
    BY DEF Byte
  <2>2. (g + 1) - h \in Nat /\ (g + 1) - h = (g - h) + 1
    OBVIOUS
  <2> QED BY <2>1, <2>2 DEF Piece
<1>3. \A i \in 1 .. g - h : Piece(k, h, g + 1)[i] = Piece(k, h, g)[i]
  BY DEF Piece
<1>4. Piece(k, h, g + 1)[(g - h) + 1] = b
  BY DEF Piece
<1> HIDE DEF b
<1>5. Piece(k, h, g + 1) = Append(Piece(k, h, g), b)
  BY <1>1, <1>2, <1>3, <1>4
<1>6. (f \o Piece(k, h, g)) \o <<b>> = f \o Append(Piece(k, h, g), b)
  <2> DEFINE p == Piece(k, h, g)
  <2>1. p \in Seq(Byte) /\ b \in Byte /\ <<b>> \in Seq(Byte)
    BY <1>1
  <2> HIDE DEF p
  <2>2. Append(p, b) = p \o <<b>>
    BY <2>1
  <2>3. (f \o p) \o <<b>> = f \o (p \o <<b>>)
    BY <2>1, ConcatAssociative
  <2> QED BY <2>2, <2>3 DEF p
<1> QED BY <1>5, <1>6 DEF b

\* What the client has after the write.
LEMMA BlockArrives ==
  ASSUME NEW k \in Nat \ {0}, NEW h \in Nat, NEW a \in Int, NEW s \in Nat, a <= h,
         NEW w, NEW v, Block(w, v, k, a, s), Reached(w, k, h),
         FirstBytes(w) \in Seq(Byte)
  PROVE  FirstBytes(v) = FirstBytes(w) \o Piece(k, h, Higher(h, a + s))
<1> DEFINE L == Len(w)
           F == FirstBytes(w)
<1>1. w \in Seq(Byte) /\ v \in Seq(Byte) /\ L \in Nat /\ Len(v) = L + s
  BY DEF Block
<1>2. PICK f : Upto(f, w, L) /\ F = f[L]
  BY <1>1, FirstBytesIs
<1>3. PICK g : Upto(g, v, L + s) /\ FirstBytes(v) = g[L + s]
  BY <1>1, FirstBytesIs
<1>4. g[L] = F
  <2>1. SameTo(w, v, L)
    BY DEF Block, SameTo
  <2> DEFINE n == L + s
  <2>2. L \in Nat /\ n \in Nat /\ L <= n
    BY <1>1
  <2>3. Upto(f, w, L) /\ Upto(g, v, n)
    BY <1>2, <1>3
  <2> HIDE DEF L, n
  <2>4. f[L] = g[L]
    BY <2>1, <2>2, <2>3, UptoSame
  <2> QED BY <1>2, <2>4
<1>5. \A i \in 1 .. s : g[L + i] = g[L + (i - 1)] \o Gain(v, L + i)
  <2>1. L + s \in Nat
    BY <1>1
  <2>2. \A i \in 1 .. L + s : g[i] = g[i-1] \o Gain(v, i)
    BY <1>3, <2>1, UptoAt
  <2>3. \A i \in 1 .. s : L + i \in 1 .. L + s /\ (L + i) - 1 = L + (i - 1)
    BY <1>1
  <2> QED BY <2>2, <2>3
<1>6. \A i \in 1 .. s : v[L + i] = [body |-> k, pos |-> a + i]
  BY DEF Block
<1>7. \A i \in 1 .. s : Gain(v, L + i) =
        IF a + i > h THEN <<[body |-> k, pos |-> a + i]>> ELSE <<>>
  <2>1. \A i \in 1 .. s : Fresh(v, L + i) <=> a + i > h
    BY BlockFresh
  <2> QED BY <1>6, <2>1 DEF Gain
<1> HIDE DEF L, F
<1> DEFINE S == {i \in Nat : i <= s => g[L + i] = F \o Piece(k, h, Higher(h, a + i))}
<1>8. 0 \in S
  <2>1. Higher(h, a + 0) = h
    BY DEF Higher
  <2>2. Piece(k, h, h) = <<>>
    BY DEF Piece
  <2>3. L + 0 = L
    BY <1>1
  <2>4. F \o <<>> = F
    BY DEF F
  <2> QED BY <1>4, <2>1, <2>2, <2>3, <2>4
<1>9. ASSUME NEW i \in S PROVE i + 1 \in S
  <2> SUFFICES ASSUME i + 1 <= s
               PROVE  g[L + (i + 1)] = F \o Piece(k, h, Higher(h, a + (i + 1)))
    OBVIOUS
  <2>1. i \in Nat /\ i + 1 \in 1 .. s /\ (i + 1) - 1 = i
    OBVIOUS
  <2>2. g[L + i] = F \o Piece(k, h, Higher(h, a + i))
    OBVIOUS
  <2> HIDE DEF S
  <2>3. g[L + (i + 1)] = g[L + i] \o Gain(v, L + (i + 1))
    BY <1>5, <2>1
  <2>4. CASE a + (i + 1) > h
    <3> DEFINE y == a + i
    <3>1. y \in Nat /\ h <= y /\ Higher(h, a + i) = y /\ Higher(h, a + (i + 1)) = y + 1
      BY <2>1, <2>4 DEF Higher
    <3>2. Gain(v, L + (i + 1)) = <<[body |-> k, pos |-> a + (i + 1)]>>
      BY <1>7, <2>1, <2>4
    <3>3. a + (i + 1) = y + 1
      BY <2>1
    <3> HIDE DEF y
    <3>4. F \in Seq(Byte)
      BY DEF F
    <3>5. (F \o Piece(k, h, y)) \o <<[body |-> k, pos |-> y + 1]>> = F \o Piece(k, h, y + 1)
      BY <3>1, <3>4, PieceGrows, SMTT(20)
    <3> QED BY <2>2, <2>3, <3>1, <3>2, <3>3, <3>5
  <2>5. CASE ~ (a + (i + 1) > h)
    <3>1. Higher(h, a + i) = h /\ Higher(h, a + (i + 1)) = h
      BY <2>1, <2>5 DEF Higher
    <3>2. Gain(v, L + (i + 1)) = <<>>
      BY <1>7, <2>1, <2>5
    <3>3. Piece(k, h, h) = <<>>
      BY DEF Piece
    <3>4. (F \o <<>>) \o <<>> = F \o <<>>
      BY DEF F
    <3> QED BY <2>2, <2>3, <3>1, <3>2, <3>3, <3>4
  <2> QED BY <2>4, <2>5
<1>10. S = Nat
  <2>1. S \in SUBSET Nat
    OBVIOUS
  <2> HIDE DEF S
  <2> QED BY <1>8, <1>9, <2>1, SetInduction
<1>11. s \in S
  BY <1>10
<1>12. g[L + s] = F \o Piece(k, h, Higher(h, a + s))
  BY <1>11
<1> QED BY <1>3, <1>12 DEF F

-----------------------------------------------------------------------------
(***************************************************************************)
(* The refinement.                                                         *)
(***************************************************************************)

\* Of the last body a part from the beginning on has been sent, with no hole in
\* it, whatever was sent again: what a retry writes starts in that part.
NoHole ==
  Len(bodies) > 0 =>
    \E h \in 0 .. bodies[Len(bodies)] : Reached(wire, Len(bodies), h)

Arrivals == NoHole /\ Arrived \in Seq(Byte)

RInv == IInv /\ Arrivals

LEMMA LengthOf ==
  ASSUME NEW b \in Seq(BodyLen), NEW k \in 1 .. Len(b)
  PROVE  b[k] \in Nat
<1>1. b[k] \in BodyLen
  OBVIOUS
<1> QED BY <1>1, ConstantsAssumption

\* Outstanding, for any bodies and any wire.
Missing(b, w) ==
  LET k == Len(b)
  IN  IF k = 0 THEN 0
      ELSE Cardinality({p \in 1 .. b[k] :
                          ~ \E i \in 1 .. Len(w) : w[i] = [body |-> k, pos |-> p]})

LEMMA MissingIs ==
  ASSUME NEW b \in Seq(BodyLen), NEW w, Len(b) > 0, NEW h \in 0 .. b[Len(b)],
         b[Len(b)] \in Nat, Reached(w, Len(b), h)
  PROVE  Missing(b, w) = b[Len(b)] - h
<1> DEFINE k == Len(b)
           n == b[k]
           P == {p \in 1 .. n : ~ \E i \in 1 .. Len(w) : w[i] = [body |-> k, pos |-> p]}
<1>1. \A p \in Nat \ {0} : (\E j \in 1 .. Len(w) : w[j] = [body |-> k, pos |-> p]) <=> p <= h
  BY DEF Reached
<1>2. n \in Nat /\ h \in Nat /\ h <= n
  OBVIOUS
<1>3. Missing(b, w) = Cardinality(P)
  BY DEF Missing
<1> HIDE DEF k, n
<1>4. P = h + 1 .. n
  BY <1>1, <1>2
<1>5. Cardinality(h + 1 .. n) = n - h
  <2>1. h + 1 \in Int /\ n \in Int
    BY <1>2
  <2>2. Cardinality(h + 1 .. n) = IF h + 1 > n THEN 0 ELSE n - (h + 1) + 1
    BY <2>1, FS_Interval
  <2> QED BY <1>2, <2>2
<1> QED BY <1>3, <1>4, <1>5 DEF n, k

\* When no retry is pending, nothing is outstanding.
LEMMA NothingMissing ==
  ASSUME IInv, nleft = 0
  PROVE  Outstanding = 0
<1> DEFINE k == Len(bodies)
           P == {p \in 1 .. bodies[k] : ~Sent(k, p)}
<1>1. bodies \in Seq(BodyLen) /\ k \in Nat
  BY DEF IInv, TypeOK
<1>2. ASSUME k # 0 PROVE P = {}
  <2>1. k \in 1 .. Len(bodies)
    BY <1>1, <1>2
  <2>2. bodies[k] \in Nat
    BY <1>1, <2>1, LengthOf
  <2>3. Due(k) = 1 .. bodies[k]
    BY <2>2 DEF Due
  <2>4. \A p \in 1 .. bodies[k] : Sent(k, p)
    BY <2>1, <2>3 DEF IInv, NothingLost, Sent
  <2> QED BY <2>4
<1>3. Cardinality({}) = 0
  BY FS_EmptySet
<1> QED BY <1>2, <1>3 DEF Outstanding

\* A write of the last n bytes of chunk k, of which the first h bytes were sent.
LEMMA WriteArrives ==
  ASSUME RInv, NEW k \in Nat \ {0}, bodies' \in Seq(BodyLen), k = Len(bodies'),
         NEW n \in Nat \ {0}, NEW sent \in 0 .. n, NEW h \in 0 .. bodies'[k],
         Reached(wire, k, h), bodies'[k] - n <= h, Wrote(k, n, sent)
  PROVE  \E g \in h .. bodies'[k] :
           /\ Reached(wire', k, g)
           /\ Arrived' = Arrived \o Piece(k, h, g)
           /\ Arrived' \in Seq(Byte)
           /\ Outstanding' = bodies'[k] - g
<1> DEFINE a == bodies'[k] - n
           g == Higher(h, a + sent)
<1>1. bodies'[k] \in Nat
  <2>1. k \in 1 .. Len(bodies')
    OBVIOUS
  <2> QED BY <2>1, LengthOf
<1>2. a \in Int /\ h \in Nat /\ sent \in Nat /\ a <= h
  BY <1>1
<1>3. g \in h .. bodies'[k]
  BY <1>1 DEF Higher
<1>4. Block(wire, wire', k, a, sent)
  <2>1. wire \in Seq(Byte)
    BY DEF RInv, IInv, TypeOK, Byte
  <2> QED BY <2>1 DEF Wrote, Block
<1>5. FirstBytes(wire) \in Seq(Byte)
  BY DEF RInv, Arrivals, Arrived
<1> HIDE DEF a
<1>6. Reached(wire', k, g)
  BY <1>2, <1>4, BlockReaches
<1>7. Arrived' = Arrived \o Piece(k, h, g)
  <2>1. FirstBytes(wire') = FirstBytes(wire) \o Piece(k, h, g)
    BY <1>2, <1>4, <1>5, BlockArrives, SMTT(20)
  <2> QED BY <2>1 DEF Arrived
<1> HIDE DEF g
<1>8. Arrived' \in Seq(Byte)
  <2>1. g - h \in Nat /\ \A i \in 1 .. g - h : [body |-> k, pos |-> h + i] \in Byte
    BY <1>2, <1>3 DEF Byte
  <2>2. Piece(k, h, g) \in Seq(Byte)
    BY <2>1 DEF Piece
  <2> QED BY <1>5, <1>7, <2>2 DEF Arrived
<1>9. Outstanding' = bodies'[k] - g
  <2>1. Outstanding' = Missing(bodies', wire')
    BY DEF Outstanding, Missing, Sent
  <2>2. Len(bodies') > 0 /\ g \in 0 .. bodies'[Len(bodies')] /\ bodies'[Len(bodies')] \in Nat
    BY <1>1, <1>2, <1>3
  <2>3. Reached(wire', Len(bodies'), g)
    BY <1>6
  <2> QED BY <2>1, <2>2, <2>3, MissingIs
<1> QED BY <1>3, <1>6, <1>7, <1>8, <1>9

\* push_func makes a body, and its first bytes arrive.
LEMMA PushFuncRefines ==
  ASSUME RInv, PushFunc
  PROVE  Stream!Next /\ Arrivals'
<1>1. PICK len \in BodyLen : \E sent \in 0 .. len :
        /\ len \in Nat \ {0}
        /\ bodies' = Append(bodies, len)
        /\ bodies' \in Seq(BodyLen) /\ Len(bodies') = Len(bodies) + 1
        /\ bodies'[Len(bodies')] = len
        /\ Wrote(Len(bodies'), len, sent)
  <2>1. PICK len \in BodyLen : bodies' = Append(bodies, len)
    BY DEF PushFunc
  <2>2. PICK l \in BodyLen : \E sent \in 0 .. l :
          /\ l \in Nat \ {0}
          /\ bodies' \in Seq(BodyLen) /\ Len(bodies') = Len(bodies) + 1
          /\ bodies'[Len(bodies')] = l
          /\ Wrote(Len(bodies'), l, sent)
    BY PushFuncEffect DEF RInv
  <2>3. bodies \in Seq(BodyLen)
    BY DEF RInv, IInv, TypeOK
  <2>4. bodies'[Len(bodies')] = len
    BY <2>1, <2>2, <2>3
  <2> QED BY <2>1, <2>2, <2>4
<1>2. PICK sent \in 0 .. len : Wrote(Len(bodies'), len, sent)
  BY <1>1
<1> DEFINE k == Len(bodies')
<1>3. k \in Nat \ {0} /\ k = Len(bodies) + 1 /\ len \in Nat \ {0} /\ bodies'[k] = len
  <2>1. Len(bodies) \in Nat
    BY DEF RInv, IInv, TypeOK
  <2> QED BY <1>1, <2>1
<1>4. Reached(wire, k, 0)
  <2>1. \A i \in 1 .. Len(wire) : wire[i].body <= Len(bodies)
    BY DEF RInv, IInv, InOrder
  <2>2. Len(bodies) \in Nat
    BY DEF RInv, IInv, TypeOK
  <2>3. \A i \in 1 .. Len(wire) : wire[i].body # k
    BY <1>3, <2>1, <2>2
  <2>4. ASSUME NEW i \in 1 .. Len(wire), NEW p \in Nat, wire[i] = [body |-> k, pos |-> p]
        PROVE  FALSE
    <3>1. wire[i].body = k
      BY <2>4
    <3> QED BY <2>3, <3>1
  <2>5. ASSUME NEW p \in Nat \ {0}
        PROVE  (\E i \in 1 .. Len(wire) : wire[i] = [body |-> k, pos |-> p]) <=> p <= 0
    BY <2>4
  <2> QED BY <2>5 DEF Reached
<1> HIDE DEF k
<1>5. PICK g \in 0 .. len :
        /\ Reached(wire', k, g)
        /\ Arrived' = Arrived \o Piece(k, 0, g)
        /\ Arrived' \in Seq(Byte)
        /\ Outstanding' = len - g
  <2>1. 0 \in 0 .. bodies'[k] /\ bodies'[k] - len <= 0
    BY <1>3
  <2>2. bodies' \in Seq(BodyLen) /\ k = Len(bodies') /\ Wrote(k, len, sent)
    BY <1>1, <1>2 DEF k
  <2>3. \E g \in 0 .. bodies'[k] :
          /\ Reached(wire', k, g)
          /\ Arrived' = Arrived \o Piece(k, 0, g)
          /\ Arrived' \in Seq(Byte)
          /\ Outstanding' = bodies'[k] - g
    BY <1>3, <1>4, <2>1, <2>2, WriteArrives
  <2> QED BY <1>3, <2>3
<1>6. NoHole'
  BY <1>3, <1>5 DEF NoHole, k
<1>7. Stream!Make(len)
  <2>1. nleft = 0 /\ pc = "push"
    BY PushFuncEffect DEF RInv, PushFunc
  <2>2. Outstanding = 0
    BY <2>1, NothingMissing DEF RInv
  <2>3. (pc # "ended") /\ (pc' # "ended")
    BY <1>2, <2>1 DEF Wrote
  <2>4. Outstanding' \in 0 .. len /\ len - Outstanding' = g
    BY <1>3, <1>5
  <2>5. Arrived' = Arrived \o Stream!Bytes(Len(bodies'), 0, len - Outstanding')
    BY <1>5, <2>4 DEF Piece, Stream!Bytes, k
  <2> QED BY <1>1, <2>2, <2>3, <2>4, <2>5 DEF Stream!Make
<1> QED BY <1>5, <1>6, <1>7 DEF Stream!Next, Arrivals

\* push_retry_callback: more of the last body arrives, or only bytes that were
\* sent before.
LEMMA RetryRefines ==
  ASSUME RInv, Retry
  PROVE  [Stream!Next]_(Stream!vars) /\ Arrivals'
<1> DEFINE k == Len(bodies)
           n == bodies[k]
<1>1. nleft \in Nat \ {0} /\ k > 0 /\ bodies' = bodies
  BY RetryEffect DEF RInv
<1>2. PICK sent \in 0 .. nleft : Wrote(k, nleft, sent)
  BY RetryEffect DEF RInv
<1>3. bodies \in Seq(BodyLen) /\ k \in Nat \ {0} /\ n \in Nat
  <2>1. bodies \in Seq(BodyLen) /\ k \in 1 .. Len(bodies)
    BY <1>1 DEF RInv, IInv, TypeOK
  <2>2. n \in Nat
    BY <2>1, LengthOf
  <2> QED BY <2>1, <2>2
<1>4. PICK h \in 0 .. n : Reached(wire, k, h)
  BY <1>1 DEF RInv, Arrivals, NoHole
<1> HIDE DEF k, n
<1>5. n - nleft <= h
  <2> SUFFICES ASSUME n - nleft > 0 PROVE n - nleft <= h
    BY <1>1, <1>3
  <2>1. n - nleft \in Nat \ {0}
    BY <1>1, <1>3
  <2>2. n - nleft \in Due(k) /\ k \in 1 .. Len(bodies)
    BY <1>3, <2>1 DEF Due, k, n
  <2>3. \E i \in 1 .. Len(wire) : wire[i] = [body |-> k, pos |-> n - nleft]
    BY <2>2 DEF RInv, IInv, NothingLost
  <2> QED BY <1>4, <2>1, <2>3 DEF Reached
<1>6. PICK g \in h .. n :
        /\ Reached(wire', k, g)
        /\ Arrived' = Arrived \o Piece(k, h, g)
        /\ Arrived' \in Seq(Byte)
        /\ Outstanding' = n - g
  <2>1. bodies' \in Seq(BodyLen) /\ k = Len(bodies') /\ bodies'[k] = n
    BY <1>1, <1>3 DEF k, n
  <2>2. h \in 0 .. bodies'[k] /\ bodies'[k] - nleft <= h
    BY <1>4, <1>5, <2>1
  <2>3. \E g \in h .. bodies'[k] :
          /\ Reached(wire', k, g)
          /\ Arrived' = Arrived \o Piece(k, h, g)
          /\ Arrived' \in Seq(Byte)
          /\ Outstanding' = bodies'[k] - g
    <3>1. PICK m \in Nat \ {0} : m = nleft
      BY <1>1
    <3>2. sent \in 0 .. m /\ Wrote(k, m, sent) /\ bodies'[k] - m <= h
      BY <1>2, <2>2, <3>1
    <3> QED BY <1>3, <1>4, <2>1, <2>2, <3>2, WriteArrives
  <2> QED BY <2>1, <2>3
<1>7. NoHole'
  <2>1. g \in 0 .. n
    BY <1>3, <1>4, <1>6
  <2> QED BY <1>1, <1>6, <2>1 DEF NoHole, k, n
<1>8. Outstanding = n - h
  <2>1. Outstanding = Missing(bodies, wire)
    BY DEF Outstanding, Missing, Sent
  <2>2. Missing(bodies, wire) = n - h
    BY <1>1, <1>3, <1>4, MissingIs DEF k, n
  <2> QED BY <2>1, <2>2
<1>9. (pc # "ended") /\ (pc' # "ended")
  BY <1>2 DEF Wrote, Retry, PushRetry
<1>10. CASE g = h
  <2>1. Piece(k, h, g) = <<>>
    BY <1>4, <1>10 DEF Piece
  <2>2. Arrived' = Arrived
    BY <1>6, <2>1 DEF RInv, Arrivals
  <2>3. Outstanding' = Outstanding
    BY <1>6, <1>8, <1>10
  <2> QED BY <1>1, <1>6, <1>7, <1>9, <2>2, <2>3 DEF Stream!vars, Arrivals
<1>11. CASE g # h
  <2>1. Outstanding' \in 0 .. Outstanding - 1
    BY <1>3, <1>4, <1>6, <1>8, <1>11
  <2>2. n - Outstanding = h /\ n - Outstanding' = g
    BY <1>3, <1>4, <1>6, <1>8
  <2>3. Arrived' = Arrived \o Stream!Bytes(k, n - Outstanding, n - Outstanding')
    BY <1>6, <2>2 DEF Piece, Stream!Bytes
  <2>4. Stream!Arrive
    BY <1>1, <1>9, <2>1, <2>3 DEF Stream!Arrive, k, n
  <2> QED BY <1>6, <1>7, <2>4 DEF Stream!Next, Arrivals
<1> QED BY <1>10, <1>11

\* The other steps leave the stream alone, but for the last task of the series,
\* which closes it.
LEMMA OthersRefine ==
  ASSUME RInv,
         \/ Push \/ Signal \/ CondDone \/ PushFuncCloses \/ Finish \/ Stop \/ PeerLeaves
         \/ UNCHANGED vars
  PROVE  [Stream!Next]_(Stream!vars) /\ Arrivals'
<1>1. bodies' = bodies /\ wire' = wire
  BY QuietStep DEF RInv, Quiet, vars
<1>2. NoHole' /\ Arrived' = Arrived /\ Arrived' \in Seq(Byte) /\ Outstanding' = Outstanding
  <2>1. Arrived' = Arrived
    BY <1>1 DEF Arrived
  <2>2. NoHole'
    BY <1>1 DEF RInv, Arrivals, NoHole
  <2>3. Outstanding' = Outstanding
    BY <1>1 DEF Outstanding, Sent
  <2> QED BY <2>1, <2>2, <2>3 DEF RInv, Arrivals
<1>3. CASE Finish
  <2>1. pc = "reply" /\ pc' = "ended"
    BY <1>3 DEF Finish
  <2>2. Outstanding = 0
    <3>1. nleft = 0
      BY <2>1 DEF RInv, IInv, RestOK
    <3> QED BY <3>1, NothingMissing DEF RInv
  <2>3. Stream!Close
    BY <1>1, <1>2, <2>1, <2>2 DEF Stream!Close
  <2> QED BY <1>2, <2>3 DEF Stream!Next, Arrivals
<1>4. CASE ~Finish
  <2>1. (pc # "ended") = (pc # "ended")'
    BY <1>4 DEF Push, Signal, CondDone, PushFuncCloses, Stop, PeerLeaves, vars
  <2> QED BY <1>1, <1>2, <2>1 DEF Stream!vars, Arrivals
<1> QED BY <1>3, <1>4

\* The stream that push_func and push_retry_callback of HttpMsg.cc send is one of
\* ChunkStream: the bytes of the bodies arrive in order and without a hole, a body
\* is made only when the last one has arrived, and the stream ends between two.
THEOREM PushImplementsStream == Spec => StreamSpec
<1>1. Init => Arrivals /\ Stream!Init
  <2> SUFFICES ASSUME Init PROVE Arrivals /\ Stream!Init
    OBVIOUS
  <2>1. bodies = <<>> /\ wire = <<>> /\ pc = "new"
    BY DEF Init
  <2>2. Arrived = <<>>
    <3>1. <<>> \in Seq(Byte) /\ Len(<<>>) = 0
      OBVIOUS
    <3>2. PICK f : Upto(f, <<>>, 0) /\ FirstBytes(<<>>) = f[0]
      BY <3>1, FirstBytesIs
    <3>3. f[0] = <<>>
      BY <3>2, UptoAt
    <3> QED BY <2>1, <3>2, <3>3 DEF Arrived
  <2>3. Outstanding = 0
    BY <2>1 DEF Outstanding
  <2> QED BY <2>1, <2>2, <2>3 DEF Arrivals, NoHole, Stream!Init
<1>2. RInv /\ [Next]_vars => Arrivals' /\ [Stream!Next]_(Stream!vars)
  BY PushFuncRefines, RetryRefines, OthersRefine DEF Next
<1>3. Spec => []RInv
  <2>1. IInv /\ Arrivals /\ [Next]_vars => Arrivals'
    BY <1>2 DEF RInv
  <2>2. RInv <=> IInv /\ Arrivals
    BY DEF RInv
  <2> QED BY <1>1, <2>1, <2>2, Invariance, PTL DEF Spec
<1> QED BY <1>1, <1>2, <1>3, PTL DEF Spec, StreamSpec, Stream!Spec
=============================================================================
