----------------------------- MODULE RequestProofs -----------------------------
(***************************************************************************)
(* What the daemon makes of a request, for any message, any pieces in      *)
(* which its packet arrives, and any number of terminals.                  *)
(*                                                                         *)
(* First that loading undoes storing, by induction over the strings of a   *)
(* message; then which bytes of the packet a part consists of while it is  *)
(* read; then that the configuration is at any moment what the lines and   *)
(* the arguments so far say.                                               *)
(***************************************************************************)
EXTENDS Request, SequenceTheorems, WellFoundedInduction, TLAPS

-----------------------------------------------------------------------------
(* Numbers *)

\* A set of numbers has a least element.
LEMMA LeastFacts ==
    ASSUME NEW S \in SUBSET Nat, S # {}
    PROVE  Min(S) \in S /\ \A j \in S : Min(S) <= j
<1>1. PICK x \in S : \A y \in S : ~(<<y, x>> \in OpToRel(<, Nat))
    BY NatLessThanWellFounded, WFMin, Zenon
<1>2. \A y \in S : <<y, x>> \in OpToRel(<, Nat) <=> y < x
    BY DEF OpToRel
<1>3. \A y \in S : ~(y < x)
    BY <1>1, <1>2, Zenon
<1>4. \A y \in S : x <= y
    <2>. SUFFICES ASSUME NEW y \in S PROVE x <= y
        OBVIOUS
    <2>1. x \in Nat /\ y \in Nat /\ ~(y < x)
        BY <1>3
    <2>. QED
        BY <2>1
<1>. QED
    BY <1>4 DEF Min

\* Induction, on the set of the numbers of which something holds.
LEMMA Induction ==
    ASSUME NEW S, 0 \in S, \A i \in Nat : i \in S => i + 1 \in S
    PROVE  Nat \subseteq S
<1>. SUFFICES ASSUME Nat \ S # {} PROVE FALSE
    OBVIOUS
<1>. DEFINE x == Min(Nat \ S)
<1>1. x \in Nat \ S /\ \A j \in Nat \ S : x <= j
    BY LeastFacts
<1>. HIDE DEF x
<1>2. x - 1 \in Nat
    BY <1>1
<1>3. x - 1 \in S
    BY <1>1, <1>2
<1>. QED
    BY <1>1, <1>2, <1>3

LEMMA MaxIntFacts == MaxInt = 2147483647
    BY SMT DEF MaxInt

LEMMA MaxIntNat == MaxInt \in Nat /\ MaxInt >= 1
    BY SMT DEF MaxInt

\* A number is loaded as it was stored.
LEMMA U32Values ==
    ASSUME NEW n \in Nat, n <= MaxInt
    PROVE  /\ StoreU32(n) \in Seq(Bytes) /\ Len(StoreU32(n)) = 4
           /\ StoreU32(n)[1] * 16777216 + StoreU32(n)[2] * 65536
                 + StoreU32(n)[3] * 256 + StoreU32(n)[4] = n
<1>. DEFINE a == n \div 16777216
            b == (n \div 65536) % 256
            c == (n \div 256) % 256
            d == n % 256
<1>1. n \in Nat /\ n <= 2147483647
    BY MaxIntFacts, SMT
<1>2. a \in Nat /\ a * 16777216 + b * 65536 + c * 256 + d = n
    BY <1>1, SMT
<1>3. b \in 0..255 /\ c \in 0..255 /\ d \in 0..255
    BY <1>1, SMT
<1>4. StoreU32(n) = <<a, b, c, d>>
    BY DEF StoreU32
<1>. HIDE DEF a, b, c, d
<1>5. a \in 0..255
    BY <1>1, <1>2, <1>3, SMT
<1>. QED
    BY <1>2, <1>3, <1>4, <1>5, SMT DEF Bytes

LEMMA U32Facts ==
    ASSUME NEW n \in 0..MaxInt
    PROVE  /\ StoreU32(n) \in Seq(Bytes) /\ Len(StoreU32(n)) = 4
           /\ StoreU32(n)[1] * 16777216 + StoreU32(n)[2] * 65536
                 + StoreU32(n)[3] * 256 + StoreU32(n)[4] = n
<1>1. n \in Nat /\ n <= MaxInt
    BY MaxIntNat
<1>. QED
    BY <1>1, U32Values, SMT

LEMMA U32Bytes ==
    ASSUME NEW n \in 0..MaxInt
    PROVE  StoreU32(n) \in Seq(Bytes) /\ Len(StoreU32(n)) = 4
    BY U32Facts, SMT

-----------------------------------------------------------------------------
(* Strings *)

\* The provers take an expression with \o apart wherever they meet it: what
\* is needed of it is stated once, and kept together.
Cat(a, b) == a \o b

LEMMA CatFacts ==
    ASSUME NEW a \in Seq(Bytes), NEW b \in Seq(Bytes)
    PROVE  /\ Cat(a, b) \in Seq(Bytes) /\ Len(Cat(a, b)) = Len(a) + Len(b)
           /\ \A i \in 1..Len(a) : Cat(a, b)[i] = a[i]
           /\ \A i \in 1..Len(b) : Cat(a, b)[Len(a) + i] = b[i]
           /\ Len(a) \in Nat /\ Len(b) \in Nat
    BY DEF Cat

LEMMA CatAssociative ==
    ASSUME NEW a \in Seq(Bytes), NEW b \in Seq(Bytes), NEW c \in Seq(Bytes)
    PROVE  Cat(Cat(a, b), c) = Cat(a, Cat(b, c))
    BY DEF Cat

LEMMA CatEmpty ==
    ASSUME NEW a \in Seq(Bytes)
    PROVE  <<>> \in Seq(Bytes) /\ Cat(a, <<>>) = a /\ Cat(<<>>, a) = a
    BY DEF Cat

LEMMA SubFacts ==
    ASSUME NEW b \in Seq(Bytes), NEW o \in Nat, NEW s \in Seq(Bytes),
           o + Len(s) <= Len(b), \A i \in 1..Len(s) : b[o + i] = s[i]
    PROVE  SubSeq(b, o + 1, o + Len(s)) = s
    OBVIOUS

\* The vector is stored string by string.
Stored(v, f) ==
    f = [i \in 0..Len(v) |-> IF i = 0 THEN StoreU32(Len(v)) ELSE Cat(f[i - 1], StoreStr(v[i]))]

LEMMA StoredFacts ==
    ASSUME NEW v \in Seq(Seq(Bytes))
    PROVE  \E f : Stored(v, f)
<1>. DEFINE base == StoreU32(Len(v))
            step(e, i) == Cat(e, StoreStr(v[i]))
            Is(f, n) == f = [i \in 0..n |-> IF i = 0 THEN base ELSE step(f[i - 1], i)]
            S == {n \in Nat : \E f : Is(f, n)}
<1>. HIDE DEF base, step
<1>1. 0 \in S
    <2>. DEFINE f == [i \in 0..0 |-> base]
    <2>1. Is(f, 0)
        <3>1. \A i \in 0..0 : i = 0
            OBVIOUS
        <3>. QED
            BY <3>1
    <2>. QED
        BY <2>1
<1>2. ASSUME NEW n \in Nat, n \in S
      PROVE  n + 1 \in S
    <2>1. PICK f : Is(f, n)
        BY <1>2
    <2>. DEFINE g == [i \in 0..(n + 1) |-> IF i = n + 1 THEN step(f[n], n + 1) ELSE f[i]]
    <2>2. ASSUME NEW i \in 0..(n + 1)
          PROVE  g[i] = IF i = 0 THEN base ELSE step(g[i - 1], i)
        <3>1. CASE i = 0
            BY <2>1, <3>1
        <3>2. CASE i \in 1..n
            <4>1. i \in 0..n /\ i - 1 \in 0..n /\ i # n + 1 /\ i - 1 # n + 1 /\ i # 0
                  /\ i - 1 \in 0..(n + 1)
                BY <3>2
            <4>2. g[i] = f[i] /\ g[i - 1] = f[i - 1]
                BY <4>1
            <4>3. f[i] = step(f[i - 1], i)
                BY <2>1, <4>1
            <4>. QED
                BY <4>1, <4>2, <4>3
        <3>3. CASE i = n + 1
            <4>1. i # 0 /\ i - 1 = n /\ n \in 0..(n + 1) /\ n # n + 1
                BY <3>3
            <4>. QED
                BY <3>3, <4>1
        <3>. QED
            BY <3>1, <3>2, <3>3
    <2>3. Is(g, n + 1)
        BY <2>2
    <2>. HIDE DEF g
    <2>. QED
        BY <2>3
<1>3. Nat \subseteq S
    <2>. HIDE DEF S
    <2>. QED
        BY <1>1, <1>2, Induction
<1>4. Len(v) \in S
    <2>. HIDE DEF S
    <2>. QED
        BY <1>3, LenProperties
<1>5. PICK f : Is(f, Len(v))
    BY <1>4
<1>6. Stored(v, f)
    BY <1>5 DEF Stored, base, step
<1>. QED
    BY <1>6

\* Sequences whose lengths can be stored.
Short(s) == s \in Seq(Bytes) /\ Len(s) <= MaxInt
ShortVec(v) == v \in Seq(Seq(Bytes)) /\ Len(v) <= MaxInt /\ \A i \in 1..Len(v) : Short(v[i])

LEMMA ShortFacts ==
    /\ \A s : Short(s) => s \in Seq(Bytes) /\ Len(s) \in 0..MaxInt /\ Len(s) \in Nat
    /\ \A v : ShortVec(v) => v \in Seq(Seq(Bytes)) /\ Len(v) \in 0..MaxInt /\ Len(v) \in Nat
    BY SMT, LenProperties DEF Short, ShortVec

LEMMA StoreStrFacts ==
    ASSUME NEW s, Short(s)
    PROVE  /\ StoreStr(s) = Cat(StoreU32(Len(s)), s)
           /\ StoreStr(s) \in Seq(Bytes) /\ Len(StoreStr(s)) = 4 + Len(s)
<1>1. s \in Seq(Bytes) /\ Len(s) \in 0..MaxInt
    BY ShortFacts
<1>2. StoreU32(Len(s)) \in Seq(Bytes) /\ Len(StoreU32(Len(s))) = 4
    BY <1>1, U32Bytes
<1>3. StoreStr(s) = Cat(StoreU32(Len(s)), s)
    BY DEF StoreStr, Cat
<1>. DEFINE u == StoreU32(Len(s))
<1>. HIDE DEF u
<1>4. Cat(u, s) \in Seq(Bytes) /\ Len(Cat(u, s)) = Len(u) + Len(s)
    BY <1>1, <1>2, CatFacts DEF u
<1>. QED
    BY <1>1, <1>2, <1>3, <1>4 DEF u

\* Every string stored lengthens the bytes, and leaves those before it alone.
LEMMA StoreStrvecFacts ==
    ASSUME NEW v, ShortVec(v)
    PROVE  \E f :
             /\ f[0] = StoreU32(Len(v)) /\ f[Len(v)] = StoreStrvec(v)
             /\ \A i \in 0..Len(v) :
                   /\ f[i] \in Seq(Bytes) /\ Len(f[i]) >= 4 + i
                   /\ \E rest \in Seq(Bytes) : StoreStrvec(v) = Cat(f[i], rest)
             /\ \A i \in 1..Len(v) : f[i] = Cat(f[i - 1], StoreStr(v[i]))
<1>. DEFINE base == StoreU32(Len(v))
            n == Len(v)
            f == CHOOSE e : Stored(v, e)
<1>1. n \in Nat /\ v \in Seq(Seq(Bytes)) /\ n \in 0..MaxInt
    BY ShortFacts
<1>2. Stored(v, f)
    BY <1>1, StoredFacts
<1>3. StoreStrvec(v) = f[n]
    BY DEF StoreStrvec, Stored, Cat
<1>. HIDE DEF f
<1>4. f[0] = base /\ \A i \in 1..n : f[i] = Cat(f[i - 1], StoreStr(v[i]))
    BY <1>1, <1>2 DEF Stored
<1>. HIDE DEF n
<1>5. \A i \in 1..n : StoreStr(v[i]) \in Seq(Bytes) /\ Len(StoreStr(v[i])) \in Nat
                        /\ Len(StoreStr(v[i])) >= 4
    <2>. SUFFICES ASSUME NEW i \in 1..n
                  PROVE  StoreStr(v[i]) \in Seq(Bytes) /\ Len(StoreStr(v[i])) \in Nat
                         /\ Len(StoreStr(v[i])) >= 4
        OBVIOUS
    <2>1. Short(v[i])
        BY DEF ShortVec, n
    <2>2. Len(v[i]) \in Nat
        BY <2>1, ShortFacts
    <2>. QED
        BY <2>1, <2>2, StoreStrFacts
<1>6. \A i \in 0..n : f[i] \in Seq(Bytes) /\ Len(f[i]) >= 4 + i
    <2>. DEFINE S == {i \in Nat : i <= n => f[i] \in Seq(Bytes) /\ Len(f[i]) >= 4 + i}
    <2>1. 0 \in S
        <3>1. base \in Seq(Bytes) /\ Len(base) = 4
            BY <1>1, U32Bytes DEF n
        <3>2. f[0] \in Seq(Bytes) /\ Len(f[0]) >= 4 + 0
            BY <1>4, <3>1
        <3>. QED
            BY <3>2
    <2>2. ASSUME NEW i \in Nat, i \in S
          PROVE  i + 1 \in S
        <3>. SUFFICES ASSUME i + 1 <= n
                      PROVE  f[i + 1] \in Seq(Bytes) /\ Len(f[i + 1]) >= 4 + (i + 1)
            OBVIOUS
        <3>1. i + 1 \in 1..n /\ (i + 1) - 1 = i
            BY <1>1
        <3>2. f[i] \in Seq(Bytes) /\ Len(f[i]) >= 4 + i
            BY <1>1, <2>2, <3>1
        <3>3. f[i + 1] = Cat(f[i], StoreStr(v[i + 1]))
            BY <1>4, <3>1
        <3>4. StoreStr(v[i + 1]) \in Seq(Bytes) /\ Len(StoreStr(v[i + 1])) >= 4
            BY <1>5, <3>1
        <3>. DEFINE str == StoreStr(v[i + 1])
                    e == f[i]
                    j == i + 1
        <3>. HIDE DEF str, e
        <3>5. /\ Cat(e, str) \in Seq(Bytes) /\ Len(Cat(e, str)) = Len(e) + Len(str)
              /\ Len(e) \in Nat /\ Len(str) \in Nat
            BY <3>2, <3>4, CatFacts DEF str, e
        <3>6. f[j] = Cat(e, str) /\ Len(e) >= 4 + i /\ Len(str) >= 4
            BY <3>2, <3>3, <3>4 DEF str, e
        <3>. HIDE DEF j
        <3>7. f[j] \in Seq(Bytes) /\ Len(f[j]) >= 4 + (i + 1)
            BY <3>5, <3>6
        <3>. QED
            BY <3>7 DEF j
    <2>3. Nat \subseteq S
        <3>. HIDE DEF S
        <3>. QED
            BY <2>1, <2>2, Induction
    <2>. QED
        BY <1>1, <2>3
<1>7. \A i \in 0..n : \E rest \in Seq(Bytes) : f[n] = Cat(f[i], rest)
    <2>. DEFINE S == {j \in Nat : j <= n => \E rest \in Seq(Bytes) : f[n] = Cat(f[n - j], rest)}
    <2>1. 0 \in S
        <3>1. f[n] \in Seq(Bytes) /\ n - 0 = n
            BY <1>1, <1>6
        <3>. QED
            BY <3>1, CatEmpty
    <2>2. ASSUME NEW j \in Nat, j \in S
          PROVE  j + 1 \in S
        <3>. SUFFICES ASSUME j + 1 <= n
                      PROVE  \E rest \in Seq(Bytes) : f[n] = Cat(f[n - (j + 1)], rest)
            OBVIOUS
        <3>. DEFINE i == n - (j + 1)
        <3>1. i \in 0..n /\ i + 1 \in 1..n /\ n - j = i + 1 /\ (i + 1) - 1 = i /\ j <= n
            BY <1>1
        <3>. HIDE DEF i
        <3>2. PICK rest \in Seq(Bytes) : f[n] = Cat(f[i + 1], rest)
            BY <2>2, <3>1
        <3>3. f[i + 1] = Cat(f[i], StoreStr(v[i + 1]))
            BY <1>4, <3>1
        <3>4. f[i] \in Seq(Bytes) /\ StoreStr(v[i + 1]) \in Seq(Bytes)
            BY <1>5, <1>6, <3>1
        <3>5. f[n] = Cat(f[i], Cat(StoreStr(v[i + 1]), rest))
            BY <3>2, <3>3, <3>4, CatAssociative
        <3>6. Cat(StoreStr(v[i + 1]), rest) \in Seq(Bytes)
            BY <3>4, CatFacts
        <3>. QED
            BY <3>5, <3>6 DEF i
    <2>3. Nat \subseteq S
        <3>. HIDE DEF S
        <3>. QED
            BY <2>1, <2>2, Induction
    <2>4. ASSUME NEW i \in 0..n
          PROVE  \E rest \in Seq(Bytes) : f[n] = Cat(f[i], rest)
        <3>1. n - i \in Nat /\ n - i <= n /\ n - (n - i) = i
            BY <1>1
        <3>2. n - i \in S
            BY <2>3, <3>1
        <3>. QED
            BY <3>1, <3>2
    <2>. QED
        BY <2>4
<1>. QED
    BY <1>3, <1>4, <1>6, <1>7 DEF n

-----------------------------------------------------------------------------
(* Loading undoes storing, wherever the bytes lie in the buffer *)

\* A buffer in which x lies behind p, and q behind it.
Around(p, x, q) == Cat(p, Cat(x, q))

LEMMA Inside ==
    ASSUME NEW p \in Seq(Bytes), NEW x \in Seq(Bytes), NEW q \in Seq(Bytes)
    PROVE  /\ Around(p, x, q) \in Seq(Bytes)
           /\ Len(Around(p, x, q)) = Len(p) + Len(x) + Len(q)
           /\ \A i \in 1..Len(x) : Around(p, x, q)[Len(p) + i] = x[i]
           /\ Len(p) \in Nat /\ Len(x) \in Nat /\ Len(q) \in Nat
<1>. DEFINE xq == Cat(x, q)
<1>1. /\ xq \in Seq(Bytes) /\ Len(xq) = Len(x) + Len(q)
      /\ \A i \in 1..Len(x) : xq[i] = x[i]
      /\ Len(x) \in Nat /\ Len(q) \in Nat
    BY CatFacts
<1>. HIDE DEF xq
<1>2. /\ Cat(p, xq) \in Seq(Bytes) /\ Len(Cat(p, xq)) = Len(p) + Len(xq)
      /\ \A i \in 1..Len(xq) : Cat(p, xq)[Len(p) + i] = xq[i]
      /\ Len(p) \in Nat
    BY <1>1, CatFacts
<1>3. \A i \in 1..Len(x) : i \in 1..Len(xq)
    BY <1>1
<1>. QED
    BY <1>1, <1>2, <1>3 DEF Around, xq

\* Where two parts lie, the first of them lies.
LEMMA First ==
    ASSUME NEW p \in Seq(Bytes), NEW x \in Seq(Bytes), NEW y \in Seq(Bytes), NEW q \in Seq(Bytes)
    PROVE  Around(p, Cat(x, y), q) = Around(p, x, Cat(y, q)) /\ Cat(y, q) \in Seq(Bytes)
<1>1. Cat(y, q) \in Seq(Bytes)
    BY CatFacts
<1>2. Cat(Cat(x, y), q) = Cat(x, Cat(y, q))
    BY CatAssociative
<1>. QED
    BY <1>1, <1>2, Zenon DEF Around

\* ... and the second behind it.
LEMMA Second ==
    ASSUME NEW p \in Seq(Bytes), NEW x \in Seq(Bytes), NEW y \in Seq(Bytes), NEW q \in Seq(Bytes)
    PROVE  Around(p, Cat(x, y), q) = Around(Cat(p, x), y, q) /\ Cat(p, x) \in Seq(Bytes)
<1>1. Cat(x, y) \in Seq(Bytes) /\ Cat(y, q) \in Seq(Bytes) /\ Cat(p, x) \in Seq(Bytes)
    BY CatFacts
<1>2. Cat(Cat(x, y), q) = Cat(x, Cat(y, q))
    BY CatAssociative
<1>3. Cat(Cat(p, x), Cat(y, q)) = Cat(p, Cat(x, Cat(y, q)))
    BY <1>1, CatAssociative
<1>. QED
    BY <1>1, <1>2, <1>3 DEF Around

LEMMA LoadU32Facts ==
    ASSUME NEW n \in 0..MaxInt, NEW p \in Seq(Bytes), NEW q \in Seq(Bytes)
    PROVE  LoadU32(Around(p, StoreU32(n), q), Len(p)) = Loaded(n, Len(p) + 4)
<1>. DEFINE x == StoreU32(n)
            b == Around(p, x, q)
<1>1. x \in Seq(Bytes) /\ Len(x) = 4
      /\ x[1] * 16777216 + x[2] * 65536 + x[3] * 256 + x[4] = n
    BY U32Facts, SMT
<1>. HIDE DEF x
<1>2. /\ Len(b) = Len(p) + 4 + Len(q) /\ Len(p) \in Nat /\ Len(q) \in Nat
      /\ \A i \in 1..4 : b[Len(p) + i] = x[i]
    <2>1. x \in Seq(Bytes) /\ Len(x) = 4
        BY <1>1, SMT
    <2>2. /\ Len(b) = Len(p) + Len(x) + Len(q) /\ Len(p) \in Nat /\ Len(q) \in Nat
          /\ \A i \in 1..Len(x) : b[Len(p) + i] = x[i]
        BY <2>1, Inside
    <2>. HIDE DEF b
    <2>. QED
        BY <2>1, <2>2
<1>. HIDE DEF b
<1>3. ~(Len(b) - Len(p) < 4)
    BY <1>2, SMT
<1>4. LoadU32(b, Len(p)) =
          Loaded(b[Len(p) + 1] * 16777216 + b[Len(p) + 2] * 65536
                    + b[Len(p) + 3] * 256 + b[Len(p) + 4], Len(p) + 4)
    BY <1>3, SMT DEF LoadU32
<1>5. b[Len(p) + 1] = x[1] /\ b[Len(p) + 2] = x[2] /\ b[Len(p) + 3] = x[3] /\ b[Len(p) + 4] = x[4]
    BY <1>2
<1>. QED
    BY <1>1, <1>4, <1>5, SMT DEF b, x

LEMMA LoadStrFacts ==
    ASSUME NEW s, Short(s), NEW p \in Seq(Bytes), NEW q \in Seq(Bytes)
    PROVE  LoadStr(Around(p, StoreStr(s), q), Len(p)) = Loaded(s, Len(p) + Len(StoreStr(s)))
<1>. DEFINE u == StoreU32(Len(s))
            x == StoreStr(s)
            b == Around(p, x, q)
<1>1. s \in Seq(Bytes) /\ Len(s) \in 0..MaxInt /\ Len(s) \in Nat
    BY ShortFacts
<1>2. u \in Seq(Bytes) /\ Len(u) = 4
    BY <1>1, U32Bytes
<1>3. x = Cat(u, s) /\ x \in Seq(Bytes) /\ Len(x) = 4 + Len(s)
    BY StoreStrFacts
<1>4. LoadU32(b, Len(p)) = Loaded(Len(s), Len(p) + 4)
    <2>. HIDE DEF u
    <2>1. Around(p, Cat(u, s), q) = Around(p, u, Cat(s, q)) /\ Cat(s, q) \in Seq(Bytes)
        BY <1>1, <1>2, First
    <2>2. b = Around(p, u, Cat(s, q))
        BY <1>3, <2>1
    <2>. HIDE DEF b
    <2>. QED
        BY <1>1, <2>1, <2>2, LoadU32Facts DEF u
<1>. HIDE DEF u, x
<1>5. \A i \in 1..Len(s) : x[4 + i] = s[i] /\ 4 + i \in 1..Len(x)
    <2>1. \A i \in 1..Len(s) : Cat(u, s)[Len(u) + i] = s[i]
        BY <1>1, <1>2, CatFacts
    <2>. QED
        BY <1>1, <1>2, <1>3, <2>1
<1>6. /\ b \in Seq(Bytes) /\ Len(b) = Len(p) + Len(x) + Len(q)
      /\ Len(p) \in Nat /\ Len(q) \in Nat
      /\ \A i \in 1..Len(x) : b[Len(p) + i] = x[i]
    BY <1>3, Inside
<1>. HIDE DEF b
<1>7. SubSeq(b, (Len(p) + 4) + 1, (Len(p) + 4) + Len(s)) = s
    <2>1. ASSUME NEW i \in 1..Len(s)
          PROVE  b[(Len(p) + 4) + i] = s[i]
        <3>1. (Len(p) + 4) + i = Len(p) + (4 + i)
            BY <1>1, <1>6
        <3>. QED
            BY <1>5, <1>6, <3>1
    <2>2. (Len(p) + 4) + Len(s) <= Len(b) /\ Len(p) + 4 \in Nat
        BY <1>1, <1>3, <1>6
    <2>. HIDE DEF b
    <2>. QED
        BY <1>1, <1>6, <2>1, <2>2, SubFacts
<1>8. ~(Len(s) > Len(b) - Len(p))
    BY <1>1, <1>3, <1>6
<1>9. (Len(p) + 4) + Len(s) = Len(p) + Len(x)
    BY <1>1, <1>3, <1>6
<1>. DEFINE str == SubSeq(b, (Len(p) + 4) + 1, (Len(p) + 4) + Len(s))
<1>. HIDE DEF str
<1>10. LoadStr(b, Len(p)) = Loaded(str, (Len(p) + 4) + Len(s))
    BY <1>4, <1>8 DEF LoadStr, Loaded, str
<1>. QED
    BY <1>7, <1>9, <1>10 DEF b, x, str

LEMMA LoadStrvecFacts ==
    ASSUME NEW v, ShortVec(v), NEW p \in Seq(Bytes), NEW q \in Seq(Bytes)
    PROVE  LoadStrvec(Around(p, StoreStrvec(v), q), Len(p))
              = Loaded(v, Len(p) + Len(StoreStrvec(v)))
<1>. DEFINE n == Len(v)
            x == StoreStrvec(v)
            b == Around(p, x, q)
<1>1. n \in 0..MaxInt /\ n \in Nat /\ v \in Seq(Seq(Bytes)) /\ Len(p) \in Nat /\ Len(q) \in Nat
    BY ShortFacts, LenProperties
<1>2. PICK g :
         /\ g[0] = StoreU32(n) /\ g[n] = x
         /\ \A i \in 0..n : /\ g[i] \in Seq(Bytes) /\ Len(g[i]) >= 4 + i
                            /\ \E rest \in Seq(Bytes) : x = Cat(g[i], rest)
         /\ \A i \in 1..n : g[i] = Cat(g[i - 1], StoreStr(v[i]))
    BY StoreStrvecFacts
<1>3. x \in Seq(Bytes) /\ Len(x) \in Nat /\ Len(x) >= 4 + n
    BY <1>1, <1>2, LenProperties
<1>. HIDE DEF x
<1>4. ASSUME NEW i \in 0..n
      PROVE  \E r \in Seq(Bytes) : b = Around(p, g[i], r)
    <2>. DEFINE e == g[i]
    <2>1. PICK rest \in Seq(Bytes) : x = Cat(e, rest)
        BY <1>2
    <2>2. e \in Seq(Bytes)
        BY <1>2
    <2>. HIDE DEF e, n
    <2>3. Around(p, Cat(e, rest), q) = Around(p, e, Cat(rest, q)) /\ Cat(rest, q) \in Seq(Bytes)
        BY <2>2, First
    <2>. QED
        BY <2>1, <2>3 DEF e
<1>5. Len(b) = Len(p) + Len(x) + Len(q)
    BY <1>3, Inside
<1>. HIDE DEF b
<1>6. LoadU32(b, Len(p)) = Loaded(n, Len(p) + 4)
    BY <1>1, <1>2, <1>4, LoadU32Facts
<1>. DEFINE h == [i \in 0..n |-> Loaded(SubSeq(v, 1, i), Len(p) + Len(g[i]))]
            Is(f) == f = [i \in 0..n |-> IF i = 0 THEN Loaded(<<>>, Len(p) + 4)
                                         ELSE LoadNext(b, f[i - 1])]
<1>7. \A i \in 0..n : SubSeq(v, 1, i) \in Seq(Seq(Bytes)) /\ Len(SubSeq(v, 1, i)) = i
                       /\ \A j \in 1..i : SubSeq(v, 1, i)[j] = v[j]
    BY <1>1
<1>8. h[0] = Loaded(<<>>, Len(p) + 4)
    <2>1. 0 \in 0..n /\ Len(g[0]) = 4
        BY <1>1, <1>2, U32Bytes
    <2>2. SubSeq(v, 1, 0) = <<>>
        BY <1>1
    <2>. QED
        BY <2>1, <2>2
<1>9. ASSUME NEW i \in 1..n
      PROVE  LoadNext(b, h[i - 1]) = h[i]
    <2>1. i - 1 \in 0..n /\ i \in 0..n
        BY <1>1
    <2>. DEFINE pg == Cat(p, g[i - 1])
                str == StoreStr(v[i])
    <2>2. PICK r \in Seq(Bytes) : b = Around(p, g[i], r)
        BY <1>4, <2>1
    <2>3. Short(v[i]) /\ g[i - 1] \in Seq(Bytes) /\ g[i] = Cat(g[i - 1], str)
        BY <1>2, <2>1 DEF ShortVec
    <2>4. str \in Seq(Bytes)
        BY <2>3, StoreStrFacts
    <2>5. pg \in Seq(Bytes) /\ b = Around(pg, str, r)
        BY <2>2, <2>3, <2>4, Second
    <2>6. LoadStr(Around(pg, str, r), Len(pg)) = Loaded(v[i], Len(pg) + Len(str))
        BY <2>3, <2>5, LoadStrFacts
    <2>7. Len(pg) = Len(p) + Len(g[i - 1]) /\ Len(g[i]) = Len(g[i - 1]) + Len(str)
          /\ Len(g[i - 1]) \in Nat /\ Len(str) \in Nat
        BY <2>3, <2>4, CatFacts
    <2>. HIDE DEF pg, str
    <2>8. LoadStr(b, Len(p) + Len(g[i - 1])) = Loaded(v[i], Len(p) + Len(g[i]))
        <3>1. Len(pg) + Len(str) = Len(p) + Len(g[i])
            BY <1>1, <2>7
        <3>. QED
            BY <2>5, <2>6, <2>7, <3>1
    <2>9. Append(SubSeq(v, 1, i - 1), v[i]) = SubSeq(v, 1, i)
        <3>1. v[i] \in Seq(Bytes)
            BY <1>1
        <3>. QED
            BY <1>1, <1>7, <2>1, <3>1
    <2>10. /\ h[i - 1] = Loaded(SubSeq(v, 1, i - 1), Len(p) + Len(g[i - 1]))
           /\ h[i] = Loaded(SubSeq(v, 1, i), Len(p) + Len(g[i]))
        BY <2>1
    <2>. HIDE DEF h
    <2>. DEFINE before == SubSeq(v, 1, i - 1)
                o == Len(p) + Len(g[i - 1])
                d == Loaded(before, o)
    <2>11. d.ok /\ d.value = before /\ d.at = o
        BY DEF Loaded
    <2>12. LoadStr(b, o).ok /\ LoadStr(b, o).value = v[i] /\ LoadStr(b, o).at = Len(p) + Len(g[i])
        BY <2>8 DEF Loaded
    <2>. HIDE DEF before, o, d
    <2>13. LoadNext(b, d) = Loaded(Append(before, v[i]), Len(p) + Len(g[i]))
        BY <2>11, <2>12, Zenon DEF LoadNext
    <2>. QED
        BY <2>9, <2>10, <2>13 DEF before, o, d
<1>10. Is(h)
    <2>1. ASSUME NEW i \in 0..n
          PROVE  h[i] = IF i = 0 THEN Loaded(<<>>, Len(p) + 4) ELSE LoadNext(b, h[i - 1])
        <3>. HIDE DEF h
        <3>1. CASE i = 0
            BY <1>8, <3>1
        <3>2. CASE i \in 1..n
            BY <1>9, <3>2
        <3>. QED
            BY <1>1, <3>1, <3>2
    <2>. QED
        BY <2>1
<1>11. ASSUME NEW f, Is(f)
       PROVE  f[n] = h[n]
    <2>. DEFINE S == {i \in Nat : i <= n => f[i] = h[i]}
    <2>. HIDE DEF h
    <2>1. \A i \in 0..n : f[i] = IF i = 0 THEN Loaded(<<>>, Len(p) + 4) ELSE LoadNext(b, f[i - 1])
        BY <1>11
    <2>2. 0 \in S
        BY <1>1, <1>8, <2>1
    <2>3. ASSUME NEW i \in Nat, i \in S
          PROVE  i + 1 \in S
        <3>. SUFFICES ASSUME i + 1 <= n PROVE f[i + 1] = h[i + 1]
            OBVIOUS
        <3>1. i + 1 \in 1..n /\ i + 1 \in 0..n /\ i + 1 # 0 /\ (i + 1) - 1 = i /\ i <= n
            BY <1>1
        <3>2. f[i] = h[i]
            BY <2>3, <3>1
        <3>3. f[i + 1] = LoadNext(b, f[i])
            BY <2>1, <3>1
        <3>4. LoadNext(b, h[i]) = h[i + 1]
            BY <1>9, <3>1
        <3>. QED
            BY <3>2, <3>3, <3>4
    <2>4. Nat \subseteq S
        <3>. HIDE DEF S
        <3>. QED
            BY <2>2, <2>3, Induction
    <2>. QED
        BY <1>1, <2>4
<1>12. ~(n > Len(b) - Len(p))
    BY <1>1, <1>3, <1>5
<1>13. h[n] = Loaded(v, Len(p) + Len(x))
    <2>1. SubSeq(v, 1, n) = v
        BY <1>1, <1>7
    <2>2. n \in 0..n
        BY <1>1
    <2>. QED
        BY <1>2, <2>1, <2>2
<1>. DEFINE f == CHOOSE e : Is(e)
<1>14. f[n] = h[n]
    <2>1. Is(f)
        BY <1>10
    <2>. HIDE DEF f, h
    <2>. QED
        BY <1>11, <2>1
<1>15. LoadStrvec(b, Len(p)) = f[n]
    <2>. HIDE DEF n
    <2>. QED
        BY <1>6, <1>12 DEF LoadStrvec, Loaded
<1>. QED
    BY <1>13, <1>14, <1>15 DEF b, x

-----------------------------------------------------------------------------
(* Messages *)

\* What is stored of a message, part by part.
Stores(m) ==
    Cat(StoreU32(Version), Cat(StoreU32(m.argc), Cat(StoreStrvec(m.argv),
        Cat(StoreStrvec(m.envp), StoreStr(m.cwd)))))

LEMMA MessageFacts ==
    ASSUME NEW m \in Messages, ~TooBig(m)
    PROVE  /\ m.argc \in 0..MaxInt /\ ShortVec(m.argv) /\ ShortVec(m.envp) /\ Short(m.cwd)
           /\ m = [argc |-> m.argc, argv |-> m.argv, envp |-> m.envp, cwd |-> m.cwd]
<1>1. /\ m \in [argc : 0..MaxInt, argv : Seq(Seq(Bytes)), envp : Seq(Seq(Bytes)), cwd : Seq(Bytes)]
      /\ m.argc \in 0..MaxInt /\ m.argv \in Seq(Seq(Bytes)) /\ m.envp \in Seq(Seq(Bytes))
      /\ m.cwd \in Seq(Bytes)
    BY DEF Messages
<1>2. MaxPacket \in Nat /\ MaxPacket <= MaxInt
    BY ProtocolAssumption, MaxIntNat
<1>3. /\ \A s \in Range(m.argv) \cup Range(m.envp) \cup {m.cwd} : ~(Len(s) > MaxPacket)
      /\ ~(Len(m.argv) > MaxPacket) /\ ~(Len(m.envp) > MaxPacket)
    BY DEF TooBig
<1>4. \A s \in Seq(Bytes) : ~(Len(s) > MaxPacket) => Short(s)
    <2>. SUFFICES ASSUME NEW s \in Seq(Bytes), ~(Len(s) > MaxPacket) PROVE Short(s)
        OBVIOUS
    <2>1. Len(s) \in Nat
        BY LenProperties
    <2>. QED
        BY <1>2, <2>1, MaxIntNat DEF Short
<1>5. \A v \in Seq(Seq(Bytes)) :
          ~(Len(v) > MaxPacket) /\ (\A s \in Range(v) : ~(Len(s) > MaxPacket)) => ShortVec(v)
    <2>. SUFFICES ASSUME NEW v \in Seq(Seq(Bytes)), ~(Len(v) > MaxPacket),
                         \A s \in Range(v) : ~(Len(s) > MaxPacket)
                  PROVE  ShortVec(v)
        OBVIOUS
    <2>1. Len(v) \in Nat /\ Len(v) <= MaxInt
        <3>1. Len(v) \in Nat
            BY LenProperties
        <3>. QED
            BY <1>2, <3>1, MaxIntNat
    <2>2. \A i \in 1..Len(v) : v[i] \in Seq(Bytes) /\ v[i] \in Range(v)
        BY DEF Range
    <2>3. \A i \in 1..Len(v) : Short(v[i])
        BY <1>4, <2>2
    <2>. QED
        BY <2>1, <2>3 DEF ShortVec
<1>. QED
    BY <1>1, <1>3, <1>4, <1>5

\* A message that runesc can store is parsed as what it was, for any
\* arguments, environment and directory (protocol.c).
THEOREM LoadingUndoesStoring ==
    ASSUME NEW m \in Messages, ~TooBig(m)
    PROVE  /\ CreateNewTermMessage(m) \in Seq(Bytes)
           /\ ParseNewTermMessage(CreateNewTermMessage(m)).ok
           /\ ParseNewTermMessage(CreateNewTermMessage(m)).value = m
<1>. DEFINE a == StoreU32(Version)
            b == StoreU32(m.argc)
            c == StoreStrvec(m.argv)
            d == StoreStrvec(m.envp)
            e == StoreStr(m.cwd)
            body == CreateNewTermMessage(m)
<1>1. /\ m.argc \in 0..MaxInt /\ ShortVec(m.argv) /\ ShortVec(m.envp) /\ Short(m.cwd)
      /\ m = [argc |-> m.argc, argv |-> m.argv, envp |-> m.envp, cwd |-> m.cwd]
    BY MessageFacts
<1>2. Version \in 0..MaxInt
    BY MaxIntNat DEF Version
<1>3. a \in Seq(Bytes) /\ Len(a) = 4 /\ b \in Seq(Bytes) /\ Len(b) = 4
    BY <1>1, <1>2, U32Bytes
<1>4. \A v : ShortVec(v) => StoreStrvec(v) \in Seq(Bytes)
    <2>. SUFFICES ASSUME NEW v, ShortVec(v) PROVE StoreStrvec(v) \in Seq(Bytes)
        OBVIOUS
    <2>1. Len(v) \in 0..Len(v)
        BY ShortFacts
    <2>. QED
        BY <2>1, StoreStrvecFacts
<1>5. c \in Seq(Bytes) /\ d \in Seq(Bytes) /\ e \in Seq(Bytes)
    BY <1>1, <1>4, StoreStrFacts
<1>6. body = Cat(Cat(Cat(Cat(a, b), c), d), e)
    BY DEF CreateNewTermMessage, Cat
<1>. HIDE DEF a, b, c, d, e, body
<1>. DEFINE ab == Cat(a, b)
            abc == Cat(ab, c)
            abcd == Cat(abc, d)
            de == Cat(d, e)
            cde == Cat(c, de)
            bcde == Cat(b, cde)
<1>7. ab \in Seq(Bytes) /\ Len(ab) = 8
    <2>1. ab \in Seq(Bytes) /\ Len(ab) = Len(a) + Len(b)
        BY <1>3, CatFacts
    <2>. QED
        BY <1>3, <2>1
<1>8. abc \in Seq(Bytes) /\ Len(abc) = 8 + Len(c)
    <2>. HIDE DEF ab
    <2>1. abc \in Seq(Bytes) /\ Len(abc) = Len(ab) + Len(c)
        BY <1>5, <1>7, CatFacts
    <2>. QED
        BY <1>7, <2>1
<1>9. abcd \in Seq(Bytes) /\ Len(abcd) = 8 + Len(c) + Len(d)
    <2>. HIDE DEF abc
    <2>. QED
        BY <1>5, <1>8, CatFacts
<1>10. de \in Seq(Bytes)
    BY <1>5, CatFacts
<1>11. cde \in Seq(Bytes)
    <2>. HIDE DEF de
    <2>. QED
        BY <1>5, <1>10, CatFacts
<1>12. bcde \in Seq(Bytes)
    <2>. HIDE DEF cde
    <2>. QED
        BY <1>3, <1>11, CatFacts
<1>13. body = Around(abcd, e, <<>>)
    BY <1>5, <1>6, CatEmpty DEF Around
<1>14. body = Around(abc, d, e)
    <2>1. Cat(Cat(abc, d), e) = Cat(abc, Cat(d, e))
        BY <1>5, <1>8, CatAssociative
    <2>. QED
        BY <1>6, <2>1 DEF Around
<1>15. body = Around(ab, c, de)
    <2>1. Cat(Cat(ab, c), de) = Cat(ab, Cat(c, de))
        BY <1>5, <1>7, <1>10, CatAssociative
    <2>. QED
        BY <1>14, <2>1 DEF Around
<1>16. body = Around(a, b, cde)
    <2>1. Cat(Cat(a, b), cde) = Cat(a, Cat(b, cde))
        BY <1>3, <1>11, CatAssociative
    <2>. QED
        BY <1>15, <2>1 DEF Around
<1>17. body = Around(<<>>, a, bcde) /\ <<>> \in Seq(Bytes)
    <2>1. Cat(a, bcde) \in Seq(Bytes)
        BY <1>3, <1>12, CatFacts
    <2>2. Cat(<<>>, Cat(a, bcde)) = Cat(a, bcde) /\ <<>> \in Seq(Bytes)
        BY <2>1, CatEmpty
    <2>. QED
        BY <1>16, <2>2 DEF Around
<1>. HIDE DEF ab, abc, abcd, de, cde, bcde
<1>18. LoadU32(body, 0) = Loaded(Version, 4)
    <2>1. Len(<<>>) = 0
        OBVIOUS
    <2>2. LoadU32(Around(<<>>, StoreU32(Version), bcde), Len(<<>>)) = Loaded(Version, Len(<<>>) + 4)
        BY <1>2, <1>12, <1>17, LoadU32Facts
    <2>. QED
        BY <1>17, <2>1, <2>2 DEF a
<1>19. LoadU32(body, 4) = Loaded(m.argc, 8)
    <2>1. LoadU32(Around(a, StoreU32(m.argc), cde), Len(a)) = Loaded(m.argc, Len(a) + 4)
        BY <1>1, <1>3, <1>11, LoadU32Facts
    <2>. QED
        BY <1>3, <1>16, <2>1 DEF b
<1>20. LoadStrvec(body, 8) = Loaded(m.argv, 8 + Len(c))
    <2>1. LoadStrvec(Around(ab, StoreStrvec(m.argv), de), Len(ab))
              = Loaded(m.argv, Len(ab) + Len(StoreStrvec(m.argv)))
        BY <1>1, <1>7, <1>10, LoadStrvecFacts
    <2>. QED
        BY <1>7, <1>15, <2>1 DEF c
<1>21. LoadStrvec(body, 8 + Len(c)) = Loaded(m.envp, 8 + Len(c) + Len(d))
    <2>1. LoadStrvec(Around(abc, StoreStrvec(m.envp), e), Len(abc))
              = Loaded(m.envp, Len(abc) + Len(StoreStrvec(m.envp)))
        BY <1>1, <1>5, <1>8, LoadStrvecFacts
    <2>. QED
        BY <1>8, <1>14, <2>1 DEF d
<1>22. LoadStr(body, 8 + Len(c) + Len(d)) = Loaded(m.cwd, 8 + Len(c) + Len(d) + Len(e))
    <2>1. LoadStr(Around(abcd, StoreStr(m.cwd), <<>>), Len(abcd))
              = Loaded(m.cwd, Len(abcd) + Len(StoreStr(m.cwd)))
        BY <1>1, <1>9, <1>17, LoadStrFacts
    <2>. QED
        BY <1>9, <1>13, <2>1 DEF e
<1>23. \A v, o : Loaded(v, o).ok /\ Loaded(v, o).value = v /\ Loaded(v, o).at = o
    BY DEF Loaded
<1>24. ParseNewTermMessage(body) =
           Loaded([argc |-> m.argc, argv |-> m.argv, envp |-> m.envp, cwd |-> m.cwd],
                  8 + Len(c) + Len(d) + Len(e))
    BY <1>18, <1>19, <1>20, <1>21, <1>22, <1>23 DEF ParseNewTermMessage
<1>25. body \in Seq(Bytes)
    BY <1>5, <1>6, <1>9, CatFacts DEF ab, abc, abcd
<1>. QED
    BY <1>1, <1>23, <1>24, <1>25 DEF body

-----------------------------------------------------------------------------
(* Packets *)

BodyOf(r) == IF r.kind = "kill" THEN <<>> ELSE CreateNewTermMessage(r.msg)
TypeOf(r) == IF r.kind = "kill" THEN KillDaemonType ELSE NewTermType

\* A request that makes a packet.
Sendable(r) ==
    /\ r.kind = "new_term" => ~TooBig(r.msg)
    /\ Len(BodyOf(r)) <= MaxPacket

LEMMA RequestFacts ==
    ASSUME NEW r \in Requests
    PROVE  /\ r.kind \in {"kill", "new_term"}
           /\ r.kind = "new_term" => r.msg \in Messages /\ r.msg.argv \in Seq(Seq(DOMAIN Letters))
<1>1. r \in [kind : {"kill"}] \cup [kind : {"new_term"}, msg : Messages]
    BY RequestAssumption
<1>2. r.kind = "new_term" => r.msg.argv \in Seq(Seq(DOMAIN Letters))
    BY RequestAssumption
<1>3. CASE r \in [kind : {"kill"}]
    BY <1>3
<1>4. CASE r \in [kind : {"new_term"}, msg : Messages]
    BY <1>2, <1>4
<1>. QED
    BY <1>1, <1>3, <1>4

LEMMA BodyFacts ==
    ASSUME NEW r \in Requests, Sendable(r)
    PROVE  /\ BodyOf(r) \in Seq(Bytes) /\ Len(BodyOf(r)) \in 0..MaxInt
           /\ TypeOf(r) \in 0..MaxInt
<1>1. BodyOf(r) \in Seq(Bytes)
    <2>1. CASE r.kind = "kill"
        BY <2>1, CatEmpty DEF BodyOf
    <2>2. CASE r.kind = "new_term"
        <3>1. r.msg \in Messages /\ ~TooBig(r.msg)
            BY <2>2, RequestFacts DEF Sendable
        <3>2. CreateNewTermMessage(r.msg) \in Seq(Bytes)
            BY <3>1, LoadingUndoesStoring
        <3>. QED
            BY <2>2, <3>2 DEF BodyOf
    <2>. QED
        BY <2>1, <2>2, RequestFacts
<1>2. Len(BodyOf(r)) \in Nat /\ Len(BodyOf(r)) <= MaxPacket
    BY <1>1, LenProperties DEF Sendable
<1>3. MaxPacket \in Nat /\ MaxPacket <= MaxInt
    BY ProtocolAssumption, MaxIntNat
<1>4. TypeOf(r) \in 0..MaxInt
    BY MaxIntNat DEF TypeOf, KillDaemonType, NewTermType
<1>. QED
    BY <1>1, <1>2, <1>3, <1>4, MaxIntNat

\* What the daemon finds in the packet of a request, at the places where it
\* looks for it.
LEMMA PacketFacts ==
    ASSUME NEW r \in Requests
    PROVE  /\ ~Sendable(r) => PacketOf(r) = NoPacket
           /\ Sendable(r) =>
                 LET bytes == PacketOf(r).bytes
                 IN  /\ bytes \in Seq(Bytes) /\ Len(bytes) = 8 + Len(BodyOf(r))
                     /\ PacketOf(r).ends = {4, 8, 8 + Len(BodyOf(r))}
                     /\ LoadU32(SubSeq(bytes, 1, 4), 0).value = Len(BodyOf(r))
                     /\ LoadU32(SubSeq(bytes, 5, 8), 0).value = TypeOf(r)
                     /\ SubSeq(bytes, 9, 8 + Len(BodyOf(r))) = BodyOf(r)
<1>1. r.kind \in {"kill", "new_term"}
    BY RequestFacts
<1>2. MaxPacket \in Nat
    BY ProtocolAssumption, MaxIntNat
<1>3. ASSUME ~Sendable(r)
      PROVE  PacketOf(r) = NoPacket
    <2>1. CASE r.kind = "kill"
        <3>1. Len(BodyOf(r)) = 0
            BY <2>1 DEF BodyOf
        <3>. QED
            BY <1>2, <1>3, <2>1, <3>1 DEF Sendable
    <2>2. CASE r.kind = "new_term" /\ TooBig(r.msg)
        BY <2>2 DEF PacketOf
    <2>3. CASE r.kind = "new_term" /\ ~TooBig(r.msg)
        <3>1. BodyOf(r) \in Seq(Bytes) /\ BodyOf(r) = CreateNewTermMessage(r.msg)
            BY <2>3, RequestFacts, LoadingUndoesStoring DEF BodyOf
        <3>2. Len(BodyOf(r)) \in Nat /\ ~(Len(BodyOf(r)) <= MaxPacket)
            BY <1>3, <2>3, <3>1, LenProperties DEF Sendable
        <3>. QED
            BY <1>2, <2>3, <3>1, <3>2 DEF PacketOf, Packet
    <2>. QED
        BY <1>1, <2>1, <2>2, <2>3
<1>4. ASSUME Sendable(r)
      PROVE  LET bytes == PacketOf(r).bytes
             IN  /\ bytes \in Seq(Bytes) /\ Len(bytes) = 8 + Len(BodyOf(r))
                 /\ PacketOf(r).ends = {4, 8, 8 + Len(BodyOf(r))}
                 /\ LoadU32(SubSeq(bytes, 1, 4), 0).value = Len(BodyOf(r))
                 /\ LoadU32(SubSeq(bytes, 5, 8), 0).value = TypeOf(r)
                 /\ SubSeq(bytes, 9, 8 + Len(BodyOf(r))) = BodyOf(r)
    <2>. DEFINE body == BodyOf(r)
                n == Len(body)
                t == TypeOf(r)
                u == StoreU32(n)
                w == StoreU32(t)
                bytes == Cat(Cat(u, w), body)
    <2>1. body \in Seq(Bytes) /\ n \in 0..MaxInt /\ t \in 0..MaxInt /\ n \in Nat
        BY <1>4, BodyFacts, LenProperties
    <2>2. PacketOf(r) = [bytes |-> bytes, ends |-> {4, 8, 8 + n}]
        <3>1. ~(Len(body) > MaxPacket)
            BY <1>2, <1>4, <2>1 DEF Sendable
        <3>2. PacketOf(r) = Packet(t, body)
            BY <1>1, <1>4 DEF PacketOf, Sendable, BodyOf, TypeOf
        <3>3. Packet(t, body) = [bytes |-> bytes, ends |-> {4, 8, 8 + n}]
            <4>. HIDE DEF body, t
            <4>. QED
                BY <3>1, Zenon DEF Packet, Cat
        <3>. QED
            BY <3>2, <3>3, Zenon
    <2>3. u \in Seq(Bytes) /\ Len(u) = 4 /\ w \in Seq(Bytes) /\ Len(w) = 4
        BY <2>1, U32Bytes
    <2>4. LoadU32(u, 0) = Loaded(n, 4) /\ LoadU32(w, 0) = Loaded(t, 4)
        <3>1. \A k \in 0..MaxInt : LoadU32(StoreU32(k), 0) = Loaded(k, 4)
            <4>. SUFFICES ASSUME NEW k \in 0..MaxInt PROVE LoadU32(StoreU32(k), 0) = Loaded(k, 4)
                OBVIOUS
            <4>1. StoreU32(k) \in Seq(Bytes)
                BY U32Bytes
            <4>2. Around(<<>>, StoreU32(k), <<>>) = StoreU32(k) /\ <<>> \in Seq(Bytes)
                BY <4>1, CatEmpty DEF Around
            <4>3. LoadU32(Around(<<>>, StoreU32(k), <<>>), Len(<<>>)) = Loaded(k, Len(<<>>) + 4)
                BY <4>2, LoadU32Facts
            <4>. QED
                BY <4>2, <4>3
        <3>. QED
            BY <2>1, <3>1, Zenon
    <2>. HIDE DEF body, n, t, u, w
    <2>. DEFINE uw == Cat(u, w)
    <2>5. uw \in Seq(Bytes) /\ Len(uw) = 8
        <3>1. uw \in Seq(Bytes) /\ Len(uw) = Len(u) + Len(w)
            BY <2>3, CatFacts
        <3>. QED
            BY <2>3, <3>1
    <2>6. bytes = Around(uw, body, <<>>)
        BY <2>1, CatEmpty DEF Around
    <2>7. bytes = Around(u, w, body)
        BY <2>1, <2>3, CatAssociative DEF Around
    <2>8. bytes = Around(<<>>, u, Cat(w, body)) /\ <<>> \in Seq(Bytes) /\ Cat(w, body) \in Seq(Bytes)
        <3>1. Cat(w, body) \in Seq(Bytes)
            BY <2>1, <2>3, CatFacts
        <3>2. Cat(u, Cat(w, body)) \in Seq(Bytes)
            BY <2>3, <3>1, CatFacts
        <3>3. Cat(<<>>, Cat(u, Cat(w, body))) = Cat(u, Cat(w, body)) /\ <<>> \in Seq(Bytes)
            BY <3>2, CatEmpty
        <3>. QED
            BY <2>7, <3>1, <3>3 DEF Around
    <2>. HIDE DEF uw, bytes
    <2>9. /\ bytes \in Seq(Bytes) /\ Len(bytes) = 8 + n
          /\ \A i \in 1..n : bytes[8 + i] = body[i]
        <3>1. /\ bytes \in Seq(Bytes) /\ Len(bytes) = Len(uw) + Len(body) + Len(<<>>)
              /\ \A i \in 1..Len(body) : bytes[Len(uw) + i] = body[i]
            <4>. DEFINE b == Around(uw, body, <<>>)
            <4>1. /\ b \in Seq(Bytes) /\ Len(b) = Len(uw) + Len(body) + Len(<<>>)
                  /\ \A i \in 1..Len(body) : b[Len(uw) + i] = body[i]
                BY <2>1, <2>5, CatEmpty, Inside
            <4>. HIDE DEF b
            <4>2. bytes = b
                BY <2>6 DEF b
            <4>. QED
                BY <4>1, <4>2
        <3>. QED
            BY <2>1, <2>5, <3>1 DEF n
    <2>10. \A i \in 1..4 : bytes[4 + i] = w[i]
        <3>1. \A i \in 1..Len(w) : bytes[Len(u) + i] = w[i]
            <4>. DEFINE b == Around(u, w, body)
            <4>1. \A i \in 1..Len(w) : b[Len(u) + i] = w[i]
                BY <2>1, <2>3, Inside
            <4>. HIDE DEF b
            <4>2. bytes = b
                BY <2>7 DEF b
            <4>. QED
                BY <4>1, <4>2
        <3>. QED
            BY <2>3, <3>1
    <2>11. \A i \in 1..4 : bytes[0 + i] = u[i]
        <3>1. \A i \in 1..Len(u) : bytes[Len(<<>>) + i] = u[i]
            <4>. DEFINE b == Around(<<>>, u, Cat(w, body))
                        rest == Cat(w, body)
            <4>1. \A i \in 1..Len(u) : b[Len(<<>>) + i] = u[i]
                <5>1. rest \in Seq(Bytes) /\ <<>> \in Seq(Bytes)
                    BY <2>8
                <5>. HIDE DEF rest
                <5>2. \A i \in 1..Len(u) : Around(<<>>, u, rest)[Len(<<>>) + i] = u[i]
                    BY <2>3, <5>1, Inside
                <5>. QED
                    BY <5>2 DEF rest
            <4>. HIDE DEF b
            <4>2. bytes = b
                BY <2>8 DEF b
            <4>. QED
                BY <4>1, <4>2
        <3>. QED
            BY <2>3, <3>1
    <2>12. SubSeq(bytes, 1, 4) = u
        <3>1. 0 + Len(u) <= Len(bytes) /\ \A i \in 1..Len(u) : bytes[0 + i] = u[i]
            BY <2>1, <2>3, <2>9, <2>11
        <3>2. SubSeq(bytes, 0 + 1, 0 + Len(u)) = u
            BY <2>3, <2>9, <3>1, SubFacts
        <3>. QED
            BY <2>3, <3>2
    <2>13. SubSeq(bytes, 5, 8) = w
        <3>1. 4 + Len(w) <= Len(bytes) /\ \A i \in 1..Len(w) : bytes[4 + i] = w[i]
            BY <2>1, <2>3, <2>9, <2>10
        <3>2. SubSeq(bytes, 4 + 1, 4 + Len(w)) = w
            BY <2>3, <2>9, <3>1, SubFacts
        <3>. QED
            BY <2>3, <3>2
    <2>14. SubSeq(bytes, 9, 8 + n) = body
        <3>1. 8 + Len(body) <= Len(bytes) /\ \A i \in 1..Len(body) : bytes[8 + i] = body[i]
            BY <2>1, <2>9 DEF n
        <3>2. SubSeq(bytes, 8 + 1, 8 + Len(body)) = body
            BY <2>1, <2>9, <3>1, SubFacts
        <3>. QED
            BY <3>2 DEF n
    <2>15. LoadU32(u, 0).value = n /\ LoadU32(w, 0).value = t
        BY <2>4 DEF Loaded
    <2>16. PacketOf(r).bytes = bytes /\ PacketOf(r).ends = {4, 8, 8 + n}
        BY <2>2 DEF bytes
    <2>. QED
        BY <2>9, <2>12, <2>13, <2>14, <2>15, <2>16 DEF n, t, body
<1>. QED
    BY <1>3, <1>4

-----------------------------------------------------------------------------
(* A request arrives *)

Making == {"file", "args", "pty"}

\* Where the part that is read begins in the packet.
Offset == CASE phase = "len" -> 0 [] phase = "type" -> 4 [] OTHER -> 8

\* Nothing is left of a client that is not there, and what is on its way is
\* the packet of what it asked for.
Asks ==
    /\ client = "off" => asked = NoRequest /\ packet = NoPacket /\ phase \in {"idle", "stopped"}
    /\ client # "off" => asked \in Requests /\ packet = PacketOf(asked)

\* What was read of a part is the beginning of it.
Reads ==
    /\ phase \in Reading =>
          /\ Offset <= got /\ got - Offset <= Want
          /\ part = SubSeq(packet.bytes, Offset + 1, got)
    /\ phase \in {"type", "body"} => len = Len(BodyOf(asked))
    /\ phase = "body" => type = TypeOf(asked)
    /\ phase \in Making => asked.kind = "new_term" /\ msg = asked.msg /\ made < MaxMade

\* A descriptor is left for a client.
Spare == masters + leaked < Limit

Arrives == TypeOK /\ phase # "crashed" /\ Asks /\ Reads /\ Spare

\* The packet that is on its way.
LEMMA WireFacts ==
    ASSUME Asks
    PROVE  /\ packet.bytes \in Seq(Bytes) /\ Len(packet.bytes) \in Nat
           /\ Len(packet.bytes) > 0 =>
                 /\ client # "off" /\ asked \in Requests /\ Sendable(asked)
                 /\ Len(BodyOf(asked)) \in Nat /\ Len(packet.bytes) = 8 + Len(BodyOf(asked))
                 /\ packet.ends = {4, 8, 8 + Len(BodyOf(asked))}
                 /\ LoadU32(SubSeq(packet.bytes, 1, 4), 0).value = Len(BodyOf(asked))
                 /\ LoadU32(SubSeq(packet.bytes, 5, 8), 0).value = TypeOf(asked)
                 /\ SubSeq(packet.bytes, 9, 8 + Len(BodyOf(asked))) = BodyOf(asked)
<1>1. NoPacket.bytes \in Seq(Bytes) /\ Len(NoPacket.bytes) = 0
    BY CatEmpty DEF NoPacket
<1>2. CASE client = "off"
    BY <1>1, <1>2 DEF Asks
<1>3. CASE client # "off"
    <2>1. asked \in Requests /\ packet = PacketOf(asked)
        BY <1>3 DEF Asks
    <2>2. CASE Sendable(asked)
        <3>1. Len(BodyOf(asked)) \in Nat
            BY <2>1, <2>2, BodyFacts, MaxIntNat
        <3>. QED
            BY <1>3, <2>1, <2>2, <3>1, PacketFacts
    <2>3. CASE ~Sendable(asked)
        BY <1>1, <2>1, <2>3, PacketFacts
    <2>. QED
        BY <2>2, <2>3
<1>. QED
    BY <1>2, <1>3

\* Pieces that lie side by side.
LEMMA JoinFacts ==
    ASSUME NEW b \in Seq(Bytes), NEW o \in Nat, NEW k \in Nat, NEW n \in Nat,
           o <= k, k + n <= Len(b)
    PROVE  SubSeq(b, o + 1, k) \o SubSeq(b, k + 1, k + n) = SubSeq(b, o + 1, k + n)
    OBVIOUS

LEMMA PieceFacts ==
    ASSUME NEW b \in Seq(Bytes), NEW o \in Nat, NEW k \in Nat, o <= k, k <= Len(b)
    PROVE  SubSeq(b, o + 1, k) \in Seq(Bytes) /\ Len(SubSeq(b, o + 1, k)) = k - o
    OBVIOUS

LEMMA CountFacts == Limit \in Nat \ {0} /\ MaxMade \in Nat /\ Chunks \subseteq Nat \ {0}
    BY RequestAssumption

LEMMA LeftFacts ==
    ASSUME NEW l \in Nat, NEW m \in Nat, NEW k \in Nat, m + k < l
    PROVE  l - m - k - 1 >= 0
    OBVIOUS

LEMMA RequestInit == Init => Arrives
<1>. SUFFICES ASSUME Init PROVE Arrives
    OBVIOUS
<1>. USE DEF Init
<1>1. Asks /\ Reads /\ Spare
    BY CountFacts DEF Asks, Reads, Spare, Reading, Making
<1>2. TypeOK
    <2>1. Len(packet.bytes) = 0 /\ part \in Seq(Bytes) /\ Len(part) = 0
        BY CatEmpty DEF NoPacket
    <2>2. Free >= 0
        BY CountFacts DEF Free, Connected
    <2>3. sent \in 0..Len(packet.bytes) /\ got \in 0..sent /\ Len(part) <= got
        BY <2>1
    <2>4. phase \in Phases /\ len \in Nat /\ type \in Nat
        BY DEF Phases
    <2>5. made \in 0..MaxMade /\ masters \in 0..made
          /\ leaked \in 0..(made + IF phase \in {"file", "args", "pty"} THEN 1 ELSE 0)
        BY CountFacts
    <2>. QED
        BY <2>1, <2>2, <2>3, <2>4, <2>5 DEF TypeOK
<1>. QED
    BY <1>1, <1>2 DEF Arrives

LEMMA PacketBytes ==
    ASSUME NEW r \in Requests
    PROVE  PacketOf(r).bytes \in Seq(Bytes) /\ Len(PacketOf(r).bytes) \in Nat
<1>1. NoPacket.bytes \in Seq(Bytes) /\ Len(NoPacket.bytes) = 0
    BY CatEmpty DEF NoPacket
<1>2. CASE Sendable(r)
    BY <1>2, PacketFacts, LenProperties
<1>3. CASE ~Sendable(r)
    BY <1>1, <1>3, PacketFacts
<1>. QED
    BY <1>2, <1>3

\* Steps of the client.
LEMMA ClientSteps ==
    ASSUME Arrives,
           \/ \E r \in Requests : Connect(r)
           \/ \E chunk \in Chunks : Send(chunk)
           \/ Finish \/ ClientDies
    PROVE  Arrives'
<1>. USE DEF Arrives, packetvars, configvars, tablevars
<1>1. ASSUME NEW r \in Requests, Connect(r)
      PROVE  Arrives'
    <2>. USE <1>1 DEF Connect
    <2>1. Asks' /\ Reads' /\ Spare' /\ phase' # "crashed"
        BY DEF Asks, Reads, Spare, Reading, Making
    <2>2. Len(packet'.bytes) \in Nat
        BY PacketBytes
    <2>3. sent' \in 0..Len(packet'.bytes)
        BY <2>2
    <2>4. got' \in 0..sent' /\ got' = got
        <3>1. packet.bytes = <<>>
            BY DEF Asks, NoPacket
        <3>2. Len(packet.bytes) = 0
            BY <3>1
        <3>3. sent \in 0..Len(packet.bytes) /\ got \in 0..sent
            BY DEF TypeOK
        <3>. QED
            BY <3>2, <3>3
    <2>5. TypeOK'
        BY <2>3, <2>4 DEF TypeOK, Free, Connected
    <2>. QED
        BY <2>1, <2>5
<1>2. ASSUME NEW chunk \in Chunks, Send(chunk)
      PROVE  Arrives'
    <2>. USE <1>2 DEF Send
    <2>. DEFINE later == {sent + chunk} \cup {e \in packet.ends : e > sent}
    <2>1. Asks' /\ Spare' /\ phase' # "crashed"
        BY DEF Asks, Spare
    <2>2. Reads'
        BY DEF Reads, Offset, Want, Reading, Making
    <2>3. sent \in 0..Len(packet.bytes) /\ got \in 0..sent /\ sent \in Nat
        BY WireFacts DEF TypeOK
    <2>4. Len(packet.bytes) \in Nat /\ Len(packet.bytes) > 0
        BY <2>3, WireFacts
    <2>5. /\ Len(BodyOf(asked)) \in Nat /\ Len(packet.bytes) = 8 + Len(BodyOf(asked))
          /\ packet.ends = {4, 8, Len(packet.bytes)}
        BY <2>4, WireFacts
    <2>6. chunk \in Nat \ {0}
        BY CountFacts
    <2>7. later \in SUBSET Nat /\ Len(packet.bytes) \in later /\ \A e \in later : e > sent
        BY <2>3, <2>4, <2>5, <2>6
    <2>. HIDE DEF later
    <2>8. Min(later) \in later /\ Min(later) <= Len(packet.bytes)
        BY <2>7, LeastFacts
    <2>9. sent' = Min(later)
        BY DEF later
    <2>10. sent' \in 0..Len(packet'.bytes) /\ got' \in 0..sent'
        <3>1. sent' \in Nat /\ sent' > sent /\ sent' <= Len(packet.bytes)
            BY <2>7, <2>8, <2>9
        <3>. QED
            BY <2>3, <2>4, <3>1
    <2>11. TypeOK'
        BY <2>10 DEF TypeOK, Free, Connected
    <2>. QED
        BY <2>1, <2>2, <2>11
<1>3. CASE Finish \/ ClientDies
    <2>. USE <1>3 DEF Finish, ClientDies
    <2>1. Asks' /\ Spare' /\ phase' # "crashed"
        BY DEF Asks, Spare
    <2>2. Reads'
        BY DEF Reads, Offset, Want, Reading, Making
    <2>3. TypeOK'
        BY DEF TypeOK, Free, Connected
    <2>. QED
        BY <2>1, <2>2, <2>3
<1>. QED
    BY <1>1, <1>2, <1>3

\* The daemon closes its end.
LEMMA Closed ==
    ASSUME Arrives, NEW next \in {"idle", "stopped"}, phase \notin Making,
           CloseClient(next), UNCHANGED <<files, errno, tablevars>>
    PROVE  Arrives'
<1>. USE DEF Arrives, CloseClient, tablevars
<1>1. Asks' /\ Reads' /\ Spare' /\ phase' # "crashed"
    BY DEF Asks, Reads, Spare, Reading, Making
<1>2. part' \in Seq(Bytes) /\ Len(part') = 0 /\ Len(packet'.bytes) = 0
    BY CatEmpty DEF NoPacket
<1>3. Free' >= 0
    BY CountFacts DEF Free, Connected, Spare, TypeOK
<1>4. made' \in 0..MaxMade /\ masters' \in 0..made' /\ leaked' \in 0..made'
    BY DEF TypeOK, Making
<1>5. TypeOK'
    BY <1>2, <1>3, <1>4 DEF TypeOK, Phases
<1>. QED
    BY <1>1, <1>5

\* Steps of the daemon as it reads.
LEMMA ReadSteps ==
    ASSUME Arrives, Accept \/ ReadPacket
    PROVE  Arrives'
<1>. USE DEF Arrives, clientvars, packetvars, configvars, tablevars
<1>1. CASE Accept
    <2>. USE <1>1 DEF Accept
    <2>1. masters \in Nat /\ leaked \in Nat /\ Limit \in Nat /\ sent \in Nat
        BY CountFacts, WireFacts DEF TypeOK
    <2>2. Free # 0 /\ Limit - masters - leaked - 1 >= 0
        BY <2>1 DEF Free, Connected, Spare
    <2>3. phase' = "len" /\ Asks' /\ Spare'
        BY <2>2 DEF Asks, Spare
    <2>4. part' = SubSeq(packet'.bytes, 1, 0)
        <3>1. packet.bytes \in Seq(Bytes)
            BY WireFacts
        <3>2. SubSeq(packet.bytes, 1, 0) = <<>>
            BY <3>1
        <3>. QED
            BY <3>2
    <2>5. Reads'
        BY <2>3, <2>4 DEF Reads, Offset, Want, Reading, Making
    <2>6. part' \in Seq(Bytes) /\ Len(part') = 0
        BY CatEmpty
    <2>7. Free' >= 0
        BY <2>1, <2>2, <2>3 DEF Free, Connected
    <2>8. /\ phase' \in Phases /\ got' \in 0..sent' /\ Len(part') <= got'
        BY <2>1, <2>3, <2>6 DEF Phases, Reading
    <2>9. made' \in 0..MaxMade /\ masters' \in 0..made'
          /\ leaked' \in 0..(made' + IF phase' \in {"file", "args", "pty"} THEN 1 ELSE 0)
        BY <2>3 DEF TypeOK
    <2>10. TypeOK'
        BY <2>6, <2>7, <2>8, <2>9 DEF TypeOK
    <2>. QED
        BY <2>3, <2>5, <2>10
<1>2. CASE ReadBytes
    <2>. USE <1>2 DEF ReadBytes
    <2>. DEFINE b == packet.bytes
                n == IF sent - got < Want - Len(part) THEN sent - got ELSE Want - Len(part)
    <2>1. /\ b \in Seq(Bytes) /\ Len(b) \in Nat /\ sent \in Nat /\ got \in Nat
          /\ sent <= Len(b) /\ got <= sent
        BY WireFacts DEF TypeOK
    <2>2. Len(b) > 0
        BY <2>1
    <2>3. Offset \in Nat /\ Want \in Nat
        BY <2>2, WireFacts DEF Offset, Want, Reads, Reading
    <2>4. Offset <= got /\ got - Offset <= Want /\ part = SubSeq(b, Offset + 1, got)
        BY DEF Reads
    <2>. HIDE DEF b
    <2>5. Len(part) = got - Offset
        BY <2>1, <2>3, <2>4, PieceFacts
    <2>6. n \in Nat /\ got + n <= sent /\ got + n - Offset <= Want
        BY <2>1, <2>3, <2>4, <2>5
    <2>7. got' = got + n /\ part' = part \o SubSeq(b, got + 1, got + n)
        BY DEF b
    <2>. HIDE DEF n
    <2>8. part' = SubSeq(b, Offset + 1, got')
        <3>1. got + n <= Len(b)
            BY <2>1, <2>6
        <3>2. SubSeq(b, Offset + 1, got) \o SubSeq(b, got + 1, got + n) = SubSeq(b, Offset + 1, got + n)
            BY <2>1, <2>3, <2>4, <2>6, <3>1, JoinFacts
        <3>. QED
            BY <2>4, <2>7, <3>2
    <2>9. part' \in Seq(Bytes) /\ Len(part') = got' - Offset
        <3>1. got' \in Nat /\ got' <= Len(b) /\ Offset <= got'
            BY <2>1, <2>3, <2>4, <2>6, <2>7
        <3>. HIDE DEF b
        <3>2. /\ SubSeq(b, Offset + 1, got') \in Seq(Bytes)
              /\ Len(SubSeq(b, Offset + 1, got')) = got' - Offset
            BY <2>1, <2>3, <3>1, PieceFacts
        <3>. QED
            BY <2>8, <3>2
    <2>10. Asks' /\ Spare' /\ phase' # "crashed" /\ phase' = phase /\ packet'.bytes = b
        BY DEF Asks, Spare, b
    <2>11. Offset' = Offset /\ Want' = Want
        BY DEF Offset, Want
    <2>12. Reads'
        <3>1. Offset <= got' /\ got' - Offset <= Want
            BY <2>1, <2>3, <2>4, <2>6, <2>7
        <3>. QED
            BY <2>8, <2>10, <2>11, <3>1 DEF Reads, Making
    <2>13. got' \in 0..sent' /\ Len(part') <= got'
        BY <2>1, <2>3, <2>6, <2>7, <2>9
    <2>14. TypeOK'
        BY <2>9, <2>10, <2>13 DEF TypeOK, Free, Connected
    <2>. QED
        BY <2>10, <2>12, <2>14
<1>3. CASE PartRead
    <2>. USE <1>3 DEF PartRead
    <2>. DEFINE b == packet.bytes
    <2>1. /\ b \in Seq(Bytes) /\ Len(b) \in Nat /\ sent \in Nat /\ got \in Nat
          /\ sent <= Len(b) /\ got <= sent
        BY WireFacts DEF TypeOK
    <2>2. /\ phase \in {"len", "type"} /\ Len(part) = 4 /\ Want = 4
          /\ Offset <= got /\ part = SubSeq(b, Offset + 1, got)
        BY DEF Reads, Reading, Want
    <2>3. Offset \in Nat /\ Offset = (IF phase = "len" THEN 0 ELSE 4)
        BY <2>2 DEF Offset
    <2>4. got = Offset + 4
        <3>. HIDE DEF b
        <3>1. Len(part) = got - Offset
            BY <2>1, <2>2, <2>3, PieceFacts
        <3>. QED
            BY <2>1, <2>2, <2>3, <3>1
    <2>5. Len(b) > 0
        BY <2>1, <2>3, <2>4
    <2>6. /\ asked \in Requests /\ Len(BodyOf(asked)) \in Nat /\ TypeOf(asked) \in Nat
          /\ LoadU32(SubSeq(b, 1, 4), 0).value = Len(BodyOf(asked))
          /\ LoadU32(SubSeq(b, 5, 8), 0).value = TypeOf(asked)
        BY <2>5, WireFacts DEF TypeOf, KillDaemonType, NewTermType
    <2>7. part' = SubSeq(b, got + 1, got) /\ part' \in Seq(Bytes) /\ Len(part') = 0
        <3>. HIDE DEF b
        <3>1. SubSeq(b, got + 1, got) = <<>>
            BY <2>1
        <3>2. part' = <<>>
            OBVIOUS
        <3>3. <<>> \in Seq(Bytes) /\ Len(<<>>) = 0
            OBVIOUS
        <3>. QED
            BY <3>1, <3>2, <3>3
    <2>8. Asks' /\ Spare' /\ phase' # "crashed" /\ phase' \in {"type", "body"}
        BY DEF Asks, Spare
    <2>9. CASE phase = "len"
        <3>. USE <2>9
        <3>1. phase' = "type" /\ len' = Len(BodyOf(asked)) /\ type' = type /\ got = 4
            BY <2>2, <2>3, <2>4, <2>6
        <3>2. Offset' = 4 /\ Want' = 4
            BY <3>1 DEF Offset, Want
        <3>3. Reads'
            BY <2>7, <3>1, <3>2 DEF Reads, Making
        <3>4. TypeOK'
            BY <2>6, <2>7, <3>1 DEF TypeOK, Free, Connected, Phases, Reading
        <3>. QED
            BY <2>8, <3>3, <3>4
    <2>10. CASE phase = "type"
        <3>. USE <2>10
        <3>1. /\ phase' = "body" /\ type' = TypeOf(asked) /\ len' = len /\ got = 8
              /\ len = Len(BodyOf(asked))
            BY <2>2, <2>3, <2>4, <2>6 DEF Reads
        <3>2. Offset' = 8 /\ Want' = Len(BodyOf(asked))
            BY <3>1 DEF Offset, Want
        <3>3. Reads'
            BY <2>6, <2>7, <3>1, <3>2 DEF Reads, Making
        <3>4. TypeOK'
            BY <2>6, <2>7, <3>1 DEF TypeOK, Free, Connected, Phases, Reading
        <3>. QED
            BY <2>8, <3>3, <3>4
    <2>. QED
        BY <2>2, <2>9, <2>10
<1>4. CASE EndOfFile
    <2>1. CloseClient("idle") /\ UNCHANGED <<files, errno, tablevars>>
        BY <1>4 DEF EndOfFile
    <2>2. phase \notin Making
        BY <1>4 DEF EndOfFile, Reading, Making
    <2>. QED
        BY <2>1, <2>2, Closed
<1>. QED
    BY <1>1, <1>2, <1>3, <1>4 DEF ReadPacket

\* Steps of the daemon when the request is there.
LEMMA RequestSteps ==
    ASSUME Arrives, KillDaemon \/ NewTerm \/ FileLine \/ Argument \/ Spawn
    PROVE  Arrives'
<1>. USE DEF Arrives, clientvars, packetvars, configvars, tablevars
<1>1. CASE KillDaemon
    <2>1. CloseClient("stopped") /\ UNCHANGED <<files, errno, tablevars>>
        BY <1>1 DEF KillDaemon
    <2>2. phase \notin Making
        BY <1>1 DEF KillDaemon, Making
    <2>. QED
        BY <2>1, <2>2, Closed
<1>2. CASE NewTerm
    <2>. USE <1>2 DEF NewTerm
    <2>. DEFINE b == packet.bytes
    <2>1. /\ b \in Seq(Bytes) /\ Len(b) \in Nat /\ sent \in Nat /\ got \in Nat
          /\ sent <= Len(b) /\ got <= sent
        BY WireFacts DEF TypeOK
    <2>2. /\ Offset = 8 /\ 8 <= got /\ part = SubSeq(b, 8 + 1, got)
          /\ len = Len(BodyOf(asked)) /\ type = TypeOf(asked)
        BY DEF Reads, Reading, Offset
    <2>3. /\ client # "off" /\ asked \in Requests /\ Sendable(asked)
          /\ Len(BodyOf(asked)) \in Nat
          /\ SubSeq(b, 9, 8 + Len(BodyOf(asked))) = BodyOf(asked)
        BY <2>1, <2>2, WireFacts
    <2>4. got = 8 + Len(BodyOf(asked))
        <3>. HIDE DEF b
        <3>1. Len(part) = got - 8
            BY <2>1, <2>2, PieceFacts
        <3>. QED
            BY <2>1, <2>2, <2>3, <3>1
    <2>5. part = BodyOf(asked)
        BY <2>2, <2>3, <2>4
    <2>6. asked.kind = "new_term"
        BY <2>2, <2>3, RequestFacts DEF TypeOf, KillDaemonType, NewTermType
    <2>7. asked.msg \in Messages /\ ~TooBig(asked.msg) /\ part = CreateNewTermMessage(asked.msg)
        BY <2>3, <2>5, <2>6, RequestFacts DEF Sendable, BodyOf
    <2>8. ParseNewTermMessage(part).ok /\ ParseNewTermMessage(part).value = asked.msg
        BY <2>7, LoadingUndoesStoring
    <2>9. phase' = "file" /\ msg' = asked.msg
        BY <2>8
    <2>10. masters \in Nat /\ leaked \in Nat /\ made \in Nat /\ leaked <= made
        BY DEF TypeOK
    <2>11. Free = Limit - masters - leaked - 1 /\ Limit \in Nat
        BY CountFacts DEF Free, Connected
    <2>12. leaked' = leaked \/ (leaked' = leaked + 1 /\ Free # 0)
        <3>. HIDE DEF Free
        <3>. QED
            OBVIOUS
    <2>13. Spare' /\ leaked' \in 0..(made + 1)
        BY <2>10, <2>11, <2>12 DEF Spare
    <2>14. Free' >= 0
        <3>1. masters' + leaked' < Limit /\ leaked' \in Nat /\ masters' = masters
            BY <2>10, <2>13 DEF Spare
        <3>2. Free' = Limit - masters' - leaked' - 1
            BY <2>9 DEF Free, Connected
        <3>3. masters' \in Nat /\ Limit \in Nat
            BY <2>10, <2>11
        <3>4. Limit - masters' - leaked' - 1 >= 0
            BY <3>1, <3>3, LeftFacts, Zenon
        <3>. QED
            BY <3>2, <3>4
    <2>15. Asks' /\ Reads'
        BY <2>3, <2>6, <2>9 DEF Asks, Reads, Reading, Making
    <2>16. TypeOK'
        BY <2>9, <2>13, <2>14 DEF TypeOK, Phases
    <2>. QED
        BY <2>9, <2>13, <2>15, <2>16
<1>3. CASE FileLine \/ Argument
    <2>1. /\ UNCHANGED <<files, clientvars, packetvars, errno, msg, tablevars>>
          /\ phase \in {"file", "args"} /\ phase' \in {"file", "args", "pty"}
        BY <1>3 DEF FileLine, Argument
    <2>2. Asks' /\ Reads' /\ Spare' /\ phase' # "crashed"
        BY <2>1 DEF Asks, Reads, Reading, Making, Spare
    <2>3. TypeOK'
        BY <2>1 DEF TypeOK, Phases, Free, Connected
    <2>. QED
        BY <2>2, <2>3
<1>4. CASE Spawn
    <2>. USE <1>4 DEF Spawn
    <2>1. masters \in Nat /\ leaked \in Nat /\ made \in Nat /\ leaked <= made + 1 /\ masters <= made
        BY DEF TypeOK
    <2>2. Free = Limit - masters - leaked - 1 /\ Limit \in Nat /\ MaxMade \in Nat
        BY CountFacts DEF Free, Connected
    <2>3. made < MaxMade
        BY DEF Reads, Making
    <2>4. phase' = "idle" /\ made' = made + 1 /\ leaked' = leaked /\ whole' \in BOOLEAN
        BY DEF CloseClient
    <2>5. masters' = masters \/ (masters' = masters + 1 /\ Free >= 1)
        OBVIOUS
    <2>6. Spare' /\ masters' \in 0..made' /\ made' \in 0..MaxMade /\ leaked' \in 0..made'
        BY <2>1, <2>2, <2>3, <2>4, <2>5 DEF Spare
    <2>7. Free' >= 0
        BY <2>1, <2>2, <2>4, <2>6 DEF Free, Connected, Spare
    <2>8. Asks' /\ Reads'
        BY DEF Asks, Reads, Reading, Making, CloseClient
    <2>9. part' \in Seq(Bytes) /\ Len(part') = 0 /\ Len(packet'.bytes) = 0
        BY CatEmpty DEF CloseClient, NoPacket
    <2>10. sent' = 0 /\ got' = 0 /\ len' = 0 /\ type' = 0 /\ client' = "off" /\ asked' = NoRequest
           /\ files' = files /\ errno' = errno
        BY DEF CloseClient
    <2>11. TypeOK'
        BY <2>4, <2>6, <2>7, <2>9, <2>10 DEF TypeOK, Phases
    <2>. QED
        BY <2>4, <2>6, <2>8, <2>11
<1>. QED
    BY <1>1, <1>2, <1>3, <1>4

\* Steps of the rest of the daemon.
LEMMA IdleSteps ==
    ASSUME Arrives, TermEnds \/ \E e \in {"other", "EINTR"} : CallFails(e)
    PROVE  Arrives'
<1>. USE DEF Arrives, clientvars, packetvars, configvars, tablevars
<1>1. CASE TermEnds
    <2>. USE <1>1 DEF TermEnds
    <2>1. masters \in Nat /\ leaked \in Nat /\ Limit \in Nat /\ made \in Nat /\ masters <= made
        BY CountFacts DEF TypeOK
    <2>2. Asks' /\ Reads' /\ Spare'
        BY <2>1 DEF Asks, Reads, Reading, Making, Spare
    <2>3. Free' >= 0 /\ masters' \in 0..made'
        BY <2>1 DEF Free, Connected, TypeOK
    <2>. QED
        BY <2>2, <2>3 DEF TypeOK
<1>2. CASE \E e \in {"other", "EINTR"} : CallFails(e)
    <2>. USE <1>2 DEF CallFails
    <2>1. Asks' /\ Reads' /\ Spare'
        BY DEF Asks, Reads, Reading, Making, Spare
    <2>. QED
        BY <2>1 DEF TypeOK, Free, Connected
<1>. QED
    BY <1>1, <1>2

LEMMA RequestNext == Arrives /\ [Next]_vars => Arrives'
<1>. SUFFICES ASSUME Arrives, [Next]_vars PROVE Arrives'
    OBVIOUS
<1>1. CASE Next
    BY <1>1, ClientSteps, ReadSteps, RequestSteps, IdleSteps DEF Next
<1>2. CASE UNCHANGED vars
    BY <1>2 DEF vars, clientvars, packetvars, configvars, tablevars, Arrives, TypeOK, Asks, Reads,
                Spare, Free, Connected, Offset, Want
<1>. QED
    BY <1>1, <1>2

\* A terminal is made from what the client asked for, however its packet was
\* cut, a message of runesc always parses, and there is always a descriptor
\* left for a client (protocol.c, daemon.c).
THEOREM RequestSafe == Spec => []RequestsArrive
<1>1. Arrives => RequestsArrive
    BY DEF Arrives, RequestsArrive, Reads, Making
<1>. QED
    BY <1>1, RequestInit, RequestNext, PTL DEF Spec

-----------------------------------------------------------------------------
(* The terminal is configured by the file and by the arguments *)

\* The arguments that take the next one as their value.
Takes(v, f) == f = [i \in 1..Len(v) |-> i > 1 /\ IsOption(v[i]) /\ ~f[i - 1]]

LEMMA TakesFacts ==
    ASSUME NEW v \in Seq(Seq(Words))
    PROVE  \E f : Takes(v, f)
<1>. DEFINE opt(i) == IsOption(v[i])
            Is(f, n) == /\ f \in [1..n -> BOOLEAN]
                        /\ \A i \in 1..n : f[i] <=> i > 1 /\ opt(i) /\ ~f[i - 1]
            S == {n \in Nat : \E f : Is(f, n)}
<1>. HIDE DEF opt
<1>1. 0 \in S
    <2>. DEFINE f == [i \in 1..0 |-> FALSE]
    <2>1. Is(f, 0)
        OBVIOUS
    <2>. QED
        BY <2>1
<1>2. ASSUME NEW n \in Nat, n \in S
      PROVE  n + 1 \in S
    <2>1. PICK f : Is(f, n)
        BY <1>2
    <2>. DEFINE last == n + 1 > 1 /\ opt(n + 1) /\ ~f[n]
                g == [i \in 1..(n + 1) |-> IF i = n + 1 THEN last ELSE f[i]]
    <2>2. last \in BOOLEAN
        OBVIOUS
    <2>3. g \in [1..(n + 1) -> BOOLEAN]
        <3>. HIDE DEF last
        <3>1. \A i \in 1..(n + 1) : i # n + 1 => i \in 1..n
            OBVIOUS
        <3>. QED
            BY <2>1, <2>2, <3>1
    <2>4. ASSUME NEW i \in 1..(n + 1)
          PROVE  g[i] <=> i > 1 /\ opt(i) /\ ~g[i - 1]
        <3>1. CASE i = n + 1
            <4>1. g[i] <=> last
                <5>. HIDE DEF last
                <5>. QED
                    BY <3>1
            <4>2. n + 1 > 1 => n \in 1..(n + 1) /\ n # n + 1 /\ (n + 1) - 1 = n
                OBVIOUS
            <4>3. n + 1 > 1 => g[i - 1] = f[n]
                <5>. HIDE DEF last
                <5>. QED
                    BY <3>1, <4>2
            <4>. HIDE DEF g
            <4>. QED
                BY <3>1, <4>1, <4>3
        <3>2. CASE i \in 1..n
            <4>1. i # n + 1 /\ (i > 1 => i - 1 \in 1..(n + 1) /\ i - 1 # n + 1)
                BY <3>2
            <4>2. g[i] = f[i] /\ (i > 1 => g[i - 1] = f[i - 1])
                <5>. HIDE DEF last
                <5>. QED
                    BY <4>1
            <4>3. f[i] <=> i > 1 /\ opt(i) /\ ~f[i - 1]
                BY <2>1, <3>2
            <4>. HIDE DEF g
            <4>. QED
                BY <4>2, <4>3
        <3>. QED
            BY <3>1, <3>2
    <2>5. Is(g, n + 1)
        <3>. HIDE DEF g
        <3>. QED
            BY <2>3, <2>4
    <2>. HIDE DEF g
    <2>. QED
        BY <2>5
<1>3. Nat \subseteq S
    <2>. HIDE DEF S
    <2>. QED
        BY <1>1, <1>2, Induction
<1>4. PICK f : Is(f, Len(v))
    <2>1. Len(v) \in S
        <3>. HIDE DEF S
        <3>. QED
            BY <1>3, LenProperties
    <2>. QED
        BY <2>1
<1>5. f = [i \in 1..Len(v) |-> i > 1 /\ opt(i) /\ ~f[i - 1]]
    <2>1. \A i \in 1..Len(v) : f[i] = (i > 1 /\ opt(i) /\ ~f[i - 1])
        BY <1>4
    <2>. QED
        BY <1>4, <2>1
<1>. QED
    BY <1>5 DEF Takes, opt

LEMMA SetsFacts ==
    ASSUME NEW v \in Seq(Seq(Words))
    PROVE  \E f : /\ \A i \in 1..Len(v) : f[i] <=> i > 1 /\ IsOption(v[i]) /\ ~f[i - 1]
                  /\ Sets(v) = {i \in 1..Len(v) : f[i] /\ i < Len(v)}
<1>. DEFINE f == CHOOSE e : Takes(v, e)
<1>1. Takes(v, f)
    BY TakesFacts
<1>2. Sets(v) = {i \in DOMAIN v : f[i] /\ i < Len(v)}
    BY Zenon DEF Sets, Takes
<1>3. DOMAIN v = 1..Len(v)
    OBVIOUS
<1>. HIDE DEF f
<1>4. \A i \in 1..Len(v) : f[i] <=> i > 1 /\ IsOption(v[i]) /\ ~f[i - 1]
    BY <1>1 DEF Takes
<1>. QED
    BY <1>2, <1>3, <1>4

\* A configuration has a value for each key.
IsConfig(c) ==
    c = [rows |-> c.rows, audible_bell |-> c.audible_bell, bgcolor |-> c.bgcolor,
         command |-> c.command]

\* What is set is what the text says, whatever was there before, and nothing
\* else changes.
LEMMA SetFacts ==
    ASSUME NEW c, IsConfig(c), NEW name, NEW text
    PROVE  /\ IsConfig(Set(c, name, text))
           /\ \A key \in Keys :
                 Set(c, name, text)[key] =
                     IF name = key /\ Counts(key, text) THEN Set(Defaults, key, text)[key] ELSE c[key]
<1>1. CASE name = "rows"
    BY <1>1 DEF IsConfig, Set, Keys, Counts, Defaults
<1>2. CASE name = "audible_bell"
    BY <1>2 DEF IsConfig, Set, Keys, Counts, Defaults
<1>3. CASE name = "bgcolor"
    BY <1>3 DEF IsConfig, Set, Keys, Counts, Defaults
<1>4. CASE name = "command"
    BY <1>4 DEF IsConfig, Set, Keys, Counts, Defaults
<1>5. CASE name \notin Keys
    BY <1>5 DEF IsConfig, Set, Keys
<1>. QED
    BY <1>1, <1>2, <1>3, <1>4, <1>5 DEF Keys

LEMMA DefaultsFacts == IsConfig(Defaults)
    BY DEF IsConfig, Defaults

LEMMA LastFacts ==
    ASSUME NEW S \in SUBSET Nat, NEW m \in Nat, \A i \in S : i < m
    PROVE  Max(S \cup {m}) = m
<1>. DEFINE T == S \cup {m}
<1>1. m \in T /\ \A y \in T : m >= y
    OBVIOUS
<1>2. Max(T) \in T /\ \A y \in T : Max(T) >= y
    BY <1>1 DEF Max
<1>3. Max(T) \in Nat /\ Max(T) >= m /\ m >= Max(T)
    BY <1>1, <1>2
<1>. QED
    BY <1>3

\* c has the values that the first k lines of the file and the first a
\* arguments give to the keys.
As(c, file, k, v, a) ==
    \A key \in Keys :
        c[key] = Said(key, file, LinesFor(key, file) \cap 1..k, v, ArgsFor(key, v) \cap 1..a)

\* The last of the lines counts, and the last of the arguments before any line.
LEMMA SaidByLine ==
    ASSUME NEW key, NEW file, NEW v, NEW S \in SUBSET Nat, NEW m \in Nat, \A i \in S : i < m
    PROVE  Said(key, file, S \cup {m}, v, {}) = Set(Defaults, key, TextOf(file.lines[m]))[key]
<1>. DEFINE T == S \cup {m}
<1>1. Max(T) = m /\ T # {}
    BY LastFacts
<1>. HIDE DEF T
<1>2. Said(key, file, T, v, {}) = Set(Defaults, key, TextOf(file.lines[m]))[key]
    BY <1>1, Zenon DEF Said
<1>. QED
    BY <1>2 DEF T

LEMMA SaidByArg ==
    ASSUME NEW key, NEW file, NEW v, NEW lines, NEW T, T # {}, NEW m, Max(T) = m
    PROVE  Said(key, file, lines, v, T) = Set(Defaults, key, v[m + 1])[key]
    BY Zenon DEF Said

\* One line.
LEMMA LineFacts ==
    ASSUME NEW file \in Files, Plain(file), NEW k \in Nat, k + 1 <= Len(file.lines),
           NEW v \in Seq(Seq(Words)), NEW c, IsConfig(c), As(c, file, k, v, 1),
           NEW newline, NEW d \in ProcessLine(c, Piece(file.lines[k + 1]), newline)
    PROVE  /\ ~Cut(file.lines[k + 1])
           /\ IsConfig(d) /\ As(d, file, k + 1, v, 1)
<1>. DEFINE line == file.lines[k + 1]
<1>1. file.lines \in Seq(Seq(Words)) /\ k + 1 \in DOMAIN file.lines /\ line \in Seq(Words)
    BY DEF Files
<1>2. /\ ~Cut(line) /\ Piece(line) = line
      /\ IsComment(line) \/ (Len(line) >= 2 /\ line[2] = "=")
    BY <1>1 DEF Plain, Piece
<1>3. \A key \in Keys : ArgsFor(key, v) \cap 1..1 = {}
    <2>1. PICK f : /\ \A i \in 1..Len(v) : f[i] <=> i > 1 /\ IsOption(v[i]) /\ ~f[i - 1]
                   /\ Sets(v) = {i \in 1..Len(v) : f[i] /\ i < Len(v)}
        BY SetsFacts
    <2>2. 1 \notin Sets(v)
        BY <2>1
    <2>. QED
        BY <2>2 DEF ArgsFor
<1>. DEFINE L(key, n) == LinesFor(key, file) \cap 1..n
<1>4. \A key \in Keys : c[key] = Said(key, file, L(key, k), v, {})
    BY <1>3 DEF As
<1>5. \A key \in Keys : L(key, k) \in SUBSET Nat /\ \A i \in L(key, k) : i < k + 1
    OBVIOUS
<1>6. \A key \in Keys : L(key, k + 1) = IF k + 1 \in LinesFor(key, file) THEN L(key, k) \cup {k + 1}
                                        ELSE L(key, k)
    OBVIOUS
<1>7. \A key \in Keys : k + 1 \in LinesFor(key, file)
                           <=> ~IsComment(line) /\ line[1] = key /\ Counts(key, TextOf(line))
    BY <1>1 DEF LinesFor
<1>8. CASE IsComment(line)
    <2>1. d = c
        BY <1>2, <1>8 DEF ProcessLine
    <2>2. \A key \in Keys : L(key, k + 1) = L(key, k)
        BY <1>6, <1>7, <1>8
    <2>3. \A key \in Keys : d[key] = Said(key, file, L(key, k + 1), v, {})
        <3>. HIDE DEF L
        <3>. QED
            BY <1>4, <2>1, <2>2
    <2>. QED
        BY <1>2, <1>3, <2>1, <2>3 DEF As
<1>9. CASE ~IsComment(line)
    <2>1. Len(line) >= 2 /\ line[2] = "=" /\ Len(line) \in Nat
        BY <1>1, <1>2, <1>9
    <2>2. PICK text \in TextsOf(line, newline) : d = Set(c, line[1], text)
        BY <1>2, <1>9 DEF ProcessLine
    <2>3. line[1] # "=" => text = TextOf(line)
        <3>. SUFFICES ASSUME line[1] # "=" PROVE text = TextOf(line)
            OBVIOUS
        <3>. DEFINE rest == Tail(line)
        <3>1. rest \in Seq(Words) /\ rest # <<>> /\ rest[1] = "="
            <4>. HIDE DEF line
            <4>1. line \in Seq(Words) /\ line # <<>>
                BY <1>1, <2>1
            <4>2. rest \in Seq(Words) /\ Len(rest) = Len(line) - 1
                BY <4>1
            <4>3. Len(rest) >= 1 /\ rest[1] = line[2]
                BY <2>1, <4>1, <4>2
            <4>4. rest # <<>>
                <5>. HIDE DEF rest
                <5>1. rest = <<>> => Len(rest) = 0
                    OBVIOUS
                <5>. QED
                    BY <4>3, <5>1
            <4>. QED
                BY <2>1, <4>2, <4>3, <4>4
        <3>2. TextsOf(line, newline) = {Tail(rest)}
            <4>. HIDE DEF line, rest
            <4>1. (IF line[1] = "=" THEN line ELSE Tail(line)) = rest
                BY DEF rest
            <4>. QED
                BY <3>1, <4>1 DEF TextsOf
        <3>3. Tail(rest) = SubSeq(line, 3, Len(line))
            <4>. HIDE DEF line
            <4>. QED
                BY <1>1, <2>1
        <3>. QED
            BY <2>2, <3>2, <3>3 DEF TextOf
    <2>. HIDE DEF line
    <2>4. /\ IsConfig(d)
          /\ \A key \in Keys : d[key] = IF line[1] = key /\ Counts(key, text)
                                        THEN Set(Defaults, key, text)[key] ELSE c[key]
        BY <2>2, SetFacts
    <2>5. ASSUME NEW key \in Keys
          PROVE  d[key] = Said(key, file, L(key, k + 1), v, {})
        <3>1. CASE line[1] = key /\ Counts(key, TextOf(line))
            <4>1. text = TextOf(line)
                BY <2>3, <3>1 DEF Keys
            <4>2. d[key] = Set(Defaults, key, TextOf(line))[key]
                BY <2>4, <3>1, <4>1
            <4>3. L(key, k + 1) = L(key, k) \cup {k + 1}
                BY <1>6, <1>7, <1>9, <3>1
            <4>. HIDE DEF L
            <4>4. Said(key, file, L(key, k) \cup {k + 1}, v, {})
                      = Set(Defaults, key, TextOf(line))[key]
                <5>. DEFINE S == L(key, k)
                            m == k + 1
                <5>1. S \in SUBSET Nat /\ (\A i \in S : i < m) /\ m \in Nat
                    BY <1>5
                <5>. HIDE DEF S, m
                <5>2. Said(key, file, S \cup {m}, v, {})
                          = Set(Defaults, key, TextOf(file.lines[m]))[key]
                    BY <5>1, SaidByLine
                <5>. QED
                    BY <5>2 DEF S, m, line
            <4>. QED
                BY <4>2, <4>3, <4>4
        <3>2. CASE ~(line[1] = key /\ Counts(key, TextOf(line)))
            <4>1. ~(line[1] = key /\ Counts(key, text))
                BY <2>3, <3>2 DEF Keys
            <4>2. d[key] = c[key]
                BY <2>4, <4>1
            <4>3. L(key, k + 1) = L(key, k)
                BY <1>6, <1>7, <3>2
            <4>. HIDE DEF L
            <4>. QED
                BY <1>4, <4>2, <4>3
        <3>. QED
            BY <3>1, <3>2
    <2>. QED
        BY <1>2, <1>3, <2>4, <2>5 DEF As, line
<1>. QED
    BY <1>8, <1>9

\* One argument, and the value that it takes.
LEMMA ArgFacts ==
    ASSUME NEW v \in Seq(Seq(Words)), NEW a \in Nat, a >= 2, a <= Len(v), a - 1 \notin Sets(v),
           NEW file, NEW k, NEW c, IsConfig(c), As(c, file, k, v, a - 1)
    PROVE  LET d == ProcessArg(c, v, a)
               b == NextArg(v, a)
           IN  /\ IsConfig(d) /\ As(d, file, k, v, b - 1)
               /\ b \in Nat /\ b >= 2 /\ b - 1 \notin Sets(v)
<1>. DEFINE d == ProcessArg(c, v, a)
            A(key, n) == ArgsFor(key, v) \cap 1..n
            inFile(key) == LinesFor(key, file) \cap 1..k
<1>1. PICK f : /\ \A i \in 1..Len(v) : f[i] <=> i > 1 /\ IsOption(v[i]) /\ ~f[i - 1]
               /\ Sets(v) = {i \in 1..Len(v) : f[i] /\ i < Len(v)}
    BY SetsFacts
<1>2. Len(v) \in Nat /\ a \in 1..Len(v) /\ a - 1 \in 1..Len(v) /\ a > 1 /\ a - 1 < Len(v)
    BY LenProperties
<1>3. ~f[a - 1]
    BY <1>1, <1>2
<1>4. f[a] <=> IsOption(v[a])
    BY <1>1, <1>2, <1>3
<1>5. a \in Sets(v) <=> HasValue(v, a)
    BY <1>1, <1>2, <1>4 DEF HasValue
<1>6. \A key \in Keys : A(key, a - 1) \in SUBSET Nat /\ \A i \in A(key, a - 1) : i < a
    BY <1>2
<1>7. \A key \in Keys : c[key] = Said(key, file, inFile(key), v, A(key, a - 1))
    BY DEF As
<1>8. CASE HasValue(v, a)
    <2>1. a < Len(v) /\ a + 1 \in 1..Len(v) /\ (a + 1) - 1 = a
        BY <1>2, <1>8 DEF HasValue
    <2>2. f[a]
        BY <1>4, <1>8 DEF HasValue
    <2>3. a + 1 \notin Sets(v)
        BY <1>1, <2>1, <2>2
    <2>4. NextArg(v, a) = a + 2 /\ d = Set(c, Option(v[a]), v[a + 1])
        BY <1>8 DEF NextArg, ProcessArg
    <2>. DEFINE name == Option(v[a])
                text == v[a + 1]
    <2>. HIDE DEF name, text, d
    <2>5. /\ IsConfig(d)
          /\ \A key \in Keys : d[key] = IF name = key /\ Counts(key, text)
                                        THEN Set(Defaults, key, text)[key] ELSE c[key]
        BY <2>4, SetFacts DEF name, text
    <2>6. \A key \in Keys : a \in ArgsFor(key, v) <=> name = key /\ Counts(key, text)
        BY <1>5, <1>8 DEF ArgsFor, name, text
    <2>7. \A key \in Keys : a + 1 \notin ArgsFor(key, v)
        BY <2>3 DEF ArgsFor
    <2>8. \A key \in Keys : A(key, a + 1) = IF a \in ArgsFor(key, v) THEN A(key, a - 1) \cup {a}
                                            ELSE A(key, a - 1)
        <3>1. 1..(a + 1) = 1..(a - 1) \cup {a, a + 1}
            BY <1>2
        <3>. QED
            BY <2>7, <3>1
    <2>9. ASSUME NEW key \in Keys
          PROVE  d[key] = Said(key, file, inFile(key), v, A(key, a + 1))
        <3>1. CASE name = key /\ Counts(key, text)
            <4>1. d[key] = Set(Defaults, key, text)[key]
                BY <2>5, <3>1
            <4>2. A(key, a + 1) = A(key, a - 1) \cup {a}
                BY <2>6, <2>8, <3>1
            <4>. HIDE DEF A, inFile
            <4>3. Said(key, file, inFile(key), v, A(key, a - 1) \cup {a}) = Set(Defaults, key, text)[key]
                <5>. DEFINE S == A(key, a - 1)
                            ls == inFile(key)
                <5>1. S \in SUBSET Nat /\ \A i \in S : i < a
                    BY <1>6
                <5>2. text = v[a + 1]
                    BY DEF text
                <5>. DEFINE T == S \cup {a}
                <5>. HIDE DEF S, ls
                <5>3. Max(T) = a
                    BY <5>1, <1>2, LastFacts
                <5>4. T # {}
                    OBVIOUS
                <5>. HIDE DEF T
                <5>5. Said(key, file, ls, v, T) = Set(Defaults, key, v[a + 1])[key]
                    BY ONLY <5>3, <5>4, SaidByArg
                <5>. QED
                    BY <5>2, <5>5 DEF S, ls, T
            <4>. QED
                BY <4>1, <4>2, <4>3
        <3>2. CASE ~(name = key /\ Counts(key, text))
            <4>1. d[key] = c[key]
                BY <2>5, <3>2
            <4>2. A(key, a + 1) = A(key, a - 1)
                BY <2>6, <2>8, <3>2
            <4>. HIDE DEF A, inFile
            <4>. QED
                BY <1>7, <4>1, <4>2
        <3>. QED
            BY <3>1, <3>2
    <2>10. As(d, file, k, v, a + 1)
        BY <2>9 DEF As
    <2>11. NextArg(v, a) - 1 = a + 1 /\ NextArg(v, a) \in Nat /\ NextArg(v, a) >= 2
        BY <2>4
    <2>. QED
        BY <2>3, <2>5, <2>10, <2>11 DEF d
<1>9. CASE ~HasValue(v, a)
    <2>1. NextArg(v, a) = a + 1 /\ d = c
        BY <1>9 DEF NextArg, ProcessArg
    <2>2. a \notin Sets(v)
        BY <1>5, <1>9
    <2>3. \A key \in Keys : a \notin ArgsFor(key, v)
        BY <2>2 DEF ArgsFor
    <2>4. \A key \in Keys : A(key, a) = A(key, a - 1)
        <3>1. 1..a = 1..(a - 1) \cup {a}
            BY <1>2
        <3>. QED
            BY <2>3, <3>1
    <2>5. \A key \in Keys : d[key] = Said(key, file, inFile(key), v, A(key, a))
        <3>. HIDE DEF A, inFile, d
        <3>. QED
            BY <1>7, <2>1, <2>4
    <2>6. As(d, file, k, v, a)
        <3>. HIDE DEF d
        <3>. QED
            BY <2>5 DEF As
    <2>7. NextArg(v, a) - 1 = a /\ NextArg(v, a) \in Nat /\ NextArg(v, a) >= 2
        BY <2>1
    <2>. HIDE DEF d
    <2>. QED
        BY <2>1, <2>2, <2>6, <2>7 DEF d
<1>. QED
    BY <1>8, <1>9

-----------------------------------------------------------------------------
(* A terminal is made *)

\* Where the arguments are: not behind the value of an option.
ArgAt ==
    /\ arg \in Nat /\ arg >= 2 /\ arg - 1 \notin Sets(Argv)
    /\ phase = "file" => arg = 2
    /\ phase = "pty" => arg > Len(Argv)

\* The configuration is what the lines and the arguments before say.
ConfiguredSoFar(file) ==
    unread \in Files /\ \E k \in 0..Len(file.lines) :
        /\ unread.lines = SubSeq(file.lines, k + 1, Len(file.lines))
        /\ phase # "file" => k = Len(file.lines)
        /\ As(config, file, k, Argv, arg - 1)

Configures ==
    phase \in Making /\ Limit - masters - made >= 4 /\ Plain(ConfigFile(files)) =>
        IsConfig(config) /\ ArgAt /\ ConfiguredSoFar(ConfigFile(files))

LEMMA FileFacts ==
    ASSUME TypeOK
    PROVE  ConfigFile(files) \in Files
<1>. DEFINE there == {i \in DOMAIN Places : files[Places[i]] # Missing}
<1>1. \A p \in ToSet(Places) : files[p] \in Files
    BY RequestAssumption DEF TypeOK
<1>2. CASE there = {}
    <2>1. <<>> \in Seq(Seq(Words))
        OBVIOUS
    <2>2. Missing \in Files
        BY <2>1 DEF Missing, Files
    <2>. QED
        BY <1>2, <2>2 DEF ConfigFile
<1>3. CASE there # {}
    <2>1. DOMAIN Places = 1..3
        BY DEF Places
    <2>2. there \in SUBSET Nat
        BY <2>1
    <2>3. Min(there) \in there
        <3>. HIDE DEF there
        <3>. QED
            BY <1>3, <2>2, LeastFacts
    <2>4. Places[Min(there)] \in ToSet(Places)
        <3>1. Min(there) \in DOMAIN Places
            BY <2>3
        <3>. QED
            BY <3>1, Zenon DEF ToSet
    <2>5. ConfigFile(files) = files[Places[Min(there)]]
        BY <1>3 DEF ConfigFile
    <2>. QED
        BY <1>1, <2>4, <2>5
<1>. QED
    BY <1>2, <1>3

\* The arguments of a message, word by word.
WordsOf(m) == [i \in DOMAIN m.argv |-> [k \in DOMAIN m.argv[i] |-> Letters[m.argv[i][k]]]]

LEMMA WordsFacts ==
    ASSUME NEW r \in Requests, r.kind = "new_term"
    PROVE  WordsOf(r.msg) \in Seq(Seq(Words)) /\ Len(WordsOf(r.msg)) = r.msg.argc
<1>. DEFINE m == r.msg
            words == WordsOf(m)
<1>2. m.argv \in Seq(Seq(DOMAIN Letters)) /\ m \in Messages
    BY RequestFacts
<1>3. m.argc = Len(m.argv)
    BY <1>2 DEF Messages
<1>. HIDE DEF m
<1>4. \A b \in DOMAIN Letters : Letters[b] \in Words
    BY RequestAssumption
<1>5. \A i \in DOMAIN m.argv : words[i] \in Seq(Words)
    <2>. SUFFICES ASSUME NEW i \in DOMAIN m.argv PROVE words[i] \in Seq(Words)
        OBVIOUS
    <2>. DEFINE s == m.argv[i]
    <2>1. s \in Seq(DOMAIN Letters)
        BY <1>2
    <2>2. words[i] = [k \in DOMAIN s |-> Letters[s[k]]]
        BY DEF WordsOf
    <2>. HIDE DEF s
    <2>3. \A k \in DOMAIN s : s[k] \in DOMAIN Letters
        BY <2>1
    <2>4. DOMAIN s = 1..Len(s) /\ Len(s) \in Nat
        BY <2>1
    <2>5. \A k \in 1..Len(s) : Letters[s[k]] \in Words
        BY <1>4, <2>3, <2>4
    <2>. QED
        BY <2>2, <2>4, <2>5
<1>6. DOMAIN m.argv = 1..Len(m.argv) /\ Len(m.argv) \in Nat
    BY <1>2
<1>7. DOMAIN words = 1..Len(m.argv)
    BY <1>6 DEF WordsOf
<1>8. words = [i \in 1..Len(m.argv) |-> words[i]]
    BY <1>6 DEF WordsOf
<1>9. words \in [1..Len(m.argv) -> Seq(Words)]
    BY <1>5, <1>6, <1>8
<1>. HIDE DEF words
<1>10. words \in Seq(Seq(Words)) /\ Len(words) = m.argc
    BY <1>3, <1>6, <1>7, <1>9
<1>. QED
    BY <1>10 DEF m, words

LEMMA ArgvFacts ==
    ASSUME Asks, Reads, phase \in Making
    PROVE  Argv \in Seq(Seq(Words)) /\ Len(Argv) = msg.argc
<1>1. asked \in Requests /\ asked.kind = "new_term" /\ msg = asked.msg
    BY DEF Asks, Reads, Making
<1>2. Argv = WordsOf(msg)
    BY DEF Argv, WordsOf
<1>. QED
    BY <1>1, <1>2, WordsFacts

LEMMA FirstFacts ==
    ASSUME NEW v \in Seq(Seq(Words)), NEW file
    PROVE  1 \notin Sets(v) /\ As(Defaults, file, 0, v, 1)
<1>1. 1 \notin Sets(v)
    <2>1. PICK f : /\ \A i \in 1..Len(v) : f[i] <=> i > 1 /\ IsOption(v[i]) /\ ~f[i - 1]
                   /\ Sets(v) = {i \in 1..Len(v) : f[i] /\ i < Len(v)}
        BY SetsFacts
    <2>. QED
        BY <2>1
<1>2. ASSUME NEW key \in Keys
      PROVE  Defaults[key] = Said(key, file, LinesFor(key, file) \cap 1..0, v, ArgsFor(key, v) \cap 1..1)
    <2>1. ArgsFor(key, v) \cap 1..1 = {}
        BY <1>1 DEF ArgsFor
    <2>2. LinesFor(key, file) \cap 1..0 = {}
        OBVIOUS
    <2>3. Said(key, file, {}, v, {}) = Defaults[key]
        BY Zenon DEF Said
    <2>. QED
        BY <2>1, <2>2, <2>3
<1>. QED
    BY <1>1, <1>2 DEF As

\* The conclusion of Configures.
Tracked(file) == IsConfig(config) /\ ArgAt /\ ConfiguredSoFar(file)

\* A terminal is begun.
LEMMA Begins ==
    ASSUME Arrives, Arrives', NewTerm, Limit - masters - made >= 4, Plain(ConfigFile(files))
    PROVE  Tracked(ConfigFile(files))'
<1>. DEFINE file == ConfigFile(files)
<1>1. phase' = "file" /\ arg' = 2 /\ config' = Defaults /\ files' = files
    BY DEF NewTerm, Arrives
<1>2. file \in Files
    BY FileFacts DEF Arrives
<1>3. Argv' \in Seq(Seq(Words))
    <2>1. asked' \in Requests /\ asked'.kind = "new_term" /\ msg' = asked'.msg
        BY <1>1 DEF Arrives, Asks, Reads, Making
    <2>2. Argv' = WordsOf(msg')
        BY DEF Argv, WordsOf
    <2>. QED
        BY <2>1, <2>2, WordsFacts
<1>4. unread' = file
    <2>1. masters \in Nat /\ leaked \in Nat /\ made \in Nat /\ leaked <= made /\ Limit \in Nat
        BY CountFacts DEF Arrives, TypeOK, NewTerm
    <2>2. Free = Limit - masters - leaked - 1
        BY DEF NewTerm, Free, Connected
    <2>3. Free # 0
        BY <2>1, <2>2
    <2>. QED
        BY <2>3 DEF NewTerm
<1>5. ArgAt'
    <2>1. 1 \notin Sets(Argv')
        BY <1>3, FirstFacts
    <2>. QED
        BY <1>1, <2>1 DEF ArgAt
<1>. HIDE DEF file
<1>6. file.lines \in Seq(Seq(Words)) /\ Len(file.lines) \in Nat
    BY <1>2 DEF Files
<1>7. SubSeq(file.lines, 0 + 1, Len(file.lines)) = file.lines
    BY <1>6
<1>8. As(config', file, 0, Argv', arg' - 1)
    BY <1>1, <1>3, FirstFacts
<1>9. file' = file
    BY <1>1 DEF file
<1>10. ConfiguredSoFar(file)'
    <2>1. 0 \in 0..Len(file.lines)
        BY <1>6
    <2>. QED
        BY <1>1, <1>2, <1>4, <1>7, <1>8, <1>9, <2>1 DEF ConfiguredSoFar
<1>11. IsConfig(config)'
    BY <1>1, DefaultsFacts
<1>. QED
    BY <1>5, <1>10, <1>11 DEF Tracked, file

LEMMA FileLineTracks ==
    ASSUME Arrives, FileLine, Plain(ConfigFile(files)), Tracked(ConfigFile(files))
    PROVE  Tracked(ConfigFile(files))'
<1>. DEFINE file == ConfigFile(files)
            lines == file.lines
            n == Len(lines)
<1>1. files' = files /\ Argv' = Argv /\ arg' = arg /\ phase = "file" /\ arg = 2 /\ phase' # "pty"
      /\ arg - 1 = 1
    BY DEF FileLine, Argv, Tracked, ArgAt
<1>2. file \in Files /\ Argv \in Seq(Seq(Words)) /\ Plain(file)
    BY <1>1, FileFacts, ArgvFacts DEF Arrives, Making
<1>3. ArgAt'
    BY <1>1 DEF Tracked, ArgAt
<1>. HIDE DEF file
<1>4. PICK k \in 0..n : unread.lines = SubSeq(lines, k + 1, n) /\ As(config, file, k, Argv, 1)
    BY <1>1 DEF Tracked, ConfiguredSoFar, file
<1>5. lines \in Seq(Seq(Words)) /\ n \in Nat /\ k \in Nat /\ k <= n
    BY <1>2, <1>4 DEF Files
<1>6. unread \in Files /\ IsConfig(config) /\ file' = file
    BY <1>1 DEF Tracked, ConfiguredSoFar, file
<1>7. CASE unread.lines = <<>>
    <2>1. k = n
        <3>1. k < n => Len(SubSeq(lines, k + 1, n)) > 0
            BY <1>5
        <3>. QED
            BY <1>4, <1>5, <1>7, <3>1
    <2>2. unread' = unread /\ config' = config
        BY <1>7 DEF FileLine
    <2>3. ConfiguredSoFar(file)'
        <3>. HIDE DEF lines, n
        <3>1. As(config', file', k, Argv', arg' - 1)
            BY <1>1, <1>4, <1>6, <2>2
        <3>. QED
            BY <1>4, <1>6, <2>1, <2>2, <3>1 DEF ConfiguredSoFar, lines, n
    <2>. QED
        BY <1>3, <1>6, <2>2, <2>3 DEF Tracked, file
<1>8. CASE unread.lines # <<>>
    <2>. DEFINE line == unread.lines[1]
                rest == Tail(unread.lines)
    <2>1. k + 1 <= n /\ line = lines[k + 1] /\ rest = SubSeq(lines, (k + 1) + 1, n)
        <3>1. k + 1 <= n
            <4>1. ~(k + 1 <= n) => SubSeq(lines, k + 1, n) = <<>>
                BY <1>5
            <4>. QED
                BY <1>4, <1>8, <4>1
        <3>. HIDE DEF lines
        <3>2. SubSeq(lines, k + 1, n)[1] = lines[k + 1]
            BY <1>5, <3>1
        <3>3. Tail(SubSeq(lines, k + 1, n)) = SubSeq(lines, (k + 1) + 1, n)
            BY <1>5, <3>1
        <3>. QED
            BY <1>4, <3>1, <3>2, <3>3
    <2>2. PICK newline :
              /\ config' \in ProcessLine(config, Piece(line), newline)
              /\ unread' = [unread EXCEPT !.lines = IF Cut(line) THEN <<Rest(line)>> \o rest ELSE rest]
        BY <1>8 DEF FileLine
    <2>3. ~Cut(line) /\ IsConfig(config') /\ As(config', file, k + 1, Argv, 1)
        <3>1. config' \in ProcessLine(config, Piece(file.lines[k + 1]), newline)
            BY <2>1, <2>2
        <3>2. k \in Nat /\ k + 1 <= Len(file.lines)
            BY <1>5, <2>1
        <3>3. ~Cut(file.lines[k + 1]) /\ IsConfig(config') /\ As(config', file, k + 1, Argv, 1)
            BY ONLY <1>2, <1>4, <1>6, <3>1, <3>2, LineFacts
        <3>. QED
            BY <2>1, <3>3
    <2>4. unread'.lines = rest /\ unread' \in Files
        <3>1. rest \in Seq(Seq(Words))
            <4>1. rest = SubSeq(lines, (k + 1) + 1, n)
                BY <2>1
            <4>. HIDE DEF rest, lines
            <4>2. SubSeq(lines, (k + 1) + 1, n) \in Seq(Seq(Words))
                BY <1>5
            <4>. QED
                BY <4>1, <4>2
        <3>. HIDE DEF rest, line
        <3>. QED
            BY <1>6, <2>2, <2>3, <3>1 DEF Files
    <2>5. phase' = "file"
        BY <1>1, <1>8 DEF FileLine
    <2>6. ConfiguredSoFar(file)'
        <3>1. k + 1 \in 0..n
            <4>. HIDE DEF lines, n, line, rest
            <4>. QED
                BY <1>5, <2>1
        <3>2. As(config', file', k + 1, Argv', arg' - 1)
            BY <1>1, <1>6, <2>3
        <3>. HIDE DEF rest
        <3>. QED
            BY <1>6, <2>1, <2>4, <2>5, <3>1, <3>2 DEF ConfiguredSoFar
    <2>. QED
        BY <1>3, <2>3, <2>6 DEF Tracked, file
<1>. QED
    BY <1>7, <1>8

LEMMA ArgumentTracks ==
    ASSUME Arrives, Argument, Tracked(ConfigFile(files))
    PROVE  Tracked(ConfigFile(files))'
<1>. DEFINE file == ConfigFile(files)
            n == Len(file.lines)
<1>1. files' = files /\ Argv' = Argv /\ unread' = unread /\ phase = "args" /\ file' = file
      /\ phase' \in {"args", "pty"}
    BY DEF Argument, Argv
<1>2. Argv \in Seq(Seq(Words)) /\ Len(Argv) = msg.argc /\ Len(Argv) \in Nat
    BY <1>1, ArgvFacts, LenProperties DEF Arrives, Making
<1>3. /\ unread \in Files /\ n \in 0..n /\ unread.lines = SubSeq(file.lines, n + 1, n)
      /\ As(config, file, n, Argv, arg - 1) /\ IsConfig(config)
      /\ arg \in Nat /\ arg >= 2 /\ arg - 1 \notin Sets(Argv)
    BY <1>1 DEF Tracked, ConfiguredSoFar, ArgAt
<1>. HIDE DEF file, n
<1>4. CASE arg > msg.argc
    <2>1. arg' = arg /\ config' = config
        BY <1>4 DEF Argument
    <2>2. ArgAt'
        BY <1>1, <1>2, <1>3, <1>4, <2>1 DEF ArgAt
    <2>3. ConfiguredSoFar(file)'
        BY <1>1, <1>3, <2>1 DEF ConfiguredSoFar, n
    <2>. QED
        BY <1>3, <2>1, <2>2, <2>3 DEF Tracked, file
<1>5. CASE ~(arg > msg.argc)
    <2>1. config' = ProcessArg(config, Argv, arg) /\ arg' = NextArg(Argv, arg) /\ phase' = "args"
        BY <1>1, <1>5 DEF Argument
    <2>2. arg <= Len(Argv)
        BY <1>2, <1>3, <1>5
    <2>. DEFINE d == ProcessArg(config, Argv, arg)
                b == NextArg(Argv, arg)
    <2>3. IsConfig(d) /\ As(d, file, n, Argv, b - 1) /\ b \in Nat /\ b >= 2 /\ b - 1 \notin Sets(Argv)
        BY ONLY <1>2, <1>3, <2>2, ArgFacts
    <2>. HIDE DEF d, b
    <2>4. config' = d /\ arg' = b
        BY <2>1 DEF d, b
    <2>5. ArgAt'
        BY <1>1, <2>1, <2>3, <2>4 DEF ArgAt
    <2>6. ConfiguredSoFar(file)'
        BY <1>1, <1>3, <2>3, <2>4 DEF ConfiguredSoFar, n
    <2>. QED
        BY <2>3, <2>4, <2>5, <2>6 DEF Tracked, file
<1>. QED
    BY <1>4, <1>5

\* The other steps, as long as a terminal is made.
LEMMA OthersTrack ==
    ASSUME Tracked(ConfigFile(files)), phase' = phase,
           UNCHANGED <<files, msg, config, unread, arg>>
    PROVE  Tracked(ConfigFile(files))'
<1>1. Argv' = Argv
    BY DEF Argv
<1>2. ArgAt'
    BY <1>1 DEF Tracked, ArgAt
<1>3. ConfiguredSoFar(ConfigFile(files))'
    BY <1>1 DEF Tracked, ConfiguredSoFar
<1>. QED
    BY <1>2, <1>3 DEF Tracked

LEMMA ConfiguresNext ==
    ASSUME Arrives, Arrives', Configures, [Next]_vars
    PROVE  Configures'
<1>. SUFFICES ASSUME (phase \in Making)', (Limit - masters - made >= 4)', Plain(ConfigFile(files))'
              PROVE  Tracked(ConfigFile(files))'
    BY DEF Configures, Tracked
<1>1. ASSUME phase \in Making, UNCHANGED <<files, masters, made>>
      PROVE  Tracked(ConfigFile(files)) /\ Plain(ConfigFile(files))
    BY <1>1 DEF Configures, Tracked
<1>2. CASE NewTerm
    <2>1. UNCHANGED <<files, masters, made>>
        BY <1>2 DEF NewTerm
    <2>. QED
        BY <1>2, <2>1, Begins
<1>3. CASE FileLine
    <2>1. phase \in Making /\ UNCHANGED <<files, masters, made>>
        BY <1>3 DEF FileLine, Making, tablevars
    <2>. QED
        BY <1>1, <1>3, <2>1, FileLineTracks
<1>4. CASE Argument
    <2>1. phase \in Making /\ UNCHANGED <<files, masters, made>>
        BY <1>4 DEF Argument, Making, tablevars
    <2>. QED
        BY <1>1, <1>4, <2>1, ArgumentTracks
<1>5. CASE \/ \E chunk \in Chunks : Send(chunk)
           \/ Finish \/ ClientDies \/ UNCHANGED vars
    <2>1. /\ phase' = phase
          /\ UNCHANGED <<files, msg, config, unread, arg>> /\ UNCHANGED <<masters, made>>
        BY <1>5 DEF Send, Finish, ClientDies, vars, configvars, tablevars
    <2>2. phase \in Making
        BY <2>1
    <2>3. Tracked(ConfigFile(files))
        BY <1>1, <2>1, <2>2
    <2>. QED
        BY <2>1, <2>3, OthersTrack
<1>6. CASE \/ \E r \in Requests : Connect(r)
           \/ Accept \/ ReadPacket \/ KillDaemon \/ Spawn \/ TermEnds
           \/ \E e \in {"other", "EINTR"} : CallFails(e)
    <2>1. phase' \notin Making
        BY <1>6 DEF Connect, Accept, ReadPacket, ReadBytes, PartRead, EndOfFile, KillDaemon, Spawn,
                    TermEnds, CallFails, CloseClient, Making, Reading
    <2>. QED
        BY <2>1
<1>. QED
    BY <1>2, <1>3, <1>4, <1>5, <1>6 DEF Next

\* When the child is started, the file and the arguments have been processed
\* to their ends, and the pty is there.
LEMMA MadeWhole ==
    ASSUME Arrives, Configures, [Next]_vars, made' # made, Limit - masters - made >= 4
    PROVE  whole' /\ (Plain(ConfigFile(files)) => Configured(ConfigFile(files)))
<1>1. Spawn
    BY DEF Next, Connect, Send, Finish, ClientDies, Accept, ReadPacket, ReadBytes, PartRead,
           EndOfFile, KillDaemon, NewTerm, FileLine, Argument, TermEnds, CallFails, vars, tablevars
<1>2. phase = "pty" /\ phase \in Making
    BY <1>1 DEF Spawn, Making
<1>3. whole'
    <2>1. masters \in Nat /\ leaked \in Nat /\ made \in Nat /\ leaked <= made + 1 /\ Limit \in Nat
        BY <1>2, CountFacts DEF Arrives, TypeOK
    <2>2. Free = Limit - masters - leaked - 1
        BY <1>2 DEF Free, Connected
    <2>3. Free >= 2
        BY <2>1, <2>2
    <2>. QED
        BY <1>1, <2>3 DEF Spawn
<1>4. ASSUME Plain(ConfigFile(files))
      PROVE  Configured(ConfigFile(files))
    <2>. DEFINE file == ConfigFile(files)
                n == Len(file.lines)
    <2>1. ArgAt /\ ConfiguredSoFar(file)
        BY <1>2, <1>4 DEF Configures
    <2>2. file \in Files /\ Argv \in Seq(Seq(Words))
        BY <1>2, FileFacts, ArgvFacts DEF Arrives
    <2>. HIDE DEF file
    <2>3. As(config, file, n, Argv, arg - 1) /\ arg \in Nat /\ arg > Len(Argv)
        BY <1>2, <2>1 DEF ConfiguredSoFar, ArgAt
    <2>4. DOMAIN file.lines = 1..n /\ Len(Argv) \in Nat /\ DOMAIN Argv = 1..Len(Argv)
        BY <2>2 DEF Files
    <2>5. ASSUME NEW key \in Keys
          PROVE  config[key] = Said(key, file, LinesFor(key, file), Argv, ArgsFor(key, Argv))
        <3>1. LinesFor(key, file) \cap 1..n = LinesFor(key, file)
            BY <2>4 DEF LinesFor
        <3>2. \A i \in Sets(Argv) : i \in 1..(arg - 1)
            <4>1. PICK f : /\ \A i \in 1..Len(Argv) : f[i] <=> i > 1 /\ IsOption(Argv[i]) /\ ~f[i - 1]
                           /\ Sets(Argv) = {i \in 1..Len(Argv) : f[i] /\ i < Len(Argv)}
                BY <2>2, SetsFacts
            <4>. QED
                BY <2>3, <2>4, <4>1
        <3>3. ArgsFor(key, Argv) \cap 1..(arg - 1) = ArgsFor(key, Argv)
            BY <3>2 DEF ArgsFor
        <3>. HIDE DEF n
        <3>. QED
            BY <2>3, <3>1, <3>3 DEF As
    <2>. QED
        BY <2>5 DEF Configured, file
<1>. QED
    BY <1>3, <1>4

\* A terminal that the daemon makes while four descriptors are left beside
\* the one it keeps of each terminal has a pty, and each key of its
\* configuration has the value of the last argument that sets it, or else of
\* the last line of the file that does, or else the default (daemon.c, term.c,
\* config.c).
THEOREM RequestWhole == Spec => TerminalsAreWhole
<1>1. Init => Arrives /\ Configures
    BY RequestInit DEF Init, Configures, Making
<1>2. Arrives /\ Configures /\ [Next]_vars => (Arrives /\ Configures)'
    <2>. SUFFICES ASSUME Arrives, Configures, [Next]_vars PROVE Arrives' /\ Configures'
        OBVIOUS
    <2>1. Arrives'
        BY RequestNext
    <2>. QED
        BY <2>1, ConfiguresNext
<1>3. Arrives /\ Configures /\ [Next]_vars =>
          [made' # made /\ Limit - masters - made >= 4 =>
              whole' /\ (Plain(ConfigFile(files)) => Configured(ConfigFile(files)))]_vars
    BY MadeWhole
<1>. QED
    BY <1>1, <1>2, <1>3, PTL DEF Spec, TerminalsAreWhole

=============================================================================
