----------------------------- MODULE GemmProofs -----------------------------
(***************************************************************************)
(* The matrix multiplier computes the product for every order, every width *)
(* of its elements, any operands and modes, however the memory answers and *)
(* the program polls.                                                      *)
(***************************************************************************)
EXTENDS Gemm, TLAPS, WellFoundedInduction

-----------------------------------------------------------------------------
(* Numbers                                                                  *)

LEMMA ModSmall == \A n \in Nat \ {0} : \A x \in 0..(n - 1) : x % n = x
OBVIOUS

LEMMA DivMod ==
    ASSUME NEW n \in Nat \ {0}, NEW x \in Int
    PROVE  x \div n \in Int /\ x % n \in 0..(n - 1) /\ x = n * (x \div n) + (x % n)
OBVIOUS

\* Quotient and remainder are the only ones.
LEMMA Division ==
    ASSUME NEW n \in Nat \ {0}, NEW q \in Int, NEW r \in 0..(n - 1)
    PROVE  (q * n + r) % n = r /\ (q * n + r) \div n = q
<1> DEFINE x == q * n + r
           d == x \div n
           m == x % n
<1>1. x \in Int /\ d \in Int /\ m \in 0..(n - 1) /\ x = n * d + m
  OBVIOUS
<1>2. d = q
  <2>1. CASE d > q
    <3>1. n * d >= n * (q + 1)
      BY <1>1, <2>1
    <3> QED BY <1>1, <3>1
  <2>2. CASE d < q
    <3>1. n * q >= n * (d + 1)
      BY <1>1, <2>2
    <3> QED BY <1>1, <3>1
  <2> QED BY <1>1, <2>1, <2>2
<1> QED BY <1>1, <1>2

LEMMA Sizes ==
    /\ N \in Nat /\ N >= 3 /\ N_SQ \in Nat /\ N_SQ = N * N /\ N_SQ >= 9 /\ N_SQ % 4 = 0
    /\ Top \in Nat /\ Top = N - 1 /\ Index = 0..Top /\ Addr = 0..(N_SQ - 1)
<1>1. N * N >= 3 * N
  BY SizeAssumption
<1> QED BY <1>1, SizeAssumption DEF N_SQ, Top, Index, Addr

\* An element's address, its row and its column.
LEMMA AddressOf ==
    ASSUME NEW r \in Index, NEW c \in Index
    PROVE  /\ r * N + c \in Addr /\ r * N + c \in Nat /\ (r * N + c) % N_SQ = r * N + c
           /\ (r * N + c) \div N = r /\ (r * N + c) % N = c
<1>1. r * N <= Top * N
  BY Sizes
<1>2. r * N + c \in Nat /\ r * N + c < N * N
  BY <1>1, Sizes
<1>3. r \in Int /\ c \in 0..(N - 1) /\ N \in Nat \ {0} /\ N_SQ \in Nat \ {0}
  BY Sizes
<1>4. (r * N + c) \div N = r /\ (r * N + c) % N = c
  BY <1>3, Division
<1>5. r * N + c \in 0..(N_SQ - 1)
  BY <1>2, Sizes
<1>6. (r * N + c) % N_SQ = r * N + c
  BY <1>3, <1>5, ModSmall
<1> QED BY <1>2, <1>4, <1>5, <1>6, Sizes

LEMMA ModAddr ==
    /\ \A x \in Int : x % N_SQ \in Addr
    /\ \A a \in Addr : a % N_SQ = a
<1>1. N_SQ \in Nat \ {0} /\ Addr = 0..(N_SQ - 1)
  BY Sizes
<1> HIDE DEF N_SQ, Addr
<1>2. ASSUME NEW x \in Int PROVE x % N_SQ \in 0..(N_SQ - 1)
  BY <1>1, DivMod
<1> QED BY <1>1, <1>2, ModSmall

LEMMA RowAndColumn ==
    ASSUME NEW a \in Addr
    PROVE  a \div N \in Index /\ a % N \in Index /\ (a \div N) * N + (a % N) = a
<1> DEFINE d == a \div N
           m == a % N
<1>1. d \in Int /\ m \in 0..(N - 1) /\ a = d * N + m /\ a \in Nat /\ a < N * N
  BY Sizes
<1>2. d >= 0
  <2>1. SUFFICES ASSUME d <= -1 PROVE FALSE
    BY <1>1
  <2>2. d * N <= -1 * N
    BY <1>1, <2>1, Sizes
  <2> QED BY <1>1, <2>2, Sizes
<1>3. d < N
  <2>1. SUFFICES ASSUME d >= N PROVE FALSE
    BY <1>1, Sizes
  <2>2. d * N >= N * N
    BY <1>1, <2>1, Sizes
  <2> QED BY <1>1, <2>2, Sizes
<1> QED BY <1>1, <1>2, <1>3, Sizes

-----------------------------------------------------------------------------
(* Numbers of a width                                                       *)

Widths == {Narrow, Wide, 2 * Wide}

LEMMA Power ==
    /\ \A b \in Widths : /\ 2^(b - 1) \in Nat \ {0} /\ 2^b \in Nat \ {0}
                         /\ 2^b = 2^(b - 1) + 2^(b - 1)
    /\ 2^(Narrow - 1) <= 2^(2 * Wide - 1) /\ 2^(Wide - 1) <= 2^(2 * Wide - 1)
BY PowerAssumption DEF Widths

\* A number cut to b bits is in their range, differs by a multiple of 2^b, and is itself if it fits.
LEMMA Cut ==
    ASSUME NEW b \in Widths, NEW x \in Int
    PROVE  /\ Signed(x, b) \in -(2^(b - 1))..(2^(b - 1) - 1)
           /\ \E k \in Int : Signed(x, b) = x + k * 2^b
           /\ x \in -(2^(b - 1))..(2^(b - 1) - 1) => Signed(x, b) = x
<1> DEFINE h == 2^(b - 1)
           m == 2^b
<1>1. h \in Nat \ {0} /\ m \in Nat \ {0} /\ m = h + h
  BY Power
<1>2. Signed(x, b) = ((x + h) % m) - h
  BY DEF Signed
<1> HIDE DEF h, m
<1> DEFINE d == (x + h) \div m
           r == (x + h) % m
<1>8. x + h \in Int
  BY <1>1
<1>3. d \in Int /\ r \in 0..(m - 1) /\ x + h = m * d + r
  BY <1>8, <1>1, DivMod
<1> HIDE DEF d, r
<1>4. (-d) * m = -(m * d)
  BY <1>1, <1>3
<1>5. Signed(x, b) = x + (-d) * m /\ -d \in Int
  <2>1. Signed(x, b) = r - h
    BY <1>2 DEF r
  <2> QED BY <1>1, <1>3, <1>4, <2>1
<1>6. ASSUME x \in -h..(h - 1) PROVE r = x + h
  <2>1. x + h \in 0..(m - 1)
    BY <1>1, <1>6
  <2> QED BY <1>1, <2>1, ModSmall DEF r
<1>7. Signed(x, b) \in -h..(h - 1) /\ (x \in -h..(h - 1) => Signed(x, b) = x)
  BY <1>1, <1>2, <1>3, <1>6 DEF r
<1> QED BY <1>5, <1>7 DEF h, m

\* Two numbers that differ by a multiple of 2^b are cut to the same.
LEMMA CutSame ==
    ASSUME NEW b \in Widths, NEW x \in Int, NEW k \in Int
    PROVE  Signed(x + k * 2^b, b) = Signed(x, b)
<1> DEFINE h == 2^(b - 1)
           m == 2^b
<1>1. h \in Nat \ {0} /\ m \in Nat \ {0} /\ m = h + h
  BY Power
<1>2. /\ Signed(x, b) = ((x + h) % m) - h
      /\ Signed(x + k * m, b) = ((x + k * m + h) % m) - h
  BY DEF Signed
<1> HIDE DEF h, m
<1> DEFINE d == (x + h) \div m
           r == (x + h) % m
<1>8. x + h \in Int
  BY <1>1
<1>3. d \in Int /\ r \in 0..(m - 1) /\ x + h = m * d + r
  BY <1>8, <1>1, DivMod
<1>4. x + k * m + h = (d + k) * m + r
  BY <1>1, <1>3
<1>5. ((d + k) * m + r) % m = r
  <2>1. d + k \in Int
    BY <1>3
  <2> QED BY <1>1, <1>3, <2>1, Division
<1> QED BY <1>2, <1>4, <1>5 DEF h, m

LEMMA AccIn == \A x \in Int : Acc(x) \in AccValue /\ Acc(x) \in Int
<1> TAKE x \in Int
<1>1. Acc(x) \in AccValue
  BY Cut DEF Acc, AccValue, Widths
<1> QED BY <1>1, Power DEF AccValue, Widths

LEMMA AccSmall == \A x \in AccValue : Acc(x) = x
<1> TAKE x \in AccValue
<1>1. x \in Int
  BY Power DEF AccValue, Widths
<1> QED BY <1>1, Cut DEF Acc, AccValue, Widths

\* A sum can be cut after every term.
LEMMA AccSum ==
    ASSUME NEW x \in Int, NEW y \in Int
    PROVE  Acc(Acc(x) + y) = Acc(x + y)
<1> DEFINE b == 2 * Wide
<1>1. b \in Widths
  BY DEF Widths
<1>2. PICK k \in Int : Signed(x, b) = x + k * 2^b
  BY <1>1, Cut
<1>3. 2^b \in Int
  BY <1>1, Power
<1>4. Signed(x, b) + y = (x + y) + k * 2^b
  BY <1>2, <1>3
<1>5. Signed((x + y) + k * 2^b, b) = Signed(x + y, b)
  BY <1>1, CutSame
<1> QED BY <1>4, <1>5 DEF Acc

-----------------------------------------------------------------------------
(* Sums                                                                     *)

\* A property that holds at 0 and goes from each number to the next holds up to n.
LEMMA UpTo ==
    ASSUME NEW n \in Nat, NEW S, 0 \in S, \A t \in 0..(n - 1) : t \in S => t + 1 \in S
    PROVE  \A t \in 0..n : t \in S
<1> DEFINE R == OpToRel(<, Nat)
           T == {t \in 0..n : t \notin S}
<1>1. IsWellFoundedOn(R, Nat)
  BY NatLessThanWellFounded
<1>2. \A x, y \in Nat : <<x, y>> \in R <=> x < y
  BY DEF OpToRel
<1> HIDE DEF R
<1>3. SUFFICES ASSUME T # {} PROVE FALSE
  OBVIOUS
<1>4. T \subseteq Nat
  OBVIOUS
<1>5. PICK t \in T : \A y \in T : ~(<<y, t>> \in R)
  BY <1>1, <1>3, <1>4, WFMin
<1>6. t \in 0..n /\ t \notin S /\ t # 0
  BY <1>5
<1>7. t - 1 \in 0..(n - 1) /\ t - 1 \in Nat /\ t - 1 < t /\ (t - 1) + 1 = t
  BY <1>6
<1>8. t - 1 \in T
  BY <1>6, <1>7
<1> QED BY <1>2, <1>4, <1>5, <1>7, <1>8

\* A sum of the first t terms, as a function of t, exists.
SumUpTo(f, g, t) ==
    f \in [0..t -> Int] /\ f[0] = 0 /\ \A u \in 1..t : f[u] = f[u - 1] + g[u]

LEMMA SumExists ==
    ASSUME NEW n \in Nat, NEW g \in [0..n -> Int]
    PROVE  \E f : f = [t \in 0..n |-> IF t = 0 THEN 0 ELSE f[t - 1] + g[t]]
<1> DEFINE S == {t \in 0..n : \E f \in [0..t -> Int] : SumUpTo(f, g, t)}
<1>1. 0 \in S
  <2> DEFINE h == [t \in 0..0 |-> 0]
  <2>1. h \in [0..0 -> Int] /\ h[0] = 0
    OBVIOUS
  <2>2. \A u \in 1..0 : FALSE
    OBVIOUS
  <2> HIDE DEF h
  <2>3. SumUpTo(h, g, 0)
    BY <2>1, <2>2 DEF SumUpTo
  <2> QED BY <2>1, <2>3
<1>2. ASSUME NEW t \in 0..(n - 1), t \in S PROVE t + 1 \in S
  <2>1. PICK f \in [0..t -> Int] : SumUpTo(f, g, t)
    BY <1>2
  <2> DEFINE h == [u \in 0..(t + 1) |-> IF u = t + 1 THEN f[t] + g[t + 1] ELSE f[u]]
  <2>2. t \in Nat /\ t + 1 \in 0..n /\ f[t] + g[t + 1] \in Int
    BY <2>1
  <2>3. h \in [0..(t + 1) -> Int]
    BY <2>1, <2>2
  <2>4. h[0] = 0
    BY <2>1, <2>2 DEF SumUpTo
  <2>5. ASSUME NEW u \in 1..(t + 1) PROVE h[u] = h[u - 1] + g[u]
    <3>1. CASE u = t + 1
      BY <2>1, <2>2, <3>1
    <3>2. CASE u # t + 1
      BY <2>1, <2>2, <3>2 DEF SumUpTo
    <3> QED BY <3>1, <3>2
  <2>6. SumUpTo(h, g, t + 1)
    BY <2>3, <2>4, <2>5 DEF SumUpTo
  <2> QED BY <2>2, <2>3, <2>6
<1> HIDE DEF S
<1>3. \A t \in 0..(n - 1) : t \in S => t + 1 \in S
  BY <1>2
<1>4. \A t \in 0..n : t \in S
  BY <1>1, <1>3, UpTo
<1>5. n \in S
  BY <1>4
<1>6. PICK f \in [0..n -> Int] : SumUpTo(f, g, n)
  BY <1>5 DEF S
<1>7. \A t \in 0..n : f[t] = IF t = 0 THEN 0 ELSE f[t - 1] + g[t]
  BY <1>6 DEF SumUpTo
<1>8. f = [t \in 0..n |-> IF t = 0 THEN 0 ELSE f[t - 1] + g[t]]
  BY <1>6, <1>7
<1> QED BY <1>8

\* What a recursive sum is.
LEMMA SumSteps ==
    ASSUME NEW n \in Nat, NEW g, \A t \in 0..n : g[t] \in Int,
           NEW f, \A t \in 0..n : f[t] = IF t = 0 THEN 0 ELSE f[t - 1] + g[t]
    PROVE  /\ f[0] = 0
           /\ \A t \in 0..n : f[t] \in Int
           /\ \A t \in 0..(n - 1) : f[t + 1] = f[t] + g[t + 1]
<1>1. f[0] = 0
  OBVIOUS
<1>2. ASSUME NEW t \in 0..(n - 1) PROVE f[t + 1] = f[t] + g[t + 1]
  <2>1. t + 1 \in 0..n /\ t + 1 # 0 /\ (t + 1) - 1 = t
    OBVIOUS
  <2> DEFINE u == t + 1
  <2> HIDE DEF u
  <2>2. u \in 0..n /\ u # 0 /\ u - 1 = t
    BY <2>1 DEF u
  <2>3. f[u] = IF u = 0 THEN 0 ELSE f[u - 1] + g[u]
    BY <2>2
  <2> QED BY <2>2, <2>3 DEF u
<1> DEFINE S == {t \in 0..n : f[t] \in Int}
<1>3. 0 \in S
  BY <1>1
<1>4. ASSUME NEW t \in 0..(n - 1), t \in S PROVE t + 1 \in S
  <2>1. t + 1 \in 0..n /\ f[t] \in Int /\ g[t + 1] \in Int
    BY <1>4
  <2>2. f[t] + g[t + 1] \in Int
    BY <2>1
  <2> QED BY <1>2, <2>1, <2>2
<1> HIDE DEF S
<1>5. \A t \in 0..n : t \in S
  <2>1. \A t \in 0..(n - 1) : t \in S => t + 1 \in S
    BY <1>4
  <2> QED BY <1>3, <2>1, UpTo
<1>6. \A t \in 0..n : f[t] \in Int
  BY <1>5 DEF S
<1> QED BY <1>1, <1>2, <1>6

-----------------------------------------------------------------------------
(* Operands and their products                                              *)

LEMMA ModeFacts ==
    ASSUME mode \in Mode
    PROVE  /\ PACK = IF mode.dw16 THEN 2 ELSE 4
           /\ ElemBytes = IF mode.dw16 THEN 2 ELSE 1
           /\ PACK * ElemBytes = 4
           /\ Bits \in Widths /\ Bits \in {Narrow, Wide}
           /\ mode.dw16 \in BOOLEAN /\ mode.act \in BOOLEAN /\ mode.leaky \in BOOLEAN
           /\ mode.quant \in BOOLEAN /\ mode.signed \in BOOLEAN
BY DEF PACK, ElemBytes, Bits, Widths, Mode

LEMMA OperandType ==
    ASSUME mode \in Mode, NEW m \in Operands
    PROVE  Operand(m) \in [Addr -> Int]
<1> DEFINE M == IF m = "A" THEN MatA ELSE MatB
<1>1. M \in [Index \X Index -> Int]
  BY InputAssumption
<1>2. \A x \in Int : Signed(x, Bits) \in Int
  BY ModeFacts, Cut, Power
<1>3. ASSUME NEW a \in Addr PROVE Signed(M[<<a \div N, a % N>>], Bits) \in Int
  <2>1. <<a \div N, a % N>> \in Index \X Index
    BY RowAndColumn
  <2> HIDE DEF M
  <2> QED BY <1>1, <1>2, <2>1
<1>4. Operand(m) = [a \in Addr |-> Signed(M[<<a \div N, a % N>>], Bits)]
  BY DEF Operand
<1> HIDE DEF M
<1> QED BY <1>3, <1>4

\* The sum of one product more.
LEMMA SumsSteps ==
    ASSUME mode \in Mode, NEW r \in Index, NEW c \in Index
    PROVE  /\ Sums(r, c)[0] = 0 /\ \A t \in 0..N : Sums(r, c)[t] \in Int
           /\ \A t \in Index : /\ r * N + t \in Addr /\ t * N + c \in Addr
                               /\ Operand("A")[r * N + t] * Operand("B")[t * N + c] \in Int
                               /\ Sums(r, c)[t + 1] = Sums(r, c)[t]
                                      + Operand("A")[r * N + t] * Operand("B")[t * N + c]
           /\ Sums(r, c) = [t \in 0..N |->
                               IF t = 0 THEN 0
                               ELSE Sums(r, c)[t - 1]
                                       + Operand("A")[r * N + (t - 1)] * Operand("B")[(t - 1) * N + c]]
<1> DEFINE A == Operand("A")
           B == Operand("B")
           g == [t \in 0..N |->
                    IF t = 0 THEN 0 ELSE A[r * N + (t - 1)] * B[(t - 1) * N + c]]
           f == Sums(r, c)
<1>1. A \in [Addr -> Int] /\ B \in [Addr -> Int]
  BY OperandType DEF Operands
<1>2. ASSUME NEW t \in Index PROVE /\ r * N + t \in Addr /\ t * N + c \in Addr
                                   /\ A[r * N + t] * B[t * N + c] \in Int
  <2>1. r * N + t \in Addr /\ t * N + c \in Addr
    BY AddressOf
  <2> HIDE DEF A, B
  <2>2. A[r * N + t] \in Int /\ B[t * N + c] \in Int
    BY <1>1, <2>1
  <2> QED BY <2>1, <2>2
<1>3. f = CHOOSE s : s = [t \in 0..N |-> IF t = 0 THEN 0
                            ELSE s[t - 1] + A[r * N + (t - 1)] * B[(t - 1) * N + c]]
  BY DEF Sums
<1> HIDE DEF A, B, f
<1>4. ASSUME NEW t \in 0..N, t # 0 PROVE g[t] = A[r * N + (t - 1)] * B[(t - 1) * N + c]
                                         /\ g[t] \in Int
  <2>1. t - 1 \in Index
    BY <1>4, Sizes
  <2> QED BY <1>2, <1>4, <2>1
<1>5. g \in [0..N -> Int]
  <2>1. \A t \in 0..N : g[t] \in Int
    BY <1>4
  <2> QED BY <2>1
<1> DEFINE Gg(s) == [t \in 0..N |-> IF t = 0 THEN 0 ELSE s[t - 1] + g[t]]
           Pp(s) == [t \in 0..N |-> IF t = 0 THEN 0
                            ELSE s[t - 1] + A[r * N + (t - 1)] * B[(t - 1) * N + c]]
<1>6. ASSUME NEW s PROVE Pp(s) = Gg(s)
  BY <1>4
<1>7. f = Gg(f) /\ f = Pp(f)
  <2>1. \E s : s = Pp(s)
    <3>1. PICK s : s = [t \in 0..N |-> IF t = 0 THEN 0 ELSE s[t - 1] + g[t]]
      <4> HIDE DEF g
      <4> QED BY <1>5, Sizes, SumExists
    <3>2. s = Gg(s)
      BY <3>1
    <3> HIDE DEF Pp, Gg
    <3> QED BY <1>6, <3>2
  <2>2. f = CHOOSE s : s = Pp(s)
    BY <1>3
  <2>3. f = Pp(f)
    <3> HIDE DEF Pp, Gg
    <3> QED BY <2>1, <2>2, Zenon
  <2>4. f = Gg(f)
    <3> HIDE DEF Pp, Gg
    <3> QED BY <1>6, <2>3
  <2> QED BY <2>3, <2>4
<1>8. N \in Nat
  BY Sizes
<1>9. /\ f[0] = 0 /\ \A t \in 0..N : f[t] \in Int
      /\ \A t \in 0..(N - 1) : f[t + 1] = f[t] + g[t + 1]
  <2>1. \A t \in 0..N : g[t] \in Int
    BY <1>5
  <2>2. \A t \in 0..N : f[t] = IF t = 0 THEN 0 ELSE f[t - 1] + g[t]
    <3> HIDE DEF g, Pp
    <3> QED BY <1>7
  <2> HIDE DEF g
  <2> QED BY <1>8, <2>1, <2>2, SumSteps
<1>10. ASSUME NEW t \in Index PROVE f[t + 1] = f[t] + A[r * N + t] * B[t * N + c]
  <2>1. t + 1 \in 0..N /\ t + 1 # 0 /\ (t + 1) - 1 = t /\ t \in 0..(N - 1)
    BY Sizes
  <2>2. g[t + 1] = A[r * N + t] * B[t * N + c]
    <3> HIDE DEF g
    <3> QED BY <1>4, <2>1
  <2> HIDE DEF g
  <2> QED BY <1>9, <2>1, <2>2
<1>11. f = Pp(f)
  BY <1>7
<1> QED BY <1>2, <1>9, <1>10, <1>11 DEF A, B, f

LEMMA AccSums ==
    ASSUME mode \in Mode, NEW r \in Index, NEW c \in Index, NEW t \in Index
    PROVE  /\ Acc(Sums(r, c)[t + 1]) =
                Acc(Acc(Sums(r, c)[t]) + Operand("A")[r * N + t] * Operand("B")[t * N + c])
           /\ Acc(Sums(r, c)[1]) = Acc(Operand("A")[r * N] * Operand("B")[c])
<1> DEFINE p(u) == Operand("A")[r * N + u] * Operand("B")[u * N + c]
<1>1. /\ Sums(r, c)[0] = 0 /\ \A u \in 0..N : Sums(r, c)[u] \in Int
      /\ \A u \in Index : p(u) \in Int /\ Sums(r, c)[u + 1] = Sums(r, c)[u] + p(u)
  BY SumsSteps
<1>2. Sums(r, c)[t] \in Int /\ 0 \in Index /\ 0 + 1 = 1
  BY <1>1, Sizes
<1>3. p(0) = Operand("A")[r * N] * Operand("B")[c]
  <2>1. r * N + 0 = r * N /\ 0 * N + c = c
    BY Sizes
  <2> QED BY <2>1
<1> HIDE DEF p
<1>4. Acc(Sums(r, c)[t + 1]) = Acc(Acc(Sums(r, c)[t]) + p(t))
  BY <1>1, <1>2, AccSum
<1>5. Sums(r, c)[1] = p(0)
  BY <1>1, <1>2
<1> QED BY <1>3, <1>4, <1>5 DEF p

\* While the mode stays, what is made of the data stays.
LEMMA SameMode ==
    ASSUME mode' = mode
    PROVE  /\ PACK' = PACK /\ Bits' = Bits /\ ElemBytes' = ElemBytes
           /\ \A m : Operand(m)' = Operand(m)
           /\ \A r, c : Sums(r, c)' = Sums(r, c)
           /\ \A a : Total(a)' = Total(a)
           /\ \A x : apply_activation(x)' = apply_activation(x)
           /\ \A x : apply_quant(x)' = apply_quant(x)
           /\ \A x : saturate_out(x)' = saturate_out(x)
           /\ \A n : ResultWord(n)' = ResultWord(n)
           /\ ResultWords' = ResultWords
<1>1. PACK' = PACK /\ Bits' = Bits /\ ElemBytes' = ElemBytes
  BY DEF PACK, Bits, ElemBytes
<1>2. \A m : Operand(m)' = Operand(m)
  BY <1>1 DEF Operand
<1>3. \A r, c : Sums(r, c)' = Sums(r, c)
  BY <1>2, Zenon DEF Sums
<1>4. \A a : Total(a)' = Total(a)
  BY <1>3 DEF Total
<1>5. /\ \A x : apply_activation(x)' = apply_activation(x)
      /\ \A x : apply_quant(x)' = apply_quant(x)
      /\ \A x : saturate_out(x)' = saturate_out(x)
  BY <1>1 DEF apply_activation, apply_quant, saturate_out
<1>6. \A n : ResultWord(n)' = ResultWord(n)
  BY <1>1, <1>4, <1>5 DEF ResultWord
<1>7. ResultWords' = ResultWords
  BY <1>1 DEF ResultWords
<1> QED BY <1>1, <1>2, <1>3, <1>4, <1>5, <1>6, <1>7

-----------------------------------------------------------------------------
(* The program and the state machine                                        *)

LEMMA States ==
    /\ InLoad("A") = {"LOAD_A", "LOAD_A0", "LOAD_A1", "LOAD_A2", "LOAD_A3"}
    /\ InLoad("B") = {"LOAD_B", "LOAD_B0", "LOAD_B1", "LOAD_B2", "LOAD_B3"}
    /\ \A m \in Operands :
          /\ LoadStates[m].word = (IF m = "A" THEN "LOAD_A" ELSE "LOAD_B")
          /\ LoadStates[m].half = (IF m = "A" THEN "LOAD_A0" ELSE "LOAD_B0")
          /\ LoadStates[m].byte[1] = (IF m = "A" THEN "LOAD_A1" ELSE "LOAD_B1")
          /\ LoadStates[m].byte[2] = (IF m = "A" THEN "LOAD_A2" ELSE "LOAD_B2")
          /\ LoadStates[m].byte[3] = (IF m = "A" THEN "LOAD_A3" ELSE "LOAD_B3")
          /\ LoadStates[m].next = (IF m = "A" THEN "LOAD_B" ELSE "COMPUTE")
    /\ FsmStates = {"IDLE", "CLEAR", "COMPUTE", "COMPUTE_S2", "COMPUTE_S3", "DONE",
                    "LOAD_A", "LOAD_A0", "LOAD_A1", "LOAD_A2", "LOAD_A3",
                    "LOAD_B", "LOAD_B0", "LOAD_B1", "LOAD_B2", "LOAD_B3",
                    "W0_READ", "W0_READ0", "W0_READ1", "W0_READ2", "W0_READ3",
                    "W1_ACT", "W2_QUANT", "W3_SAT", "W4_WRITE"}
<1>1. /\ \A m \in Operands :
          /\ LoadStates[m].word = (IF m = "A" THEN "LOAD_A" ELSE "LOAD_B")
          /\ LoadStates[m].half = (IF m = "A" THEN "LOAD_A0" ELSE "LOAD_B0")
          /\ LoadStates[m].byte[1] = (IF m = "A" THEN "LOAD_A1" ELSE "LOAD_B1")
          /\ LoadStates[m].byte[2] = (IF m = "A" THEN "LOAD_A2" ELSE "LOAD_B2")
          /\ LoadStates[m].byte[3] = (IF m = "A" THEN "LOAD_A3" ELSE "LOAD_B3")
          /\ LoadStates[m].next = (IF m = "A" THEN "LOAD_B" ELSE "COMPUTE")
  BY DEF LoadStates, Operands
<1>2. ASSUME NEW m \in Operands
      PROVE  InLoad(m) = {LoadStates[m].word, LoadStates[m].half, LoadStates[m].byte[1],
                          LoadStates[m].byte[2], LoadStates[m].byte[3]}
  <2>1. 1..3 = {1, 2, 3}
    OBVIOUS
  <2>2. \A f : {f[e] : e \in {1, 2, 3}} = {f[1], f[2], f[3]}
    OBVIOUS
  <2> QED BY <2>1, <2>2 DEF InLoad
<1>3. /\ InLoad("A") = {"LOAD_A", "LOAD_A0", "LOAD_A1", "LOAD_A2", "LOAD_A3"}
      /\ InLoad("B") = {"LOAD_B", "LOAD_B0", "LOAD_B1", "LOAD_B2", "LOAD_B3"}
  <2>1. "A" \in Operands /\ "B" \in Operands
    BY DEF Operands
  <2> QED BY <1>1, <1>2, <2>1
<1> QED BY <1>1, <1>3 DEF FsmStates, InWriteback, InRead

\* Where each arm of the state machine goes.
Arms(ack) ==
    \/ FsmIdle /\ state = "IDLE" /\ state' = IF start THEN "CLEAR" ELSE "IDLE"
    \/ FsmClear /\ state = "CLEAR" /\ state' = IF ClearsMore THEN "CLEAR" ELSE "LOAD_A"
    \/ FsmCompute /\ state = "COMPUTE" /\ state' = "COMPUTE_S2"
    \/ FsmComputeS2 /\ state = "COMPUTE_S2"
          /\ state' = IF LastProduct THEN "COMPUTE_S3" ELSE "COMPUTE_S2"
    \/ FsmComputeS3 /\ state = "COMPUTE_S3" /\ state' = "W0_READ"
    \/ FsmRead /\ state \in InRead /\ state' \in {"W0_READ0", "W0_READ1", "W0_READ2",
                                                  "W0_READ3", "W1_ACT"}
    \/ FsmTransform /\ state \in {"W1_ACT", "W2_QUANT", "W3_SAT"}
          /\ state' \in {"W2_QUANT", "W3_SAT", "W4_WRITE"}
    \/ FsmWrite(ack) /\ state = "W4_WRITE" /\ state' \in {"W4_WRITE", "DONE", "W0_READ"}
    \/ FsmDone /\ state = "DONE" /\ state' = "IDLE"
    \/ \E m \in Operands : /\ LoadWord(m, ack) /\ state = LoadStates[m].word
                           /\ state' \in {state, LoadStates[m].half, LoadStates[m].byte[1]}
    \/ \E m \in Operands :
          /\ LoadRest(m) /\ state \in InLoad(m) \ {LoadStates[m].word}
          /\ state' \in {LoadStates[m].byte[2], LoadStates[m].byte[3], LoadStates[m].next,
                         LoadStates[m].word}

LEMMA FsmArms ==
    ASSUME NEW ack, Fsm(ack)
    PROVE  Arms(ack)
<1>1. CASE FsmIdle
  BY <1>1 DEF Arms, FsmIdle
<1>2. CASE FsmClear
  BY <1>2 DEF Arms, FsmClear
<1>3. CASE FsmCompute
  BY <1>3 DEF Arms, FsmCompute
<1>4. CASE FsmComputeS2
  BY <1>4 DEF Arms, FsmComputeS2
<1>5. CASE FsmComputeS3
  BY <1>5 DEF Arms, FsmComputeS3
<1>6. CASE FsmRead
  <2>1. state \in InRead
        /\ state' \in {"W0_READ0", "W0_READ1", "W0_READ2", "W0_READ3", "W1_ACT"}
    BY <1>6 DEF FsmRead, ReadSteps, InRead
  <2> QED BY <1>6, <2>1 DEF Arms
<1>7. CASE FsmTransform
  BY <1>7 DEF Arms, FsmTransform
<1>8. CASE FsmWrite(ack)
  BY <1>8 DEF Arms, FsmWrite
<1>9. CASE FsmDone
  BY <1>9 DEF Arms, FsmDone
<1>10. ASSUME NEW m \in Operands, LoadWord(m, ack) PROVE Arms(ack)
  <2>1. /\ state = LoadStates[m].word
        /\ state' \in {state, LoadStates[m].half, LoadStates[m].byte[1]}
    BY <1>10, Zenon DEF LoadWord
  <2> QED BY <1>10, <2>1 DEF Arms
<1>11. ASSUME NEW m \in Operands, LoadRest(m) PROVE Arms(ack)
  <2>1. /\ state \in {LoadStates[m].half, LoadStates[m].byte[1], LoadStates[m].byte[2],
                      LoadStates[m].byte[3]}
        /\ state' \in {LoadStates[m].byte[2], LoadStates[m].byte[3], LoadStates[m].next,
                       LoadStates[m].word}
    <3>1. \A e : e \in 1..2 => e = 1 \/ e = 2
      OBVIOUS
    <3>2. 1 + 1 = 2 /\ 2 + 1 = 3
      OBVIOUS
    <3> QED BY <1>11, <3>1, <3>2 DEF LoadRest, LastOfWord
  <2>2. state \in InLoad(m) \ {LoadStates[m].word}
    BY <2>1, States DEF Operands
  <2> QED BY <1>11, <2>1, <2>2 DEF Arms
<1> QED BY <1>1, <1>2, <1>3, <1>4, <1>5, <1>6, <1>7, <1>8, <1>9, <1>10, <1>11 DEF Fsm

\* Where the state machine goes, as far as the program is concerned.
LEMMA StateChanges ==
    ASSUME NEW ack, Fsm(ack)
    PROVE  /\ state' \in FsmStates
           /\ state' = "IDLE" <=> state = "DONE" \/ (state = "IDLE" /\ ~start)
           /\ state' = "CLEAR" => (state = "IDLE" /\ start) \/ state = "CLEAR"
           /\ state = "IDLE" /\ start => state' = "CLEAR"
<1>1. Arms(ack)
  BY FsmArms
<1> QED BY <1>1, States DEF Arms, InRead, Operands

\* The mode is written while the engine rests, and the program then has no result.
LEMMA ProgramSteps ==
    ASSUME TypeOK, Access \/ NoAccess
    PROVE  /\ sw' \in {"mode", "start", "poll", "check"} /\ quiet' \in 1..Gap
           /\ round' \in 0..Rounds /\ mode' \in Mode
           /\ start' \in BOOLEAN /\ busy' \in BOOLEAN /\ done' \in BOOLEAN
           /\ mode' = mode \/ (sw \in {"mode", "check"} /\ sw' = "start")
<1>1. start' \in BOOLEAN /\ busy' \in BOOLEAN /\ done' \in BOOLEAN
  BY DEF Access, NoAccess, StatusBits, TypeOK
<1>2. quiet' \in 1..Gap
  <2>1. quiet \in 1..Gap /\ 1 \in 1..Gap /\ Gap \in 1..Gap /\ Gap \in Nat
    BY GapAssumption DEF TypeOK
  <2>2. quiet' = 1 \/ quiet' = IF quiet < Gap THEN quiet + 1 ELSE Gap
    BY DEF Access, NoAccess
  <2> QED BY <2>1, <2>2
<1>3. CASE Access /\ WriteMode
  BY <1>1, <1>2, <1>3, InputAssumption DEF WriteMode, TypeOK
<1>4. CASE Access /\ WriteStart
  BY <1>1, <1>2, <1>4 DEF WriteStart, TypeOK
<1>5. CASE Access /\ ReadStatus
  BY <1>1, <1>2, <1>5 DEF ReadStatus, TypeOK
<1>6. CASE NoAccess
  BY <1>1, <1>2, <1>6 DEF NoAccess, TypeOK
<1> QED BY <1>3, <1>4, <1>5, <1>6 DEF Access

LEMMA UndisturbedStep ==
    ASSUME TypeOK, Undisturbed, Access \/ NoAccess, NEW ack, Fsm(ack)
    PROVE  Undisturbed'
<1>1. /\ state' = "IDLE" <=> state = "DONE" \/ (state = "IDLE" /\ ~start)
      /\ state' = "CLEAR" => (state = "IDLE" /\ start) \/ state = "CLEAR"
      /\ state = "IDLE" /\ start => state' = "CLEAR"
  BY StateChanges
<1>2. start \in BOOLEAN /\ busy \in BOOLEAN /\ done \in BOOLEAN /\ quiet \in 1..Gap
  BY DEF TypeOK
<1>3. CASE NoAccess
  <2>1. /\ sw' = sw /\ start' = (start /\ state # "IDLE") /\ busy' = (state # "IDLE")
        /\ done' = (state # "CLEAR" /\ (state = "DONE" \/ done))
        /\ quiet' = IF quiet < Gap THEN quiet + 1 ELSE Gap
    BY <1>3 DEF NoAccess, StatusBits
  <2>2. quiet = 1 => quiet' = 2
    BY <2>1, GapAssumption
  <2>3. CASE sw # "poll" /\ state = "IDLE" /\ ~start /\ (sw = "check" => done)
    BY <1>1, <1>2, <2>1, <2>3 DEF Undisturbed
  <2>4. CASE sw = "poll" /\ state = "IDLE" /\ start /\ ~busy /\ ~done /\ quiet = 1
    BY <1>1, <1>2, <2>1, <2>2, <2>4 DEF Undisturbed
  <2>5. CASE sw = "poll" /\ state # "IDLE" /\ ~start /\ ~done
    BY <1>1, <1>2, <2>1, <2>5 DEF Undisturbed
  <2>6. CASE sw = "poll" /\ state = "IDLE" /\ ~start /\ done
    BY <1>1, <1>2, <2>1, <2>6 DEF Undisturbed
  <2> QED BY <2>3, <2>4, <2>5, <2>6 DEF Undisturbed
<1>4. CASE Access /\ WriteMode
  <2>1. /\ sw \in {"mode", "check"} /\ sw' = "start" /\ start' = (start /\ state # "IDLE")
    BY <1>4 DEF Access, WriteMode, WriteStart, ReadStatus, StatusBits
  <2> QED BY <1>1, <1>2, <2>1 DEF Undisturbed
<1>5. CASE Access /\ WriteStart
  <2>1. /\ sw = "start" /\ sw' = "poll" /\ quiet' = 1 /\ start' = ~(start /\ state = "IDLE")
        /\ ~busy' /\ ~done'
    BY <1>5 DEF Access, WriteMode, WriteStart, ReadStatus, StatusBits
  <2> QED BY <1>1, <1>2, <2>1 DEF Undisturbed
<1>6. CASE Access /\ ReadStatus
  <2>1. /\ sw = "poll" /\ sw' = (IF busy THEN "poll" ELSE "check") /\ quiet = Gap
        /\ start' = (start /\ state # "IDLE") /\ busy' = (state # "IDLE")
        /\ done' = (state # "CLEAR" /\ (state = "DONE" \/ done))
    BY <1>6 DEF Access, WriteMode, WriteStart, ReadStatus, StatusBits
  <2> QED BY <1>1, <1>2, <2>1, GapAssumption DEF Undisturbed
<1> QED BY <1>3, <1>4, <1>5, <1>6 DEF Access

\* While a run is on, or about to start, the mode does not change.
LEMMA ModeStays ==
    ASSUME TypeOK, Undisturbed, Access \/ NoAccess, state # "IDLE" \/ start
    PROVE  mode' = mode
BY ProgramSteps DEF Undisturbed, TypeOK

-----------------------------------------------------------------------------
(* The memory and the bus                                                   *)

LEMMA StoredValue ==
    ASSUME NEW ram \in [Addr -> Int], NEW port, port.we \in BOOLEAN, port.addr \in Addr,
           port.data \in Int
    PROVE  /\ Stored(ram, port) \in [Addr -> Int]
           /\ \A a \in Addr : Stored(ram, port)[a] =
                                IF port.we /\ a = port.addr THEN port.data ELSE ram[a]
BY DEF Stored

\* A word of an operand.
LEMMA WordElements ==
    ASSUME mode \in Mode, NEW adr \in Addresses, adr.mat \in Operands
    PROVE  /\ WordAt(adr) \in Words
           /\ \A n \in Addr : adr.off = n * ElemBytes /\ n % PACK = 0 =>
                 \A e \in 0..(PACK - 1) : /\ n + e \in Addr
                                          /\ WordAt(adr)[e] = Operand(adr.mat)[n + e]
<1> DEFINE O == Operand(adr.mat)
           at(e) == ((adr.off \div ElemBytes) + e) % N_SQ
<1>1. /\ PACK \in {2, 4} /\ ElemBytes \in Nat \ {0} /\ PACK - 1 \in {1, 3}
  BY ModeFacts
<1>2. O \in [Addr -> Int]
  BY OperandType
<1>3. WordAt(adr) = [e \in 0..(PACK - 1) |-> O[at(e)]]
  BY DEF WordAt
<1>4. adr.off \in Nat
  BY DEF Addresses
<1>5. ASSUME NEW e \in 0..(PACK - 1) PROVE at(e) \in Addr
  <2>1. adr.off \div ElemBytes \in Int /\ e \in Int
    BY <1>1, <1>4, DivMod
  <2>2. (adr.off \div ElemBytes) + e \in Int
    BY <2>1
  <2> QED BY <2>2, ModAddr
<1> HIDE DEF O
<1>6. WordAt(adr) \in Words
  <2> HIDE DEF at
  <2>1. \A e \in 0..(PACK - 1) : O[at(e)] \in Int
    BY <1>2, <1>5
  <2>2. CASE PACK - 1 = 1
    BY <1>3, <2>1, <2>2 DEF Words
  <2>3. CASE PACK - 1 = 3
    BY <1>3, <2>1, <2>3 DEF Words
  <2> QED BY <1>1, <2>2, <2>3
<1>7. ASSUME NEW n \in Addr, adr.off = n * ElemBytes, n % PACK = 0, NEW e \in 0..(PACK - 1)
      PROVE  n + e \in Addr /\ at(e) = n + e
  <2>1. adr.off \div ElemBytes = n
    <3>1. n \in Int /\ 0 \in 0..(ElemBytes - 1) /\ n * ElemBytes + 0 = n * ElemBytes
      BY <1>1, Sizes
    <3> QED BY <1>1, <1>7, <3>1, Division
  <2>2. n + e \in Addr
    <3>1. CASE PACK = 2
      BY <1>7, <3>1, Sizes
    <3>2. CASE PACK = 4
      BY <1>7, <3>2, Sizes
    <3> QED BY <1>1, <3>1, <3>2
  <2>3. (n + e) % N_SQ = n + e
    BY <2>2, ModAddr
  <2> QED BY <2>1, <2>2, <2>3
<1>8. ASSUME NEW n \in Addr, adr.off = n * ElemBytes, n % PACK = 0, NEW e \in 0..(PACK - 1)
      PROVE  n + e \in Addr /\ WordAt(adr)[e] = O[n + e]
  <2>1. n + e \in Addr /\ at(e) = n + e
    BY <1>7, <1>8
  <2> HIDE DEF at
  <2> QED BY <1>3, <1>8, <2>1
<1> QED BY <1>6, <1>8 DEF O

\* What an edge does on the bus, by what is on it.
LEMMA BusCases ==
    ASSUME TypeOK, Requested, NEW ack \in BOOLEAN, Handshake(ack)
    PROVE  /\ ~dma.req => ~wbm.stb /\ wbm' = wbm /\ dma_rdata' = dma_rdata /\ c_mem' = c_mem
           /\ dma.req /\ ~wbm.stb =>
                 /\ wbm' = [stb |-> TRUE, we |-> dma.we, adr |-> dma.addr, dat |-> dma.wdata]
                 /\ dma_rdata' = dma_rdata /\ c_mem' = c_mem
           /\ wbm.stb /\ ~ack => wbm' = wbm /\ dma_rdata' = dma_rdata /\ c_mem' = c_mem
           /\ wbm.stb /\ ack =>
                 /\ wbm' = [wbm EXCEPT !.stb = FALSE]
                 /\ ~dma.we => dma_rdata' = WordAt(dma.addr) /\ c_mem' = c_mem
                 /\ dma.we => /\ dma_rdata' = dma_rdata
                              /\ c_mem' = [c_mem EXCEPT ![dma.addr.off \div 4] = dma.wdata]
<1>1. wbm.stb => dma.req /\ wbm.we = dma.we /\ wbm.adr = dma.addr /\ wbm.dat = dma.wdata
  BY DEF Requested
<1>2. CASE dma.req /\ ~wbm.stb
  BY <1>2 DEF Handshake, busVars
<1>3. CASE wbm.stb /\ ack
  BY <1>1, <1>3 DEF Handshake, busVars
<1>4. CASE ~(dma.req /\ ~wbm.stb) /\ ~(wbm.stb /\ ack)
  BY <1>1, <1>4 DEF Handshake, busVars
<1> QED BY <1>1, <1>2, <1>3, <1>4

\* A request belongs to a state that makes one.
LEMMA NoRequest ==
    ASSUME TypeOK, Requested, NEW ack \in BOOLEAN, Handshake(ack),
           state \notin {"LOAD_A", "LOAD_B", "W4_WRITE"}
    PROVE  /\ ~dma.req /\ ~wbm.stb
           /\ wbm' = wbm /\ dma_rdata' = dma_rdata /\ c_mem' = c_mem
<1>1. ~dma.req
  BY States DEF Requested, Operands
<1> QED BY <1>1, BusCases

LEMMA RequestFacts ==
    ASSUME TypeOK, Requested, dma.req
    PROVE  /\ \A m \in Operands : state = LoadStates[m].word =>
                 ~dma.we /\ dma.addr = [mat |-> m, off |-> LoadOffset]
           /\ state = "W4_WRITE" =>
                 /\ dma.we /\ dma.addr = [mat |-> "C", off |-> w_idx_word * 4]
                 /\ dma.wdata = [e \in 0..(PACK - 1) |-> Signed(w[e], Bits)]
BY States DEF Requested, Operands

LEMMA OffsetType ==
    ASSUME TypeOK
    PROVE  LoadOffset \in Nat
<1>1. ElemBytes \in Nat /\ load_idx_word \in Nat
  BY ModeFacts, Sizes, SMTT(40) DEF TypeOK
<1> QED BY <1>1 DEF LoadOffset

\* The words an edge of the memory leaves behind are words.
LEMMA BusTypes ==
    ASSUME TypeOK, Requested, NEW ack \in BOOLEAN, Handshake(ack)
    PROVE  /\ wbm' \in [stb : BOOLEAN, we : BOOLEAN, adr : Addresses, dat : Words]
           /\ dma_rdata' \in Words /\ c_mem' \in [0..N_SQ -> Words]
<1>1. /\ wbm \in [stb : BOOLEAN, we : BOOLEAN, adr : Addresses, dat : Words]
      /\ dma \in [req : BOOLEAN, we : BOOLEAN, addr : Addresses, wdata : Words]
      /\ dma_rdata \in Words /\ c_mem \in [0..N_SQ -> Words] /\ mode \in Mode
  BY DEF TypeOK
<1>2. ASSUME wbm.stb, ~dma.we PROVE WordAt(dma.addr) \in Words
  <2>1. dma.addr.mat \in Operands /\ dma.addr \in Addresses
    BY <1>1, <1>2 DEF Requested
  <2> QED BY <1>1, <2>1, WordElements
<1>3. CASE ~dma.req
  BY <1>1, <1>3, BusCases
<1>4. CASE dma.req /\ ~wbm.stb
  <2>1. /\ wbm' = [stb |-> TRUE, we |-> dma.we, adr |-> dma.addr, dat |-> dma.wdata]
        /\ dma_rdata' = dma_rdata /\ c_mem' = c_mem
    BY <1>4, BusCases
  <2> QED BY <1>1, <2>1
<1>5. CASE wbm.stb /\ ~ack
  BY <1>1, <1>5, BusCases
<1>6. CASE wbm.stb /\ ack
  BY <1>1, <1>2, <1>6, BusCases
<1> QED BY <1>1, <1>3, <1>4, <1>5, <1>6

\* The cases of the states that wait for the memory.
LEMMA LoadWordCases ==
    ASSUME TypeOK, Requested, NEW ack \in BOOLEAN, NEW m \in Operands, LoadWord(m, ack)
    PROVE  /\ state = LoadStates[m].word /\ state \in {"LOAD_A", "LOAD_B"}
           /\ \/ /\ ~dma.req /\ ~wbm.stb /\ NoLoad
                 /\ Request(FALSE, [mat |-> m, off |-> LoadOffset], dma.wdata)
                 /\ state' = state /\ load_idx_word' = load_idx_word
              \/ /\ dma.req /\ wbm.stb /\ ack
                 /\ DropRequest /\ StoreElement(m, WordAt(wbm.adr)[0])
                 /\ load_idx_word' = load_idx_word + 1
                 /\ state' = IF mode.dw16 THEN LoadStates[m].half ELSE LoadStates[m].byte[1]
              \/ /\ dma.req /\ ~(wbm.stb /\ ack) /\ NoLoad
                 /\ dma' = dma /\ state' = state /\ load_idx_word' = load_idx_word
           /\ ~dma.we \/ ~dma.req
           /\ dma.req => dma.addr = [mat |-> m, off |-> LoadOffset]
<1>1. state = LoadStates[m].word /\ state \in {"LOAD_A", "LOAD_B"}
  BY States DEF LoadWord
<1>2. dma.req \in BOOLEAN /\ wbm.stb \in BOOLEAN /\ (wbm.stb => dma.req)
  BY DEF TypeOK, Requested
<1>3. \/ /\ ~dma.req /\ ~wbm.stb
         /\ Request(FALSE, [mat |-> m, off |-> LoadOffset], dma.wdata)
         /\ NoLoad /\ UNCHANGED <<state, load_idx_word>>
      \/ /\ dma.req /\ wbm.stb /\ ack
         /\ DropRequest
         /\ StoreElement(m, WordAt(wbm.adr)[0])
         /\ load_idx_word' = load_idx_word + 1
         /\ state' = IF mode.dw16 THEN LoadStates[m].half ELSE LoadStates[m].byte[1]
      \/ /\ dma.req # wbm.stb \/ (wbm.stb /\ ~ack)
         /\ NoLoad /\ UNCHANGED <<dma, state, load_idx_word>>
  BY Zenon DEF LoadWord
<1>4. dma.req => ~dma.we /\ dma.addr = [mat |-> m, off |-> LoadOffset]
  BY <1>1, RequestFacts
<1> QED BY <1>1, <1>2, <1>3, <1>4

LEMMA WriteCases ==
    ASSUME TypeOK, Requested, NEW ack \in BOOLEAN, FsmWrite(ack)
    PROVE  /\ state = "W4_WRITE"
           /\ \/ /\ ~dma.req /\ ~wbm.stb
                 /\ Request(TRUE, [mat |-> "C", off |-> w_idx_word * 4],
                            [e \in 0..(PACK - 1) |-> Signed(w[e], Bits)])
                 /\ state' = state /\ w_idx_word' = w_idx_word /\ acc_addr_b' = acc_addr_b
              \/ /\ dma.req /\ wbm.stb /\ ack
                 /\ DropRequest /\ w_idx_word' = w_idx_word + 1 /\ acc_addr_b' = NextAccAddr
                 /\ state' = IF LastWord THEN "DONE" ELSE "W0_READ"
              \/ /\ dma.req /\ ~(wbm.stb /\ ack) /\ dma' = dma /\ state' = state
                 /\ w_idx_word' = w_idx_word /\ acc_addr_b' = acc_addr_b
           /\ dma.req =>
                 /\ dma.we /\ dma.addr = [mat |-> "C", off |-> w_idx_word * 4]
                 /\ dma.wdata = [e \in 0..(PACK - 1) |-> Signed(w[e], Bits)]
<1>1. state = "W4_WRITE"
  BY DEF FsmWrite
<1>2. dma.req \in BOOLEAN /\ wbm.stb \in BOOLEAN /\ (wbm.stb => dma.req)
  BY DEF TypeOK, Requested
<1>3. \/ /\ ~dma.req /\ ~wbm.stb
         /\ Request(TRUE, [mat |-> "C", off |-> w_idx_word * 4],
                    [e \in 0..(PACK - 1) |-> Signed(w[e], Bits)])
         /\ UNCHANGED <<state, w_idx_word, acc_addr_b>>
      \/ /\ dma.req /\ wbm.stb /\ ack
         /\ DropRequest /\ w_idx_word' = w_idx_word + 1 /\ acc_addr_b' = NextAccAddr
         /\ state' = IF LastWord THEN "DONE" ELSE "W0_READ"
      \/ /\ dma.req # wbm.stb \/ (wbm.stb /\ ~ack)
         /\ UNCHANGED <<dma, state, w_idx_word, acc_addr_b>>
  BY Zenon DEF FsmWrite
<1>4. dma.req =>
         /\ dma.we /\ dma.addr = [mat |-> "C", off |-> w_idx_word * 4]
         /\ dma.wdata = [e \in 0..(PACK - 1) |-> Signed(w[e], Bits)]
  BY <1>1, RequestFacts
<1>5. UNCHANGED <<state, w_idx_word, acc_addr_b>> =>
         state' = state /\ w_idx_word' = w_idx_word /\ acc_addr_b' = acc_addr_b
  OBVIOUS
<1>6. UNCHANGED <<dma, state, w_idx_word, acc_addr_b>> =>
         dma' = dma /\ state' = state /\ w_idx_word' = w_idx_word /\ acc_addr_b' = acc_addr_b
  OBVIOUS
<1> QED BY <1>1, <1>2, <1>3, <1>4, <1>5, <1>6, Zenon

LEMMA RequestedStep ==
    ASSUME TypeOK, Undisturbed, Requested, Access \/ NoAccess, NEW ack \in BOOLEAN, Edge(ack)
    PROVE  Requested'
<1>1. Handshake(ack) /\ Fsm(ack)
  BY DEF Edge
<1>2. /\ wbm \in [stb : BOOLEAN, we : BOOLEAN, adr : Addresses, dat : Words]
      /\ dma \in [req : BOOLEAN, we : BOOLEAN, addr : Addresses, wdata : Words]
  BY DEF TypeOK
<1>3. ASSUME dma' = dma, state \notin {"LOAD_A", "LOAD_B", "W4_WRITE"} PROVE Requested'
  BY <1>1, <1>3, NoRequest DEF Requested
<1>4. ASSUME ~dma'.req, wbm.stb /\ ack PROVE Requested'
  <2>1. ~wbm'.stb
    BY <1>1, <1>2, <1>4, BusCases
  <2> QED BY <1>4, <2>1 DEF Requested
<1>5. ASSUME dma.req, ~(wbm.stb /\ ack)
      PROVE  wbm'.stb => wbm'.we = dma.we /\ wbm'.adr = dma.addr /\ wbm'.dat = dma.wdata
  <2>1. CASE wbm.stb
    <3>1. wbm' = wbm
      BY <1>1, <1>5, <2>1, BusCases
    <3> QED BY <2>1, <3>1 DEF Requested
  <2>2. CASE ~wbm.stb
    <3>1. wbm' = [stb |-> TRUE, we |-> dma.we, adr |-> dma.addr, dat |-> dma.wdata]
      BY <1>1, <1>5, <2>2, BusCases
    <3> QED BY <3>1
  <2> QED BY <2>1, <2>2
<1>6. ASSUME NEW m \in Operands, LoadWord(m, ack) PROVE Requested'
  <2>1. state = LoadStates[m].word /\ state \in {"LOAD_A", "LOAD_B"}
    BY <1>6, LoadWordCases
  <2>2. mode' = mode
    BY <2>1, ModeStays
  <2>3. ASSUME load_idx_word' = load_idx_word PROVE LoadOffset' = LoadOffset
    BY <2>2, <2>3, SameMode DEF LoadOffset
  <2>4. CASE ~dma.req /\ ~wbm.stb
    <3>1. Request(FALSE, [mat |-> m, off |-> LoadOffset], dma.wdata)
          /\ state' = state /\ load_idx_word' = load_idx_word
      BY <1>6, <2>4, LoadWordCases
    <3>2. wbm' = wbm
      BY <1>1, <2>4, BusCases
    <3>3. ~dma'.we /\ dma'.addr = [mat |-> m, off |-> LoadOffset']
      BY <2>3, <3>1 DEF Request
    <3> QED BY <2>1, <2>4, <3>1, <3>2, <3>3 DEF Requested
  <2>5. CASE dma.req /\ wbm.stb /\ ack
    <3>1. DropRequest
      BY <1>6, <2>5, LoadWordCases
    <3> QED BY <1>2, <1>4, <2>5, <3>1 DEF DropRequest
  <2>6. CASE dma.req /\ ~(wbm.stb /\ ack)
    <3>1. /\ dma' = dma /\ state' = state /\ load_idx_word' = load_idx_word
          /\ ~dma.we /\ dma.addr = [mat |-> m, off |-> LoadOffset]
      BY <1>6, <2>6, LoadWordCases
    <3>2. wbm'.stb => wbm'.we = dma.we /\ wbm'.adr = dma.addr /\ wbm'.dat = dma.wdata
      BY <1>5, <2>6
    <3> QED BY <2>1, <2>3, <2>6, <3>1, <3>2 DEF Requested
  <2> QED BY <1>6, <2>4, <2>5, <2>6, LoadWordCases
<1>16. ASSUME FsmWrite(ack) PROVE Requested'
  <2>1. state = "W4_WRITE"
    BY <1>16, WriteCases
  <2>2. mode' = mode /\ PACK' = PACK /\ Bits' = Bits
    BY <2>1, ModeStays, SameMode
  <2>3. w' = w
    BY <1>16 DEF FsmWrite
  <2>4. [e \in 0..(PACK - 1) |-> Signed(w[e], Bits)]' = [e \in 0..(PACK - 1) |-> Signed(w[e], Bits)]
    BY <2>2, <2>3 DEF Signed
  <2>5. CASE ~dma.req /\ ~wbm.stb
    <3>1. Request(TRUE, [mat |-> "C", off |-> w_idx_word * 4],
                  [e \in 0..(PACK - 1) |-> Signed(w[e], Bits)])
          /\ state' = state /\ w_idx_word' = w_idx_word
      BY <1>16, <2>5, WriteCases
    <3>2. wbm' = wbm
      BY <1>1, <2>5, BusCases
    <3>3. /\ dma'.we /\ dma'.addr = [mat |-> "C", off |-> w_idx_word * 4]
          /\ dma'.wdata = [e \in 0..(PACK - 1) |-> Signed(w[e], Bits)]
      BY <3>1 DEF Request
    <3> QED BY <2>1, <2>4, <2>5, <3>1, <3>2, <3>3 DEF Requested
  <2>6. CASE dma.req /\ wbm.stb /\ ack
    <3>1. DropRequest
      BY <1>16, <2>6, WriteCases
    <3> QED BY <1>2, <1>4, <2>6, <3>1 DEF DropRequest
  <2>7. CASE dma.req /\ ~(wbm.stb /\ ack)
    <3>1. /\ dma' = dma /\ state' = state /\ w_idx_word' = w_idx_word
          /\ dma.we /\ dma.addr = [mat |-> "C", off |-> w_idx_word * 4]
          /\ dma.wdata = [e \in 0..(PACK - 1) |-> Signed(w[e], Bits)]
      BY <1>16, <2>7, WriteCases
    <3>2. wbm'.stb => wbm'.we = dma.we /\ wbm'.adr = dma.addr /\ wbm'.dat = dma.wdata
      BY <1>5, <2>7
    <3> QED BY <2>1, <2>4, <2>7, <3>1, <3>2 DEF Requested
  <2> QED BY <1>16, <2>5, <2>6, <2>7, WriteCases
<1>7. CASE FsmIdle
  BY <1>3, <1>7 DEF FsmIdle
<1>8. CASE FsmClear
  BY <1>3, <1>8 DEF FsmClear
<1>9. CASE FsmCompute
  BY <1>3, <1>9 DEF FsmCompute
<1>10. CASE FsmComputeS2
  BY <1>3, <1>10 DEF FsmComputeS2
<1>11. CASE FsmComputeS3
  BY <1>3, <1>11 DEF FsmComputeS3
<1>12. CASE FsmRead
  <2>1. dma' = dma /\ state \in InRead
    BY <1>1, <1>12 DEF FsmRead, ReadSteps, InRead
  <2> QED BY <1>3, <2>1 DEF InRead
<1>13. CASE FsmTransform
  BY <1>3, <1>13 DEF FsmTransform
<1>14. CASE FsmDone
  BY <1>3, <1>14 DEF FsmDone
<1>15. ASSUME NEW m \in Operands, LoadRest(m) PROVE Requested'
  <2>1. dma' = dma
    BY <1>15 DEF LoadRest
  <2>2. state \in InLoad(m) \ {LoadStates[m].word}
    BY <1>15, States DEF LoadRest, LastOfWord, InLoad, Operands
  <2>3. state \notin {"LOAD_A", "LOAD_B", "W4_WRITE"}
    BY <2>2, States DEF Operands
  <2> QED BY <1>3, <2>1, <2>3
<1> QED BY <1>1, <1>6, <1>7, <1>8, <1>9, <1>10, <1>11, <1>12, <1>13, <1>14, <1>15, <1>16 DEF Fsm

-----------------------------------------------------------------------------
(* The operands                                                             *)

\* What is stored and what is on the port, an edge later.
LEMMA LoadedNext ==
    ASSUME TypeOK, TypeOK', DpRam, mode' = mode, NEW m \in Operands, NEW n \in Nat,
           Loaded(m, n)
    PROVE  /\ ~load'[m].we => Loaded(m, n)'
           /\ n \in Addr /\ load'[m] = [we |-> TRUE, addr |-> n, data |-> Operand(m)[n]]
                => Loaded(m, n + 1)'
<1> DEFINE S == Stored(spad[m], load[m])
           T == Stored(spad'[m], load'[m])
<1>1. spad[m] \in [Addr -> Int] /\ spad'[m] \in [Addr -> Int] /\ spad'[m] = S
  BY DEF TypeOK, DpRam
<1>2. /\ load[m].we \in BOOLEAN /\ load[m].addr \in Addr /\ load[m].data \in Int
      /\ load'[m].we \in BOOLEAN /\ load'[m].addr \in Addr /\ load'[m].data \in Int
  BY DEF TypeOK
<1>3. \A a \in Addr : T[a] = IF load'[m].we /\ a = load'[m].addr THEN load'[m].data ELSE S[a]
  BY <1>1, <1>2, StoredValue
<1>4. \A a \in Addr : a < n => S[a] = Operand(m)[a]
  BY DEF Loaded
<1>5. Operand(m)' = Operand(m)
  BY SameMode
<1>6. \A k : Loaded(m, k)' <=> \A a \in Addr : a < k => T[a] = Operand(m)[a]
  BY <1>5 DEF Loaded, Stored
<1> HIDE DEF S, T
<1>7. ASSUME ~load'[m].we PROVE Loaded(m, n)'
  BY <1>3, <1>4, <1>6, <1>7
<1>8. ASSUME n \in Addr, load'[m] = [we |-> TRUE, addr |-> n, data |-> Operand(m)[n]]
      PROVE  Loaded(m, n + 1)'
  <2>1. \A a \in Addr : a < n + 1 => a < n \/ a = n
    BY Sizes
  <2>2. \A a \in Addr : a < n + 1 => T[a] = Operand(m)[a]
    BY <1>3, <1>4, <1>8, <2>1
  <2> QED BY <1>6, <2>2
<1> QED BY <1>7, <1>8

\* What each arm that loads does to the place and the port.
LEMMA LoadSteps ==
    ASSUME TypeOK, Requested, Loading, NEW ack \in BOOLEAN, Handshake(ack),
           NEW m \in Operands, LoadWord(m, ack) \/ LoadRest(m)
    PROVE  \/ /\ NoLoad /\ load_idx_word' = load_idx_word /\ state' = state
              /\ state = LoadStates[m].word
           \/ /\ load' = [n \in Operands |->
                            IF n = m THEN [we |-> TRUE, addr |-> load_idx_word,
                                           data |-> Operand(m)[load_idx_word]]
                                     ELSE [load[n] EXCEPT !.we = FALSE]]
              /\ \/ /\ load_idx_word' = load_idx_word + 1 /\ load_idx_word + 1 \in Addr
                    /\ \/ state' = LoadStates[m].word /\ (load_idx_word + 1) % PACK = 0
                       \/ /\ state' = LoadStates[m].half /\ mode.dw16
                          /\ (load_idx_word + 1) % 2 = 1
                          /\ dma_rdata'[1] = Operand(m)[load_idx_word + 1]
                       \/ \E e \in 1..3 :
                             /\ state' = LoadStates[m].byte[e] /\ ~mode.dw16
                             /\ (load_idx_word + 1) % 4 = e
                             /\ \A f \in e..3 :
                                   dma_rdata'[f] = Operand(m)[load_idx_word + 1 + (f - e)]
                 \/ /\ load_idx_word = N_SQ - 1 /\ load_idx_word' = 0
                    /\ state' = LoadStates[m].next
<1> DEFINE i == load_idx_word
<1>1. mode \in Mode /\ i \in Addr /\ i % N_SQ = i /\ i \in Nat /\ N_SQ \in Nat
  <2>1. mode \in Mode /\ i \in Addr
    BY DEF TypeOK
  <2> HIDE DEF i
  <2>2. i % N_SQ = i
    BY <2>1, ModAddr
  <2> QED BY <2>1, <2>2, Sizes
<1>2. CASE LoadWord(m, ack) /\ dma.req /\ wbm.stb /\ ack
  <2>1. /\ StoreElement(m, WordAt(wbm.adr)[0]) /\ i' = i + 1
        /\ state' = IF mode.dw16 THEN LoadStates[m].half ELSE LoadStates[m].byte[1]
        /\ ~dma.we /\ dma.addr = [mat |-> m, off |-> LoadOffset]
        /\ state = LoadStates[m].word
    BY <1>2, LoadWordCases
  <2>2. wbm.adr = dma.addr /\ dma_rdata' = WordAt(dma.addr)
    BY <1>2, <2>1, BusCases DEF Requested
  <2>3. i % PACK = 0
    BY <2>1 DEF Loading
  <2>4. \A e \in 0..(PACK - 1) : i + e \in Addr /\ WordAt(dma.addr)[e] = Operand(m)[i + e]
    <3>1. dma.addr \in Addresses /\ dma.addr.mat = m /\ dma.addr.off = i * ElemBytes
      BY <2>1 DEF TypeOK, LoadOffset
    <3> QED BY <1>1, <2>3, <3>1, WordElements
  <2> HIDE DEF i
  <2>5. WordAt(dma.addr)[0] = Operand(m)[i]
    <3>1. 0 \in 0..(PACK - 1) /\ i + 0 = i
      BY <1>1, ModeFacts
    <3> QED BY <2>4, <3>1
  <2>6. load' = [n \in Operands |->
                   IF n = m THEN [we |-> TRUE, addr |-> i, data |-> Operand(m)[i]]
                            ELSE [load[n] EXCEPT !.we = FALSE]]
    BY <1>1, <2>1, <2>2, <2>5 DEF StoreElement, i
  <2>7. CASE mode.dw16
    <3>1. 1 \in 0..(PACK - 1) /\ PACK = 2
      BY <1>1, <2>7, ModeFacts
    <3>2. i + 1 \in Addr /\ dma_rdata'[1] = Operand(m)[i + 1]
      BY <2>2, <2>4, <3>1
    <3>3. (i + 1) % 2 = 1
      BY <1>1, <2>3, <3>1
    <3> QED BY <2>1, <2>6, <2>7, <3>2, <3>3 DEF i
  <2>8. CASE ~mode.dw16
    <3>1. PACK = 4
      BY <1>1, <2>8, ModeFacts
    <3>2. i + 1 \in Addr
      BY <2>4, <3>1
    <3>3. (i + 1) % 4 = 1
      BY <1>1, <2>3, <3>1
    <3>4. ASSUME NEW f \in 1..3 PROVE dma_rdata'[f] = Operand(m)[i + 1 + (f - 1)]
      <4>1. f \in 0..(PACK - 1) /\ i + f = i + 1 + (f - 1)
        BY <1>1, <3>1
      <4> QED BY <2>2, <2>4, <4>1
    <3>5. 1 \in 1..3
      OBVIOUS
    <3>6. \E e \in 1..3 : /\ state' = LoadStates[m].byte[e] /\ ~mode.dw16
                          /\ (i + 1) % 4 = e
                          /\ \A f \in e..3 : dma_rdata'[f] = Operand(m)[i + 1 + (f - e)]
      BY <2>1, <2>8, <3>3, <3>4, <3>5
    <3> QED BY <2>1, <2>6, <3>2, <3>6 DEF i
  <2> QED BY <2>7, <2>8
<1>3. CASE LoadWord(m, ack) /\ ~(dma.req /\ wbm.stb /\ ack)
  BY <1>3, LoadWordCases
<1>4. ASSUME LoadRest(m) PROVE dma_rdata' = dma_rdata
  <2>1. state \in {LoadStates[m].half, LoadStates[m].byte[1], LoadStates[m].byte[2],
                   LoadStates[m].byte[3]}
    <3>1. \A e : e \in 1..2 => e = 1 \/ e = 2
      OBVIOUS
    <3> QED BY <1>4, <3>1 DEF LoadRest
  <2>2. state \notin {"LOAD_A", "LOAD_B", "W4_WRITE"}
    BY <2>1, States
  <2> QED BY <2>2, NoRequest
<1>5. ASSUME NEW e \in 1..3, StoreElement(m, dma_rdata[e]), dma_rdata[e] = Operand(m)[i]
      PROVE  load' = [n \in Operands |->
                        IF n = m THEN [we |-> TRUE, addr |-> i, data |-> Operand(m)[i]]
                                 ELSE [load[n] EXCEPT !.we = FALSE]]
  BY <1>1, <1>5 DEF StoreElement
<1>6. ASSUME LastOfWord(m), (i + 1) % PACK = 0 \/ i = N_SQ - 1
      PROVE  \/ /\ i' = i + 1 /\ i + 1 \in Addr
                /\ state' = LoadStates[m].word /\ (i + 1) % PACK = 0
             \/ i = N_SQ - 1 /\ i' = 0 /\ state' = LoadStates[m].next
  <2>1. i # N_SQ - 1 => i + 1 \in Addr
    BY <1>1, Sizes
  <2> QED BY <1>6, <2>1 DEF LastOfWord
<1>7. CASE state = LoadStates[m].half /\ StoreElement(m, dma_rdata[1]) /\ LastOfWord(m)
  <2>1. mode.dw16 /\ i % 2 = 1 /\ dma_rdata[1] = Operand(m)[i]
    BY <1>7 DEF Loading
  <2>2. (i + 1) % PACK = 0
    BY <1>1, <2>1, ModeFacts
  <2> HIDE DEF i
  <2>3. 1 \in 1..3
    OBVIOUS
  <2> QED BY <1>5, <1>6, <1>7, <2>1, <2>2, <2>3 DEF i
<1>8. ASSUME NEW e \in 1..2, state = LoadStates[m].byte[e], StoreElement(m, dma_rdata[e]),
             i' = i + 1, state' = LoadStates[m].byte[e + 1], LoadRest(m)
      PROVE  /\ load' = [n \in Operands |->
                           IF n = m THEN [we |-> TRUE, addr |-> i, data |-> Operand(m)[i]]
                                    ELSE [load[n] EXCEPT !.we = FALSE]]
             /\ i + 1 \in Addr
             /\ \E g \in 1..3 :
                   /\ state' = LoadStates[m].byte[g] /\ ~mode.dw16 /\ (i + 1) % 4 = g
                   /\ \A f \in g..3 : dma_rdata'[f] = Operand(m)[i + 1 + (f - g)]
  <2>1. e \in 1..3 /\ e + 1 \in 1..3 /\ e \in e..3
    OBVIOUS
  <2>2. /\ ~mode.dw16 /\ i % 4 = e
        /\ \A f \in e..3 : dma_rdata[f] = Operand(m)[i + (f - e)]
    BY <1>8, <2>1 DEF Loading
  <2> HIDE DEF i
  <2>3. dma_rdata[e] = Operand(m)[i]
    <3>1. i + (e - e) = i
      BY <1>1
    <3> QED BY <2>1, <2>2, <3>1
  <2>4. (i + 1) % 4 = e + 1 /\ i + 1 \in Addr
    <3>1. i % 4 = 1 \/ i % 4 = 2
      BY <2>2
    <3>2. (i + 1) % 4 = e + 1 /\ (i + 1) % 4 # 0
      BY <1>1, <2>2, <3>1
    <3>3. i + 1 # N_SQ /\ i \in 0..(N_SQ - 1)
      BY <1>1, <3>2, Sizes
    <3> QED BY <1>1, <3>2, <3>3, Sizes
  <2>5. ASSUME NEW f \in (e + 1)..3 PROVE dma_rdata'[f] = Operand(m)[i + 1 + (f - (e + 1))]
    <3>1. f \in e..3 /\ i + (f - e) = i + 1 + (f - (e + 1))
      BY <1>1
    <3> QED BY <1>4, <1>8, <2>2, <3>1
  <2>6. load' = [n \in Operands |->
                   IF n = m THEN [we |-> TRUE, addr |-> i, data |-> Operand(m)[i]]
                            ELSE [load[n] EXCEPT !.we = FALSE]]
    BY <1>5, <1>8, <2>1, <2>3
  <2> QED BY <1>8, <2>1, <2>2, <2>4, <2>5, <2>6
<1>9. CASE state = LoadStates[m].byte[3] /\ StoreElement(m, dma_rdata[3]) /\ LastOfWord(m)
  <2>1. 3 \in 1..3 /\ 3 \in 3..3
    OBVIOUS
  <2>2. ~mode.dw16 /\ i % 4 = 3 /\ dma_rdata[3] = Operand(m)[i + (3 - 3)]
    BY <1>9, <2>1 DEF Loading
  <2>3. i + (3 - 3) = i /\ (i + 1) % PACK = 0
    BY <1>1, <2>2, ModeFacts
  <2> HIDE DEF i
  <2> QED BY <1>5, <1>6, <1>9, <2>1, <2>2, <2>3 DEF i
<1>10. CASE LoadRest(m)
  <2>1. \/ state = LoadStates[m].half /\ StoreElement(m, dma_rdata[1]) /\ LastOfWord(m)
        \/ \E e \in 1..2 : /\ state = LoadStates[m].byte[e] /\ StoreElement(m, dma_rdata[e])
                           /\ i' = i + 1 /\ state' = LoadStates[m].byte[e + 1]
        \/ state = LoadStates[m].byte[3] /\ StoreElement(m, dma_rdata[3]) /\ LastOfWord(m)
    BY <1>10 DEF LoadRest
  <2>2. CASE \E e \in 1..2 : /\ state = LoadStates[m].byte[e] /\ StoreElement(m, dma_rdata[e])
                             /\ i' = i + 1 /\ state' = LoadStates[m].byte[e + 1]
    <3>1. PICK e \in 1..2 : /\ state = LoadStates[m].byte[e] /\ StoreElement(m, dma_rdata[e])
                            /\ i' = i + 1 /\ state' = LoadStates[m].byte[e + 1]
      BY <2>2
    <3> QED BY <1>8, <1>10, <3>1
  <2> QED BY <1>7, <1>9, <2>1, <2>2
<1> QED BY <1>2, <1>3, <1>10

-----------------------------------------------------------------------------
(* Types                                                                    *)

\* The sum of an element, and what the scratchpad shows of it.
LEMMA TotalType ==
    ASSUME mode \in Mode, NEW a \in Addr
    PROVE  Total(a) \in AccValue
<1>1. a \div N \in Index /\ a % N \in Index
  BY RowAndColumn
<1>2. Sums(a \div N, a % N)[N] \in Int
  <2>1. N \in 0..N
    BY Sizes
  <2> QED BY <1>1, <2>1, SumsSteps
<1> QED BY <1>2, AccIn DEF Total

LEMMA SummedTotal ==
    ASSUME NEW n, Summed(n), NEW a \in Addr, a < n
    PROVE  Stored(acc_spad, acc)[a] = Total(a)
<1>1. a \div N \in Index /\ a % N \in Index /\ (a \div N) * N + (a % N) = a
  BY RowAndColumn
<1> QED BY <1>1 DEF Summed, Total

LEMMA AccStored ==
    ASSUME TypeOK
    PROVE  /\ acc_spad \in [Addr -> Int] /\ acc.we \in BOOLEAN /\ acc.addr \in Addr
           /\ acc.data \in AccValue /\ acc.data \in Int
           /\ Stored(acc_spad, acc) \in [Addr -> Int]
           /\ \A a \in Addr : Stored(acc_spad, acc)[a] =
                                IF acc.we /\ a = acc.addr THEN acc.data ELSE acc_spad[a]
<1>1. /\ acc_spad \in [Addr -> Int] /\ acc.we \in BOOLEAN /\ acc.addr \in Addr
      /\ acc.data \in AccValue
  BY DEF TypeOK
<1>2. acc.data \in Int
  BY <1>1, Power DEF AccValue, Widths
<1> QED BY <1>1, <1>2, StoredValue

\* In writeback an element is read after it has been stored.
LEMMA ReadStored ==
    ASSUME TypeOK, ProductStored, state \in InRead
    PROVE  acc_spad[acc_addr_b] = Total(acc_addr_b) /\ Total(acc_addr_b) \in AccValue
<1>1. state \in InWriteback
  BY DEF InWriteback
<1>2. acc_addr_b \in Addr /\ acc_addr_b < N_SQ /\ mode \in Mode
  BY Sizes DEF TypeOK
<1>3. Stored(acc_spad, acc)[acc_addr_b] = Total(acc_addr_b)
  BY <1>1, <1>2, SummedTotal DEF ProductStored
<1>4. acc.we => acc_addr_b # acc.addr
  BY <1>1, Sizes DEF ProductStored
<1>5. acc_spad[acc_addr_b] = Stored(acc_spad, acc)[acc_addr_b]
  BY <1>2, <1>4, AccStored
<1> QED BY <1>2, <1>3, <1>5, TotalType

\* Activation, quantization and saturation stay within the accumulator's width.
LEMMA Transforms ==
    ASSUME mode \in Mode, NEW x \in AccValue
    PROVE  /\ apply_activation(x) \in AccValue /\ apply_quant(x) \in AccValue
           /\ saturate_out(x) \in AccValue
<1> DEFINE h == 2^(2 * Wide - 1)
           p == 2^(Bits - 1)
<1>1. h \in Nat \ {0} /\ AccValue = -h..(h - 1) /\ x \in Int
  BY Power DEF AccValue, Widths
<1>2. p \in Nat \ {0} /\ p <= h
  <2>1. Bits = Narrow \/ Bits = Wide
    BY ModeFacts
  <2> QED BY <2>1, Power DEF Widths
<1>3. Acc(x * Alpha) \div 128 \in AccValue
  <2> DEFINE a == Acc(x * Alpha)
             d == a \div 128
  <2>1. x * Alpha \in Int
    BY <1>1, InputAssumption
  <2>2. a \in -h..(h - 1)
    BY <1>1, <2>1, AccIn
  <2> HIDE DEF h, a
  <2>3. a \in Int /\ d \in Int /\ a % 128 \in 0..127 /\ a = 128 * d + (a % 128)
    BY <1>1, <2>2
  <2>4. d \in -h..(h - 1)
    BY <1>1, <2>2, <2>3
  <2> QED BY <1>1, <2>4 DEF a
<1>4. Acc(Acc((x * QScale + 32768) \div 65536) + QZero) \in AccValue
  <2>1. x * QScale + 32768 \in Int
    BY <1>1, InputAssumption
  <2>2. (x * QScale + 32768) \div 65536 \in Int
    BY <2>1
  <2>3. Acc((x * QScale + 32768) \div 65536) \in Int
    BY <2>2, AccIn
  <2>4. Acc((x * QScale + 32768) \div 65536) + QZero \in Int
    BY <2>3, InputAssumption
  <2> QED BY <2>4, AccIn
<1> HIDE DEF h, p
<1>5. apply_activation(x) \in AccValue
  <2>1. 0 \in AccValue
    BY <1>1
  <2>2. \/ ~mode.act \/ x >= 0 \/ (mode.act /\ ~mode.leaky /\ x < 0)
        \/ (mode.act /\ mode.leaky /\ x < 0)
    BY <1>1, ModeFacts
  <2> QED BY <1>1, <1>3, <2>1, <2>2 DEF apply_activation
<1>6. apply_quant(x) \in AccValue
  BY <1>4 DEF apply_quant
<1>7. saturate_out(x) \in AccValue
  <2>1. p - 1 \in AccValue /\ -p \in AccValue
    BY <1>1, <1>2
  <2>2. saturate_out(x) = (CASE x > p - 1 -> p - 1 [] x < -p -> -p [] OTHER -> x)
    BY DEF saturate_out, p
  <2> QED BY <2>1, <2>2
<1> QED BY <1>5, <1>6, <1>7

LEMMA WritebackWord ==
    ASSUME mode \in Mode, NEW v \in [0..3 -> AccValue]
    PROVE  [e \in 0..(PACK - 1) |-> Signed(v[e], Bits)] \in Words
<1>1. PACK - 1 = 1 \/ PACK - 1 = 3
  BY ModeFacts
<1>2. ASSUME NEW e \in 0..(PACK - 1) PROVE Signed(v[e], Bits) \in Int
  <2>1. v[e] \in AccValue
    BY <1>1
  <2>2. v[e] \in Int
    BY <2>1, Power DEF AccValue, Widths
  <2>3. \A x \in Int : Signed(x, Bits) \in Int
    BY ModeFacts, Cut, Power
  <2> QED BY <2>2, <2>3
<1>3. CASE PACK - 1 = 1
  BY <1>2, <1>3 DEF Words
<1>4. CASE PACK - 1 = 3
  BY <1>2, <1>4 DEF Words
<1> QED BY <1>1, <1>3, <1>4

FsmTypeOK ==
    /\ dma \in [req : BOOLEAN, we : BOOLEAN, addr : Addresses, wdata : Words]
    /\ clear_idx \in 0..N_SQ /\ load_idx_word \in Addr /\ w_idx_word \in 0..(N_SQ + 1)
    /\ i_sx \in Index /\ j_sx \in Index /\ k_sx \in Index
    /\ load \in [Operands -> [we : BOOLEAN, addr : Addr, data : Int]]
    /\ comp_addr \in [Operands -> Addr]
    /\ acc \in [we : BOOLEAN, addr : Addr, data : AccValue] /\ acc_addr_b \in Addr
    /\ w \in [0..3 -> AccValue]

LEMMA PortTypes ==
    ASSUME TypeOK
    PROVE  /\ NoLoad => load' \in [Operands -> [we : BOOLEAN, addr : Addr, data : Int]]
           /\ NoAcc => acc' \in [we : BOOLEAN, addr : Addr, data : AccValue]
           /\ FetchOperands => comp_addr' \in [Operands -> Addr]
           /\ AccAddr \in Addr /\ NextAccAddr \in Addr /\ 0 \in Addr /\ 0 \in AccValue
           /\ 0 \in Index /\ w_idx_word % N_SQ \in Addr
<1>1. /\ load \in [Operands -> [we : BOOLEAN, addr : Addr, data : Int]]
      /\ acc \in [we : BOOLEAN, addr : Addr, data : AccValue]
      /\ i_sx \in Int /\ j_sx \in Int /\ k_sx \in Int /\ N \in Int /\ acc_addr_b \in Int
      /\ w_idx_word \in Int
  BY Sizes DEF TypeOK
<1>2. NoLoad => load' \in [Operands -> [we : BOOLEAN, addr : Addr, data : Int]]
  BY <1>1 DEF NoLoad
<1>3. NoAcc => acc' \in [we : BOOLEAN, addr : Addr, data : AccValue]
  BY <1>1 DEF NoAcc
<1>4. (i_sx * N + k_sx) % N_SQ \in Addr /\ (k_sx * N + j_sx) % N_SQ \in Addr
  <2>1. i_sx * N + k_sx \in Int /\ k_sx * N + j_sx \in Int
    BY <1>1
  <2> QED BY <2>1, ModAddr
<1>5. FetchOperands => comp_addr' \in [Operands -> Addr]
  <2> DEFINE a == (i_sx * N + k_sx) % N_SQ
             b == (k_sx * N + j_sx) % N_SQ
  <2>1. FetchOperands => comp_addr' = [A |-> a, B |-> b]
    BY DEF FetchOperands
  <2> HIDE DEF a, b
  <2>2. a \in Addr /\ b \in Addr => [A |-> a, B |-> b] \in [Operands -> Addr]
    BY DEF Operands
  <2> QED BY <1>4, <2>1, <2>2 DEF a, b
<1>6. AccAddr \in Addr
  <2>1. i_sx * N + j_sx \in Int
    BY <1>1
  <2> QED BY <2>1, ModAddr DEF AccAddr
<1>7. NextAccAddr \in Addr
  <2>1. acc_addr_b + 1 \in Int
    BY <1>1
  <2> QED BY <2>1, ModAddr DEF NextAccAddr
<1>8. 0 \in Addr /\ 0 \in Index
  BY Sizes
<1>9. 0 \in AccValue
  BY Power DEF AccValue, Widths
<1> QED BY <1>1, <1>2, <1>3, <1>5, <1>6, <1>7, <1>8, <1>9, ModAddr

\* A product, and an accumulator with one more.
LEMMA ProductType ==
    ASSUME TypeOK
    PROVE  /\ Product \in Int /\ \A x \in {0, acc.data} : Acc(Product + x) \in AccValue
           /\ Acc(acc.data + Product) \in AccValue
<1>1. Product \in Int
  <2>1. comp_addr["A"] \in Addr /\ comp_addr["B"] \in Addr
    BY DEF TypeOK, Operands
  <2>2. spad["A"] \in [Addr -> Int] /\ spad["B"] \in [Addr -> Int]
    BY DEF TypeOK, Operands
  <2>3. spad["A"][comp_addr["A"]] \in Int /\ spad["B"][comp_addr["B"]] \in Int
    BY <2>1, <2>2
  <2> QED BY <2>3 DEF Product
<1>2. Product + 0 \in Int /\ Product + acc.data \in Int /\ acc.data + Product \in Int
  BY <1>1, AccStored
<1> QED BY <1>1, <1>2, AccIn

LEMMA NextIndexTypes ==
    ASSUME TypeOK, NextIndices
    PROVE  i_sx' \in Index /\ j_sx' \in Index /\ k_sx' \in Index
<1>1. i_sx \in 0..Top /\ j_sx \in 0..Top /\ k_sx \in 0..Top /\ Top \in Nat
  BY Sizes DEF TypeOK
<1> QED BY <1>1, Sizes DEF NextIndices

LEMMA FsmTypes ==
    ASSUME TypeOK, Undisturbed, Requested, Loading, ProductStored, Written, Summing,
           NEW ack \in BOOLEAN, Handshake(ack), Fsm(ack)
    PROVE  FsmTypeOK'
<1> USE DEF FsmTypeOK
<1>1. FsmTypeOK /\ mode \in Mode
  BY DEF TypeOK
<1>2. CASE FsmIdle
  <2>1. [m \in Operands |-> 0] \in [Operands -> Addr] /\ 0 \in 0..(N_SQ + 1)
    BY PortTypes, Sizes
  <2> QED BY <1>1, <1>2, <2>1, PortTypes DEF FsmIdle, computeVars, idxVars
<1>3. CASE FsmClear
  <2>1. /\ UNCHANGED <<dma, load_idx_word, computeVars, writeVars>> /\ NoLoad
    BY <1>3 DEF FsmClear
  <2>2. CASE ClearsMore
    <3>1. acc' = [we |-> TRUE, addr |-> clear_idx % N_SQ, data |-> 0]
          /\ clear_idx' = clear_idx + 1
      BY <1>3, <2>2 DEF FsmClear
    <3>2. clear_idx % N_SQ \in Addr /\ clear_idx + 1 \in 0..N_SQ
      <4>1. clear_idx \in Int /\ clear_idx + 1 \in 0..N_SQ
        BY <1>1, <2>2, Sizes DEF ClearsMore
      <4> QED BY <4>1, ModAddr
    <3>3. [we |-> TRUE, addr |-> clear_idx % N_SQ, data |-> 0]
             \in [we : BOOLEAN, addr : Addr, data : AccValue]
      BY <3>2, PortTypes
    <3> QED BY <1>1, <2>1, <3>1, <3>2, <3>3, PortTypes DEF computeVars, idxVars, writeVars
  <2>3. CASE ~ClearsMore
    <3>1. NoAcc /\ clear_idx' = clear_idx
      BY <1>3, <2>3 DEF FsmClear
    <3> QED BY <1>1, <2>1, <3>1, PortTypes DEF computeVars, idxVars, writeVars
  <2> QED BY <2>2, <2>3
<1>4. CASE FsmCompute
  <2>1. k_sx + 1 \in Index
    BY <1>4, Sizes DEF FsmCompute, Summing
  <2>2. [we |-> FALSE, addr |-> AccAddr, data |-> 0]
             \in [we : BOOLEAN, addr : Addr, data : AccValue]
    BY PortTypes
  <2> QED BY <1>1, <1>4, <2>1, <2>2, PortTypes DEF FsmCompute, writeVars
<1>5. CASE FsmComputeS2
  <2> DEFINE a == [we |-> k_sx = 0, addr |-> IF Restarts THEN AccAddr ELSE acc.addr,
                   data |-> Acc(Product + IF Restarts THEN 0 ELSE acc.data)]
  <2>1. a \in [we : BOOLEAN, addr : Addr, data : AccValue]
    <3>1. Acc(Product + IF Restarts THEN 0 ELSE acc.data) \in AccValue
      BY ProductType
    <3>2. (IF Restarts THEN AccAddr ELSE acc.addr) \in Addr
      BY PortTypes, AccStored
    <3> QED BY <3>1, <3>2
  <2>2. acc' = a /\ NextIndices /\ FetchOperands /\ NoLoad
        /\ UNCHANGED <<dma, clear_idx, load_idx_word, writeVars>>
    BY <1>5 DEF FsmComputeS2
  <2> HIDE DEF a
  <2> QED BY <1>1, <2>1, <2>2, PortTypes, NextIndexTypes DEF writeVars
<1>6. CASE FsmComputeS3
  <2> DEFINE a == [acc EXCEPT !.we = TRUE, !.data = Acc(acc.data + Product)]
  <2>1. a \in [we : BOOLEAN, addr : Addr, data : AccValue]
    BY <1>1, ProductType
  <2>2. i_sx < Top => i_sx + 1 \in Index
    BY <1>1, Sizes
  <2>3. /\ acc' = a /\ FetchOperands /\ NoLoad /\ acc_addr_b' = w_idx_word % N_SQ
        /\ i_sx' = IF i_sx < Top THEN i_sx + 1 ELSE i_sx
        /\ UNCHANGED <<dma, clear_idx, load_idx_word, j_sx, k_sx, w_idx_word, w>>
    BY <1>6 DEF FsmComputeS3
  <2> HIDE DEF a
  <2> QED BY <1>1, <2>1, <2>2, <2>3, PortTypes
<1>7. CASE FsmRead
  <2>1. PICK r \in ReadSteps :
           /\ state = r.at /\ w' = [w EXCEPT ![r.lane] = acc_spad[acc_addr_b]]
           /\ acc_addr_b' = IF r.step THEN NextAccAddr ELSE acc_addr_b
    BY <1>7 DEF FsmRead
  <2>2. state \in InRead
    BY <2>1 DEF ReadSteps, InRead
  <2>3. w' \in [0..3 -> AccValue]
    BY <1>1, <2>1, <2>2, ReadStored
  <2>4. NoLoad /\ NoAcc /\ UNCHANGED <<dma, clear_idx, load_idx_word, computeVars, w_idx_word>>
    BY <1>7 DEF FsmRead
  <2> QED BY <1>1, <2>1, <2>3, <2>4, PortTypes DEF computeVars, idxVars
<1>8. CASE FsmTransform
  <2>1. NoLoad /\ NoAcc
        /\ UNCHANGED <<dma, clear_idx, load_idx_word, computeVars, w_idx_word, acc_addr_b>>
    BY <1>8 DEF FsmTransform
  <2>2. \A l \in 0..3 : /\ apply_activation(w[l]) \in AccValue
                        /\ apply_quant(w[l]) \in AccValue /\ saturate_out(w[l]) \in AccValue
    BY <1>1, Transforms
  <2>3. \/ w' = [l \in 0..3 |-> apply_activation(w[l])]
        \/ w' = [l \in 0..3 |-> apply_quant(w[l])]
        \/ w' = [l \in 0..3 |-> saturate_out(w[l])]
    BY <1>8 DEF FsmTransform
  <2>4. w' \in [0..3 -> AccValue]
    BY <2>2, <2>3
  <2> QED BY <1>1, <2>1, <2>4, PortTypes DEF computeVars, idxVars
<1>9. CASE FsmWrite(ack)
  <2>1. NoLoad /\ NoAcc /\ UNCHANGED <<clear_idx, load_idx_word, computeVars, w>>
    BY <1>9 DEF FsmWrite
  <2>2. state \in InWriteback /\ w_idx_word \in Nat
    BY <1>1, <1>9, Sizes DEF FsmWrite, InWriteback
  <2>3. w_idx_word + 1 \in 0..(N_SQ + 1) /\ w_idx_word * 4 \in Nat
    BY <1>1, <2>2, Sizes DEF Written
  <2>4. CASE Request(TRUE, [mat |-> "C", off |-> w_idx_word * 4],
                     [e \in 0..(PACK - 1) |-> Signed(w[e], Bits)])
             /\ w_idx_word' = w_idx_word /\ acc_addr_b' = acc_addr_b
    <3> DEFINE word == [e \in 0..(PACK - 1) |-> Signed(w[e], Bits)]
    <3>1. word \in Words
      BY <1>1, WritebackWord
    <3>2. [mat |-> "C", off |-> w_idx_word * 4] \in Addresses
      BY <2>3 DEF Addresses
    <3> HIDE DEF word
    <3>3. dma' = [req |-> TRUE, we |-> TRUE, addr |-> [mat |-> "C", off |-> w_idx_word * 4],
                  wdata |-> word]
      BY <2>4 DEF Request, word
    <3>4. dma' \in [req : BOOLEAN, we : BOOLEAN, addr : Addresses, wdata : Words]
      BY <3>1, <3>2, <3>3
    <3> QED BY <1>1, <2>1, <2>4, <3>4, PortTypes DEF computeVars, idxVars
  <2>5. CASE DropRequest /\ w_idx_word' = w_idx_word + 1 /\ acc_addr_b' = NextAccAddr
    BY <1>1, <2>1, <2>3, <2>5, PortTypes DEF computeVars, idxVars, DropRequest
  <2>6. CASE dma' = dma /\ w_idx_word' = w_idx_word /\ acc_addr_b' = acc_addr_b
    BY <1>1, <2>1, <2>6, PortTypes DEF computeVars, idxVars
  <2> QED BY <1>9, <2>4, <2>5, <2>6, WriteCases
<1>10. CASE FsmDone
  BY <1>1, <1>10, PortTypes DEF FsmDone, computeVars, idxVars, writeVars
<1>11. ASSUME NEW m \in Operands, LoadWord(m, ack) \/ LoadRest(m) PROVE FsmTypeOK'
  <2>1. NoAcc /\ UNCHANGED <<clear_idx, computeVars, writeVars>>
    BY <1>11 DEF LoadWord, LoadRest
  <2>2. dma' \in [req : BOOLEAN, we : BOOLEAN, addr : Addresses, wdata : Words]
    <3>1. CASE LoadRest(m)
      BY <1>1, <3>1 DEF LoadRest
    <3>2. CASE LoadWord(m, ack)
      <4>1. [mat |-> m, off |-> LoadOffset] \in Addresses
        BY OffsetType DEF Addresses
      <4>2. \/ Request(FALSE, [mat |-> m, off |-> LoadOffset], dma.wdata)
            \/ DropRequest \/ dma' = dma
        BY <3>2, LoadWordCases
      <4>3. CASE Request(FALSE, [mat |-> m, off |-> LoadOffset], dma.wdata)
        <5> DEFINE a == [mat |-> m, off |-> LoadOffset]
        <5>1. a \in Addresses /\ dma' = [req |-> TRUE, we |-> FALSE, addr |-> a,
                                         wdata |-> dma.wdata]
          BY <4>1, <4>3 DEF Request
        <5> HIDE DEF a
        <5> QED BY <1>1, <5>1
      <4>4. CASE DropRequest \/ dma' = dma
        BY <1>1, <4>4 DEF DropRequest
      <4> QED BY <4>2, <4>3, <4>4
    <3> QED BY <1>11, <3>1, <3>2
  <2>3. load_idx_word' \in Addr
        /\ load' \in [Operands -> [we : BOOLEAN, addr : Addr, data : Int]]
    <3>1. CASE NoLoad /\ load_idx_word' = load_idx_word
      BY <1>1, <3>1, PortTypes
    <3>2. CASE /\ load_idx_word' \in Addr
               /\ load' = [n \in Operands |->
                            IF n = m THEN [we |-> TRUE, addr |-> load_idx_word,
                                           data |-> Operand(m)[load_idx_word]]
                                     ELSE [load[n] EXCEPT !.we = FALSE]]
      <4>1. Operand(m)[load_idx_word] \in Int
        BY <1>1, OperandType
      <4> QED BY <1>1, <3>2, <4>1
    <3>3. 0 \in Addr
      BY Sizes
    <3> QED BY <1>11, <3>1, <3>2, <3>3, LoadSteps
  <2> QED BY <1>1, <2>1, <2>2, <2>3, PortTypes DEF computeVars, idxVars, writeVars
<1> QED BY <1>2, <1>3, <1>4, <1>5, <1>6, <1>7, <1>8, <1>9, <1>10, <1>11 DEF Fsm

LEMMA TypeStep ==
    ASSUME EngineInv, Access \/ NoAccess, NEW ack \in BOOLEAN, Edge(ack)
    PROVE  TypeOK'
<1>1. Handshake(ack) /\ Fsm(ack) /\ DpRam
  BY DEF Edge
<1>2. FsmTypeOK'
  BY <1>1, FsmTypes DEF EngineInv
<1>3. spad' \in [Operands -> [Addr -> Int]]
  <2>1. ASSUME NEW m \in Operands PROVE Stored(spad[m], load[m]) \in [Addr -> Int]
    <3>1. /\ spad[m] \in [Addr -> Int] /\ load[m].we \in BOOLEAN /\ load[m].addr \in Addr
          /\ load[m].data \in Int
      BY DEF EngineInv, TypeOK
    <3> QED BY <3>1, StoredValue
  <2> QED BY <1>1, <2>1 DEF DpRam
<1>4. acc_spad' \in [Addr -> Int]
  BY <1>1, AccStored DEF EngineInv, DpRam
<1>5. state' \in FsmStates
  BY <1>1, StateChanges
<1>6. /\ wbm' \in [stb : BOOLEAN, we : BOOLEAN, adr : Addresses, dat : Words]
      /\ dma_rdata' \in Words /\ c_mem' \in [0..N_SQ -> Words]
  BY <1>1, BusTypes DEF EngineInv
<1>7. /\ sw' \in {"mode", "start", "poll", "check"} /\ quiet' \in 1..Gap
      /\ round' \in 0..Rounds /\ mode' \in Mode
      /\ start' \in BOOLEAN /\ busy' \in BOOLEAN /\ done' \in BOOLEAN
  BY ProgramSteps DEF EngineInv
<1> QED BY <1>2, <1>3, <1>4, <1>5, <1>6, <1>7 DEF TypeOK, FsmTypeOK

-----------------------------------------------------------------------------
(* From one edge to the next                                                *)

\* An edge that loads nothing keeps what has been loaded.
LEMMA LoadedKept ==
    ASSUME TypeOK, TypeOK', DpRam, mode' = mode, NoLoad
    PROVE  \A m \in Operands : \A n \in Nat : Loaded(m, n) => Loaded(m, n)'
<1>1. ASSUME NEW m \in Operands PROVE ~load'[m].we
  BY DEF NoLoad, TypeOK
<1> QED BY <1>1, LoadedNext

LEMMA LoadingStep ==
    ASSUME EngineInv, TypeOK', Access \/ NoAccess, NEW ack \in BOOLEAN, Edge(ack)
    PROVE  Loading'
<1>1. /\ Handshake(ack) /\ Fsm(ack) /\ DpRam
      /\ TypeOK /\ Undisturbed /\ Requested /\ Loading
  BY DEF Edge, EngineInv
<1>2. "A" \in Operands /\ "B" \in Operands /\ \A m \in Operands : m = "A" \/ m = "B"
  BY DEF Operands
<1>3. N_SQ \in Nat /\ 0 \in Nat /\ \A m \in Operands : Loaded(m, 0)'
  BY Sizes DEF Loaded
<1>4. ASSUME state' \notin {"CLEAR", "COMPUTE", "COMPUTE_S2", "COMPUTE_S3"}
             /\ state' \notin InLoad("A") /\ state' \notin InLoad("B")
      PROVE  Loading'
  <2>1. \A m \in Operands : \A e \in 1..3 :
           /\ state' # LoadStates[m].word /\ state' # LoadStates[m].half
           /\ state' # LoadStates[m].byte[e] /\ state' \notin InLoad(m)
    BY <1>2, <1>4 DEF InLoad
  <2> QED BY <1>4, <2>1 DEF Loading
<1>15. ASSUME NEW m \in Operands, state' \in InLoad(m), Loaded(m, load_idx_word)',
              m = "B" => Loaded("A", N_SQ)',
              state' = LoadStates[m].word => (load_idx_word % PACK = 0)',
              state' = LoadStates[m].half =>
                 (mode.dw16 /\ load_idx_word % 2 = 1 /\ dma_rdata[1] = Operand(m)[load_idx_word])',
              \A e \in 1..3 : state' = LoadStates[m].byte[e] =>
                 (/\ ~mode.dw16 /\ load_idx_word % 4 = e
                  /\ \A f \in e..3 : dma_rdata[f] = Operand(m)[load_idx_word + (f - e)])'
       PROVE  Loading'
  <2>1. \A o \in Operands : state' \in InLoad(o) => o = m
    BY <1>2, <1>15, States
  <2>2. \A o \in Operands : /\ LoadStates[o].word \in InLoad(o) /\ LoadStates[o].half \in InLoad(o)
                            /\ \A e \in 1..3 : LoadStates[o].byte[e] \in InLoad(o)
    BY DEF InLoad
  <2>3. /\ state' \notin {"CLEAR", "COMPUTE", "COMPUTE_S2", "COMPUTE_S3"}
        /\ state' \in InLoad("B") => m = "B"
    BY <1>2, <1>15, <2>1, States
  <2>4. \A o \in Operands :
          /\ state' = LoadStates[o].word => o = m
          /\ state' = LoadStates[o].half => o = m
          /\ \A e \in 1..3 : state' = LoadStates[o].byte[e] => o = m
    BY <2>1, <2>2
  <2>5. /\ state' = "CLEAR" => load_idx_word' = 0
        /\ state' \in InLoad("B") \cup {"COMPUTE", "COMPUTE_S2", "COMPUTE_S3"} => Loaded("A", N_SQ)'
        /\ state' \in {"COMPUTE", "COMPUTE_S2", "COMPUTE_S3"} => Loaded("B", N_SQ)'
    BY <1>15, <2>3
  <2> QED BY <1>15, <2>1, <2>4, <2>5, Zenon DEF Loading
<1>16. \A e : e \in 1..3 <=> e = 1 \/ e = 2 \/ e = 3
  OBVIOUS
<1>5. ASSUME NEW m \in Operands, LoadWord(m, ack) \/ LoadRest(m) PROVE Loading'
  <2>1. state \in InLoad(m) /\ state # "IDLE"
    <3>1. state \in {LoadStates[m].word, LoadStates[m].half, LoadStates[m].byte[1],
                     LoadStates[m].byte[2], LoadStates[m].byte[3]}
      <4>1. \A e : e \in 1..2 => e = 1 \/ e = 2
        OBVIOUS
      <4> QED BY <1>5, <4>1 DEF LoadWord, LoadRest
    <3> QED BY <1>2, <3>1, States
  <2>2. PICK i \in Addr : i = load_idx_word
    BY <1>1 DEF TypeOK
  <2>3. /\ mode' = mode /\ PACK' = PACK /\ (\A o : Operand(o)' = Operand(o))
        /\ mode \in Mode /\ i \in Nat
    <3>1. mode' = mode /\ mode \in Mode
      BY <1>1, <2>1, ModeStays DEF TypeOK
    <3> QED BY <2>2, <3>1, SameMode, Sizes
  <2>4. Loaded(m, i) /\ (m = "B" => Loaded("A", N_SQ))
    <3>1. Loaded(m, load_idx_word)
      BY <1>1, <2>1 DEF Loading
    <3>2. m = "B" => Loaded("A", N_SQ)
      BY <1>1, <2>1 DEF Loading
    <3> QED BY <2>2, <3>1, <3>2
  <2>5. CASE NoLoad /\ load_idx_word' = load_idx_word /\ state' = state
             /\ state = LoadStates[m].word
    <3>1. Loaded(m, i)' /\ (m = "B" => Loaded("A", N_SQ)')
      BY <1>1, <1>2, <1>3, <2>3, <2>4, <2>5, LoadedKept
    <3>2. (load_idx_word % PACK = 0)'
      BY <1>1, <2>3, <2>5 DEF Loading
    <3>3. Loaded(m, load_idx_word)'
      BY <2>2, <2>5, <3>1 DEF Loaded
    <3>4. /\ state' # LoadStates[m].half /\ \A e \in 1..3 : state' # LoadStates[m].byte[e]
      BY <1>2, <1>16, <2>5, States
    <3> QED BY <1>15, <2>1, <2>5, <3>1, <3>2, <3>3, <3>4
  <2>6. CASE load' = [n \in Operands |->
                        IF n = m THEN [we |-> TRUE, addr |-> load_idx_word,
                                       data |-> Operand(m)[load_idx_word]]
                                 ELSE [load[n] EXCEPT !.we = FALSE]]
    <3>1. load'[m] = [we |-> TRUE, addr |-> i, data |-> Operand(m)[i]]
      BY <2>2, <2>6
    <3>2. Loaded(m, i + 1)'
      BY <1>1, <2>2, <2>3, <2>4, <3>1, LoadedNext
    <3>3. m = "B" => Loaded("A", N_SQ)'
      <4>1. m = "B" => ~load'["A"].we
        BY <1>1, <1>2, <2>6 DEF TypeOK
      <4> QED BY <1>1, <1>2, <1>3, <2>3, <2>4, <4>1, LoadedNext
    <3>4. load_idx_word' = i + 1 => Loaded(m, load_idx_word)'
      BY <3>2 DEF Loaded
    <3>5. CASE /\ load_idx_word' = load_idx_word + 1
               /\ state' = LoadStates[m].word /\ (load_idx_word + 1) % PACK = 0
      <4>1. /\ state' \in InLoad(m) /\ state' # LoadStates[m].half
            /\ \A e \in 1..3 : state' # LoadStates[m].byte[e]
        BY <1>2, <1>16, <3>5, States
      <4>2. (load_idx_word % PACK = 0)'
        BY <2>3, <3>5
      <4> QED BY <1>15, <2>2, <3>3, <3>4, <3>5, <4>1, <4>2
    <3>6. CASE /\ load_idx_word' = load_idx_word + 1 /\ state' = LoadStates[m].half
               /\ mode.dw16 /\ (load_idx_word + 1) % 2 = 1
               /\ dma_rdata'[1] = Operand(m)[load_idx_word + 1]
      <4>1. /\ state' \in InLoad(m) /\ state' # LoadStates[m].word
            /\ \A e \in 1..3 : state' # LoadStates[m].byte[e]
        BY <1>2, <1>16, <3>6, States
      <4>2. (mode.dw16 /\ load_idx_word % 2 = 1 /\ dma_rdata[1] = Operand(m)[load_idx_word])'
        BY <2>3, <3>6
      <4> QED BY <1>15, <2>2, <3>3, <3>4, <3>6, <4>1, <4>2
    <3>7. ASSUME load_idx_word' = load_idx_word + 1, NEW e \in 1..3,
                 state' = LoadStates[m].byte[e], ~mode.dw16, (load_idx_word + 1) % 4 = e,
                 \A f \in e..3 : dma_rdata'[f] = Operand(m)[load_idx_word + 1 + (f - e)]
          PROVE  Loading'
      <4>1. /\ state' \in InLoad(m) /\ state' # LoadStates[m].word
            /\ state' # LoadStates[m].half
            /\ \A g \in 1..3 : state' = LoadStates[m].byte[g] => g = e
        BY <1>2, <1>16, <3>7, States
      <4>2. (/\ ~mode.dw16 /\ load_idx_word % 4 = e
             /\ \A f \in e..3 : dma_rdata[f] = Operand(m)[load_idx_word + (f - e)])'
        BY <2>3, <3>7
      <4> QED BY <1>15, <2>2, <3>3, <3>4, <3>7, <4>1, <4>2
    <3>8. CASE load_idx_word = N_SQ - 1 /\ load_idx_word' = 0 /\ state' = LoadStates[m].next
      <4>1. i + 1 = N_SQ
        BY <1>3, <2>2, <3>8
      <4>2. Loaded(m, N_SQ)'
        BY <3>2, <4>1 DEF Loaded
      <4>3. (load_idx_word % PACK = 0)'
        <5>1. 0 % PACK = 0
          BY <2>3, ModeFacts
        <5> QED BY <2>3, <3>8, <5>1
      <4>4. \A o \in Operands : Loaded(o, load_idx_word)'
        BY <1>3, <3>8 DEF Loaded
      <4>5. CASE m = "A"
        <5>1. /\ state' = LoadStates["B"].word /\ state' \in InLoad("B")
              /\ state' # LoadStates["B"].half
              /\ \A e \in 1..3 : state' # LoadStates["B"].byte[e]
          BY <1>2, <1>16, <3>8, <4>5, States
        <5> QED BY <1>2, <1>15, <4>2, <4>3, <4>4, <4>5, <5>1
      <4>6. CASE m = "B"
        <5>1. state' = "COMPUTE"
          BY <1>2, <3>8, <4>6, States
        <5>2. \A o \in Operands : \A e \in 1..3 :
                 /\ state' # LoadStates[o].word /\ state' # LoadStates[o].half
                 /\ state' # LoadStates[o].byte[e] /\ state' \notin InLoad(o)
          BY <1>2, <1>16, <5>1, States
        <5> QED BY <3>3, <4>2, <4>6, <5>1, <5>2 DEF Loading
      <4> QED BY <1>2, <4>5, <4>6
    <3> QED BY <1>1, <1>5, <3>5, <3>6, <3>7, <3>8, <2>5, LoadSteps
  <2> QED BY <1>1, <1>5, <2>5, <2>6, LoadSteps
<1>6. ASSUME state \in {"COMPUTE", "COMPUTE_S2"}, state' \in {"COMPUTE_S2", "COMPUTE_S3"},
             NoLoad
      PROVE  Loading'
  <2>1. mode' = mode
    BY <1>1, <1>6, ModeStays
  <2>2. Loaded("A", N_SQ)' /\ Loaded("B", N_SQ)'
    BY <1>1, <1>2, <1>3, <1>6, <2>1, LoadedKept DEF Loading
  <2>3. \A m \in Operands : \A e \in 1..3 :
           /\ state' # LoadStates[m].word /\ state' # LoadStates[m].half
           /\ state' # LoadStates[m].byte[e] /\ state' \notin InLoad(m)
    <3>1. state' \notin InLoad("A") /\ state' \notin InLoad("B")
      BY <1>6, States
    <3> QED BY <1>2, <3>1 DEF InLoad
  <2> QED BY <1>6, <2>2, <2>3 DEF Loading
<1>7. ASSUME state' = "CLEAR", load_idx_word' = 0 PROVE Loading'
  <2>1. \A m \in Operands : \A e \in 1..3 :
           /\ state' # LoadStates[m].word /\ state' # LoadStates[m].half
           /\ state' # LoadStates[m].byte[e] /\ state' \notin InLoad(m)
    <3>1. state' \notin InLoad("A") /\ state' \notin InLoad("B")
      BY <1>7, States
    <3> QED BY <1>2, <3>1 DEF InLoad
  <2>2. state' \notin InLoad("B")
    BY <1>7, States
  <2> QED BY <1>7, <2>1, <2>2 DEF Loading
<1>8. ASSUME state' = "LOAD_A", load_idx_word' = 0, mode' = mode PROVE Loading'
  <2>1. (load_idx_word % PACK = 0)'
    <3>1. mode \in Mode /\ PACK' = PACK
      BY <1>1, <1>8, SameMode DEF TypeOK
    <3>2. 0 % PACK = 0
      BY <3>1, ModeFacts
    <3> QED BY <1>8, <3>1, <3>2
  <2>2. Loaded("A", load_idx_word)'
    BY <1>2, <1>3, <1>8 DEF Loaded
  <2>3. /\ state' \in InLoad("A") /\ state' # LoadStates["A"].half
        /\ \A e \in 1..3 : state' # LoadStates["A"].byte[e]
    BY <1>2, <1>8, <1>16, States
  <2> QED BY <1>2, <1>15, <2>1, <2>2, <2>3
<1>9. Arms(ack)
  BY <1>1, FsmArms
<1>10. CASE FsmIdle
  BY <1>4, <1>7, <1>10, States DEF FsmIdle
<1>11. CASE FsmClear
  <2>1. mode' = mode /\ load_idx_word' = 0
    BY <1>1, <1>11, ModeStays DEF FsmClear, Loading
  <2> QED BY <1>7, <1>8, <1>11, <2>1 DEF FsmClear
<1>12. CASE FsmCompute
  BY <1>6, <1>12 DEF FsmCompute
<1>13. CASE FsmComputeS2
  BY <1>6, <1>13 DEF FsmComputeS2
<1>14. CASE FsmComputeS3 \/ FsmRead \/ FsmTransform \/ FsmWrite(ack) \/ FsmDone
  <2>1. state' \in {"IDLE", "DONE"} \cup InWriteback
    <3>1. CASE FsmRead
      BY <3>1 DEF FsmRead, ReadSteps, InWriteback, InRead
    <3>2. CASE FsmTransform
      BY <3>2 DEF FsmTransform, InWriteback
    <3>3. CASE FsmComputeS3 \/ FsmWrite(ack) \/ FsmDone
      <4>1. state \in {"COMPUTE_S3", "W4_WRITE", "DONE"}
        BY <3>3 DEF FsmComputeS3, FsmWrite, FsmDone
      <4> QED BY <1>9, <4>1, States DEF Arms, InWriteback, InRead, Operands
    <3> QED BY <1>14, <3>1, <3>2, <3>3
  <2> QED BY <1>4, <2>1, States DEF InWriteback, InRead
<1> QED BY <1>1, <1>5, <1>10, <1>11, <1>12, <1>13, <1>14 DEF Fsm

LEMMA OperandsLoadedStep ==
    ASSUME EngineInv, TypeOK', Access \/ NoAccess, NEW ack \in BOOLEAN, Edge(ack)
    PROVE  OperandsLoaded'
<1>1. Fsm(ack) /\ DpRam /\ TypeOK /\ Undisturbed /\ Loading
  BY DEF Edge, EngineInv
<1>2. SUFFICES ASSUME state' \in {"COMPUTE_S2", "COMPUTE_S3"} PROVE OperandsLoaded'
  BY DEF OperandsLoaded
<1>3. state \in {"COMPUTE", "COMPUTE_S2"}
  <2>1. Arms(ack)
    BY <1>1, FsmArms
  <2> QED BY <1>2, <2>1, States DEF Arms, Operands, InRead
<1>4. mode' = mode /\ mode \in Mode
  BY <1>1, <1>3, ModeStays DEF TypeOK
<1>5. ASSUME NEW m \in Operands PROVE Stored(spad[m], load[m]) = Operand(m)
  <2>1. Loaded(m, N_SQ)
    BY <1>1, <1>3 DEF Loading, Operands
  <2>2. \A a \in Addr : a < N_SQ
    BY Sizes
  <2>3. Stored(spad[m], load[m]) \in [Addr -> Int]
    <3>1. /\ spad[m] \in [Addr -> Int] /\ load[m].we \in BOOLEAN /\ load[m].addr \in Addr
          /\ load[m].data \in Int
      BY <1>1 DEF TypeOK
    <3> QED BY <3>1, StoredValue
  <2>4. Operand(m) \in [Addr -> Int]
    BY <1>4, OperandType
  <2> QED BY <2>1, <2>2, <2>3, <2>4 DEF Loaded
<1>6. spad' = [m \in Operands |-> Operand(m)]
  BY <1>1, <1>5 DEF DpRam
<1>7. \A m : Operand(m)' = Operand(m)
  BY <1>4, SameMode
<1> QED BY <1>6, <1>7 DEF OperandsLoaded

-----------------------------------------------------------------------------
(* The product                                                              *)

LEMMA SummedNext ==
    ASSUME TypeOK, TypeOK', DpRam, mode' = mode, NEW n \in Nat, Summed(n)
    PROVE  /\ ~acc'.we \/ acc'.addr = n => Summed(n)'
           /\ \A p, q \in Index :
                 p * N + q = n /\ acc'.we /\ acc'.addr = n /\ acc'.data = Acc(Sums(p, q)[N])
                    => Summed(n + 1)'
<1> DEFINE S == Stored(acc_spad, acc)
           T == Stored(acc_spad', acc')
<1>1. /\ acc_spad' = S /\ acc_spad' \in [Addr -> Int] /\ acc'.we \in BOOLEAN
      /\ acc'.addr \in Addr /\ acc'.data \in Int
  BY AccStored, Power DEF DpRam, TypeOK, AccValue, Widths
<1>2. \A a \in Addr : T[a] = IF acc'.we /\ a = acc'.addr THEN acc'.data ELSE S[a]
  BY <1>1, StoredValue
<1>3. \A r, c \in Index : r * N + c < n => S[r * N + c] = Acc(Sums(r, c)[N])
  BY DEF Summed
<1>4. \A r, c : Sums(r, c)' = Sums(r, c)
  BY SameMode
<1>5. \A k : Summed(k)' <=>
         \A r, c \in Index : r * N + c < k => T[r * N + c] = Acc(Sums(r, c)[N])
  BY <1>4 DEF Summed, Stored, Acc, Signed
<1> HIDE DEF S, T
<1>6. \A r, c \in Index : r * N + c \in Addr /\ r * N + c \in Nat
  BY AddressOf
<1>7. ASSUME ~acc'.we \/ acc'.addr = n PROVE Summed(n)'
  <2>1. \A r, c \in Index : r * N + c < n => T[r * N + c] = S[r * N + c]
    <3> DEFINE x(r, c) == r * N + c
    <3>1. \A r, c \in Index : x(r, c) \in Addr /\ x(r, c) \in Nat
      BY <1>6
    <3> HIDE DEF x
    <3>2. \A r, c \in Index : x(r, c) < n => T[x(r, c)] = S[x(r, c)]
      BY <1>2, <1>7, <3>1
    <3> QED BY <3>2 DEF x
  <2> QED BY <1>3, <1>5, <2>1
<1>8. ASSUME NEW p \in Index, NEW q \in Index, p * N + q = n, acc'.we, acc'.addr = n,
             acc'.data = Acc(Sums(p, q)[N])
      PROVE  Summed(n + 1)'
  <2>1. ASSUME NEW r \in Index, NEW c \in Index, r * N + c < n + 1
        PROVE  T[r * N + c] = Acc(Sums(r, c)[N])
    <3>1. CASE r * N + c = n
      <4>1. r = p /\ c = q
        <5>1. (r * N + c) \div N = r /\ (r * N + c) % N = c
          BY AddressOf
        <5>2. (p * N + q) \div N = p /\ (p * N + q) % N = q
          BY AddressOf
        <5> QED BY <1>8, <3>1, <5>1, <5>2
      <4>2. n \in Addr
        BY <1>6, <1>8
      <4> QED BY <1>2, <1>8, <3>1, <4>1, <4>2
    <3>2. CASE r * N + c # n
      <4> DEFINE x == r * N + c
      <4>1. x \in Addr /\ x \in Nat /\ x < n + 1 /\ x # n
        BY <1>6, <2>1, <3>2
      <4>2. S[x] = Acc(Sums(r, c)[N])
        <5>1. x < n
          <6> HIDE DEF x
          <6> QED BY <4>1
        <5> QED BY <1>3, <5>1
      <4> HIDE DEF x
      <4>3. T[x] = Acc(Sums(r, c)[N])
        BY <1>2, <1>8, <4>1, <4>2
      <4> QED BY <4>3 DEF x
    <3> QED BY <3>1, <3>2
  <2> QED BY <1>5, <2>1
<1> QED BY <1>7, <1>8

\* The product under way is the one of its place.
LEMMA ProductOf ==
    ASSUME TypeOK, OperandsLoaded, state \in {"COMPUTE_S2", "COMPUTE_S3"},
           NEW p \in Index, NEW q \in Index, NEW t \in Index, UnderWay(p, q, t)
    PROVE  /\ Product = Operand("A")[p * N + t] * Operand("B")[t * N + q] /\ Product \in Int
           /\ Acc(Product + Acc(Sums(p, q)[t])) = Acc(Sums(p, q)[t + 1])
           /\ Acc(Acc(Sums(p, q)[t]) + Product) = Acc(Sums(p, q)[t + 1])
           /\ t = 0 => Acc(Product + 0) = Acc(Sums(p, q)[t + 1])
<1>1. mode \in Mode /\ "A" \in Operands /\ "B" \in Operands
  BY DEF TypeOK, Operands
<1>2. Product = Operand("A")[p * N + t] * Operand("B")[t * N + q]
  BY <1>1 DEF Product, OperandsLoaded, UnderWay
<1>3. Product \in Int
  BY ProductType
<1>4. Acc(Sums(p, q)[t]) \in Int
  <2>1. t \in 0..N
    BY Sizes
  <2>2. Sums(p, q)[t] \in Int
    BY <1>1, <2>1, SumsSteps
  <2> QED BY <2>2, AccIn
<1>5. Acc(Acc(Sums(p, q)[t]) + Product) = Acc(Sums(p, q)[t + 1])
  BY <1>1, <1>2, AccSums
<1>6. Product + Acc(Sums(p, q)[t]) = Acc(Sums(p, q)[t]) + Product
  BY <1>3, <1>4
<1>7. ASSUME t = 0 PROVE Acc(Product + 0) = Acc(Sums(p, q)[t + 1])
  <2>1. p * N + t = p * N /\ t * N + q = q /\ t + 1 = 1 /\ Product + 0 = Product
    BY <1>3, <1>7, Sizes
  <2>2. Acc(Sums(p, q)[1]) = Acc(Operand("A")[p * N] * Operand("B")[q])
    BY <1>1, AccSums
  <2> QED BY <1>2, <2>1, <2>2
<1> QED BY <1>2, <1>3, <1>5, <1>6, <1>7

\* One product taken: where the indices point comes next.
LEMMA ProductTaken ==
    ASSUME EngineInv, TypeOK', DpRam, mode' = mode, FsmComputeS2,
           NEW P \in Index, NEW Q \in Index, NEW T \in Index,
           P = i_sx, Q = j_sx, T = k_sx
    PROVE  UnderWay(P, Q, T)'
<1>1. TypeOK /\ OperandsLoaded /\ state = "COMPUTE_S2" /\ mode \in Mode
  BY DEF EngineInv, FsmComputeS2, TypeOK
<1>2. PICK p, q, t \in Index : UnderWay(p, q, t) /\ Follows(p, q, t)
  BY <1>1 DEF EngineInv, Summing
<1>3. p \in 0..Top /\ q \in 0..Top /\ t \in 0..Top /\ Top \in Nat /\ Top >= 2 /\ N = Top + 1
      /\ N \in Nat
  BY Sizes
<1>4. /\ \/ t < Top /\ P = p /\ Q = q /\ T = t + 1
         \/ t = Top /\ q < Top /\ P = p /\ Q = q + 1 /\ T = 0
         \/ t = Top /\ q = Top /\ p < Top /\ P = p + 1 /\ Q = 0 /\ T = 0
  BY <1>2 DEF Follows
<1>5. /\ acc' = [we |-> T = 0, addr |-> IF Restarts THEN AccAddr ELSE acc.addr,
                 data |-> Acc(Product + IF Restarts THEN 0 ELSE acc.data)]
      /\ FetchOperands
  BY DEF FsmComputeS2
<1>6. comp_addr' = [A |-> P * N + T, B |-> T * N + Q] /\ AccAddr = P * N + Q
  <2>1. (P * N + T) % N_SQ = P * N + T /\ (T * N + Q) % N_SQ = T * N + Q
        /\ (P * N + Q) % N_SQ = P * N + Q
    BY AddressOf
  <2> QED BY <1>5, <2>1 DEF FetchOperands, AccAddr
<1> DEFINE n == p * N + q
<1>7. n \in Nat /\ n \in Addr
  BY AddressOf
<1>8. acc'.we = (T = 0) /\ acc'.addr = n /\ acc'.data = Acc(Sums(p, q)[t + 1])
  <2>1. CASE t # 0 /\ ~acc.we /\ acc.addr = n /\ acc.data = Acc(Sums(p, q)[t])
    <3>1. Acc(Product + Acc(Sums(p, q)[t])) = Acc(Sums(p, q)[t + 1])
      BY <1>1, <1>2, ProductOf
    <3> QED BY <1>5, <2>1, <3>1 DEF Restarts
  <2>2. CASE t = 0 /\ n = 0 /\ ~acc.we /\ acc.addr = 0 /\ acc.data = 0
    <3>1. Acc(Product + 0) = Acc(Sums(p, q)[t + 1])
      BY <1>1, <1>2, <2>2, ProductOf
    <3> QED BY <1>5, <2>2, <3>1 DEF Restarts
  <2>3. CASE t = 0 /\ n # 0 /\ acc.we /\ acc.addr = n - 1
    <3>1. Acc(Product + 0) = Acc(Sums(p, q)[t + 1])
      BY <1>1, <1>2, <2>3, ProductOf
    <3>2. T = 1 /\ P = p /\ Q = q /\ T # Top
      BY <1>3, <1>4, <2>3
    <3>3. Restarts
      BY <2>3, <3>2 DEF Restarts, LastProduct
    <3> QED BY <1>5, <1>6, <3>1, <3>2, <3>3
  <2>4. \/ t # 0 /\ ~acc.we /\ acc.addr = n /\ acc.data = Acc(Sums(p, q)[t])
        \/ t = 0 /\ n = 0 /\ ~acc.we /\ acc.addr = 0 /\ acc.data = 0
        \/ t = 0 /\ n # 0 /\ acc.we /\ acc.addr = n - 1
    BY <1>2 DEF UnderWay
  <2> HIDE DEF n
  <2> QED BY <2>1, <2>2, <2>3, <2>4
<1>9. Summed(n)
  BY <1>2 DEF UnderWay
<1> HIDE DEF n
<1>10. CASE t < Top
  <2>1. P = p /\ Q = q /\ T = t + 1 /\ T # 0
    BY <1>3, <1>4, <1>10
  <2>2. Summed(n)'
    BY <1>1, <1>7, <1>8, <1>9, SummedNext
  <2>3. Acc(Sums(p, q)[T])' = Acc(Sums(p, q)[T])
    BY SameMode DEF Acc, Signed
  <2>4. Summed(P * N + Q)'
    BY <2>1, <2>2 DEF n
  <2>5. ~acc'.we /\ acc'.addr = P * N + Q /\ acc'.data = Acc(Sums(P, Q)[T])'
    BY <1>8, <2>1, <2>3 DEF n
  <2> QED BY <1>6, <2>1, <2>4, <2>5 DEF UnderWay
<1>11. CASE t = Top
  <2>1. T = 0 /\ P * N + Q = n + 1 /\ t + 1 = N
    <3>1. CASE q < Top
      BY <1>3, <1>4, <1>11, <3>1 DEF n
    <3>2. CASE q = Top
      BY <1>3, <1>4, <1>11, <3>2 DEF n
    <3> QED BY <1>3, <3>1, <3>2
  <2>2. Summed(n + 1)'
    BY <1>1, <1>7, <1>8, <1>9, <2>1, SummedNext DEF n
  <2>3. Summed(P * N + Q)'
    BY <2>1, <2>2
  <2>4. acc'.we /\ acc'.addr = (P * N + Q) - 1 /\ P * N + Q # 0
    <3> DEFINE x == P * N + Q
    <3>1. x = n + 1
      BY <2>1
    <3> HIDE DEF x
    <3>2. x - 1 = n /\ x # 0
      BY <1>7, <3>1
    <3>3. acc'.we /\ acc'.addr = x - 1 /\ x # 0
      BY <1>8, <2>1, <3>2
    <3> QED BY <3>3 DEF x
  <2> QED BY <1>6, <2>1, <2>3, <2>4 DEF UnderWay
<1> QED BY <1>3, <1>10, <1>11

LEMMA SummingStep ==
    ASSUME EngineInv, TypeOK', Access \/ NoAccess, NEW ack \in BOOLEAN, Edge(ack)
    PROVE  Summing'
<1>1. Fsm(ack) /\ DpRam /\ TypeOK /\ Undisturbed /\ Summing /\ Requested
  BY DEF Edge, EngineInv
<1>2. Arms(ack)
  BY <1>1, FsmArms
<1>3. ASSUME state' \notin {"CLEAR", "COMPUTE", "COMPUTE_S2", "COMPUTE_S3"},
             state' \notin InLoad("A"), state' \notin InLoad("B")
      PROVE  Summing'
  BY <1>3 DEF Summing
<1>4. ASSUME state' \notin {"COMPUTE_S2", "COMPUTE_S3"},
             i_sx' = 0, j_sx' = 0, k_sx' = 0, w_idx_word' = 0
      PROVE  Summing'
  BY <1>4 DEF Summing
<1>5. CASE FsmIdle
  <2>1. CASE start
    BY <1>4, <1>5, <2>1 DEF FsmIdle
  <2>2. CASE ~start
    BY <1>3, <1>5, <2>2, States DEF FsmIdle
  <2> QED BY <2>1, <2>2
<1>6. CASE FsmClear
  <2>1. i_sx = 0 /\ j_sx = 0 /\ k_sx = 0 /\ w_idx_word = 0
    BY <1>1, <1>6 DEF FsmClear, Summing
  <2>2. i_sx' = i_sx /\ j_sx' = j_sx /\ k_sx' = k_sx /\ w_idx_word' = w_idx_word
    BY <1>6 DEF FsmClear, computeVars, idxVars, writeVars
  <2>3. state' \in {"CLEAR", "LOAD_A"}
    BY <1>6 DEF FsmClear
  <2> QED BY <1>4, <2>1, <2>2, <2>3
<1>7. ASSUME NEW m \in Operands, LoadWord(m, ack) \/ LoadRest(m) PROVE Summing'
  <2>1. state \in {LoadStates[m].word, LoadStates[m].half, LoadStates[m].byte[1],
                   LoadStates[m].byte[2], LoadStates[m].byte[3]}
    <3>1. \A e : e \in 1..2 => e = 1 \/ e = 2
      OBVIOUS
    <3> QED BY <1>7, <3>1 DEF LoadWord, LoadRest
  <2>2. state \in InLoad("A") \cup InLoad("B")
    BY <2>1, States DEF Operands
  <2>3. i_sx = 0 /\ j_sx = 0 /\ k_sx = 0 /\ w_idx_word = 0
    BY <1>1, <2>2 DEF Summing
  <2>4. i_sx' = i_sx /\ j_sx' = j_sx /\ k_sx' = k_sx /\ w_idx_word' = w_idx_word
    BY <1>7 DEF LoadWord, LoadRest, computeVars, idxVars, writeVars
  <2>5. state' \notin {"COMPUTE_S2", "COMPUTE_S3"}
    BY <1>2, <2>2, States DEF Arms, Operands, InRead
  <2> QED BY <1>4, <2>3, <2>4, <2>5
<1>8. CASE FsmCompute
  <2>1. i_sx = 0 /\ j_sx = 0 /\ k_sx = 0 /\ w_idx_word = 0
    BY <1>1, <1>8 DEF FsmCompute, Summing
  <2>2. /\ state' = "COMPUTE_S2" /\ i_sx' = 0 /\ j_sx' = 0 /\ k_sx' = 1 /\ w_idx_word' = 0
        /\ acc' = [we |-> FALSE, addr |-> AccAddr, data |-> 0] /\ FetchOperands
    BY <1>8, <2>1 DEF FsmCompute, writeVars
  <2>3. 0 * N + 0 = 0 /\ 0 \in Index /\ 0 \in Addr /\ 0 < Top
    BY Sizes
  <2>4. 0 % N_SQ = 0
    BY <2>3, ModAddr
  <2>5. comp_addr' = [A |-> 0 * N + 0, B |-> 0 * N + 0] /\ AccAddr = 0
    BY <2>1, <2>2, <2>3, <2>4 DEF FetchOperands, AccAddr
  <2>6. Summed(0 * N + 0)'
    <3>1. \A r, c \in Index : ~(r * N + c < 0)
      <4>1. \A r, c \in Index : r * N + c \in Nat
        BY AddressOf
      <4> QED BY <4>1
    <3> QED BY <2>3, <3>1 DEF Summed
  <2>7. UnderWay(0, 0, 0)'
    BY <2>2, <2>3, <2>5, <2>6 DEF UnderWay
  <2>8. Follows(0, 0, 0)'
    BY <2>2, <2>3 DEF Follows
  <2>9. state' \notin InLoad("A") /\ state' \notin InLoad("B")
    BY <2>2, States
  <2> QED BY <2>2, <2>3, <2>7, <2>8, <2>9 DEF Summing
<1>9. CASE FsmComputeS2
  <2>1. state = "COMPUTE_S2" /\ w_idx_word = 0 /\ w_idx_word' = 0 /\ NextIndices
        /\ state' = IF LastProduct THEN "COMPUTE_S3" ELSE "COMPUTE_S2"
    BY <1>1, <1>9 DEF FsmComputeS2, Summing, writeVars
  <2>2. mode' = mode
    BY <1>1, <2>1, ModeStays
  <2>3. PICK P, Q, T \in Index : P = i_sx /\ Q = j_sx /\ T = k_sx
    BY <1>1 DEF TypeOK
  <2>4. UnderWay(P, Q, T)'
    BY <1>1, <1>9, <2>2, <2>3, ProductTaken
  <2>5. state' \notin InLoad("A") /\ state' \notin InLoad("B")
        /\ state' \notin {"CLEAR", "COMPUTE"}
    BY <2>1, States
  <2>6. CASE LastProduct
    <3>1. P = Top /\ Q = Top /\ T = Top /\ state' = "COMPUTE_S3"
      BY <2>1, <2>3, <2>6 DEF LastProduct
    <3>2. UnderWay(Top, Top, Top)'
      BY <2>4, <3>1
    <3> QED BY <2>1, <2>5, <3>1, <3>2 DEF Summing
  <2>7. CASE ~LastProduct
    <3>1. Top \in Nat /\ P \in 0..Top /\ Q \in 0..Top /\ T \in 0..Top
      BY Sizes
    <3>2. \/ T < Top /\ k_sx' = T + 1 /\ i_sx' = P /\ j_sx' = Q
          \/ T = Top /\ Q < Top /\ k_sx' = 0 /\ j_sx' = Q + 1 /\ i_sx' = P
          \/ T = Top /\ Q = Top /\ P < Top /\ k_sx' = 0 /\ j_sx' = 0 /\ i_sx' = P + 1
      BY <2>1, <2>3, <2>7, <3>1 DEF NextIndices, LastProduct
    <3>3. Follows(P, Q, T)'
      BY <3>2 DEF Follows
    <3>4. state' = "COMPUTE_S2"
      BY <2>1, <2>7
    <3> QED BY <2>1, <2>4, <2>5, <3>3, <3>4 DEF Summing
  <2> QED BY <2>6, <2>7
<1>10. CASE FsmComputeS3 \/ FsmRead \/ FsmTransform \/ FsmWrite(ack) \/ FsmDone
  <2>1. state' \in {"IDLE", "DONE", "W0_READ", "W0_READ0", "W0_READ1", "W0_READ2",
                    "W0_READ3", "W1_ACT", "W2_QUANT", "W3_SAT", "W4_WRITE"}
    <3>1. CASE FsmRead
      BY <3>1 DEF FsmRead, ReadSteps
    <3>2. CASE FsmTransform
      BY <3>2 DEF FsmTransform
    <3>3. CASE FsmComputeS3 \/ FsmWrite(ack) \/ FsmDone
      <4>1. state \in {"COMPUTE_S3", "W4_WRITE", "DONE"}
        BY <3>3 DEF FsmComputeS3, FsmWrite, FsmDone
      <4> QED BY <1>2, <4>1, States DEF Arms, InWriteback, InRead, Operands
    <3> QED BY <1>10, <3>1, <3>2, <3>3
  <2> QED BY <1>3, <2>1, States
<1> QED BY <1>1, <1>5, <1>6, <1>7, <1>8, <1>9, <1>10 DEF Fsm

LEMMA ProductStoredStep ==
    ASSUME EngineInv, TypeOK', Access \/ NoAccess, NEW ack \in BOOLEAN, Edge(ack)
    PROVE  ProductStored'
<1>1. /\ Fsm(ack) /\ DpRam /\ TypeOK /\ Undisturbed /\ Summing /\ ProductStored
      /\ OperandsLoaded
  BY DEF Edge, EngineInv
<1>2. SUFFICES ASSUME state' \in InWriteback PROVE ProductStored'
  BY DEF ProductStored
<1>3. Arms(ack)
  BY <1>1, FsmArms
<1>4. N_SQ \in Nat /\ N_SQ - 1 \in Nat /\ N_SQ - 1 \in Addr
  BY Sizes
<1>5. ASSUME state \in InWriteback, NoAcc PROVE ProductStored'
  <2>1. mode' = mode
    BY <1>1, <1>5, ModeStays DEF InWriteback, InRead
  <2>2. ~acc'.we
    BY <1>5 DEF NoAcc
  <2>3. Summed(N_SQ)'
    BY <1>1, <1>4, <1>5, <2>1, <2>2, SummedNext DEF ProductStored
  <2> QED BY <2>2, <2>3 DEF ProductStored
<1>6. CASE FsmComputeS3
  <2>1. /\ state = "COMPUTE_S3" /\ w_idx_word = 0 /\ UnderWay(Top, Top, Top)
        /\ state' = "W0_READ" /\ acc_addr_b' = w_idx_word % N_SQ
        /\ acc' = [acc EXCEPT !.we = TRUE, !.data = Acc(acc.data + Product)]
    BY <1>1, <1>6 DEF FsmComputeS3, Summing
  <2>2. mode' = mode
    BY <1>1, <2>1, ModeStays
  <2>3. Top \in Index /\ Top # 0 /\ Top * N + Top = N_SQ - 1 /\ Top + 1 = N /\ 0 \in Addr
    BY Sizes
  <2>4. /\ ~acc.we /\ acc.addr = N_SQ - 1 /\ acc.data = Acc(Sums(Top, Top)[Top])
        /\ Summed(N_SQ - 1)
    BY <2>1, <2>3 DEF UnderWay
  <2>5. acc'.data = Acc(Sums(Top, Top)[N]) /\ acc'.we /\ acc'.addr = N_SQ - 1
    <3>1. Acc(Acc(Sums(Top, Top)[Top]) + Product) = Acc(Sums(Top, Top)[Top + 1])
      BY <1>1, <2>1, <2>3, ProductOf
    <3>2. acc \in [we : BOOLEAN, addr : Addr, data : AccValue]
      BY <1>1 DEF TypeOK
    <3> QED BY <2>1, <2>3, <2>4, <3>1, <3>2
  <2>6. Summed((N_SQ - 1) + 1)'
    BY <1>1, <1>4, <2>2, <2>3, <2>4, <2>5, SummedNext
  <2>7. (N_SQ - 1) + 1 = N_SQ /\ 0 % N_SQ = 0
    BY <1>4, <2>3, ModAddr
  <2>8. Summed(N_SQ)'
    BY <2>6, <2>7
  <2> QED BY <2>1, <2>5, <2>7, <2>8 DEF ProductStored
<1>7. CASE FsmRead
  BY <1>5, <1>7 DEF FsmRead, ReadSteps, InWriteback, InRead
<1>8. CASE FsmTransform
  BY <1>5, <1>8 DEF FsmTransform, InWriteback
<1>9. CASE FsmWrite(ack)
  BY <1>5, <1>9 DEF FsmWrite, InWriteback
<1>10. CASE ~(FsmComputeS3 \/ FsmRead \/ FsmTransform \/ FsmWrite(ack))
  BY <1>2, <1>3, <1>10, States DEF Arms, InWriteback, InRead, Operands
<1> QED BY <1>6, <1>7, <1>8, <1>9, <1>10

-----------------------------------------------------------------------------
(* The result                                                               *)

LEMMA WordCount ==
    ASSUME mode \in Mode, mode.dw16
    PROVE  /\ ResultWords \in Nat /\ 2 * ResultWords = N_SQ /\ ResultWords < N_SQ
           /\ PACK = 2 /\ 0..(PACK - 1) = 0..1 /\ N_SQ \in Nat
<1>1. PACK = 2 /\ N_SQ \in Nat /\ N_SQ % 4 = 0 /\ N_SQ >= 9
  BY ModeFacts, Sizes
<1>2. 0..(PACK - 1) = 0..1
  BY <1>1
<1> HIDE DEF N_SQ
<1>3. ResultWords = N_SQ \div 2
  BY <1>1 DEF ResultWords
<1> QED BY <1>1, <1>2, <1>3

\* An element's way from its sum to memory, for a group whose first element is a.
Lanes(v, a) == \A l \in 0..1 : v[l] = Total(a + l)
LanesAct(v, a) == \A l \in 0..1 : v[l] = apply_activation(Total(a + l))
LanesQuant(v, a) == \A l \in 0..1 : v[l] = apply_quant(apply_activation(Total(a + l)))
LanesSat(v, a) ==
    \A l \in 0..1 : v[l] = saturate_out(apply_quant(apply_activation(Total(a + l))))

LEMMA GroupIs ==
    Group <=> LET first == w_idx_word * 2
              IN  /\ state = "W0_READ" => acc_addr_b = first
                  /\ state \in InWriteback \ {"W0_READ"} => acc_addr_b = first + 1
                  /\ state = "W0_READ0" => w[0] = Total(first)
                  /\ state = "W1_ACT" => Lanes(w, first)
                  /\ state = "W2_QUANT" => LanesAct(w, first)
                  /\ state = "W3_SAT" => LanesQuant(w, first)
                  /\ state = "W4_WRITE" => LanesSat(w, first)
BY DEF Group, Lanes, LanesAct, LanesQuant, LanesSat

\* The facts of Group, at an edge that stays within a group.
LEMMA GroupStep ==
    ASSUME EngineInv, TypeOK', DpRam, mode' = mode, mode.dw16, NEW n \in Nat,
           n = w_idx_word, n < ResultWords, w_idx_word' = n, FsmRead \/ FsmTransform
    PROVE  Group'
<1> DEFINE first == n * 2
<1>1. /\ TypeOK /\ ProductStored /\ Group /\ mode \in Mode
      /\ w \in [0..3 -> AccValue] /\ acc_addr_b \in Addr
  BY DEF EngineInv, Written, TypeOK
<1>2. /\ first \in Addr /\ first + 1 \in Addr /\ (first + 1) % N_SQ = first + 1
      /\ first \in Nat
  <2>1. /\ ResultWords \in Nat /\ 2 * ResultWords = N_SQ /\ N_SQ \in Nat
    BY <1>1, WordCount
  <2>2. first \in 0..(N_SQ - 1) /\ first + 1 \in 0..(N_SQ - 1)
    BY <2>1
  <2>3. first \in Addr /\ first + 1 \in Addr
    BY <2>2, Sizes
  <2> HIDE DEF first
  <2> QED BY <2>2, <2>3, ModAddr
<1>3. /\ \A a : Total(a)' = Total(a)
      /\ \A x : apply_activation(x)' = apply_activation(x)
      /\ \A x : apply_quant(x)' = apply_quant(x)
      /\ \A x : saturate_out(x)' = saturate_out(x)
  BY SameMode
<1>4. /\ state = "W0_READ" => acc_addr_b = first
      /\ state \in InWriteback \ {"W0_READ"} => acc_addr_b = first + 1
      /\ state = "W0_READ0" => w[0] = Total(first)
      /\ state = "W1_ACT" => Lanes(w, first)
      /\ state = "W2_QUANT" => LanesAct(w, first)
      /\ state = "W3_SAT" => LanesQuant(w, first)
  BY <1>1, GroupIs
<1>5. 0 \in 0..3 /\ 1 \in 0..3 /\ first + 0 = first /\ \A l : l \in 0..1 <=> l = 0 \/ l = 1
  BY <1>2
<1> HIDE DEF first
<1>6. /\ (state = "W0_READ")' => acc_addr_b' = first
      /\ (state \in InWriteback \ {"W0_READ"})' => acc_addr_b' = first + 1
      /\ (state = "W0_READ0")' => w'[0] = Total(first)
      /\ (state = "W1_ACT")' => Lanes(w', first)
      /\ (state = "W2_QUANT")' => LanesAct(w', first)
      /\ (state = "W3_SAT")' => LanesQuant(w', first)
      /\ (state = "W4_WRITE")' => LanesSat(w', first)
      => Group'
  <2>1. w_idx_word' * 2 = first
    BY DEF first
  <2> QED BY <1>3, <2>1 DEF Group, Lanes, LanesAct, LanesQuant, LanesSat
<1>7. CASE state = "W0_READ" /\ FsmRead
  <2>1. state \in InRead /\ acc_addr_b = first
    BY <1>4, <1>7 DEF InRead
  <2>2. acc_spad[acc_addr_b] = Total(first)
    BY <1>1, <2>1, ReadStored
  <2>3. /\ state' = "W0_READ0" /\ w' = [w EXCEPT ![0] = acc_spad[acc_addr_b]]
        /\ acc_addr_b' = NextAccAddr
    <3>1. PICK r \in ReadSteps :
             /\ state = r.at /\ state' = r.to
             /\ w' = [w EXCEPT ![r.lane] = acc_spad[acc_addr_b]]
             /\ acc_addr_b' = IF r.step THEN NextAccAddr ELSE acc_addr_b
      BY <1>7 DEF FsmRead
    <3>2. r = [at |-> "W0_READ", lane |-> 0, step |-> TRUE, to |-> "W0_READ0"]
      BY <1>7, <3>1 DEF ReadSteps
    <3> QED BY <3>1, <3>2
  <2>4. acc_addr_b' = first + 1 /\ w'[0] = Total(first)
    BY <1>1, <1>2, <1>5, <2>1, <2>2, <2>3 DEF NextAccAddr
  <2> QED BY <1>6, <2>3, <2>4
<1>8. CASE state = "W0_READ0" /\ FsmRead
  <2>1. state \in InRead /\ acc_addr_b = first + 1 /\ w[0] = Total(first)
    BY <1>4, <1>8 DEF InRead, InWriteback
  <2>2. acc_spad[acc_addr_b] = Total(first + 1)
    BY <1>1, <2>1, ReadStored
  <2>3. /\ state' = "W1_ACT" /\ w' = [w EXCEPT ![1] = acc_spad[acc_addr_b]]
        /\ acc_addr_b' = acc_addr_b
    <3>1. PICK r \in ReadSteps :
             /\ state = r.at /\ state' = r.to
             /\ w' = [w EXCEPT ![r.lane] = acc_spad[acc_addr_b]]
             /\ acc_addr_b' = IF r.step THEN NextAccAddr ELSE acc_addr_b
      BY <1>8 DEF FsmRead
    <3>2. r = [at |-> "W0_READ0", lane |-> 1, step |-> FALSE, to |-> "W1_ACT"]
      BY <1>8, <3>1 DEF ReadSteps
    <3> QED BY <3>1, <3>2
  <2>4. w'[0] = Total(first + 0) /\ w'[1] = Total(first + 1)
    BY <1>1, <1>5, <2>1, <2>2, <2>3
  <2>5. Lanes(w', first)
    BY <1>5, <2>4 DEF Lanes
  <2> QED BY <1>6, <2>1, <2>3, <2>5
<1>9. ASSUME FsmRead PROVE state = "W0_READ" \/ state = "W0_READ0"
  <2>1. state \in InRead
    BY <1>9 DEF FsmRead, ReadSteps, InRead
  <2> QED BY <2>1 DEF EngineInv, Written, InRead
<1>10. \A l \in 0..1 : l \in 0..3
  OBVIOUS
<1>11. CASE FsmTransform
  <2>1. acc_addr_b' = acc_addr_b /\ acc_addr_b = first + 1
    BY <1>4, <1>11 DEF FsmTransform, InWriteback
  <2>2. CASE state = "W1_ACT" /\ state' = "W2_QUANT"
             /\ w' = [l \in 0..3 |-> apply_activation(w[l])]
    <3>1. LanesAct(w', first)
      BY <1>4, <1>10, <2>2 DEF Lanes, LanesAct
    <3> QED BY <1>6, <2>1, <2>2, <3>1
  <2>3. CASE state = "W2_QUANT" /\ state' = "W3_SAT"
             /\ w' = [l \in 0..3 |-> apply_quant(w[l])]
    <3>1. LanesQuant(w', first)
      BY <1>4, <1>10, <2>3 DEF LanesAct, LanesQuant
    <3> QED BY <1>6, <2>1, <2>3, <3>1
  <2>4. CASE state = "W3_SAT" /\ state' = "W4_WRITE"
             /\ w' = [l \in 0..3 |-> saturate_out(w[l])]
    <3>1. LanesSat(w', first)
      BY <1>4, <1>10, <2>4 DEF LanesQuant, LanesSat
    <3> QED BY <1>6, <2>1, <2>4, <3>1
  <2> QED BY <1>11, <2>2, <2>3, <2>4 DEF FsmTransform
<1> QED BY <1>7, <1>8, <1>9, <1>11

\* The word a group becomes.
LEMMA GroupWord ==
    ASSUME EngineInv, mode.dw16, state = "W4_WRITE", w_idx_word < ResultWords
    PROVE  /\ [e \in 0..(PACK - 1) |-> Signed(w[e], Bits)] = ResultWord(w_idx_word)
           /\ acc_addr_b = w_idx_word * 2 + 1
<1>1. Group /\ mode \in Mode /\ w_idx_word \in Nat
  BY Sizes DEF EngineInv, Written, TypeOK
<1>2. LanesSat(w, w_idx_word * 2) /\ acc_addr_b = w_idx_word * 2 + 1
  BY <1>1, GroupIs DEF InWriteback
<1>3. PACK = 2 /\ 0..(PACK - 1) = 0..1
  BY <1>1, WordCount
<1> QED BY <1>2, <1>3 DEF LanesSat, ResultWord

LEMMA WrittenStep ==
    ASSUME EngineInv, TypeOK', Access \/ NoAccess, NEW ack \in BOOLEAN, Edge(ack)
    PROVE  Written'
<1>1. /\ Handshake(ack) /\ Fsm(ack) /\ DpRam
      /\ TypeOK /\ Undisturbed /\ Requested /\ Summing /\ ProductStored /\ Written
  BY DEF Edge, EngineInv
<1>2. Arms(ack)
  BY <1>1, FsmArms
<1>3. PICK n \in 0..(N_SQ + 1) : n = w_idx_word
  BY <1>1 DEF TypeOK
<1>4. mode \in Mode /\ N_SQ \in Nat /\ N_SQ >= 9 /\ n \in Nat
  BY <1>1, Sizes DEF TypeOK
<1>5. ASSUME state' \notin InWriteback, state' # "DONE", ~Ended' PROVE Written'
  BY <1>5 DEF Written, Group, InWriteback, InRead
<1>6. ASSUME mode' = mode, mode.dw16
      PROVE  ResultWords' = ResultWords /\ \A k : ResultWord(k)' = ResultWord(k)
  BY <1>6, SameMode
<1>7. CASE FsmIdle
  <2>1. state' \in {"IDLE", "CLEAR"} /\ state = "IDLE" /\ (start => state' = "CLEAR")
    BY <1>7 DEF FsmIdle
  <2>2. state' \notin InWriteback /\ state' # "DONE"
    BY <2>1 DEF InWriteback, InRead
  <2>3. ASSUME Ended' PROVE Ended /\ mode' = mode /\ c_mem' = c_mem
    <3>1. ~start /\ sw' \in {"poll", "check"} /\ ~start'
      BY <2>1, <2>3 DEF Ended
    <3>2. sw \in {"poll", "check"} /\ mode' = mode
      <4>1. CASE NoAccess
        BY <3>1, <4>1 DEF NoAccess
      <4>2. CASE Access
        <5>1. ~((WriteMode \/ WriteStart) /\ sw' = sw)
          BY DEF WriteMode, WriteStart
        <5>2. ~WriteMode
          BY <3>1 DEF WriteMode
        <5>3. ~(WriteStart /\ StatusBits(TRUE))
          BY <1>1, <2>1, <3>1 DEF StatusBits
        <5>4. ReadStatus
          BY <4>2, <5>2, <5>3 DEF Access
        <5> QED BY <5>4 DEF ReadStatus
      <4> QED BY <4>1, <4>2
    <3>3. c_mem' = c_mem
      BY <1>1, <2>1, NoRequest
    <3> QED BY <2>1, <3>1, <3>2, <3>3 DEF Ended
  <2>4. ASSUME Ended' PROVE Written'
    <3>1. Ended /\ mode' = mode /\ c_mem' = c_mem
      BY <2>3, <2>4
    <3>2. mode.dw16 => \A k \in 0..(ResultWords - 1) : c_mem[k] = ResultWord(k)
      BY <1>1, <3>1 DEF Written
    <3>3. mode.dw16 => (\A k \in 0..(ResultWords - 1) : c_mem[k] = ResultWord(k))'
      BY <1>6, <3>1, <3>2
    <3>4. Group' /\ (state \notin InWriteback)'
      BY <2>2 DEF Group, InWriteback, InRead
    <3>5. mode'.dw16 = mode.dw16
      BY <3>1
    <3> QED BY <3>3, <3>4, <3>5 DEF Written, InWriteback, InRead
  <2> QED BY <1>5, <2>2, <2>4
<1>8. ASSUME state # "IDLE", state \notin InWriteback, state # "COMPUTE_S3", state # "DONE"
      PROVE  Written'
  <2>1. /\ state' \notin InWriteback /\ state' # "DONE" /\ state' # "IDLE"
    BY <1>2, <1>8, States DEF Arms, InWriteback, InRead, Operands
  <2>2. ~Ended'
    BY <2>1 DEF Ended
  <2> QED BY <1>5, <2>1, <2>2
<1>9. CASE FsmDone
  <2>1. state = "DONE" /\ state' = "IDLE"
    BY <1>9 DEF FsmDone
  <2>2. mode' = mode /\ c_mem' = c_mem
    BY <1>1, <2>1, ModeStays, NoRequest
  <2>3. mode.dw16 => \A k \in 0..(ResultWords - 1) : c_mem[k] = ResultWord(k)
    BY <1>1, <2>1 DEF Written
  <2>4. mode.dw16 => (\A k \in 0..(ResultWords - 1) : c_mem[k] = ResultWord(k))'
    BY <1>6, <2>2, <2>3
  <2>5. Group' /\ (state \notin InWriteback)'
    BY <2>1 DEF Group, InWriteback, InRead
  <2>6. mode'.dw16 = mode.dw16
    BY <2>2
  <2> QED BY <2>1, <2>4, <2>5, <2>6 DEF Written, InWriteback, InRead
<1>10. CASE FsmComputeS3
  <2>1. state = "COMPUTE_S3" /\ state' = "W0_READ" /\ w_idx_word' = 0 /\ acc_addr_b' = 0
    <3>1. 0 \in Addr
      BY Sizes
    <3>2. 0 % N_SQ = 0
      BY <3>1, ModAddr
    <3> QED BY <1>1, <1>10, <3>2 DEF FsmComputeS3, Summing
  <2>2. Group'
    BY <2>1 DEF Group
  <2>3. ~Ended' /\ \A k \in 0..(ResultWords' - 1) : ~(k < 0)
    BY <2>1 DEF Ended
  <2> QED BY <1>4, <2>1, <2>2, <2>3 DEF Written
<1>11. ASSUME FsmRead \/ FsmTransform PROVE Written'
  <2>1. state \in InWriteback /\ state # "W4_WRITE"
    BY <1>11 DEF FsmRead, ReadSteps, FsmTransform, InWriteback, InRead
  <2>2. mode' = mode
    BY <1>1, <2>1, ModeStays DEF InWriteback, InRead
  <2>3. c_mem' = c_mem
    BY <1>1, <2>1, NoRequest DEF InWriteback, InRead
  <2>4. w_idx_word' = n
    BY <1>3, <1>11 DEF FsmRead, FsmTransform
  <2>5. state' \notin {"W0_READ", "DONE", "IDLE"}
    BY <1>11 DEF FsmRead, ReadSteps, FsmTransform
  <2>6. (state' = "W0_READ0" => mode.dw16)
        /\ (state' \in {"W0_READ1", "W0_READ2", "W0_READ3"} => ~mode.dw16)
    <3>1. CASE FsmRead
      <4>1. PICK r \in ReadSteps : state = r.at /\ state' = r.to
        BY <3>1 DEF FsmRead
      <4>2. state \in {"W0_READ1", "W0_READ2", "W0_READ3"} => ~mode.dw16
        BY <1>1 DEF Written
      <4> QED BY <4>1, <4>2 DEF ReadSteps
    <3>2. CASE FsmTransform
      BY <3>2 DEF FsmTransform
    <3> QED BY <1>11, <3>1, <3>2
  <2>7. n <= N_SQ
    BY <1>1, <1>3, <2>1 DEF Written
  <2>8. ASSUME mode.dw16
        PROVE  /\ (w_idx_word < ResultWords)' => Group'
               /\ (\A k \in 0..(ResultWords - 1) : k < w_idx_word => c_mem[k] = ResultWord(k))'
    <3>1. ASSUME n < ResultWords PROVE Group'
      BY <1>1, <1>3, <1>4, <1>11, <2>2, <2>4, <2>8, <3>1, GroupStep
    <3>2. \A k \in 0..(ResultWords - 1) : k < n => c_mem[k] = ResultWord(k)
      BY <1>1, <1>3, <2>1, <2>8 DEF Written
    <3> QED BY <1>6, <2>2, <2>3, <2>4, <2>8, <3>1, <3>2
  <2>9. ~Ended'
    BY <2>5 DEF Ended
  <2> QED BY <2>2, <2>4, <2>5, <2>6, <2>7, <2>8, <2>9 DEF Written
<1>12. CASE FsmWrite(ack)
  <2>1. state = "W4_WRITE" /\ state \in InWriteback /\ state # "IDLE"
    BY <1>12 DEF FsmWrite, InWriteback
  <2>2. mode' = mode /\ w' = w
    BY <1>1, <1>12, <2>1, ModeStays DEF FsmWrite
  <2>3. /\ n <= N_SQ
        /\ mode.dw16 => /\ n < ResultWords => Group
                        /\ \A k \in 0..(ResultWords - 1) : k < n => c_mem[k] = ResultWord(k)
    BY <1>1, <1>3, <2>1 DEF Written
  <2>4. CASE /\ state' = state /\ w_idx_word' = w_idx_word /\ acc_addr_b' = acc_addr_b
             /\ ~(wbm.stb /\ ack)
    <3>1. c_mem' = c_mem
      <4>1. CASE ~dma.req
        BY <1>1, <4>1, BusCases
      <4>2. CASE dma.req /\ ~wbm.stb
        BY <1>1, <4>2, BusCases
      <4>3. CASE wbm.stb /\ ~ack
        BY <1>1, <4>3, BusCases
      <4> QED BY <1>1, <2>4, <4>1, <4>2, <4>3 DEF TypeOK
    <3>2. ASSUME mode.dw16
          PROVE  /\ (w_idx_word < ResultWords)' => Group'
                 /\ (\A k \in 0..(ResultWords - 1) : k < w_idx_word => c_mem[k] = ResultWord(k))'
      <4>1. ASSUME n < ResultWords PROVE Group'
        <5> DEFINE first == n * 2
        <5>1. LanesSat(w, first) /\ acc_addr_b = first + 1
          BY <1>3, <2>1, <2>3, <3>2, <4>1, GroupIs
        <5>2. \A a : Total(a)' = Total(a)
          BY <2>2, SameMode
        <5>3. /\ \A x : apply_activation(x)' = apply_activation(x)
              /\ \A x : apply_quant(x)' = apply_quant(x)
              /\ \A x : saturate_out(x)' = saturate_out(x)
          BY <2>2, SameMode
        <5>4. \A l \in 0..1 :
                 w'[l] = saturate_out(apply_quant(apply_activation(Total(first + l))))
          BY <2>2, <5>1 DEF LanesSat
        <5>5. w_idx_word' * 2 = first /\ acc_addr_b' = first + 1 /\ state' = "W4_WRITE"
          BY <1>3, <2>1, <2>4, <5>1
        <5> HIDE DEF first
        <5> QED BY <5>2, <5>3, <5>4, <5>5 DEF Group
      <4> QED BY <1>3, <1>6, <2>2, <2>3, <2>4, <3>1, <3>2, <4>1
    <3>3. ~Ended'
      BY <2>1, <2>4 DEF Ended
    <3> QED BY <1>3, <2>1, <2>2, <2>3, <2>4, <3>2, <3>3 DEF Written
  <2>5. CASE /\ dma.req /\ wbm.stb /\ ack /\ w_idx_word' = w_idx_word + 1
             /\ acc_addr_b' = NextAccAddr /\ state' = IF LastWord THEN "DONE" ELSE "W0_READ"
    <3>1. /\ dma.we /\ dma.addr = [mat |-> "C", off |-> n * 4]
          /\ dma.wdata = [e \in 0..(PACK - 1) |-> Signed(w[e], Bits)]
      BY <1>1, <1>3, <1>12, <2>5, WriteCases
    <3>2. (n * 4) \div 4 = n
      BY <1>4
    <3>3. c_mem' = [c_mem EXCEPT ![n] = dma.wdata]
      <4>1. c_mem' = [c_mem EXCEPT ![dma.addr.off \div 4] = dma.wdata]
        BY <1>1, <2>5, <3>1, BusCases
      <4>2. dma.addr.off \div 4 = n
        BY <3>1, <3>2
      <4> QED BY <4>1, <4>2
    <3>4. n \in 0..N_SQ /\ c_mem \in [0..N_SQ -> Words]
      BY <1>1, <1>4, <2>3 DEF TypeOK
    <3>5. ASSUME mode.dw16, NEW k \in 0..(ResultWords - 1), k < n + 1
          PROVE  c_mem'[k] = ResultWord(k)
      <4>1. ResultWords \in Nat /\ ResultWords < N_SQ
        BY <1>4, <3>5, WordCount
      <4>2. CASE k = n
        <5>1. n < ResultWords
          BY <4>1, <4>2
        <5>2. dma.wdata = ResultWord(n)
          BY <1>3, <2>1, <3>1, <3>5, <5>1, GroupWord
        <5> QED BY <3>3, <3>4, <4>2, <5>2
      <4>3. CASE k # n
        <5>1. k < n /\ k \in 0..N_SQ
          BY <1>4, <3>5, <4>1, <4>3
        <5>2. c_mem[k] = ResultWord(k)
          BY <2>3, <3>5, <5>1
        <5> QED BY <3>3, <3>4, <4>3, <5>1, <5>2
      <4> QED BY <4>2, <4>3
    <3>6. mode.dw16 =>
             (\A k \in 0..(ResultWords - 1) : k < w_idx_word => c_mem[k] = ResultWord(k))'
      <4>1. w_idx_word' = n + 1
        BY <1>3, <2>5
      <4> QED BY <1>6, <2>2, <3>5, <4>1
    <3>7. CASE LastWord
      <4>1. state' = "DONE" /\ n = N_SQ
        BY <1>3, <2>5, <3>7 DEF LastWord
      <4>2. ASSUME mode.dw16
            PROVE  (\A k \in 0..(ResultWords - 1) : c_mem[k] = ResultWord(k))'
        <5>1. \A k \in 0..(ResultWords - 1) : k < n + 1
          BY <1>4, <4>1, <4>2, WordCount
        <5> QED BY <1>6, <2>2, <3>5, <4>2, <5>1
      <4>3. Group' /\ (state \notin InWriteback)'
        BY <4>1 DEF Group, InWriteback, InRead
      <4>4. mode'.dw16 = mode.dw16
        BY <2>2
      <4> QED BY <4>1, <4>2, <4>3, <4>4 DEF Written, InWriteback, InRead
    <3>8. CASE ~LastWord
      <4>1. state' = "W0_READ" /\ n # N_SQ /\ w_idx_word' = n + 1
        BY <1>3, <2>5, <3>8 DEF LastWord
      <4>2. n + 1 <= N_SQ
        BY <1>4, <2>3, <4>1
      <4>3. ASSUME mode.dw16, n + 1 < ResultWords PROVE Group'
        <5>1. ResultWords \in Nat /\ 2 * ResultWords = N_SQ /\ n < ResultWords
          BY <1>4, <4>3, WordCount
        <5>2. acc_addr_b = n * 2 + 1
          BY <1>3, <2>1, <4>3, <5>1, GroupWord
        <5>3. (n + 1) * 2 \in 0..(N_SQ - 1) /\ acc_addr_b + 1 = (n + 1) * 2
          BY <1>4, <4>3, <5>1, <5>2
        <5>4. (n + 1) * 2 \in Addr
          BY <5>3, Sizes
        <5>5. NextAccAddr = (n + 1) * 2
          BY <5>3, <5>4, ModAddr DEF NextAccAddr
        <5> QED BY <2>5, <4>1, <5>5 DEF Group, InWriteback, InRead
      <4>4. ~Ended'
        BY <4>1 DEF Ended
      <4>5. mode.dw16 => ResultWords' = ResultWords
        BY <1>6, <2>2
      <4> QED BY <2>2, <3>6, <4>1, <4>2, <4>3, <4>4, <4>5 DEF Written
    <3> QED BY <3>7, <3>8
  <2>6. /\ \/ /\ ~dma.req /\ ~wbm.stb
              /\ state' = state /\ w_idx_word' = w_idx_word /\ acc_addr_b' = acc_addr_b
           \/ /\ dma.req /\ wbm.stb /\ ack
              /\ w_idx_word' = w_idx_word + 1 /\ acc_addr_b' = NextAccAddr
              /\ state' = IF LastWord THEN "DONE" ELSE "W0_READ"
           \/ /\ dma.req /\ ~(wbm.stb /\ ack) /\ state' = state
              /\ w_idx_word' = w_idx_word /\ acc_addr_b' = acc_addr_b
    BY <1>1, <1>12, WriteCases, Zenon
  <2> QED BY <2>4, <2>5, <2>6
<1>13. CASE state = "IDLE" \/ state = "COMPUTE_S3" \/ state = "DONE" \/ state \in InWriteback
  BY <1>2, <1>7, <1>9, <1>10, <1>11, <1>12, <1>13, States DEF Arms, InWriteback, InRead, Operands
<1> QED BY <1>8, <1>13

-----------------------------------------------------------------------------
(* The invariant                                                            *)

LEMMA EngineInit == Init => EngineInv
<1> SUFFICES ASSUME Init PROVE EngineInv
  OBVIOUS
<1>1. /\ 0 \in Addr /\ N_SQ - 1 \in Addr /\ N_SQ \in Nat /\ 0 \in Index /\ 0 \in AccValue
      /\ Gap \in 1..Gap /\ 0 \in 0..Rounds
  BY Sizes, Power, GapAssumption, InputAssumption DEF AccValue, Widths
<1>2. NoWord \in Words
  BY DEF NoWord, Words
<1>3. [mat |-> "A", off |-> 0] \in Addresses
  BY DEF Addresses, Operands
<1>4. Ram \in [Addr -> Int]
  BY InputAssumption DEF Ram
<1>5. /\ Port \in [we : BOOLEAN, addr : Addr, data : Int]
      /\ [Port EXCEPT !.addr = N_SQ - 1] \in [we : BOOLEAN, addr : Addr, data : AccValue]
  <2> DEFINE a == N_SQ - 1
  <2>1. a \in Addr
    BY <1>1
  <2> HIDE DEF a
  <2>2. Port \in [we : BOOLEAN, addr : Addr, data : AccValue]
    BY <1>1 DEF Port
  <2>3. [Port EXCEPT !.addr = a] \in [we : BOOLEAN, addr : Addr, data : AccValue]
    BY <2>1, <2>2
  <2>4. Port \in [we : BOOLEAN, addr : Addr, data : Int]
    BY <1>1 DEF Port
  <2> QED BY <2>3, <2>4 DEF a
<1>6. "IDLE" \in FsmStates
  BY States
<1>7. TypeOK
  <2>1. /\ sw \in {"mode", "start", "poll", "check"} /\ quiet \in 1..Gap /\ round \in 0..Rounds
        /\ mode \in Mode /\ start \in BOOLEAN /\ busy \in BOOLEAN /\ done \in BOOLEAN
        /\ state \in FsmStates
    BY <1>1, <1>6 DEF Init, Mode
  <2>2. /\ wbm \in [stb : BOOLEAN, we : BOOLEAN, adr : Addresses, dat : Words]
        /\ dma_rdata \in Words
        /\ dma \in [req : BOOLEAN, we : BOOLEAN, addr : Addresses, wdata : Words]
        /\ c_mem \in [0..N_SQ -> Words]
    <3> DEFINE a == [mat |-> "A", off |-> 0]
    <3>1. a \in Addresses
      BY <1>3
    <3>2. /\ wbm = [stb |-> FALSE, we |-> FALSE, adr |-> a, dat |-> NoWord]
          /\ dma = [req |-> FALSE, we |-> FALSE, addr |-> a, wdata |-> NoWord]
          /\ dma_rdata = NoWord /\ c_mem = [n \in 0..N_SQ |-> NoWord]
      BY DEF Init
    <3> HIDE DEF a
    <3> QED BY <1>2, <3>1, <3>2
  <2>3. /\ clear_idx \in 0..N_SQ /\ load_idx_word \in Addr /\ w_idx_word \in 0..(N_SQ + 1)
        /\ i_sx \in Index /\ j_sx \in Index /\ k_sx \in Index /\ acc_addr_b \in Addr
    BY <1>1 DEF Init
  <2>4. /\ load \in [Operands -> [we : BOOLEAN, addr : Addr, data : Int]]
        /\ comp_addr \in [Operands -> Addr]
        /\ acc \in [we : BOOLEAN, addr : Addr, data : AccValue]
    BY <1>1, <1>5 DEF Init
  <2>5. w \in [0..3 -> AccValue] /\ spad \in [Operands -> [Addr -> Int]]
        /\ acc_spad \in [Addr -> Int]
    BY <1>1, <1>4 DEF Init
  <2> QED BY <2>1, <2>2, <2>3, <2>4, <2>5 DEF TypeOK
<1>8. state = "IDLE" /\ ~start /\ sw = "mode" /\ ~dma.req /\ ~wbm.stb
  BY DEF Init
<1>9. Undisturbed
  BY <1>8 DEF Undisturbed
<1>10. Requested
  BY <1>8 DEF Requested
<1>11. /\ state \notin InLoad("A") /\ state \notin InLoad("B")
       /\ \A m \in Operands : \A e \in 1..3 :
             /\ state # LoadStates[m].word /\ state # LoadStates[m].half
             /\ state # LoadStates[m].byte[e] /\ state \notin InLoad(m)
  <2>1. state \notin InLoad("A") /\ state \notin InLoad("B")
    BY <1>8, States
  <2> QED BY <2>1 DEF InLoad, Operands
<1>12. Loading /\ OperandsLoaded
  BY <1>8, <1>11 DEF Loading, OperandsLoaded
<1>13. Summing /\ ProductStored
  BY <1>8, <1>11 DEF Summing, ProductStored, InWriteback, InRead
<1>14. Written
  BY <1>8 DEF Written, Group, Ended, InWriteback, InRead
<1> QED BY <1>7, <1>9, <1>10, <1>12, <1>13, <1>14 DEF EngineInv

LEMMA EngineStutter ==
    ASSUME EngineInv, UNCHANGED vars
    PROVE  EngineInv'
<1> USE DEF vars, swVars, csrVars, busVars, computeVars, idxVars, writeVars, ramVars
<1>1. mode' = mode
  OBVIOUS
<1>2. TypeOK'
  BY DEF EngineInv, TypeOK
<1>3. Undisturbed'
  BY DEF EngineInv, Undisturbed
<1>4. Requested'
  BY <1>1, SameMode DEF EngineInv, Requested, LoadOffset, Signed
<1>5. \A m, n : Loaded(m, n)' = Loaded(m, n)
  BY <1>1, SameMode DEF Loaded, Stored
<1>6. \A n : Summed(n)' = Summed(n)
  BY <1>1, SameMode DEF Summed, Stored, Acc, Signed
<1>7. Loading'
  <2>1. \A m : Loaded(m, load_idx_word)' = Loaded(m, load_idx_word)
    BY <1>1, SameMode DEF Loaded, Stored
  <2> QED BY <1>1, <1>5, <2>1, SameMode DEF EngineInv, Loading
<1>8. OperandsLoaded'
  BY <1>1, SameMode DEF EngineInv, OperandsLoaded
<1>9. \A p, q, t : UnderWay(p, q, t)' = UnderWay(p, q, t)
  BY <1>1, <1>6, SameMode DEF UnderWay, Acc, Signed
<1>10. \A p, q, t : Follows(p, q, t)' = Follows(p, q, t)
  BY DEF Follows
<1>11. Summing'
  BY <1>9, <1>10 DEF EngineInv, Summing
<1>12. ProductStored'
  BY <1>6 DEF EngineInv, ProductStored
<1>13. Group' = Group
  <2>1. Total(w_idx_word * 2)' = Total(w_idx_word * 2)
        /\ \A l : Total(w_idx_word * 2 + l)' = Total(w_idx_word * 2 + l)
    BY <1>1, SameMode DEF Total, Acc, Signed
  <2> QED BY <1>1, <2>1, SameMode DEF Group
<1>14. Written'
  BY <1>1, <1>13, SameMode DEF EngineInv, Written, Ended
<1> QED BY <1>2, <1>3, <1>4, <1>7, <1>8, <1>11, <1>12, <1>14 DEF EngineInv

LEMMA EngineStep == EngineInv /\ [Next]_vars => EngineInv'
<1>1. ASSUME EngineInv, Next PROVE EngineInv'
  <2>1. PICK ack \in {FALSE, wbm.stb} : (Access \/ NoAccess) /\ Edge(ack)
    BY <1>1 DEF Next
  <2>2. ack \in BOOLEAN
    BY <1>1 DEF EngineInv, TypeOK
  <2>3. Fsm(ack)
    BY <2>1 DEF Edge
  <2>4. TypeOK'
    BY <1>1, <2>1, <2>2, TypeStep
  <2>5. Undisturbed'
    BY <1>1, <2>1, <2>2, <2>3, UndisturbedStep DEF EngineInv
  <2>6. Requested'
    BY <1>1, <2>1, <2>2, RequestedStep DEF EngineInv
  <2>7. Loading' /\ OperandsLoaded'
    BY <1>1, <2>1, <2>2, <2>4, LoadingStep, OperandsLoadedStep
  <2>8. Summing' /\ ProductStored' /\ Written'
    BY <1>1, <2>1, <2>2, <2>4, SummingStep, ProductStoredStep, WrittenStep
  <2> QED BY <2>4, <2>5, <2>6, <2>7, <2>8 DEF EngineInv
<1> QED BY <1>1, EngineStutter

\* The operands are complete when the first product is taken, every sum is stored before it is read,
\* and what the engine has written so far is what it computes from them, whatever the memory's
\* answers, for every order, width, mode and operands (the main FSM of gemm_dma_packed_pipe_dp.v).
THEOREM EngineCorrect == Spec => []EngineInv
<1>1. Init => EngineInv
  BY EngineInit
<1>2. EngineInv /\ [Next]_vars => EngineInv'
  BY EngineStep
<1> QED BY <1>1, <1>2, PTL DEF Spec

-----------------------------------------------------------------------------
(* The golden model                                                         *)

\* With signed elements the golden model sums the same products.
LEMMA GoldenSumIs ==
    ASSUME mode \in Mode, mode.dw16, mode.signed, NEW r \in Index, NEW c \in Index
    PROVE  GoldenSum(mode, r, c) = Sums(r, c)[N]
<1> DEFINE A == Operand("A")
           B == Operand("B")
           in(M, i, j) == GoldenIn(mode, M[<<i, j>>])
           G == GoldenSums(mode, r, c)
           Pp(s) == [t \in 0..N |-> IF t = 0 THEN 0
                            ELSE s[t - 1] + A[r * N + (t - 1)] * B[(t - 1) * N + c]]
           Gg(s) == [t \in 0..N |-> IF t = 0 THEN 0
                            ELSE s[t - 1] + in(MatA, r, t - 1) * in(MatB, t - 1, c)]
<1>1. Bits = Wide /\ BitsOf(mode) = Wide
  BY DEF Bits, BitsOf
<1>2. \A x : GoldenIn(mode, x) = Signed(x, Wide)
  BY <1>1 DEF GoldenIn
<1>3. ASSUME NEW i \in Index, NEW j \in Index
      PROVE  A[i * N + j] = in(MatA, i, j) /\ B[i * N + j] = in(MatB, i, j)
  <2> DEFINE a == i * N + j
  <2>1. a \in Addr /\ a \div N = i /\ a % N = j
    BY AddressOf
  <2> HIDE DEF a
  <2>2. A[a] = Signed(MatA[<<i, j>>], Wide) /\ B[a] = Signed(MatB[<<i, j>>], Wide)
    BY <1>1, <2>1 DEF Operand
  <2> QED BY <1>2, <2>2 DEF a
<1>4. ASSUME NEW t \in 0..N, t # 0
      PROVE  A[r * N + (t - 1)] * B[(t - 1) * N + c] = in(MatA, r, t - 1) * in(MatB, t - 1, c)
  <2>1. t - 1 \in Index
    BY <1>4, Sizes
  <2> HIDE DEF A, B, in
  <2> QED BY <1>3, <2>1
<1>5. G = CHOOSE s : s = Gg(s)
  BY DEF GoldenSums
<1> HIDE DEF A, B, in, G
<1>6. ASSUME NEW s PROVE Pp(s) = Gg(s)
  BY <1>4
<1>7. Sums(r, c) = Gg(Sums(r, c))
  <2>1. Sums(r, c) = Pp(Sums(r, c))
    BY SumsSteps DEF A, B
  <2> HIDE DEF Pp, Gg
  <2> QED BY <1>6, <2>1
<1>8. G = Gg(G)
  <2> HIDE DEF Gg
  <2> QED BY <1>5, <1>7, Zenon
<1> DEFINE f == Sums(r, c)
           S == {t \in 0..N : G[t] = f[t]}
<1> HIDE DEF f
<1>9. f = Gg(f)
  BY <1>7 DEF f
<1>10. N \in Nat /\ 0 \in 0..N /\ N \in 0..N
  BY Sizes
<1>11. ASSUME NEW h, h = Gg(h)
       PROVE  /\ h[0] = 0
              /\ \A t \in 0..(N - 1) : h[t + 1] = h[t] + in(MatA, r, t) * in(MatB, t, c)
  <2>1. h[0] = 0
    BY <1>10, <1>11
  <2>2. ASSUME NEW t \in 0..(N - 1)
        PROVE  h[t + 1] = h[t] + in(MatA, r, t) * in(MatB, t, c)
    <3>1. t + 1 \in 0..N /\ t + 1 # 0 /\ (t + 1) - 1 = t
      BY <1>10
    <3> DEFINE u == t + 1
    <3> HIDE DEF u
    <3>2. u \in 0..N /\ u # 0 /\ u - 1 = t
      BY <3>1 DEF u
    <3>3. h[u] = h[u - 1] + in(MatA, r, u - 1) * in(MatB, u - 1, c)
      BY <1>11, <3>2
    <3> QED BY <3>2, <3>3 DEF u
  <2> QED BY <2>1, <2>2
<1>12. /\ f[0] = 0 /\ G[0] = 0
       /\ \A t \in 0..(N - 1) : /\ f[t + 1] = f[t] + in(MatA, r, t) * in(MatB, t, c)
                                /\ G[t + 1] = G[t] + in(MatA, r, t) * in(MatB, t, c)
  <2> HIDE DEF Gg
  <2>1. /\ f[0] = 0
        /\ \A t \in 0..(N - 1) : f[t + 1] = f[t] + in(MatA, r, t) * in(MatB, t, c)
    BY <1>9, <1>11
  <2>2. /\ G[0] = 0
        /\ \A t \in 0..(N - 1) : G[t + 1] = G[t] + in(MatA, r, t) * in(MatB, t, c)
    BY <1>8, <1>11
  <2> QED BY <2>1, <2>2
<1>13. 0 \in S
  BY <1>10, <1>12
<1>14. \A t \in 0..(N - 1) : t \in S => t + 1 \in S
  <2>1. \A t \in 0..(N - 1) : t + 1 \in 0..N
    BY <1>10
  <2> QED BY <1>12, <2>1
<1> HIDE DEF S
<1>15. N \in S
  <2>1. \A t \in 0..N : t \in S
    BY <1>10, <1>13, <1>14, UpTo
  <2> QED BY <1>10, <2>1
<1>16. G[N] = f[N]
  BY <1>15 DEF S
<1> QED BY <1>16 DEF GoldenSum, G, f

\* What the engine makes of an element is what the golden model makes of it.
LEMMA ElementGolden ==
    ASSUME Representable, mode \in Mode, mode \in Modes, mode.dw16, NEW a \in Addr
    PROVE  Signed(saturate_out(apply_quant(apply_activation(Total(a)))), Bits)
              = Golden(mode, a \div N, a % N)
<1> DEFINE r == a \div N
           c == a % N
           sum == GoldenSum(mode, r, c)
           act == GoldenAct(mode, sum)
           qnt == GoldenQuant(mode, act)
           p == 2^(Wide - 1)
<1>1. r \in Index /\ c \in Index
  BY RowAndColumn
<1> HIDE DEF r, c
<1>2. /\ mode.signed
      /\ sum \in AccValue
      /\ mode.act /\ mode.leaky /\ sum < 0 => sum * Alpha \in AccValue
      /\ mode.quant => /\ (act * QScale + 32768) \div 65536 \in AccValue
                       /\ qnt \in AccValue
  BY <1>1 DEF Representable
<1>3. Total(a) = sum
  <2>1. sum = Sums(r, c)[N]
    BY <1>1, <1>2, GoldenSumIs
  <2>2. Acc(sum) = sum
    BY <1>2, AccSmall
  <2> QED BY <2>1, <2>2 DEF Total, r, c
<1> HIDE DEF sum
<1>4. sum \in Int /\ mode.act \in BOOLEAN /\ mode.leaky \in BOOLEAN /\ mode.quant \in BOOLEAN
      /\ \A x \in AccValue : x \in Int
  BY <1>2, Power, ModeFacts DEF AccValue, Widths
<1>5. apply_activation(sum) = act
  <2>1. CASE ~mode.act \/ sum >= 0
    BY <1>4, <2>1 DEF apply_activation, GoldenAct
  <2>2. CASE mode.act /\ ~mode.leaky /\ sum < 0
    BY <1>4, <2>2 DEF apply_activation, GoldenAct
  <2>3. CASE mode.act /\ mode.leaky /\ sum < 0
    <3>1. Acc(sum * Alpha) = sum * Alpha
      BY <1>2, <2>3, AccSmall
    <3>2. apply_activation(sum) = Acc(sum * Alpha) \div 128
      BY <1>4, <2>3 DEF apply_activation
    <3>3. act = (sum * Alpha) \div 128
      BY <1>4, <2>3 DEF GoldenAct
    <3> QED BY <3>1, <3>2, <3>3
  <2> QED BY <1>4, <2>1, <2>2, <2>3
<1>6. act \in Int
  <2>1. sum * Alpha \in Int
    BY <1>4, InputAssumption
  <2>2. (sum * Alpha) \div 128 \in Int
    BY <2>1
  <2>3. \/ ~mode.act \/ sum >= 0 \/ (mode.act /\ ~mode.leaky /\ sum < 0)
        \/ (mode.act /\ mode.leaky /\ sum < 0)
    BY <1>4
  <2> QED BY <1>4, <2>2, <2>3 DEF GoldenAct
<1> HIDE DEF act
<1>7. apply_quant(act) = qnt /\ qnt \in Int
  <2>1. CASE mode.quant
    <3> DEFINE d == (act * QScale + 32768) \div 65536
    <3>1. d \in AccValue /\ qnt = d + QZero /\ qnt \in AccValue
      BY <1>2, <2>1 DEF GoldenQuant
    <3>2. apply_quant(act) = Acc(Acc(d) + QZero)
      BY <2>1 DEF apply_quant
    <3> HIDE DEF d, qnt
    <3>3. Acc(d) = d /\ Acc(qnt) = qnt
      BY <3>1, AccSmall
    <3> QED BY <1>4, <3>1, <3>2, <3>3
  <2>2. CASE ~mode.quant
    BY <1>6, <2>2 DEF apply_quant, GoldenQuant
  <2> QED BY <2>1, <2>2
<1> HIDE DEF qnt
<1>8. Bits = Wide /\ BitsOf(mode) = Wide /\ Wide \in Widths
  BY DEF Bits, BitsOf, Widths
<1>9. p \in Nat \ {0}
  BY <1>8, Power
<1>10. /\ saturate_out(qnt) = GoldenSat(mode, qnt)
       /\ saturate_out(qnt) \in -p..(p - 1)
  <2>1. saturate_out(qnt) = (CASE qnt > p - 1 -> p - 1 [] qnt < -p -> -p [] OTHER -> qnt)
    BY <1>8 DEF saturate_out
  <2>2. GoldenSat(mode, qnt) = (CASE qnt > p - 1 -> p - 1 [] qnt < -p -> -p [] OTHER -> qnt)
    BY <1>8 DEF GoldenSat
  <2> HIDE DEF p
  <2> QED BY <1>7, <1>9, <2>1, <2>2
<1>11. Signed(saturate_out(qnt), Wide) = saturate_out(qnt)
  <2>1. saturate_out(qnt) \in Int
    <3> HIDE DEF p
    <3> QED BY <1>9, <1>10
  <2> QED BY <1>8, <1>10, <2>1, Cut
<1>12. Golden(mode, r, c) = GoldenSat(mode, qnt)
  BY DEF Golden, qnt, act, sum
<1> QED BY <1>3, <1>5, <1>7, <1>8, <1>10, <1>11, <1>12 DEF r, c

\* The words the engine computes are the golden model's.
LEMMA WordsGolden ==
    ASSUME Representable, mode \in Mode, mode \in Modes, mode.dw16,
           NEW n \in 0..(ResultWords - 1)
    PROVE  ResultWord(n) = [e \in 0..(PACK - 1) |->
                              Golden(mode, (n * PACK + e) \div N, (n * PACK + e) % N)]
<1>1. /\ ResultWords \in Nat /\ 2 * ResultWords = N_SQ /\ PACK = 2 /\ 0..(PACK - 1) = 0..1
      /\ N_SQ \in Nat
  BY WordCount
<1>2. ASSUME NEW e \in 0..(PACK - 1) PROVE n * PACK + e \in Addr
  BY <1>1, Sizes
<1>3. ASSUME NEW e \in 0..(PACK - 1)
      PROVE  Signed(saturate_out(apply_quant(apply_activation(Total(n * PACK + e)))), Bits)
                = Golden(mode, (n * PACK + e) \div N, (n * PACK + e) % N)
  BY <1>2, ElementGolden
<1> QED BY <1>3, Zenon DEF ResultWord

\* Once the program has written a mode, it is one of those it chooses from.
ModeChosen == sw # "mode" => mode \in Modes

\* When the poll ends the result in memory is the golden model's for this run, and so it is while the
\* program waits and the done bit is set (`wait for done', gemm_check_results in main.c), for elements
\* of 16 bits of every order and mode whose sums fit the accumulator.
THEOREM ResultCorrect ==
    ASSUME Representable
    PROVE  Spec => []ResultTruthful
<1>1. EngineInv /\ ModeChosen => ResultTruthful
  <2>1. SUFFICES ASSUME EngineInv, ModeChosen, sw = "check" \/ (sw = "poll" /\ done), mode.dw16
                 PROVE  ResultInMemory
    BY DEF ResultTruthful, ResultOnPoll, DoneMeansResult
  <2>2. Ended
    BY <2>1 DEF EngineInv, Undisturbed, Ended
  <2>3. \A n \in 0..(ResultWords - 1) : c_mem[n] = ResultWord(n)
    BY <2>1, <2>2 DEF EngineInv, Written
  <2>4. mode \in Mode /\ mode \in Modes
    BY <2>1 DEF EngineInv, TypeOK, ModeChosen
  <2> QED BY <2>1, <2>3, <2>4, WordsGolden DEF ResultInMemory
<1>2. Init => ModeChosen
  BY DEF Init, ModeChosen
<1>3. ModeChosen /\ [Next]_vars => ModeChosen'
  <2>1. ASSUME ModeChosen, Access \/ NoAccess PROVE ModeChosen'
    BY <2>1 DEF ModeChosen, Access, NoAccess, WriteMode, WriteStart, ReadStatus
  <2>2. ASSUME ModeChosen, UNCHANGED vars PROVE ModeChosen'
    BY <2>2 DEF ModeChosen, vars, swVars, csrVars
  <2> QED BY <2>1, <2>2 DEF Next
<1> QED BY <1>1, <1>2, <1>3, EngineCorrect, PTL DEF Spec

\* Type correctness: every register keeps within its width, every index within its memory.
THEOREM EngineTypeCorrect == Spec => []TypeOK
BY EngineCorrect, PTL DEF EngineInv
=============================================================================
