-------------------------- MODULE SenseAnswerProofs --------------------------
(***************************************************************************)
(* The chain of descriptors that SenseAnswer defines by recursion exists,  *)
(* for every buffer, and obeys its equation.  The induction behind it is   *)
(* the well-foundedness of <, used through sets: every set of naturals     *)
(* that is not empty has a least element.                                  *)
(***************************************************************************)
EXTENDS SenseAnswer, WellFoundedInduction, TLAPS

LEMMA LeastNatural ==
  ASSUME NEW T \in SUBSET Nat, T # {}
  PROVE  \E n \in T : \A m \in T : n <= m
<1> DEFINE R == OpToRel(<, Nat)
<1>1. IsWellFoundedOn(R, Nat)
  BY NatLessThanWellFounded, Zenon
<1>2. \A m, n \in Nat : m < n => <<m, n>> \in R
  BY DEF OpToRel
<1> HIDE DEF R
<1>3. PICK n \in T : \A m \in T : ~(<<m, n>> \in R)
  BY <1>1, WFMin
<1>4. \A m \in T : m \in Nat /\ n \in Nat /\ ~(m < n)
  BY <1>2, <1>3
<1>5. QED
  BY <1>4

\* Induction, for the set of the numbers that have the property.
LEMMA Induction ==
  ASSUME NEW S, 0 \in S, \A n \in Nat : n \in S => n + 1 \in S
  PROVE  Nat \subseteq S
<1> SUFFICES ASSUME Nat \ S # {} PROVE FALSE
  OBVIOUS
<1>1. PICK n \in Nat \ S : \A m \in Nat \ S : n <= m
  BY LeastNatural
<1>2. n - 1 \in Nat /\ n - 1 \in S
  BY <1>1
<1>3. QED
  BY <1>1, <1>2

Iterates(f, F, x) == f[0] = x /\ \A n \in Nat : f[n + 1] = F[f[n]]

\* A function may be defined by iterating another one.
LEMMA Iteration ==
  ASSUME NEW D, NEW x \in D, NEW F \in [D -> D]
  PROVE  \E f \in [Nat -> D] : Iterates(f, F, x)
<1> DEFINE Upto(n) == {g \in [0..n -> D] : g[0] = x /\ \A k \in 0..(n - 1) : g[k + 1] = F[g[k]]}
<1>1. ASSUME NEW n \in Nat PROVE Upto(n) # {}
  <2> DEFINE S == {m \in Nat : Upto(m) # {}}
  <2>1. 0 \in S
    <3>1. [k \in 0..0 |-> x] \in Upto(0)
      OBVIOUS
    <3>2. QED
      BY <3>1
  <2>2. ASSUME NEW m \in Nat, m \in S PROVE m + 1 \in S
    <3>1. PICK g \in [0..m -> D] : g[0] = x /\ \A k \in 0..(m - 1) : g[k + 1] = F[g[k]]
      BY <2>2
    <3> DEFINE h == [k \in 0..(m + 1) |-> IF k <= m THEN g[k] ELSE F[g[m]]]
    <3>2. h \in [0..(m + 1) -> D] /\ h[0] = x
      BY <3>1
    <3>3. ASSUME NEW k \in 0..m PROVE h[k + 1] = F[h[k]]
      <4>1. h[k] = g[k]
        OBVIOUS
      <4>2. CASE k = m
        BY <4>1, <4>2
      <4>3. CASE k < m
        BY <3>1, <4>1, <4>3
      <4>4. QED
        BY <4>2, <4>3
    <3> HIDE DEF h
    <3>4. h \in Upto(m + 1)
      BY <3>2, <3>3
    <3>5. QED
      BY <3>4
  <2> HIDE DEF S
  <2>3. n \in S
    BY <2>1, <2>2, Induction
  <2>4. QED
    BY <2>3 DEF S
<1>2. ASSUME NEW n \in Nat, NEW g \in Upto(n), NEW h \in Upto(n + 1)
      PROVE  h[n] = g[n]
  <2> DEFINE S == {k \in Nat : k <= n => h[k] = g[k]}
  <2>1. 0 \in S
    OBVIOUS
  <2>2. ASSUME NEW k \in Nat, k \in S PROVE k + 1 \in S
    <3>1. CASE k < n
      <4>1. k \in 0..(n - 1) /\ k \in 0..(n + 1 - 1) /\ h[k] = g[k]
        BY <2>2, <3>1
      <4>2. QED
        BY <4>1
    <3>2. QED
      BY <3>1
  <2> HIDE DEF S
  <2>3. n \in S
    BY <2>1, <2>2, Induction
  <2>4. QED
    BY <2>3 DEF S
<1> DEFINE G == [n \in Nat |-> CHOOSE g : g \in Upto(n)]
<1>3. \A n \in Nat : G[n] \in Upto(n)
  BY <1>1
<1> HIDE DEF G
<1> DEFINE f == [n \in Nat |-> G[n][n]]
<1>4. ASSUME NEW n \in Nat PROVE f[n] \in D
  <2>1. G[n] \in [0..n -> D] /\ n \in 0..n
    BY <1>3
  <2>2. QED
    BY <2>1
<1>5. f[0] = x
  BY <1>3
<1>6. ASSUME NEW n \in Nat PROVE f[n + 1] = F[f[n]]
  <2>1. f[n] = G[n][n] /\ f[n + 1] = G[n + 1][n + 1]
    OBVIOUS
  <2>2. G[n] \in Upto(n) /\ G[n + 1] \in Upto(n + 1)
    BY <1>3
  <2>3. G[n + 1][n] = G[n][n]
    BY <1>2, <2>2
  <2>4. G[n + 1][n + 1] = F[G[n + 1][n]]
    BY <2>2
  <2>5. QED
    BY <2>1, <2>3, <2>4
<1> HIDE DEF f
<1>7. f \in [Nat -> D]
  BY <1>4 DEF f
<1>8. QED
  BY <1>5, <1>6, <1>7 DEF Iterates

-----------------------------------------------------------------------------
(* The chain of descriptors.                                               *)

\* An index inside the buffer reads a byte (Go's s[i] for 0 <= i < len(s)).
LEMMA ByteAt ==
  ASSUME NEW s \in Seq(Byte), NEW i \in 0..(Len(s) - 1)
  PROVE  At(s, i) \in Byte
<1>1. Len(s) \in Nat /\ i + 1 \in 1..Len(s)
  OBVIOUS
<1>2. QED
  BY <1>1 DEF At

LEMMA BytesAreNat == Byte \subseteq Nat /\ \A n \in Nat : n <= 255 => n \in Byte
BY DEF Byte

\* The descriptor area of a valid buffer lies inside it.
LEMMA AreaInBuffer ==
  ASSUME NEW s \in Seq(Byte), DescriptorIsValid(s)
  PROVE  /\ AdditionalSenseLength(s) \in Byte
         /\ Len(s) >= senseHeaderLen + AdditionalSenseLength(s)
         /\ \A i \in 0..(AdditionalSenseLength(s) - 1) : At(s, senseHeaderLen + i) \in Byte
<1>1. Len(s) \in Nat /\ Len(s) >= 8 /\ Len(s) >= 8 + AdditionalSenseLength(s)
  BY DEF DescriptorIsValid, senseHeaderLen
<1>2. AdditionalSenseLength(s) \in Byte
  BY <1>1, ByteAt DEF AdditionalSenseLength
<1>3. ASSUME NEW i \in 0..(AdditionalSenseLength(s) - 1) PROVE At(s, 8 + i) \in Byte
  <2>1. AdditionalSenseLength(s) \in Nat
    BY <1>2, BytesAreNat
  <2>2. 8 + i \in 0..(Len(s) - 1)
    BY <1>1, <2>1
  <2>3. QED
    BY <2>2, ByteAt
<1>4. QED
  BY <1>1, <1>2, <1>3 DEF senseHeaderLen

\* Where the next descriptor starts, or -1.
After(s, o) == IF o # -1 /\ IsComplete(s, o) THEN DescriptorEnd(s, o) ELSE -1

LEMMA AfterType ==
  ASSUME NEW s \in Seq(Byte), DescriptorIsValid(s), NEW o \in Nat \cup {-1}
  PROVE  /\ After(s, o) \in Nat \cup {-1}
         /\ After(s, o) # -1 => o # -1 /\ o + 2 <= After(s, o) /\ After(s, o) <= AdditionalSenseLength(s)
<1> SUFFICES ASSUME o # -1, IsComplete(s, o)
             PROVE  /\ DescriptorEnd(s, o) \in Nat
                    /\ o + 2 <= DescriptorEnd(s, o) /\ DescriptorEnd(s, o) <= AdditionalSenseLength(s)
  BY DEF After
<1>1. AdditionalSenseLength(s) \in Nat /\ o \in Nat /\ o + 2 <= AdditionalSenseLength(s)
  BY AreaInBuffer, BytesAreNat DEF IsComplete, descHeaderLen
<1>2. At(s, senseHeaderLen + (o + 1)) \in Nat
  <2>1. o + 1 \in 0..(AdditionalSenseLength(s) - 1)
    BY <1>1
  <2>2. QED
    BY <2>1, AreaInBuffer, BytesAreNat
<1>3. senseHeaderLen + (o + 1) = senseHeaderLen + o + 1
  BY <1>1 DEF senseHeaderLen
<1>4. QED
  BY <1>1, <1>2, <1>3 DEF DescriptorEnd, IsComplete, descHeaderLen

\* Starts is what its recursion says, for every buffer with a descriptor area.
LEMMA StartsOf ==
  ASSUME NEW s \in Seq(Byte), DescriptorIsValid(s)
  PROVE  /\ Starts(s) \in [Nat -> Nat \cup {-1}]
         /\ Starts(s)[0] = 0
         /\ \A n \in Nat : Starts(s)[n + 1] = After(s, Starts(s)[n])
<1> DEFINE D == Nat \cup {-1}
           F == [o \in D |-> After(s, o)]
           Chain(g) == [n \in Nat |-> IF n = 0 THEN 0
                                       ELSE LET o == g[n - 1]
                                            IN  IF o # -1 /\ IsComplete(s, o) THEN DescriptorEnd(s, o) ELSE -1]
           st == Starts(s)
<1>1. F \in [D -> D]
  BY AfterType
<1>2. PICK f \in [Nat -> D] : Iterates(f, F, 0)
  <2>1. 0 \in D
    OBVIOUS
  <2> HIDE DEF F, D
  <2>2. QED
    BY <1>1, <2>1, Iteration, Zenon
<1>a. f[0] = 0 /\ \A n \in Nat : f[n + 1] = F[f[n]]
  BY <1>2 DEF Iterates
<1>3. f = Chain(f)
  <2>1. ASSUME NEW n \in Nat PROVE f[n] = Chain(f)[n]
    <3>1. CASE n = 0
      BY <1>a, <3>1
    <3>2. CASE n # 0
      <4>0. n - 1 \in Nat /\ (n - 1) + 1 = n
        BY <3>2
      <4>1. f[n - 1] \in D /\ f[n] = F[f[n - 1]]
        BY <1>a, <4>0
      <4>2. f[n] = After(s, f[n - 1])
        BY <4>1, <3>2
      <4>3. QED
        BY <3>2, <4>2 DEF After
    <3>3. QED
      BY <3>1, <3>2
  <2>2. QED
    BY <2>1
<1>4. st = Chain(st)
  <2>1. st = CHOOSE g : g = Chain(g)
    BY DEF Starts
  <2> HIDE DEF st, Chain
  <2>2. QED
    BY <1>3, <2>1
<1>5. st[0] = 0
  <2>1. Chain(st)[0] = 0
    OBVIOUS
  <2> HIDE DEF st, Chain
  <2>2. QED
    BY <1>4, <2>1
<1>6. ASSUME NEW n \in Nat PROVE st[n + 1] = After(s, st[n])
  <2>1. Chain(st)[n + 1] = After(s, st[n])
    BY DEF After
  <2> HIDE DEF st, Chain
  <2>2. QED
    BY <1>4, <2>1
<1> HIDE DEF st
<1>7. ASSUME NEW n \in Nat PROVE st[n] \in D
  <2> DEFINE S == {k \in Nat : st[k] \in D}
  <2>1. 0 \in S
    BY <1>5
  <2>2. ASSUME NEW k \in Nat, k \in S PROVE k + 1 \in S
    <3>1. st[k + 1] = After(s, st[k]) /\ st[k] \in D
      BY <1>6, <2>2
    <3>2. After(s, st[k]) \in D
      BY <3>1, AfterType
    <3>3. QED
      BY <3>1, <3>2
  <2> HIDE DEF S
  <2>3. n \in S
    BY <2>1, <2>2, Induction
  <2>4. QED
    BY <2>3 DEF S
<1>8. st \in [Nat -> D]
  <2>1. st = [n \in Nat |-> st[n]]
    <3>1. \E h : st = [n \in Nat |-> h[n]]
      BY <1>4
    <3>2. QED
      BY <3>1
  <2>2. QED
    BY <1>7, <2>1
<1>9. QED
  BY <1>5, <1>6, <1>8 DEF st

\* A descriptor has a header, so the n-th is at 2n or later; a chain that has
\* run over the end of the area has ended for good.
LEMMA ChainGrows ==
  ASSUME NEW s \in Seq(Byte), DescriptorIsValid(s), NEW n \in Nat, Starts(s)[n] # -1
  PROVE  2 * n <= Starts(s)[n] /\ Starts(s)[n] <= AdditionalSenseLength(s)
<1> DEFINE S == {k \in Nat : Starts(s)[k] # -1 =>
                    2 * k <= Starts(s)[k] /\ Starts(s)[k] <= AdditionalSenseLength(s)}
<1>1. AdditionalSenseLength(s) \in Nat
  BY AreaInBuffer, BytesAreNat
<1>2. 0 \in S
  <2>1. Starts(s)[0] = 0
    BY StartsOf
  <2>2. QED
    BY <1>1, <2>1
<1>3. ASSUME NEW k \in Nat, k \in S PROVE k + 1 \in S
  <2> DEFINE o == Starts(s)[k]
             p == Starts(s)[k + 1]
  <2>1. o \in Nat \cup {-1} /\ p = After(s, o)
    BY StartsOf
  <2>2. p \in Nat \cup {-1} /\ (p # -1 => o # -1 /\ o + 2 <= p /\ p <= AdditionalSenseLength(s))
    BY <2>1, AfterType
  <2>3. o # -1 => 2 * k <= o
    BY <1>3
  <2> HIDE DEF o, p
  <2>4. p # -1 => 2 * (k + 1) <= p /\ p <= AdditionalSenseLength(s)
    BY <2>1, <2>2, <2>3
  <2>5. QED
    BY <2>4 DEF p
<1> HIDE DEF S
<1>4. n \in S
  BY <1>2, <1>3, Induction
<1>5. QED
  BY <1>4 DEF S

LEMMA ChainEnds ==
  ASSUME NEW s \in Seq(Byte), DescriptorIsValid(s), NEW n \in Nat, ~IsComplete(s, Starts(s)[n]),
         NEW m \in Nat, m > n
  PROVE  Starts(s)[m] = -1
<1> DEFINE S == {k \in Nat : k > n => Starts(s)[k] = -1}
<1>1. 0 \in S
  OBVIOUS
<1>2. ASSUME NEW k \in Nat, k \in S PROVE k + 1 \in S
  <2>1. Starts(s)[k + 1] = After(s, Starts(s)[k])
    BY StartsOf
  <2>2. k > n \/ k = n \/ k + 1 <= n
    OBVIOUS
  <2>3. k >= n => Starts(s)[k] = -1 \/ ~IsComplete(s, Starts(s)[k])
    BY <1>2, <2>2
  <2>4. k >= n => Starts(s)[k + 1] = -1
    BY <2>1, <2>3 DEF After
  <2>5. QED
    BY <2>4
<1> HIDE DEF S
<1>3. m \in S
  BY <1>1, <1>2, Induction
<1>4. QED
  BY <1>3 DEF S

LEMMA ChainStaysEnded ==
  ASSUME NEW s \in Seq(Byte), DescriptorIsValid(s), NEW n \in Nat, Starts(s)[n] = -1,
         NEW m \in Nat, m >= n
  PROVE  Starts(s)[m] = -1
<1> DEFINE S == {k \in Nat : k >= n => Starts(s)[k] = -1}
<1>1. 0 \in S
  OBVIOUS
<1>2. ASSUME NEW k \in Nat, k \in S PROVE k + 1 \in S
  <2>1. Starts(s)[k + 1] = After(s, Starts(s)[k])
    BY StartsOf
  <2>2. k >= n => Starts(s)[k + 1] = -1
    BY <1>2, <2>1 DEF After
  <2>3. k + 1 = n \/ k + 1 > n => k + 1 \in S
    BY <2>2
  <2>4. QED
    BY <2>3
<1> HIDE DEF S
<1>3. m \in S
  BY <1>1, <1>2, Induction
<1>4. QED
  BY <1>3 DEF S

\* A walk that has met no ATA Status Return descriptor and stands at one has
\* found the first; one that cannot go on has seen that there is none.
IsReturn(s, o) ==
  /\ At(s, senseHeaderLen + o) = AtaReturnDescriptor
  /\ At(s, senseHeaderLen + o + 1) >= descAtaReturnPayloadLen

LEMMA WalkFinds ==
  ASSUME NEW s \in Seq(Byte), DescriptorIsValid(s), NEW n \in Nat, Starts(s)[n] # -1,
         \A m \in 0..(n - 1) : m \notin ReturnNumbers(s),
         IsComplete(s, Starts(s)[n]), IsReturn(s, Starts(s)[n])
  PROVE  ReturnNumbers(s) # {} /\ FirstReturn(s) = Starts(s)[n]
<1>1. AdditionalSenseLength(s) \in Nat /\ Starts(s)[n] \in Nat
  BY AreaInBuffer, BytesAreNat, StartsOf
<1>2. n \in 0..(AdditionalSenseLength(s) \div descHeaderLen)
  <2>1. 2 * n <= AdditionalSenseLength(s)
    BY <1>1, ChainGrows
  <2>2. QED
    BY <1>1, <2>1 DEF descHeaderLen
<1>3. n \in ReturnNumbers(s)
  BY <1>2 DEF ReturnNumbers, IsReturn
<1>4. \A m \in ReturnNumbers(s) : m \in Nat /\ n <= m
  <2>1. \A m \in ReturnNumbers(s) : m \in Nat
    BY DEF ReturnNumbers
  <2>2. QED
    BY <2>1
<1>5. (CHOOSE k \in ReturnNumbers(s) : \A m \in ReturnNumbers(s) : k <= m) = n
  <2> DEFINE k == CHOOSE k \in ReturnNumbers(s) : \A m \in ReturnNumbers(s) : k <= m
  <2>1. k \in ReturnNumbers(s) /\ \A m \in ReturnNumbers(s) : k <= m
    BY <1>3, <1>4
  <2> HIDE DEF k
  <2>2. k \in Nat /\ n <= k /\ k <= n
    BY <1>3, <1>4, <2>1
  <2>3. k = n
    BY <2>2
  <2>4. QED
    BY <2>3 DEF k
<1>6. QED
  BY <1>3, <1>5 DEF FirstReturn

LEMMA WalkFindsNone ==
  ASSUME NEW s \in Seq(Byte), DescriptorIsValid(s), NEW n \in Nat,
         \A m \in 0..(n - 1) : m \notin ReturnNumbers(s),
         ~IsComplete(s, Starts(s)[n])
  PROVE  ReturnNumbers(s) = {}
<1> SUFFICES ASSUME NEW m \in ReturnNumbers(s) PROVE FALSE
  OBVIOUS
<1>1. m \in Nat /\ Starts(s)[m] # -1 /\ IsComplete(s, Starts(s)[m])
  BY DEF ReturnNumbers
<1>2. m >= n
  BY <1>1
<1>3. m # n
  BY <1>1
<1>4. QED
  BY <1>1, <1>2, <1>3, ChainEnds

-----------------------------------------------------------------------------
(* Reports are read as what they say.                                      *)

Reports(s, regs) ==
  /\ CarriesRegisters(s)
  /\ Register(s, "status") = regs.status
  /\ Register(s, "error") = regs.error
  /\ Register(s, "count") = regs.count

LEMMA FixedIsRead ==
  ASSUME NEW regs \in AtaRegisters
  PROVE  FixedReport(regs) # <<>> /\ Reports(FixedReport(regs), regs)
<1> DEFINE s == FixedReport(regs)
<1>1. /\ Len(s) = 18 /\ s[1] = 112 /\ s[3] = 1 /\ s[4] = regs.error /\ s[5] = regs.status
      /\ s[7] = regs.count /\ s[13] = 0 /\ s[14] = 29
  BY DEF FixedReport, FixedFormat, RecoveredError, AtaPtInfoASC, AtaPtInfoASCQ
<1> HIDE DEF s
<1>2. HasResponseCode(s) /\ IsFixedFormat(s) /\ FixedIsValid(s)
  BY <1>1 DEF HasResponseCode, IsFixedFormat, Format, ResponseCode, At, FixedFormat, FixedIsValid,
             fixedSenseMinLen
<1>3. IsAtaPassThroughInfo(s)
  BY <1>1, <1>2 DEF IsAtaPassThroughInfo, At, RecoveredError, AtaPtInfoASC, AtaPtInfoASCQ
<1>4. \A reg : Register(s, reg) = At(s, FixedRegister[reg])
  BY <1>2 DEF Register
<1>5. FixedRegister["error"] = 3 /\ FixedRegister["status"] = 4 /\ FixedRegister["count"] = 6
  BY DEF FixedRegister
<1>6. Reports(s, regs)
  BY <1>1, <1>2, <1>3, <1>4, <1>5 DEF Reports, CarriesRegisters, At
<1>7. s # <<>>
  BY <1>1
<1>8. QED
  BY <1>6, <1>7 DEF s

Joins(p, a, b) ==
  /\ Len(p) = Len(a) + Len(b)
  /\ \A i \in 1..Len(a) : p[i] = a[i]
  /\ \A i \in 1..Len(b) : p[Len(a) + i] = b[i]

LEMMA Concatenation ==
  ASSUME NEW S, NEW a \in Seq(S), NEW b \in Seq(S)
  PROVE  a \o b \in Seq(S) /\ Joins(a \o b, a, b)
BY DEF Joins

\* A header with its descriptor area behind it.
IsArea(s, p) ==
  /\ s \in Seq(Byte) /\ Len(s) = 8 + Len(p)
  /\ s[1] = 114 /\ s[2] = 1 /\ s[3] = 0 /\ s[4] = 29 /\ s[8] = Len(p)
  /\ \A i \in 1..Len(p) : s[8 + i] = p[i]

LEMMA HeaderAndArea ==
  ASSUME NEW p \in Seq(Byte), Len(p) <= 255
  PROVE  IsArea(SenseHeader(114, 1, 0, 29, Len(p)) \o p, p)
<1> DEFINE l == Len(p)
           h == SenseHeader(114, 1, 0, 29, l)
           s == h \o p
<1>1. l \in Byte /\ l \in Nat /\ l = Len(p)
  BY BytesAreNat
<1> HIDE DEF l
<1>2. h \in Seq(Byte) /\ Len(h) = 8 /\ h[1] = 114 /\ h[2] = 1 /\ h[3] = 0 /\ h[4] = 29 /\ h[8] = l
  <2>1. l \in Byte => SenseHeader(114, 1, 0, 29, l) \in Seq(Byte)
    BY DEF SenseHeader, Byte
  <2>2. QED
    BY <1>1, <2>1 DEF SenseHeader
<1> HIDE DEF h
<1>3. s \in Seq(Byte) /\ Joins(s, h, p)
  BY <1>2, Concatenation, Zenon
<1> HIDE DEF s
<1>4. Len(s) = 8 + l /\ (\A i \in 1..8 : s[i] = h[i]) /\ (\A i \in 1..l : s[8 + i] = p[i])
  BY <1>1, <1>2, <1>3 DEF Joins
<1>5. /\ s[1] = h[1] /\ s[2] = h[2] /\ s[3] = h[3] /\ s[4] = h[4] /\ s[8] = h[8]
  BY <1>4
<1>6. IsArea(s, p)
  BY <1>1, <1>2, <1>3, <1>4, <1>5 DEF IsArea
<1>7. QED
  BY <1>6 DEF s, h, l

LEMMA ReportBytes ==
  ASSUME NEW regs \in AtaRegisters, NEW before \in Seq(Byte), Len(before) <= 241
  PROVE  LET s == DescriptorReport(before, regs)
             k == Len(before)
         IN  /\ s \in Seq(Byte) /\ Len(s) = 22 + k
             /\ s[1] = 114 /\ s[2] = 1 /\ s[3] = 0 /\ s[4] = 29 /\ s[8] = 14 + k
             /\ \A i \in 1..k : s[8 + i] = before[i]
             /\ s[9 + k] = 9 /\ s[10 + k] = 12
             /\ s[12 + k] = regs.error /\ s[14 + k] = regs.count /\ s[22 + k] = regs.status
<1> DEFINE r == ReturnDescriptor(regs)
           p == before \o r
           s == DescriptorReport(before, regs)
           k == Len(before)
<1>1. regs.status \in Byte /\ regs.error \in Byte /\ regs.count \in Byte
  BY DEF AtaRegisters
<1>2. /\ r \in Seq(Byte) /\ Len(r) = 14 /\ r[1] = 9 /\ r[2] = 12
      /\ r[4] = regs.error /\ r[6] = regs.count /\ r[14] = regs.status
  BY <1>1 DEF ReturnDescriptor, AtaReturnDescriptor, descAtaReturnPayloadLen, Byte
<1> HIDE DEF r
<1>a. k \in Nat /\ k <= 241 /\ k = Len(before)
  OBVIOUS
<1> HIDE DEF k
<1>3. /\ p \in Seq(Byte) /\ Len(p) = k + 14
      /\ \A i \in 1..k : p[i] = before[i]
      /\ \A i \in 1..14 : p[k + i] = r[i]
  <2>1. p \in Seq(Byte) /\ Joins(p, before, r)
    BY <1>2, Concatenation, Zenon
  <2> HIDE DEF p
  <2>2. QED
    BY <1>2, <1>a, <2>1 DEF Joins
<1>4. s = SenseHeader(114, 1, 0, 29, Len(p)) \o p
  BY DEF DescriptorReport, DescriptorFormat, RecoveredError, AtaPtInfoASC, AtaPtInfoASCQ, r
<1> HIDE DEF p, s
<1>5. /\ s \in Seq(Byte) /\ Len(s) = 8 + Len(p)
      /\ s[1] = 114 /\ s[2] = 1 /\ s[3] = 0 /\ s[4] = 29 /\ s[8] = Len(p)
      /\ \A i \in 1..Len(p) : s[8 + i] = p[i]
  <2>1. p \in Seq(Byte) /\ Len(p) <= 255
    BY <1>3, <1>a
  <2>2. IsArea(s, p)
    BY <1>4, <2>1, HeaderAndArea, Zenon
  <2>3. QED
    BY <2>2, Zenon DEF IsArea
<1>6. /\ s \in Seq(Byte) /\ Len(s) = 22 + k /\ s[8] = 14 + k
      /\ \A i \in 1..(k + 14) : s[8 + i] = p[i]
  BY <1>3, <1>5, <1>a
<1>7. ASSUME NEW i \in 1..k PROVE s[8 + i] = before[i]
  <2>1. i \in 1..(k + 14)
    BY <1>a
  <2>2. QED
    BY <1>3, <1>6, <2>1
<1>8. ASSUME NEW i \in 1..14 PROVE s[8 + k + i] = r[i]
  <2>1. k + i \in 1..(k + 14) /\ 8 + (k + i) = 8 + k + i
    BY <1>a
  <2>2. QED
    BY <1>3, <1>6, <2>1
<1>9. /\ s[9 + k] = r[1] /\ s[10 + k] = r[2] /\ s[12 + k] = r[4] /\ s[14 + k] = r[6] /\ s[22 + k] = r[14]
  <2>1. 8 + k + 1 = 9 + k /\ 8 + k + 2 = 10 + k /\ 8 + k + 4 = 12 + k /\ 8 + k + 6 = 14 + k /\ 8 + k + 14 = 22 + k
    BY <1>a
  <2>2. QED
    BY <1>8, <2>1
<1>10. QED
  BY <1>2, <1>5, <1>6, <1>7, <1>9 DEF s, k

\* Two descriptor areas that begin with the same k bytes: a chain that gets to
\* k in the shorter one, of k bytes, gets there in the longer one and meets
\* the same descriptors on the way.
LEMMA ChainContinues ==
  ASSUME NEW t \in Seq(Byte), DescriptorIsValid(t), NEW s \in Seq(Byte), DescriptorIsValid(s),
         AdditionalSenseLength(t) <= AdditionalSenseLength(s),
         \A i \in 0..(AdditionalSenseLength(t) - 1) :
            At(s, senseHeaderLen + i) = At(t, senseHeaderLen + i),
         ReturnNumbers(t) = {},
         NEW n \in Nat, Starts(t)[n] = AdditionalSenseLength(t)
  PROVE  /\ Starts(s)[n] = AdditionalSenseLength(t)
         /\ \A m \in 0..(n - 1) : m \notin ReturnNumbers(s)
<1> DEFINE k == AdditionalSenseLength(t)
<1>1. k \in Nat /\ AdditionalSenseLength(s) \in Nat /\ k <= AdditionalSenseLength(s)
  BY AreaInBuffer, BytesAreNat
<1>2. ASSUME NEW m \in 0..(n - 1)
      PROVE  /\ Starts(t)[m] \in Nat /\ Starts(t)[m] <= k /\ m <= k \div descHeaderLen
             /\ IsComplete(t, Starts(t)[m]) /\ After(t, Starts(t)[m]) = DescriptorEnd(t, Starts(t)[m])
             /\ IsComplete(s, Starts(t)[m]) /\ After(s, Starts(t)[m]) = DescriptorEnd(t, Starts(t)[m])
             /\ IsReturn(s, Starts(t)[m]) => IsReturn(t, Starts(t)[m])
  <2> DEFINE o == Starts(t)[m]
  <2>1. m \in Nat /\ m + 1 \in Nat /\ m <= n /\ m + 1 <= n
    OBVIOUS
  <2>2. o # -1 /\ Starts(t)[m + 1] # -1
    BY <1>1, <2>1, ChainStaysEnded
  <2>3. o \in Nat /\ 2 * m <= o /\ o <= k
    BY <2>1, <2>2, StartsOf, ChainGrows
  <2>4. Starts(t)[m + 1] = After(t, o)
    BY <2>1, StartsOf
  <2> HIDE DEF o
  <2>5. IsComplete(t, o) /\ After(t, o) = DescriptorEnd(t, o)
    BY <2>2, <2>4 DEF After
  <2>6. o + 2 <= k
    BY <2>5 DEF IsComplete, descHeaderLen
  <2>7. At(s, senseHeaderLen + o) = At(t, senseHeaderLen + o)
    BY <1>1, <2>3, <2>6
  <2>8. At(s, senseHeaderLen + o + 1) = At(t, senseHeaderLen + o + 1)
    <3>1. o + 1 \in 0..(k - 1) /\ senseHeaderLen + (o + 1) = senseHeaderLen + o + 1
      BY <1>1, <2>3, <2>6 DEF senseHeaderLen
    <3>2. QED
      BY <3>1
  <2>9. DescriptorEnd(s, o) = DescriptorEnd(t, o) /\ DescriptorEnd(t, o) \in Int
    <3>1. After(t, o) \in Nat \cup {-1}
      BY <2>3, AfterType
    <3>2. QED
      BY <2>5, <2>8, <3>1 DEF DescriptorEnd
  <2>10. IsComplete(s, o) /\ After(s, o) = DescriptorEnd(t, o)
    <3>1. IsComplete(s, o)
      BY <1>1, <2>3, <2>5, <2>6, <2>9 DEF IsComplete, descHeaderLen
    <3>2. QED
      BY <2>3, <2>9, <3>1 DEF After
  <2>11. m <= k \div descHeaderLen
    BY <1>1, <2>1, <2>3 DEF descHeaderLen
  <2>12. IsReturn(s, o) => IsReturn(t, o)
    BY <2>7, <2>8 DEF IsReturn
  <2>13. QED
    BY <2>3, <2>5, <2>10, <2>11, <2>12 DEF o
<1> DEFINE S == {m \in Nat : m <= n => Starts(s)[m] = Starts(t)[m]}
<1>3. 0 \in S
  BY StartsOf
<1>4. ASSUME NEW m \in Nat, m \in S PROVE m + 1 \in S
  <2> SUFFICES ASSUME m + 1 <= n PROVE Starts(s)[m + 1] = Starts(t)[m + 1]
    OBVIOUS
  <2>1. m \in 0..(n - 1) /\ Starts(s)[m] = Starts(t)[m]
    BY <1>4
  <2>2. Starts(s)[m + 1] = After(s, Starts(s)[m]) /\ Starts(t)[m + 1] = After(t, Starts(t)[m])
    BY StartsOf
  <2>3. QED
    BY <1>2, <2>1, <2>2
<1> HIDE DEF S
<1>5. ASSUME NEW m \in 0..n PROVE Starts(s)[m] = Starts(t)[m]
  <2>1. m \in Nat /\ m <= n /\ m \in S
    BY <1>3, <1>4, Induction
  <2>2. QED
    BY <2>1 DEF S
<1>6. ASSUME NEW m \in 0..(n - 1) PROVE m \notin ReturnNumbers(s)
  <2>1. Starts(s)[m] = Starts(t)[m]
    BY <1>5
  <2>2. m \in ReturnNumbers(s) => IsReturn(s, Starts(t)[m])
    BY <2>1 DEF ReturnNumbers, IsReturn
  <2>3. IsReturn(t, Starts(t)[m]) => m \in ReturnNumbers(t)
    <3>1. m \in 0..(k \div descHeaderLen) /\ Starts(t)[m] # -1 /\ IsComplete(t, Starts(t)[m])
      BY <1>1, <1>2 DEF descHeaderLen
    <3>2. QED
      BY <3>1 DEF ReturnNumbers, IsReturn
  <2>4. QED
    BY <1>2, <2>2, <2>3
<1>7. QED
  BY <1>5, <1>6

LEMMA DescriptorIsRead ==
  ASSUME NEW regs \in AtaRegisters, NEW before, MayLead(before)
  PROVE  DescriptorReport(before, regs) # <<>> /\ Reports(DescriptorReport(before, regs), regs)
<1> DEFINE s == DescriptorReport(before, regs)
           k == Len(before)
<1>a. before \in Seq(Byte) /\ k \in Nat /\ k <= 241
  BY DEF MayLead, MaxLeading, descHeaderLen, descAtaReturnPayloadLen
<1>1. /\ s \in Seq(Byte) /\ Len(s) = 22 + k
      /\ s[1] = 114 /\ s[2] = 1 /\ s[3] = 0 /\ s[4] = 29 /\ s[8] = 14 + k
      /\ \A i \in 1..k : s[8 + i] = before[i]
      /\ s[9 + k] = 9 /\ s[10 + k] = 12
      /\ s[12 + k] = regs.error /\ s[14 + k] = regs.count /\ s[22 + k] = regs.status
  BY <1>a, ReportBytes, Zenon
<1>2. k \in Nat /\ k <= 241
  BY <1>a
<1> HIDE DEF s, k
<1>4. /\ HasResponseCode(s) /\ DescriptorIsValid(s) /\ AdditionalSenseLength(s) = 14 + k
      /\ IsDescriptorFormat(s) /\ ~IsFixedFormat(s)
  BY <1>1, <1>2, SMT DEF HasResponseCode, DescriptorIsValid, AdditionalSenseLength, IsDescriptorFormat,
                    IsFixedFormat, Format, ResponseCode, At, FixedFormat, DescriptorFormat, senseHeaderLen
<1>5. IsAtaPassThroughInfo(s)
  BY <1>1, <1>4 DEF IsAtaPassThroughInfo, At, RecoveredError, AtaPtInfoASC, AtaPtInfoASCQ
<1>7. /\ At(s, senseHeaderLen + k) = 9 /\ At(s, senseHeaderLen + k + 1) = 12
      /\ At(s, senseHeaderLen + k + 3) = regs.error
      /\ At(s, senseHeaderLen + k + 5) = regs.count
      /\ At(s, senseHeaderLen + k + 13) = regs.status
  <2>1. /\ 8 + k + 1 = 9 + k /\ 8 + k + 1 + 1 = 10 + k /\ 8 + k + 3 + 1 = 12 + k
        /\ 8 + k + 5 + 1 = 14 + k /\ 8 + k + 13 + 1 = 22 + k
    BY <1>2
  <2>2. QED
    BY <1>1, <2>1 DEF At, senseHeaderLen
<1>8. IsComplete(s, k) /\ IsReturn(s, k)
  <2>1. DescriptorEnd(s, k) = k + 2 + 12
    BY <1>7 DEF DescriptorEnd, descHeaderLen
  <2>2. QED
    BY <1>2, <1>4, <1>7, <2>1 DEF IsComplete, IsReturn, descHeaderLen, AtaReturnDescriptor,
                                  descAtaReturnPayloadLen
<1>9. ReturnNumbers(s) # {} /\ FirstReturn(s) = k
  <2> DEFINE t == SenseHeader(114, 1, 0, 29, k) \o before
  <2>1. /\ t \in Seq(Byte) /\ Len(t) = 8 + k /\ t[8] = k
        /\ \A i \in 1..k : t[8 + i] = before[i]
    <3>1. before \in Seq(Byte) /\ Len(before) <= 255
      BY <1>a, <1>2 DEF k
    <3>2. IsArea(t, before)
      BY <3>1, HeaderAndArea, Zenon DEF k
    <3> HIDE DEF t
    <3>3. QED
      BY <3>2 DEF IsArea, k
  <2>2. ReturnNumbers(t) = {} /\ \E n \in 0..k : Starts(t)[n] = k
    BY DEF MayLead, DescriptorFormat, RecoveredError, AtaPtInfoASC, AtaPtInfoASCQ, k
  <2> HIDE DEF t
  <2>3. DescriptorIsValid(t) /\ AdditionalSenseLength(t) = k
    BY <1>2, <2>1 DEF DescriptorIsValid, AdditionalSenseLength, At, senseHeaderLen
  <2>4. \A i \in 0..(k - 1) : At(s, senseHeaderLen + i) = At(t, senseHeaderLen + i)
    <3> SUFFICES ASSUME NEW i \in 0..(k - 1) PROVE s[8 + i + 1] = t[8 + i + 1]
      BY DEF At, senseHeaderLen
    <3>1. i + 1 \in 1..k /\ 8 + i + 1 = 8 + (i + 1)
      BY <1>2
    <3>2. QED
      BY <1>1, <2>1, <3>1
  <2>5. PICK n \in 0..k : Starts(t)[n] = k
    BY <2>2
  <2>6. n \in Nat /\ k <= AdditionalSenseLength(s)
    BY <1>2, <1>4
  <2>7. Starts(s)[n] = k /\ \A m \in 0..(n - 1) : m \notin ReturnNumbers(s)
    <3>1. /\ AdditionalSenseLength(t) <= AdditionalSenseLength(s)
          /\ Starts(t)[n] = AdditionalSenseLength(t)
          /\ \A i \in 0..(AdditionalSenseLength(t) - 1) :
               At(s, senseHeaderLen + i) = At(t, senseHeaderLen + i)
      BY <2>3, <2>4, <2>5, <2>6
    <3>2. /\ Starts(s)[n] = AdditionalSenseLength(t)
          /\ \A m \in 0..(n - 1) : m \notin ReturnNumbers(s)
      BY <1>1, <1>4, <2>1, <2>2, <2>3, <2>6, <3>1, ChainContinues, Zenon
    <3>3. QED
      BY <2>3, <3>2
  <2>8. Starts(s)[n] # -1 /\ IsComplete(s, Starts(s)[n]) /\ IsReturn(s, Starts(s)[n])
    BY <1>2, <1>8, <2>7
  <2>9. QED
    BY <1>1, <1>4, <2>6, <2>7, <2>8, WalkFinds
<1>10. \A reg : Register(s, reg) = At(s, senseHeaderLen + k + DescriptorRegister[reg])
  BY <1>4, <1>9 DEF Register
<1>11. /\ DescriptorRegister["error"] = 3 /\ DescriptorRegister["count"] = 5
       /\ DescriptorRegister["status"] = 13
  BY DEF DescriptorRegister
<1>12. Reports(s, regs)
  BY <1>4, <1>5, <1>7, <1>9, <1>10, <1>11 DEF Reports, CarriesRegisters
<1>13. s # <<>>
  BY <1>1, <1>2
<1>14. QED
  BY <1>12, <1>13 DEF s
=============================================================================
