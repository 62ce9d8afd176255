--------------------------- MODULE TemperatureWords ---------------------------
(***************************************************************************)
(* Raw values of SMART attributes (src/sata.go): how computeAttributeRaw-  *)
(* Value puts them together from the bytes of a table entry, and what      *)
(* ParseAsTemperature and ParseAsDuration take them for.  A raw value is   *)
(* its eight bytes, least significant first: TLC's integers are narrower.  *)
(***************************************************************************)
EXTENDS Integers, Sequences

Raw  == [1..8 -> 0..255]
Zero == [i \in 1..8 |-> 0]

\* uint64(n) of a number of at most 32 bits: two's complement.
Weight == <<1, 256, 65536, 16777216>>
UInt64(n) ==
  [i \in 1..8 |-> IF i <= 4 THEN (n \div Weight[i]) % 256 ELSE IF n < 0 THEN 255 ELSE 0]

\* The types that take more than the six vendor bytes.
Wide64 == {"Raw64", "Hex64"}
Wide56 == {"Raw56", "Hex56", "Raw24DivRaw32", "Msec24Hour32"}

\* The order of the bytes, most significant first: "543210" and so on.  What
\* the drive database says of it is overwritten for every type.
ByteOrder(mapping) ==
  IF mapping.type \in Wide64 THEN <<"5", "4", "3", "2", "1", "0", "w", "v">>
  ELSE IF mapping.type \in Wide56 THEN <<"r", "5", "4", "3", "2", "1", "0">>
  ELSE <<"5", "4", "3", "2", "1", "0">>

\* The byte of a table entry that a character of the order stands for.
Selected(c, entry) ==
  CASE c = "0" -> entry.vendor[1] [] c = "1" -> entry.vendor[2] [] c = "2" -> entry.vendor[3]
    [] c = "3" -> entry.vendor[4] [] c = "4" -> entry.vendor[5] [] c = "5" -> entry.vendor[6]
    [] c = "r" -> entry.reserved  [] c = "v" -> entry.current   [] c = "w" -> entry.worst
    [] OTHER   -> 0

Assembled(order, entry) ==
  [i \in 1..8 |-> IF i <= Len(order) THEN Selected(order[Len(order) + 1 - i], entry) ELSE 0]

computeAttributeRawValue(mapping, entry) == Assembled(ByteOrder(mapping), entry)

-----------------------------------------------------------------------------
(* Temperatures.                                                           *)

Int8(b) == IF b < 128 THEN b ELSE b - 256
Word(raw, i) == raw[2 * i + 1] + 256 * raw[2 * i + 2]

\* checkTempWord's bit mask: the readings that make a word a temperature.
checkTempWord(w) ==
  {r \in {"byte", "word"} : \/ w <= 127
                            \/ r = "byte" /\ w <= 255
                            \/ r = "word" /\ w >= 65408}

\* checkTempRange: the range that two bytes stand for around a temperature.
Plausible_LowerBound(t, lo, hi) ==
  -60 <= lo /\ lo <= t /\ hi <= 120 /\ ~(lo = -1 /\ hi <= 0)
Plausible(t, lo, hi) ==
  -60 <= lo /\ lo <= t /\ t <= hi /\ hi <= 120 /\ ~(lo = -1 /\ hi <= 0)

checkTempRange(t, t1, t2) ==
  LET lo == IF t1 > t2 THEN t2 ELSE t1
      hi == IF t1 > t2 THEN t1 ELSE t2
  IN  [ok |-> Plausible(t, lo, hi), lo |-> lo, hi |-> hi]

NoTemperature == [ok |-> FALSE, val |-> 0, lo |-> 0, hi |-> 0, over |-> 0]
Temperature(v) == [ok |-> TRUE, val |-> v, lo |-> 0, hi |-> 0, over |-> 0]
Ranged(v, r, n) == [ok |-> TRUE, val |-> v, lo |-> r.lo, hi |-> r.hi, over |-> n]

\* AtaDeviceAttributeTypeTempMinMax.  The forms of the six bytes overlap; the
\* order of the tests tells them apart.
TempMinMax(raw) ==
  LET b(i)  == Int8(raw[i + 1])
      range(i, j) == checkTempRange(b(0), b(i), b(j))
      word1 == Word(raw, 1)
      word2 == Word(raw, 2)
      ctw0  == checkTempWord(Word(raw, 0))
      words == ctw0 \cap checkTempWord(word1) \cap checkTempWord(word2)
  IN  IF word2 = 0
      THEN IF word1 = 0 /\ ctw0 # {}              THEN Temperature(b(0))
           ELSE IF ctw0 # {} /\ range(2, 3).ok    THEN Ranged(b(0), range(2, 3), 0)
           ELSE IF b(3) = 0 /\ range(1, 2).ok     THEN Ranged(b(0), range(1, 2), 0)
           ELSE Temperature(b(0))
      ELSE IF words # {} /\ range(2, 4).ok        THEN Ranged(b(0), range(2, 4), 0)
           ELSE IF /\ ctw0 # {} /\ word2 < 32767
                   /\ range(2, 3).ok /\ range(2, 3).hi >= 40
                                                  THEN Ranged(b(0), range(2, 3), word2)
           ELSE Temperature(b(0))

ParseAsTemperature(attr) ==
  CASE attr.type = "Temp10X"    -> Temperature(Word(attr.raw, 0) \div 10)
    [] attr.type = "TempMinMax" -> TempMinMax(attr.raw)
    [] OTHER                    -> NoTemperature

-----------------------------------------------------------------------------
(* Durations, in whole hours.                                              *)

Counters == [Sec2Hour |-> 3600, HalfMin2Hour |-> 120, Min2Hour |-> 60]

\* The largest counters whose nanoseconds fit an int64, in words.
Limit == [Sec2Hour |-> <<140737, 32004>>, HalfMin2Hour |-> <<4691, 16358>>,
          Min2Hour |-> <<2345, 40947>>, Msec24Hour32 |-> <<39, 6143>>]

\* Stands for the number of hours an int64 that has wrapped around amounts to.
Wrapped == -1

Fits(type, hi, lo) == hi < Limit[type][1] \/ (hi = Limit[type][1] /\ lo <= Limit[type][2])
Quotient(hi, lo, d) == (hi \div d) * 65536 + ((hi % d) * 65536 + lo) \div d

\* ParseAsDuration; Min2Hour and Msec24Hour32 count in the low 32 bits.
HoursOf(type, raw) ==
  LET lo == Word(raw, 0)
      hi == IF type \in {"Min2Hour", "Msec24Hour32"} THEN Word(raw, 1)
            ELSE Word(raw, 1) + 65536 * raw[5]
      ms == raw[5] + 256 * raw[6] + 65536 * raw[7]
      overflows == \/ ~Fits(type, hi, lo)
                   \/ type \in {"Sec2Hour", "HalfMin2Hour"} /\ \E i \in 6..8 : raw[i] # 0
                   \/ type = "Msec24Hour32" /\ <<hi, lo>> = Limit[type] /\ ms > 2836854
  IN  IF overflows THEN Wrapped
      ELSE IF type = "Msec24Hour32" THEN hi * 65536 + lo + ms \div 3600000
      ELSE Quotient(hi, lo, Counters[type])

ParseAsDuration(attr) ==
  IF attr.type \in DOMAIN Limit THEN [ok |-> TRUE, hours |-> HoursOf(attr.type, attr.raw)]
  ELSE [ok |-> FALSE, hours |-> 0]
=============================================================================
