--------------------------- MODULE RiscvEmuProofs ---------------------------
(***************************************************************************)
(* The register invariant of the emulator, for every width of the machine,  *)
(* number of registers, program, memory image and input.                    *)
(*                                                                         *)
(* The first half of the module is arithmetic: what the operations of the   *)
(* machine (Univac1219) compute, the range of each result and the number it *)
(* stands for.  The second half is the emulator: what its handlers leave in   *)
(* registers and memory.                                                    *)
(***************************************************************************)
EXTENDS Startup, TLAPS

USE BYTEBITSAssumption

-----------------------------------------------------------------------------
(* Widths *)

LEMMA Widths ==
  \/ BYTEBITS = 2 /\ BYTE = 4   /\ HALF = 16    /\ WORD = 64     /\ HIMOD = 4
     /\ WBITS = 6  /\ XLEN = 8
  \/ BYTEBITS = 4 /\ BYTE = 16  /\ HALF = 256   /\ WORD = 1024   /\ HIMOD = 64
     /\ WBITS = 10 /\ XLEN = 16
  \/ BYTEBITS = 8 /\ BYTE = 256 /\ HALF = 65536 /\ WORD = 262144 /\ HIMOD = 16384
     /\ WBITS = 18 /\ XLEN = 32
<1>1. CASE BYTEBITS = 2  BY <1>1 DEF BYTE, HALF, WORD, HIMOD, WBITS, XLEN
<1>2. CASE BYTEBITS = 4  BY <1>2 DEF BYTE, HALF, WORD, HIMOD, WBITS, XLEN
<1>3. CASE BYTEBITS = 8  BY <1>3 DEF BYTE, HALF, WORD, HIMOD, WBITS, XLEN
<1>4. QED  BY <1>1, <1>2, <1>3

(* No shift is longer than the 36 bits of A. *)
LEMMA PowerPositive ==
  ASSUME NEW n \in 0 .. 36
  PROVE  2^n \in Nat \ {0}
<1>1. \/ n = 0 \/ n = 1 \/ n = 2 \/ n = 3 \/ n = 4 \/ n = 5 \/ n = 6 \/ n = 7
      \/ n = 8 \/ n = 9 \/ n = 10 \/ n = 11 \/ n = 12 \/ n = 13 \/ n = 14
      \/ n = 15 \/ n = 16 \/ n = 17 \/ n = 18 \/ n = 19 \/ n = 20 \/ n = 21
      \/ n = 22 \/ n = 23 \/ n = 24 \/ n = 25 \/ n = 26 \/ n = 27 \/ n = 28
      \/ n = 29 \/ n = 30 \/ n = 31 \/ n = 32 \/ n = 33 \/ n = 34 \/ n = 35 \/ n = 36
  OBVIOUS
<1>2. /\ 2^0 \in Nat \ {0} /\ 2^1 \in Nat \ {0} /\ 2^2 \in Nat \ {0}
      /\ 2^3 \in Nat \ {0} /\ 2^4 \in Nat \ {0} /\ 2^5 \in Nat \ {0}
      /\ 2^6 \in Nat \ {0} /\ 2^7 \in Nat \ {0} /\ 2^8 \in Nat \ {0}
      /\ 2^9 \in Nat \ {0} /\ 2^10 \in Nat \ {0} /\ 2^11 \in Nat \ {0}
      /\ 2^12 \in Nat \ {0} /\ 2^13 \in Nat \ {0} /\ 2^14 \in Nat \ {0}
      /\ 2^15 \in Nat \ {0} /\ 2^16 \in Nat \ {0} /\ 2^17 \in Nat \ {0}
      /\ 2^18 \in Nat \ {0} /\ 2^19 \in Nat \ {0} /\ 2^20 \in Nat \ {0}
      /\ 2^21 \in Nat \ {0} /\ 2^22 \in Nat \ {0} /\ 2^23 \in Nat \ {0}
      /\ 2^24 \in Nat \ {0} /\ 2^25 \in Nat \ {0} /\ 2^26 \in Nat \ {0}
      /\ 2^27 \in Nat \ {0} /\ 2^28 \in Nat \ {0} /\ 2^29 \in Nat \ {0}
      /\ 2^30 \in Nat \ {0} /\ 2^31 \in Nat \ {0} /\ 2^32 \in Nat \ {0}
      /\ 2^33 \in Nat \ {0} /\ 2^34 \in Nat \ {0} /\ 2^35 \in Nat \ {0} /\ 2^36 \in Nat \ {0}
  OBVIOUS
<1>3. QED  BY <1>1, <1>2, ZenonT(60)

LEMMA ModBound ==
  ASSUME NEW x \in Nat, NEW m \in Nat \ {0}
  PROVE  x % m \in 0 .. x
  OBVIOUS

LEMMA PairType ==
  ASSUME NEW x \in Int
  PROVE  Pair(x) \in Word \X Word
  BY Widths DEF Pair, Word

LEMMA AddaType ==
  ASSUME NEW a \in Int \X Int, NEW m \in Int \X Int
  PROVE  ADDA(a, m) \in Word \X Word
  BY Widths DEF ADDA, Word

LEMMA SubaType ==
  ASSUME NEW a \in Int \X Int, NEW m \in Int \X Int
  PROVE  SUBA(a, m) \in Word \X Word
  BY Widths DEF SUBA, Word

LEMMA AddalType ==
  ASSUME NEW a \in Word, NEW m \in Word
  PROVE  ADDAL(a, m) \in Word
  BY Widths DEF ADDAL, Word

LEMMA MulalType ==
  ASSUME NEW a \in Word, NEW m \in Word
  PROVE  MULAL(a, m) \in Word \X Word
<1> DEFINE Mag(w) == IF Neg(w) THEN WORD - 1 - w ELSE w
<1>1. Mag(a) * Mag(m) \in Int
  BY Widths DEF Word
<1>2. Pair(Mag(a) * Mag(m)) \in Word \X Word
  BY <1>1, PairType
<1>3. QED
  BY <1>2, Widths DEF MULAL, Word

-----------------------------------------------------------------------------
(* Quotients and remainders by a divisor that is not a literal. *)

LEMMA MulGe ==
  ASSUME NEW d \in Int, d > 0, NEW k \in Int, k >= 1
  PROVE  d * k >= d
  BY SMT

LEMMA Remainder ==
  ASSUME NEW n \in Int, NEW d \in Int, d > 0
  PROVE  n % d = n - d * (n \div d)
  BY SMTT(30)

LEMMA RemainderRange ==
  ASSUME NEW n \in Int, NEW d \in Int, d > 0
  PROVE  n \div d \in Int /\ n % d \in Int /\ 0 <= n % d /\ n % d < d
<1>1. n \div d \in Int
  BY SMT
<1>2. n % d \in Int
  BY SMT
<1>3. 0 <= n % d
  BY SMT
<1>4. n % d < d
  BY SMT
<1>5. QED
  BY <1>1, <1>2, <1>3, <1>4, Zenon

LEMMA DivisionUnique ==
  ASSUME NEW d \in Int, d > 0, NEW q \in Int, NEW r \in Int, 0 <= r, r < d,
         NEW u \in Int, NEW v \in Int, 0 <= v, v < d, d * q + r = d * u + v
  PROVE  q = u /\ r = v
<1>1. d * (q - u) = v - r
  BY SMT
<1>2. CASE q - u >= 1
  BY <1>1, <1>2, MulGe, SMT
<1>3. CASE u - q >= 1
  <2>1. d * (u - q) = r - v
   BY SMT
  <2>2. QED BY <2>1, <1>3, MulGe, SMT
<1>4. QED BY <1>1, <1>2, <1>3, SMT

LEMMA Quotient ==
  ASSUME NEW n \in Int, NEW d \in Int, d > 0, NEW q \in Int, NEW r \in Int, 0 <= r, r < d,
         n = d * q + r
  PROVE  n \div d = q /\ n % d = r
<1> DEFINE u == n \div d
           v == n % d
<1>1. u \in Int /\ v \in Int /\ 0 <= v /\ v < d
  BY RemainderRange, Zenon
<1>2. v = n - d * u
  BY Remainder, Zenon
<1> HIDE DEF u, v
<1>3. d * q + r = d * u + v
  BY <1>1, <1>2, SMT
<1>4. q = u /\ r = v
  BY <1>1, <1>3, DivisionUnique, SMT
<1>5. QED BY <1>4 DEF u, v

LEMMA Nested ==
  ASSUME NEW n \in Int, NEW d \in Int, d > 0, NEW e \in Int, e > 0
  PROVE  /\ (n \div d) \div e = n \div (d * e)
         /\ n % (d * e) = d * ((n \div d) % e) + (n % d)
         /\ (n % (d * e)) % d = n % d
         /\ (n % (d * e)) \div d = (n \div d) % e
<1> DEFINE q == n \div d
           r == n % d
           s == q \div e
           t == q % e
<1>1. q \in Int /\ r \in Int /\ 0 <= r /\ r < d
  BY RemainderRange, Zenon
<1>2. r = n - d * q
  BY Remainder, Zenon
<1> HIDE DEF q, r
<1>3. s \in Int /\ t \in Int /\ 0 <= t /\ t < e
  BY <1>1, RemainderRange, Zenon
<1>4. t = q - e * s
  BY <1>1, Remainder, Zenon
<1> HIDE DEF s, t
<1>5. d * e \in Int /\ d * e > 0
  BY SMT
<1>6. d * t + r \in Int /\ 0 <= d * t + r
  BY <1>1, <1>3, SMT
<1>7. d * t + r < d * e
  <2>1. e - t \in Int /\ e - t >= 1 BY <1>3
  <2>2. d * (e - t) >= d BY <2>1, MulGe, Zenon
  <2>3. d * (e - t) = d * e - d * t BY <1>3, SMT
  <2>4. d * e \in Int /\ d * t \in Int BY <1>3, SMT
  <2>5. QED BY <2>2, <2>3, <2>4, <1>1, SMT
<1>8. n = (d * e) * s + (d * t + r)
  <2>1. n = d * q + r BY <1>1, <1>2, SMT
  <2>2. q = e * s + t BY <1>1, <1>3, <1>4, SMT
  <2>3. d * (e * s + t) = (d * e) * s + d * t BY <1>3, SMT
  <2>4. (d * e) * s \in Int /\ d * t \in Int BY <1>3, SMT
  <2>5. QED BY <1>1, <2>1, <2>2, <2>3, <2>4, SMT
<1>9. n \div (d * e) = s /\ n % (d * e) = d * t + r
  BY <1>3, <1>5, <1>6, <1>7, <1>8, Quotient, Zenon
<1>10. (d * t + r) \div d = t /\ (d * t + r) % d = r
  BY <1>1, <1>3, <1>6, Quotient, Zenon
<1>11. (n % (d * e)) % d = r /\ (n % (d * e)) \div d = t
  BY <1>9, <1>10, Zenon
<1>12. q \div e = s /\ q % e = t
  BY DEF s, t
<1>13. n \div d = q /\ n % d = r
  BY DEF q, r
<1>14. QED BY <1>9, <1>11, <1>12, <1>13, Zenon

LEMMA ModShift ==
  ASSUME NEW n \in Int, NEW k \in Int, NEW d \in Int, d > 0
  PROVE  (n + d * k) % d = n % d /\ (n + d * k) \div d = (n \div d) + k
<1> DEFINE q == n \div d
           r == n % d
<1>1. q \in Int /\ r \in Int /\ 0 <= r /\ r < d /\ r = n - d * q
  BY RemainderRange, Remainder, Zenon
<1> HIDE DEF q, r
<1>2. n + d * k = d * (q + k) + r /\ n + d * k \in Int /\ q + k \in Int
  BY <1>1, SMT
<1>3. (n + d * k) \div d = q + k /\ (n + d * k) % d = r
  BY <1>1, <1>2, Quotient, Zenon
<1>4. QED  BY <1>3, Zenon DEF q, r

LEMMA ModSmall ==
  ASSUME NEW n \in Int, NEW d \in Int, 0 <= n, n < d
  PROVE  n % d = n /\ n \div d = 0
<1>1. d > 0 /\ n = d * 0 + n /\ 0 \in Int
  BY SMT
<1>2. QED  BY <1>1, Quotient, Zenon

LEMMA ModAdd ==
  ASSUME NEW a \in Int, NEW b \in Int, NEW d \in Int, d > 0
  PROVE  ((a % d) + b) % d = (a + b) % d
<1> DEFINE q == a \div d
           r == a % d
           s == a + b
           t == r + b
           k == q
<1>1. q \in Int /\ r \in Int /\ r = a - d * q
  BY RemainderRange, Remainder, Zenon
<1> HIDE DEF q, r
<1>2. s = t + d * k /\ t \in Int /\ k \in Int
  BY <1>1, SMT
<1> HIDE DEF s, t, k
<1>3. s % d = t % d
  <2>1. (t + d * k) % d = t % d
    BY <1>2, ModShift, Zenon
  <2>2. QED  BY <1>2, <2>1, Zenon
<1>4. QED  BY <1>3, Zenon DEF r, s, t

LEMMA ModSubtract ==
  ASSUME NEW a \in Int, NEW b \in Int, NEW d \in Int, d > 0
  PROVE  (b - (a % d)) % d = (b - a) % d
<1> DEFINE q == a \div d
           r == a % d
           s == b - a
           t == b - r
           k == -q
<1>1. q \in Int /\ r \in Int /\ r = a - d * q
  BY RemainderRange, Remainder, Zenon
<1> HIDE DEF q, r
<1>2. s = t + d * k /\ t \in Int /\ k \in Int
  BY <1>1, SMT
<1> HIDE DEF s, t, k
<1>3. s % d = t % d
  <2>1. (t + d * k) % d = t % d
    BY <1>2, ModShift, Zenon
  <2>2. QED  BY <1>2, <2>1, Zenon
<1>4. QED  BY <1>3, Zenon DEF r, s, t

LEMMA ModMul ==
  ASSUME NEW a \in Int, NEW b \in Int, NEW d \in Int, d > 0
  PROVE  ((a % d) * b) % d = (a * b) % d
<1> DEFINE q == a \div d
           r == a % d
           s == a * b
           t == r * b
           k == q * b
<1>1. q \in Int /\ r \in Int /\ r = a - d * q
  BY RemainderRange, Remainder, Zenon
<1> HIDE DEF q, r
<1>2. s = t + d * k /\ s \in Int /\ t \in Int /\ k \in Int
  <2>1. a = r + d * q
    BY <1>1, SMT
  <2>2. (r + d * q) * b = r * b + d * (q * b) /\ s \in Int /\ t \in Int /\ k \in Int
    BY <1>1, SMT
  <2>3. QED  BY <2>1, <2>2, Zenon
<1> HIDE DEF s, t, k
<1>3. s % d = t % d
  <2>1. (t + d * k) % d = t % d
    BY <1>2, ModShift, Zenon
  <2>2. QED  BY <1>2, <2>1, Zenon
<1>4. QED  BY <1>3, Zenon DEF r, s, t

LEMMA Scale ==
  ASSUME NEW n \in Int, NEW d \in Int, d > 0, NEW e \in Int, e > 0
  PROVE  /\ (d * n) % (d * e) = d * (n % e)
         /\ (d * n) \div (d * e) = n \div e
<1> DEFINE q == n \div e
           r == n % e
           s == d * n
           t == d * e
           u == d * r
<1>1. q \in Int /\ r \in Int /\ 0 <= r /\ r < e /\ r = n - e * q
  BY RemainderRange, Remainder, Zenon
<1> HIDE DEF q, r
<1>2. s \in Int /\ t \in Int /\ t > 0 /\ u \in Int /\ 0 <= u
  BY <1>1, SMT
<1>3. u < t
  <2>1. e - r \in Int /\ e - r >= 1
    BY <1>1
  <2>2. d * (e - r) >= d
    BY <2>1, MulGe, Zenon
  <2>3. d * (e - r) = t - u
    BY <1>1, SMT
  <2>4. QED  BY <1>2, <2>2, <2>3, SMT
<1>4. s = t * q + u
  <2>1. n = e * q + r
    BY <1>1, SMT
  <2>2. d * (e * q + r) = t * q + u
    BY <1>1, SMT
  <2>3. QED  BY <2>1, <2>2, Zenon
<1> HIDE DEF s, t, u
<1>5. s \div t = q /\ s % t = u
  BY <1>1, <1>2, <1>3, <1>4, Quotient, Zenon
<1>6. QED BY <1>5, Zenon DEF q, r, s, t, u

-----------------------------------------------------------------------------
(* Powers of two: no shift is longer than the 36 bits of A. *)

LEMMA Doubling ==
  ASSUME NEW n \in 0 .. 35
  PROVE  2^(n + 1) = 2 * 2^n
<1>1. \/ n = 0 \/ n = 1 \/ n = 2 \/ n = 3 \/ n = 4 \/ n = 5 \/ n = 6 \/ n = 7 \/ n = 8
      \/ n = 9 \/ n = 10 \/ n = 11 \/ n = 12 \/ n = 13 \/ n = 14 \/ n = 15 \/ n = 16
      \/ n = 17 \/ n = 18 \/ n = 19 \/ n = 20 \/ n = 21 \/ n = 22 \/ n = 23 \/ n = 24
      \/ n = 25 \/ n = 26 \/ n = 27 \/ n = 28 \/ n = 29 \/ n = 30 \/ n = 31 \/ n = 32
      \/ n = 33 \/ n = 34 \/ n = 35
  OBVIOUS
<1>2. /\ 2^(0 + 1) = 2 * 2^0 /\ 2^(1 + 1) = 2 * 2^1 /\ 2^(2 + 1) = 2 * 2^2
      /\ 2^(3 + 1) = 2 * 2^3 /\ 2^(4 + 1) = 2 * 2^4 /\ 2^(5 + 1) = 2 * 2^5
      /\ 2^(6 + 1) = 2 * 2^6 /\ 2^(7 + 1) = 2 * 2^7 /\ 2^(8 + 1) = 2 * 2^8
      /\ 2^(9 + 1) = 2 * 2^9 /\ 2^(10 + 1) = 2 * 2^10 /\ 2^(11 + 1) = 2 * 2^11
      /\ 2^(12 + 1) = 2 * 2^12 /\ 2^(13 + 1) = 2 * 2^13 /\ 2^(14 + 1) = 2 * 2^14
      /\ 2^(15 + 1) = 2 * 2^15 /\ 2^(16 + 1) = 2 * 2^16 /\ 2^(17 + 1) = 2 * 2^17
      /\ 2^(18 + 1) = 2 * 2^18 /\ 2^(19 + 1) = 2 * 2^19 /\ 2^(20 + 1) = 2 * 2^20
      /\ 2^(21 + 1) = 2 * 2^21 /\ 2^(22 + 1) = 2 * 2^22 /\ 2^(23 + 1) = 2 * 2^23
      /\ 2^(24 + 1) = 2 * 2^24 /\ 2^(25 + 1) = 2 * 2^25 /\ 2^(26 + 1) = 2 * 2^26
      /\ 2^(27 + 1) = 2 * 2^27 /\ 2^(28 + 1) = 2 * 2^28 /\ 2^(29 + 1) = 2 * 2^29
      /\ 2^(30 + 1) = 2 * 2^30 /\ 2^(31 + 1) = 2 * 2^31 /\ 2^(32 + 1) = 2 * 2^32
      /\ 2^(33 + 1) = 2 * 2^33 /\ 2^(34 + 1) = 2 * 2^34 /\ 2^(35 + 1) = 2 * 2^35
  OBVIOUS
<1>3. QED  BY <1>1, <1>2, ZenonT(60)

PowerAdds(j) == \A i \in Nat : i + j <= 36 => 2^(i + j) = 2^i * 2^j

LEMMA PowerStep ==
  ASSUME NEW j \in 0 .. 35, PowerAdds(j)
  PROVE  PowerAdds(j + 1)
<1>1. SUFFICES ASSUME NEW i \in Nat, i + (j + 1) <= 36
               PROVE  2^(i + (j + 1)) = 2^i * 2^(j + 1)
  BY DEF PowerAdds
<1>2. i + j \in 0 .. 35 /\ i + (j + 1) = (i + j) + 1 /\ i + j <= 36 /\ i \in 0 .. 36
  BY <1>1
<1>3. 2^(i + (j + 1)) = 2 * 2^(i + j) /\ 2^(j + 1) = 2 * 2^j
  BY <1>2, Doubling, Zenon
<1>4. 2^(i + j) = 2^i * 2^j
  BY <1>2 DEF PowerAdds
<1>5. 2^i \in Int /\ 2^j \in Int
  BY <1>2, PowerPositive
<1>6. 2 * (2^i * 2^j) = 2^i * (2 * 2^j)
  BY <1>5, SMT
<1>7. QED  BY <1>3, <1>4, <1>6, Zenon

(* No power here is beyond the 36 bits of A. *)
LEMMA PowerSum ==
  ASSUME NEW i \in Nat, NEW j \in Nat, i + j <= 36
  PROVE  2^(i + j) = 2^i * 2^j
<1>0. PowerAdds(0)
  <2>1. SUFFICES ASSUME NEW k \in Nat, k + 0 <= 36
                 PROVE  2^(k + 0) = 2^k * 2^0
    BY DEF PowerAdds
  <2>2. k + 0 = k /\ k \in 0 .. 36 /\ 2^0 = 1
    BY <2>1
  <2>3. 2^k \in Int
    BY <2>2, PowerPositive
  <2>4. 2^k * 1 = 2^k
    BY <2>3
  <2>5. QED  BY <2>2, <2>4, Zenon
<1>1. PowerAdds(1)
  BY <1>0, PowerStep
<1>2. PowerAdds(2)
  BY <1>1, PowerStep
<1>3. PowerAdds(3)
  BY <1>2, PowerStep
<1>4. PowerAdds(4)
  BY <1>3, PowerStep
<1>5. PowerAdds(5)
  BY <1>4, PowerStep
<1>6. PowerAdds(6)
  BY <1>5, PowerStep
<1>7. PowerAdds(7)
  BY <1>6, PowerStep
<1>8. PowerAdds(8)
  BY <1>7, PowerStep
<1>9. PowerAdds(9)
  BY <1>8, PowerStep
<1>10. PowerAdds(10)
  BY <1>9, PowerStep
<1>11. PowerAdds(11)
  BY <1>10, PowerStep
<1>12. PowerAdds(12)
  BY <1>11, PowerStep
<1>13. PowerAdds(13)
  BY <1>12, PowerStep
<1>14. PowerAdds(14)
  BY <1>13, PowerStep
<1>15. PowerAdds(15)
  BY <1>14, PowerStep
<1>16. PowerAdds(16)
  BY <1>15, PowerStep
<1>17. PowerAdds(17)
  BY <1>16, PowerStep
<1>18. PowerAdds(18)
  BY <1>17, PowerStep
<1>19. PowerAdds(19)
  BY <1>18, PowerStep
<1>20. PowerAdds(20)
  BY <1>19, PowerStep
<1>21. PowerAdds(21)
  BY <1>20, PowerStep
<1>22. PowerAdds(22)
  BY <1>21, PowerStep
<1>23. PowerAdds(23)
  BY <1>22, PowerStep
<1>24. PowerAdds(24)
  BY <1>23, PowerStep
<1>25. PowerAdds(25)
  BY <1>24, PowerStep
<1>26. PowerAdds(26)
  BY <1>25, PowerStep
<1>27. PowerAdds(27)
  BY <1>26, PowerStep
<1>28. PowerAdds(28)
  BY <1>27, PowerStep
<1>29. PowerAdds(29)
  BY <1>28, PowerStep
<1>30. PowerAdds(30)
  BY <1>29, PowerStep
<1>31. PowerAdds(31)
  BY <1>30, PowerStep
<1>32. PowerAdds(32)
  BY <1>31, PowerStep
<1>33. PowerAdds(33)
  BY <1>32, PowerStep
<1>34. PowerAdds(34)
  BY <1>33, PowerStep
<1>35. PowerAdds(35)
  BY <1>34, PowerStep
<1>36. PowerAdds(36)
  BY <1>35, PowerStep
<1>37. \/ j = 0 \/ j = 1 \/ j = 2 \/ j = 3 \/ j = 4 \/ j = 5 \/ j = 6 \/ j = 7 \/ j = 8
      \/ j = 9 \/ j = 10 \/ j = 11 \/ j = 12 \/ j = 13 \/ j = 14 \/ j = 15 \/ j = 16
      \/ j = 17 \/ j = 18 \/ j = 19 \/ j = 20 \/ j = 21 \/ j = 22 \/ j = 23 \/ j = 24
      \/ j = 25 \/ j = 26 \/ j = 27 \/ j = 28 \/ j = 29 \/ j = 30 \/ j = 31 \/ j = 32
      \/ j = 33 \/ j = 34 \/ j = 35 \/ j = 36
  OBVIOUS
<1>38. PowerAdds(j)
  BY <1>37, <1>0, <1>1, <1>2, <1>3, <1>4, <1>5, <1>6, <1>7, <1>8, <1>9, <1>10, <1>11, <1>12, <1>13, <1>14, <1>15, <1>16, <1>17, <1>18, <1>19, <1>20, <1>21, <1>22, <1>23, <1>24, <1>25, <1>26, <1>27, <1>28, <1>29, <1>30, <1>31, <1>32, <1>33, <1>34, <1>35, <1>36, SMT
<1>39. \A k \in Nat : k + j <= 36 => 2^(k + j) = 2^k * 2^j
  BY <1>38, Zenon DEF PowerAdds
<1>40. QED  BY <1>39, Zenon

-----------------------------------------------------------------------------
(* Bits: an operation on words below a power of two stays below it. *)

LEMMA BitsAbove ==
  ASSUME NEW w \in Word, NEW n \in {HIMOD, BYTE, HALF, WORD}, w < n
  PROVE  \A k \in {1, 2, 4, 8, 16, 32, 64, 128, 256, 512, 1024, 2048, 4096, 8192, 16384,
                    32768, 65536, 131072} : k >= n => ~BitSet(w, k)
<1>1. \A k \in Nat \ {0} : k >= n => w \div k = 0
  BY Widths DEF Word
<1>2. \A k \in Nat \ {0} : k >= n => ~BitSet(w, k)
  BY <1>1 DEF BitSet
<1>3. QED  BY <1>2

LEMMA SlclType ==
  ASSUME NEW a \in Word, NEW b \in Word, NEW n \in {HIMOD, BYTE, HALF, WORD}, a < n
  PROVE  SLCL(a, b) \in 0 .. n - 1
  BY Widths, BitsAbove DEF SLCL, Assemble

LEMMA SlsetType ==
  ASSUME NEW a \in Word, NEW b \in Word, NEW n \in {HIMOD, BYTE, HALF, WORD}, a < n, b < n
  PROVE  SLSET(a, b) \in 0 .. n - 1
  BY Widths, BitsAbove DEF SLSET, Assemble

LEMMA SlcpType ==
  ASSUME NEW a \in Word, NEW b \in Word, NEW n \in {HIMOD, BYTE, HALF, WORD}, a < n, b < n
  PROVE  SLCP(a, b) \in 0 .. n - 1
  BY Widths, BitsAbove DEF SLCP, Assemble

-----------------------------------------------------------------------------
(* Shifts *)

LEMMA RegValPair ==
  ASSUME NEW a \in RegVal
  PROVE  /\ a = <<a[1], a[2]>> /\ a \in Word \X Word /\ a \in Int \X Int
         /\ a[1] \in 0 .. HIMOD - 1 /\ a[2] \in Word
         /\ Full(a) \in 0 .. HIMOD * WORD - 1
  BY Widths DEF RegVal, Word, Full

LEMMA RshalType ==
  ASSUME NEW w \in Word, NEW n \in 0 .. 36
  PROVE  /\ RSHAL(w, n) \in Word
         /\ w < WORD \div 2 => RSHAL(w, n) = w \div 2^n
<1>1. 2^n \in Nat \ {0}
  BY PowerPositive
<1>2. w \div 2^n \in 0 .. w
  BY <1>1 DEF Word
<1>3. QED
  BY <1>1, <1>2, Widths DEF RSHAL, Word, Neg

LEMMA LshalType ==
  ASSUME NEW w \in Word, NEW n \in 0 .. WBITS
  PROVE  LSHAL(w, n) \in Word
<1>1. n \in 0 .. 36 /\ WBITS - n \in 0 .. 36
  BY Widths
<1>2. 2^n \in Nat \ {0} /\ 2^(WBITS - n) \in Nat \ {0}
  BY <1>1, PowerPositive
<1>3. QED
  BY <1>2, Widths DEF LSHAL, Word

LEMMA RshaType ==
  ASSUME NEW a \in Word \X Word, NEW n \in 0 .. 36
  PROVE  RSHA(a, n) \in Word \X Word
<1>1. 2^n \in Nat \ {0}
  BY PowerPositive
<1>2. (Full(a) - (IF Neg(a[1]) THEN WORD * WORD ELSE 0)) \div 2^n \in Int
  BY <1>1, Widths DEF Full, Word
<1>3. QED
  BY <1>2, PairType DEF RSHA

(* A right shift of a register does not grow: it stays below the 14-bit mask. *)
LEMMA RshaReg ==
  ASSUME NEW a \in RegVal, NEW n \in 0 .. 36
  PROVE  RSHA(a, n) \in RegVal
<1>1. 2^n \in Nat \ {0} /\ Full(a) \in 0 .. HIMOD * WORD - 1
  BY PowerPositive, RegValPair
<1>2. Full(a) \div 2^n \in 0 .. HIMOD * WORD - 1
  BY <1>1, Widths
<1>3. ~Neg(a[1])
  BY RegValPair, Widths DEF Neg
<1>4. RSHA(a, n) = Pair(Full(a) \div 2^n)
  BY <1>1, <1>3 DEF RSHA
<1>5. QED
  BY <1>2, <1>4, Widths DEF Pair, RegVal, Word

LEMMA LshaType ==
  ASSUME NEW a \in Word \X Word, NEW n \in 0 .. XLEN - 1
  PROVE  LSHA(a, n) \in Word \X Word
<1>0. n \in 0 .. 36 /\ 2 * WBITS - n \in 0 .. 36
  BY Widths
<1>1. 2^n \in Nat \ {0} /\ 2^(2 * WBITS - n) \in Nat \ {0}
  BY <1>0, PowerPositive
<1>2. (Full(a) % 2^(2 * WBITS - n)) * 2^n + Full(a) \div 2^(2 * WBITS - n) \in Int
  BY <1>1, Widths DEF Full, Word
<1>3. QED
  BY <1>2, PairType DEF LSHA

-----------------------------------------------------------------------------
(* What the accumulator and a register count to, and the sums modulo these. *)

AMOD == WORD * WORD
XMOD == HIMOD * WORD

LEMMA Moduli ==
  \/ BYTEBITS = 2 /\ BYTE = 4   /\ HALF = 16    /\ WORD = 64     /\ HIMOD = 4
     /\ WBITS = 6  /\ XLEN = 8  /\ AMOD = 4096 /\ XMOD = 256
  \/ BYTEBITS = 4 /\ BYTE = 16  /\ HALF = 256   /\ WORD = 1024   /\ HIMOD = 64
     /\ WBITS = 10 /\ XLEN = 16 /\ AMOD = 1048576 /\ XMOD = 65536
  \/ BYTEBITS = 8 /\ BYTE = 256 /\ HALF = 65536 /\ WORD = 262144 /\ HIMOD = 16384
     /\ WBITS = 18 /\ XLEN = 32 /\ AMOD = 68719476736 /\ XMOD = 4294967296
  BY Widths DEF AMOD, XMOD

LEMMA FullRange ==
  ASSUME NEW a \in Word \X Word
  PROVE  Full(a) \in Nat /\ Full(a) < AMOD
  BY Moduli DEF Full, Word

LEMMA FullInt ==
  ASSUME NEW a \in Int \X Int
  PROVE  Full(a) \in Int
  BY Moduli DEF Full

LEMMA FullOfPair ==
  ASSUME NEW x \in Int
  PROVE  Full(Pair(x)) = x % AMOD
<1>1. CASE BYTEBITS = 2  BY <1>1, Moduli DEF Full, Pair
<1>2. CASE BYTEBITS = 4  BY <1>2, Moduli DEF Full, Pair
<1>3. CASE BYTEBITS = 8  BY <1>3, Moduli DEF Full, Pair
<1>4. QED  BY <1>1, <1>2, <1>3

(* The sizes as integers, and how they divide one another. *)
LEMMA Sizes ==
  /\ BYTE \in Int /\ HALF \in Int /\ WORD \in Int /\ HIMOD \in Int
  /\ XMOD \in Int /\ AMOD \in Int /\ WBITS \in Int /\ XLEN \in Int
  /\ BYTE > 1 /\ HALF > 1 /\ WORD > 1 /\ HIMOD > 1 /\ XMOD > 1 /\ AMOD > 1
  /\ HALF = BYTE * BYTE /\ WORD = 4 * HALF /\ HALF = 4 * HIMOD
  /\ XMOD = HIMOD * WORD /\ XMOD = HALF * HALF /\ AMOD = WORD * WORD /\ AMOD = 16 * XMOD
<1>1. CASE BYTEBITS = 2  BY <1>1, Moduli
<1>2. CASE BYTEBITS = 4  BY <1>2, Moduli
<1>3. CASE BYTEBITS = 8  BY <1>3, Moduli
<1>4. QED  BY <1>1, <1>2, <1>3

(* The low word carries into the high word. *)
LEMMA Carry ==
  ASSUME NEW h \in Int, NEW l \in Int, NEW m \in Int, m > 0
  PROVE  ((h + (l \div WORD)) % m) * WORD + (l % WORD) = (h * WORD + l) % (m * WORD)
<1> DEFINE n == h * WORD + l
           q == l \div WORD
           r == l % WORD
           p == WORD * m
<1>0. WORD \in Int /\ WORD > 0
  BY Sizes
<1>1. n \in Int /\ n = l + WORD * h
  BY <1>0, SMT
<1>2. n % WORD = r /\ n \div WORD = q + h
  <2>1. (l + WORD * h) % WORD = r /\ (l + WORD * h) \div WORD = q + h
    BY <1>0, ModShift, Zenon
  <2>2. QED  BY <1>1, <2>1, Zenon
<1>3. n % p = WORD * ((n \div WORD) % m) + (n % WORD)
  BY <1>0, <1>1, Nested, Zenon
<1>4. n % p = WORD * ((q + h) % m) + r
  BY <1>2, <1>3, Zenon
<1>5. q \in Int /\ r \in Int
  BY <1>0, RemainderRange, Zenon
<1> HIDE DEF n, q, r
<1>6. h + q = q + h /\ h + q \in Int
  BY <1>5
<1>7. PICK t \in Int : t = (h + q) % m
  BY <1>6, RemainderRange, Zenon
<1>8. n % p = WORD * t + r
  BY <1>4, <1>6, <1>7, Zenon
<1>9. WORD * t + r = t * WORD + r /\ p = m * WORD
  BY <1>0, <1>5, <1>7, SMT
<1>10. QED  BY <1>7, <1>8, <1>9, Zenon DEF n, q, r

LEMMA FullOfAdda ==
  ASSUME NEW a \in Int \X Int, NEW m \in Int \X Int
  PROVE  Full(ADDA(a, m)) = (Full(a) + Full(m) + 1) % AMOD
<1> DEFINE h == a[1] + m[1]
           l == a[2] + m[2] + 1
<1>1. a[1] \in Int /\ a[2] \in Int /\ m[1] \in Int /\ m[2] \in Int /\ h \in Int /\ l \in Int
  OBVIOUS
<1>2. ADDA(a, m) = <<(h + (l \div WORD)) % WORD, l % WORD>>
  BY Zenon DEF ADDA
<1>3. Full(ADDA(a, m)) = ((h + (l \div WORD)) % WORD) * WORD + (l % WORD)
  BY <1>2 DEF Full
<1>4. Full(a) + Full(m) + 1 = h * WORD + l
  BY <1>1, Sizes, SMT DEF Full
<1> HIDE DEF h, l
<1>5. ((h + (l \div WORD)) % WORD) * WORD + (l % WORD) = (h * WORD + l) % (WORD * WORD)
  BY <1>1, Sizes, Carry
<1>6. QED  BY <1>3, <1>4, <1>5, Zenon DEF AMOD

LEMMA FullOfSuba ==
  ASSUME NEW a \in Int \X Int, NEW m \in Int \X Int
  PROVE  Full(SUBA(a, m)) = (Full(a) - Full(m)) % AMOD
<1> DEFINE h == a[1] - m[1]
           l == a[2] - m[2]
<1>1. a[1] \in Int /\ a[2] \in Int /\ m[1] \in Int /\ m[2] \in Int /\ h \in Int /\ l \in Int
  OBVIOUS
<1>2. SUBA(a, m) = <<(h + (l \div WORD)) % WORD, l % WORD>>
  BY Zenon DEF SUBA
<1>3. Full(SUBA(a, m)) = ((h + (l \div WORD)) % WORD) * WORD + (l % WORD)
  BY <1>2 DEF Full
<1>4. Full(a) - Full(m) = h * WORD + l
  BY <1>1, Sizes, SMT DEF Full
<1> HIDE DEF h, l
<1>5. ((h + (l \div WORD)) % WORD) * WORD + (l % WORD) = (h * WORD + l) % (WORD * WORD)
  BY <1>1, Sizes, Carry
<1>6. QED  BY <1>3, <1>4, <1>5, Zenon DEF AMOD

(* Masking the upper word to 14 bits reduces modulo 2^XLEN. *)
LEMMA FullOfMask ==
  ASSUME NEW a \in Int \X Word
  PROVE  Full(<<a[1] % HIMOD, a[2]>>) = Full(a) % XMOD
<1> DEFINE h == a[1]
           l == a[2]
<1>1. h \in Int /\ l \in Int /\ 0 <= l /\ l < WORD
  BY Sizes DEF Word
<1>2. Full(<<h % HIMOD, l>>) = (h % HIMOD) * WORD + l /\ Full(a) = h * WORD + l
  BY DEF Full
<1> HIDE DEF h, l
<1>3. l % WORD = l /\ l \div WORD = 0
  BY <1>1, Sizes, ModSmall
<1>4. ((h + (l \div WORD)) % HIMOD) * WORD + (l % WORD) = (h * WORD + l) % (HIMOD * WORD)
  BY <1>1, Sizes, Carry
<1>5. h + 0 = h
  BY <1>1
<1>6. (h % HIMOD) * WORD + l = (h * WORD + l) % XMOD
  BY <1>3, <1>4, <1>5, Zenon DEF XMOD
<1>7. QED  BY <1>2, <1>6, Zenon DEF h, l

(* A pair is determined by its number. *)
LEMMA FullInjective ==
  ASSUME NEW a \in Word \X Word, NEW b \in Word \X Word
  PROVE  /\ Full(a) = Full(b) <=> a[1] = b[1] /\ a[2] = b[2]
         /\ a[1] = Full(a) \div WORD /\ a[2] = Full(a) % WORD
<1>1. CASE BYTEBITS = 2  BY <1>1, Moduli DEF Full, Word
<1>2. CASE BYTEBITS = 4  BY <1>2, Moduli DEF Full, Word
<1>3. CASE BYTEBITS = 8  BY <1>3, Moduli DEF Full, Word
<1>4. QED  BY <1>1, <1>2, <1>3

LEMMA PowerInt ==
  ASSUME NEW n \in Int, 0 <= n, n <= 36
  PROVE  2^n \in Int /\ 2^n > 0
<1>1. n \in 0 .. 36
  OBVIOUS
<1> DEFINE p == 2^n
<1>2. p \in Nat \ {0}
  BY <1>1, PowerPositive, Zenon
<1> HIDE DEF p
<1>3. p \in Int /\ p > 0
  BY <1>2
<1>4. QED  BY <1>3 DEF p

LEMMA Exponents ==
  /\ 2^BYTEBITS = BYTE /\ 2^(2 * BYTEBITS) = HALF /\ 2^WBITS = WORD
  /\ 2^(2 * WBITS) = AMOD /\ 2^XLEN = XMOD
  /\ WORD * 2^(WBITS - 4) = XMOD
<1>1. CASE BYTEBITS = 2
  <2>1. /\ 2^2 = 4 /\ 2^(2 * 2) = 16 /\ 2^6 = 64 /\ 2^(2 * 6) = 4096 /\ 2^8 = 256 /\ 2^(6 - 4) = 4
    OBVIOUS
  <2>2. QED  BY <1>1, <2>1, Moduli
<1>2. CASE BYTEBITS = 4
  <2>1. /\ 2^4 = 16 /\ 2^(2 * 4) = 256 /\ 2^10 = 1024 /\ 2^(2 * 10) = 1048576 /\ 2^16 = 65536
        /\ 2^(10 - 4) = 64
    OBVIOUS
  <2>2. QED  BY <1>2, <2>1, Moduli
<1>3. CASE BYTEBITS = 8
  <2>1. /\ 2^8 = 256 /\ 2^(2 * 8) = 65536 /\ 2^18 = 262144 /\ 2^(2 * 18) = 68719476736
        /\ 2^32 = 4294967296 /\ 2^(18 - 4) = 16384 /\ 262144 * 16384 = 4294967296
    OBVIOUS
  <2>2. /\ BYTE = 256 /\ HALF = 65536 /\ WORD = 262144 /\ WBITS = 18 /\ XLEN = 32
        /\ AMOD = 68719476736 /\ XMOD = 4294967296
    BY <1>3, Moduli
  <2>3. 2^BYTEBITS = BYTE /\ 2^(2 * BYTEBITS) = HALF /\ 2^WBITS = WORD
    BY <1>3, <2>1, <2>2
  <2>4. 2^(2 * WBITS) = AMOD /\ 2^XLEN = XMOD
    BY <1>3, <2>1, <2>2
  <2>5. WORD * 2^(WBITS - 4) = XMOD
    BY <1>3, <2>1, <2>2
  <2>6. QED  BY <2>3, <2>4, <2>5
<1>4. QED  BY <1>1, <1>2, <1>3, BYTEBITSAssumption

LEMMA QuotientRange ==
  ASSUME NEW x \in Int, NEW d \in Int, d > 0, NEW m \in Int, 0 <= x, x < d * m
  PROVE  x \div d \in Int /\ 0 <= x \div d /\ x \div d < m
<1> DEFINE q == x \div d
           r == x % d
<1>1. q \in Int /\ r \in Int /\ 0 <= r /\ r < d /\ r = x - d * q
  BY RemainderRange, Remainder, Zenon
<1> HIDE DEF q, r
<1>2. d * q \in Int /\ d * q = x - r
  BY <1>1, SMT
<1>3. CASE q >= m
  <2>1. d * (q - m) >= 0
    BY <1>1, <1>3, SMT
  <2>2. d * (q - m) = d * q - d * m
    BY <1>1, SMT
  <2>3. d * m \in Int
    BY SMT
  <2>4. QED  BY <1>1, <1>2, <2>1, <2>2, <2>3, SMT
<1>4. CASE q < 0
  <2>1. d * (-q) >= d
    BY <1>1, <1>4, MulGe, SMT
  <2>2. d * (-q) = -(d * q)
    BY <1>1, SMT
  <2>4. QED  BY <1>1, <1>2, <2>1, <2>2, SMT
<1>5. q \in Int /\ 0 <= q /\ q < m
  BY <1>1, <1>3, <1>4, SMT
<1>6. QED  BY <1>5, Zenon DEF q

LEMMA Rotated ==
  ASSUME NEW x \in Int, NEW p \in Int, p > 0, NEW q \in Int, q > 0, 0 <= x, x < q * p
  PROVE  /\ (x % q) * p + (x \div q) \in Int
         /\ 0 <= (x % q) * p + (x \div q) /\ (x % q) * p + (x \div q) < q * p
<1> DEFINE u == x \div q
           v == x % q
<1>1. u \in Int /\ 0 <= u /\ u < p
  BY QuotientRange, Zenon
<1>2. v \in Int /\ 0 <= v /\ v < q
  BY RemainderRange, Zenon
<1> HIDE DEF u, v
<1>3. v * p \in Int /\ v * p >= 0 /\ q * p \in Int
  BY <1>2, SMT
<1>4. p * (q - v) >= p
  BY <1>2, MulGe, SMT
<1>5. p * (q - v) = q * p - v * p
  BY <1>2, SMT
<1>6. v * p + u \in Int /\ 0 <= v * p + u /\ v * p + u < q * p
  BY <1>1, <1>3, <1>4, <1>5, SMT
<1>7. QED  BY <1>6, Zenon DEF u, v

LEMMA FullOfLsha ==
  ASSUME NEW a \in Word \X Word, NEW n \in 0 .. XLEN
  PROVE  LET p == 2^n
             q == 2^(2 * WBITS - n)
         IN  /\ Full(LSHA(a, n)) = (Full(a) % q) * p + (Full(a) \div q)
             /\ p \in Int /\ p > 0 /\ q \in Int /\ q > 0 /\ q * p = AMOD
<1> DEFINE p == 2^n
           q == 2^(2 * WBITS - n)
           x == Full(a)
           y == (x % q) * p + (x \div q)
<1>0. /\ n \in Nat /\ n \in Int /\ 0 <= n /\ n <= 36
      /\ 2 * WBITS - n \in Nat /\ 2 * WBITS - n \in Int
      /\ 0 <= 2 * WBITS - n /\ 2 * WBITS - n <= 36
      /\ (2 * WBITS - n) + n = 2 * WBITS /\ (2 * WBITS - n) + n <= 36
  BY Widths
<1>1. p \in Int /\ p > 0 /\ q \in Int /\ q > 0
  BY <1>0, PowerInt, Zenon
<1>2. q * p = AMOD
  BY <1>0, PowerSum, Exponents, Zenon
<1>3. x \in Int /\ 0 <= x /\ x < q * p
  BY <1>2, FullRange
<1>4. LSHA(a, n) = Pair(y)
  BY Zenon DEF LSHA
<1> HIDE DEF p, q, x
<1>5. y \in Int /\ 0 <= y /\ y < q * p
  BY <1>1, <1>3, Rotated, Zenon
<1> HIDE DEF y
<1>6. Full(Pair(y)) = y % AMOD
  BY <1>5, FullOfPair
<1>7. y % AMOD = y
  BY <1>2, <1>5, ModSmall, Sizes, SMT
<1>8. QED  BY <1>1, <1>2, <1>4, <1>6, <1>7, Zenon DEF p, q, x, y

LEMMA NegFull ==
  ASSUME NEW a \in Word \X Word
  PROVE  Neg(a[1]) <=> 2 * Full(a) >= AMOD
<1> DEFINE h == a[1]
           l == a[2]
<1>1. h \in Int /\ l \in Int /\ 0 <= l /\ l < WORD
  BY Sizes DEF Word
<1>2. Full(a) = h * WORD + l /\ (Neg(h) <=> h >= WORD \div 2)
  BY DEF Full, Neg
<1>3. WORD \div 2 = 2 * HALF
  BY Sizes
<1> HIDE DEF h, l
<1>4. CASE h >= 2 * HALF
  <2>1. (h - 2 * HALF) * WORD >= 0
    BY <1>1, <1>4, Sizes, SMT
  <2>2. (h - 2 * HALF) * WORD = h * WORD - 2 * (HALF * WORD) /\ 4 * (HALF * WORD) = WORD * WORD
    BY <1>1, Sizes, SMT
  <2>3. h * WORD \in Int /\ HALF * WORD \in Int /\ WORD * WORD \in Int
    BY <1>1, Sizes, SMT
  <2>4. 2 * (h * WORD + l) >= WORD * WORD
    BY <1>1, <2>1, <2>2, <2>3, SMT
  <2>5. QED  BY <1>2, <1>3, <1>4, <2>4, Zenon DEF AMOD, h
<1>5. CASE ~(h >= 2 * HALF)
  <2>1. (2 * HALF - h - 1) * WORD >= 0
    BY <1>1, <1>5, Sizes, SMT
  <2>2. (2 * HALF - h - 1) * WORD = 2 * (HALF * WORD) - h * WORD - WORD
        /\ 4 * (HALF * WORD) = WORD * WORD
    BY <1>1, Sizes, SMT
  <2>3. h * WORD \in Int /\ HALF * WORD \in Int /\ WORD * WORD \in Int /\ WORD \in Int
    BY <1>1, Sizes, SMT
  <2>4. ~(2 * (h * WORD + l) >= WORD * WORD)
    BY <1>1, <2>1, <2>2, <2>3, SMT
  <2>5. QED  BY <1>2, <1>3, <1>5, <2>4, Zenon DEF AMOD, h
<1>6. QED  BY <1>4, <1>5

LEMMA FullOfRsha ==
  ASSUME NEW a \in Word \X Word, NEW n \in Int, 0 <= n, n <= 36
  PROVE  /\ 2 * Full(a) < AMOD => Full(RSHA(a, n)) = Full(a) \div 2^n
         /\ 2 * Full(a) >= AMOD => Full(RSHA(a, n)) = ((Full(a) - AMOD) \div 2^n) % AMOD
<1> DEFINE p == 2^n
           x == Full(a)
<1>1. p \in Int /\ p > 0
  BY PowerInt, Zenon
<1>2. x \in Int /\ 0 <= x /\ x < AMOD /\ x - AMOD \in Int
  BY FullRange, Sizes
<1>3. CASE 2 * x < AMOD
  <2>1. RSHA(a, n) = Pair((x - 0) \div p)
    BY <1>2, <1>3, NegFull, Sizes DEF RSHA, AMOD
  <2> HIDE DEF p, x
  <2>2. x - 0 = x
    BY <1>2
  <2>3. x \div p \in Int /\ 0 <= x \div p /\ x \div p < AMOD
    <3>1. x < p * AMOD
      <4>1. p * AMOD >= AMOD
        BY <1>1, Sizes, MulGe, SMT
      <4>2. QED  BY <4>1, <1>2, <1>1, Sizes, SMT
    <3>2. QED  BY <1>1, <1>2, <3>1, Sizes, QuotientRange
  <2>4. Full(Pair(x \div p)) = (x \div p) % AMOD
    BY <2>3, FullOfPair
  <2>5. (x \div p) % AMOD = x \div p
    BY <2>3, Sizes, ModSmall
  <2>6. Full(RSHA(a, n)) = x \div p
    BY <2>1, <2>2, <2>4, <2>5, Zenon
  <2>7. QED  BY <1>2, <1>3, <2>6, Sizes DEF p, x
<1>4. CASE 2 * x >= AMOD
  <2>1. RSHA(a, n) = Pair((x - AMOD) \div p)
    BY <1>2, <1>4, NegFull, Sizes DEF RSHA, AMOD
  <2>2. (x - AMOD) \div p \in Int
    BY <1>1, <1>2, RemainderRange
  <2>3. Full(RSHA(a, n)) = ((x - AMOD) \div p) % AMOD
    BY <2>1, <2>2, FullOfPair, Zenon
  <2>4. QED  BY <1>2, <1>4, <2>3, Sizes
<1>5. QED  BY <1>2, <1>3, <1>4, Sizes

LEMMA LshalValue ==
  ASSUME NEW w \in Word, NEW n \in 0 .. WBITS, w * 2^n < WORD
  PROVE  LSHAL(w, n) = w * 2^n
<1> DEFINE p == 2^n
           q == 2^(WBITS - n)
<1>0. /\ n \in Nat /\ n \in Int /\ 0 <= n /\ n <= 36
      /\ WBITS - n \in Nat /\ WBITS - n \in Int /\ 0 <= WBITS - n /\ WBITS - n <= 36
      /\ (WBITS - n) + n = WBITS /\ (WBITS - n) + n <= 36
  BY Widths
<1>1. p \in Int /\ p > 0 /\ q \in Int /\ q > 0
  BY <1>0, PowerInt, Zenon
<1>2. q * p = WORD
  BY <1>0, PowerSum, Exponents, Zenon
<1>3. w \in Int /\ 0 <= w /\ w * p < q * p
  BY <1>2 DEF Word
<1>4. LSHAL(w, n) = ((w % q) * p + (w \div q)) % WORD
  BY Zenon DEF LSHAL
<1> HIDE DEF p, q
<1>5. w < q
  <2>1. CASE w >= q
    <3>1. p * (w - q) >= 0
      BY <1>1, <1>3, <2>1, SMT
    <3>2. p * (w - q) = w * p - q * p /\ w * p \in Int /\ q * p \in Int
      BY <1>1, <1>3, SMT
    <3>3. QED  BY <1>3, <3>1, <3>2, SMT
  <2>2. QED  BY <1>1, <1>3, <2>1
<1>6. w % q = w /\ w \div q = 0
  BY <1>1, <1>3, <1>5, ModSmall
<1>7. w * p \in Int /\ 0 <= w * p /\ w * p + 0 = w * p
  BY <1>1, <1>3, SMT
<1>8. (w * p) % WORD = w * p
  BY <1>2, <1>3, <1>7, Sizes, ModSmall
<1>9. QED  BY <1>4, <1>6, <1>7, <1>8, Zenon DEF p

(* The halves of a register are not negative: their product is not signed. *)
LEMMA FullOfMulal ==
  ASSUME NEW a \in Int, NEW m \in Int, 0 <= a, a < HALF, 0 <= m, m < HALF
  PROVE  /\ Full(MULAL(a, m)) = a * m /\ MULAL(a, m) \in Word \X Word
         /\ a * m \in Int /\ 0 <= a * m /\ a * m < XMOD
<1>1. ~Neg(a) /\ ~Neg(m)
  BY Widths DEF Neg
<1>2. MULAL(a, m) = Pair(a * m)
  <2>1. (IF Neg(a) THEN WORD - 1 - a ELSE a) = a /\ (IF Neg(m) THEN WORD - 1 - m ELSE m) = m
    BY <1>1
  <2>2. Neg(a) = Neg(m)
    BY <1>1 DEF Neg
  <2>3. QED  BY <2>1, <2>2, Zenon DEF MULAL
<1>3. a * m \in Int /\ 0 <= a * m
  BY SMT
<1>4. a * m < XMOD
  <2>1. a * m <= a * HALF
    <3>1. a * (HALF - m) >= 0
      BY Sizes, SMT
    <3>2. a * (HALF - m) = a * HALF - a * m /\ a * HALF \in Int
      BY Sizes, SMT
    <3>3. QED  BY <1>3, <3>1, <3>2, SMT
  <2>2. HALF * (HALF - a) >= HALF
    BY Sizes, MulGe, SMT
  <2>3. HALF * (HALF - a) = HALF * HALF - a * HALF /\ a * HALF \in Int /\ HALF * HALF \in Int
    BY Sizes, SMT
  <2>4. QED  BY <1>3, <2>1, <2>2, <2>3, Sizes, SMT
<1>5. (a * m) % AMOD = a * m
  BY <1>3, <1>4, Sizes, ModSmall
<1>6. QED  BY <1>2, <1>3, <1>4, <1>5, FullOfPair, PairType


-----------------------------------------------------------------------------
(* The bit operations digit by digit: of x + s * u, where x < s is a digit    *)
(* and s a power of two, they are those of x and those of u.                  *)

LEMMA NestedQuotient ==
  ASSUME NEW n \in Int, NEW d \in Int, d > 0, NEW e \in Int, e > 0
  PROVE  (n \div d) \div e = n \div (d * e)
  BY Nested, Zenon

LEMMA BitOfDouble ==
  ASSUME NEW x \in Int, 0 <= x, x < 2, NEW u \in Int, NEW k \in Int, k > 0
  PROVE  BitSet(x + 2 * u, 2 * k) <=> BitSet(u, k)
<1> DEFINE n == x + 2 * u
<1>1. n \in Int /\ n = 2 * u + x /\ 2 \in Int /\ 2 > 0
  OBVIOUS
<1>2. n \div 2 = u
  BY <1>1
<1> HIDE DEF n
<1>3. (n \div 2) \div k = n \div (2 * k)
  BY <1>1, NestedQuotient, Zenon
<1>4. n \div (2 * k) = u \div k
  BY <1>2, <1>3, Zenon
<1>5. QED  BY <1>4, Zenon DEF BitSet, n

DoubleBits(x, u) ==
  /\ (BitSet(x + 2 * u, 1) <=> BitSet(x, 1)) /\ (BitSet(x + 2 * u, 2) <=> BitSet(u, 1))
  /\ (BitSet(x + 2 * u, 4) <=> BitSet(u, 2)) /\ (BitSet(x + 2 * u, 8) <=> BitSet(u, 4))
  /\ (BitSet(x + 2 * u, 16) <=> BitSet(u, 8)) /\ (BitSet(x + 2 * u, 32) <=> BitSet(u, 16))
  /\ (BitSet(x + 2 * u, 64) <=> BitSet(u, 32)) /\ (BitSet(x + 2 * u, 128) <=> BitSet(u, 64))
  /\ (BitSet(x + 2 * u, 256) <=> BitSet(u, 128))
  /\ (BitSet(x + 2 * u, 512) <=> BitSet(u, 256))
  /\ (BitSet(x + 2 * u, 1024) <=> BitSet(u, 512))
  /\ (BitSet(x + 2 * u, 2048) <=> BitSet(u, 1024))
  /\ (BitSet(x + 2 * u, 4096) <=> BitSet(u, 2048))
  /\ (BitSet(x + 2 * u, 8192) <=> BitSet(u, 4096))
  /\ (BitSet(x + 2 * u, 16384) <=> BitSet(u, 8192))
  /\ (BitSet(x + 2 * u, 32768) <=> BitSet(u, 16384))
  /\ (BitSet(x + 2 * u, 65536) <=> BitSet(u, 32768))
  /\ (BitSet(x + 2 * u, 131072) <=> BitSet(u, 65536)) /\ ~BitSet(x, 2) /\ ~BitSet(x, 4)
  /\ ~BitSet(x, 8) /\ ~BitSet(x, 16) /\ ~BitSet(x, 32) /\ ~BitSet(x, 64) /\ ~BitSet(x, 128)
  /\ ~BitSet(x, 256) /\ ~BitSet(x, 512) /\ ~BitSet(x, 1024) /\ ~BitSet(x, 2048)
  /\ ~BitSet(x, 4096) /\ ~BitSet(x, 8192) /\ ~BitSet(x, 16384) /\ ~BitSet(x, 32768)
  /\ ~BitSet(x, 65536) /\ ~BitSet(x, 131072) /\ ~BitSet(u, 131072)

LEMMA BitsOfDouble ==
  ASSUME NEW x \in Int, 0 <= x, x < 2, NEW u \in Int, 0 <= u, u < 131072
  PROVE  DoubleBits(x, u)
<1>1. BitSet(x + 2 * u, 1) <=> BitSet(x, 1)
  BY DEF BitSet
<1>2. ~BitSet(u, 131072)
  BY SMT DEF BitSet
<1>3. /\ (BitSet(x + 2 * u, 2) <=> BitSet(u, 1))
      /\ (BitSet(x + 2 * u, 4) <=> BitSet(u, 2))
      /\ (BitSet(x + 2 * u, 8) <=> BitSet(u, 4))
      /\ (BitSet(x + 2 * u, 16) <=> BitSet(u, 8))
      /\ (BitSet(x + 2 * u, 32) <=> BitSet(u, 16))
      /\ (BitSet(x + 2 * u, 64) <=> BitSet(u, 32))
      /\ (BitSet(x + 2 * u, 128) <=> BitSet(u, 64))
      /\ (BitSet(x + 2 * u, 256) <=> BitSet(u, 128))
      /\ (BitSet(x + 2 * u, 512) <=> BitSet(u, 256))
      /\ (BitSet(x + 2 * u, 1024) <=> BitSet(u, 512))
      /\ (BitSet(x + 2 * u, 2048) <=> BitSet(u, 1024))
      /\ (BitSet(x + 2 * u, 4096) <=> BitSet(u, 2048))
      /\ (BitSet(x + 2 * u, 8192) <=> BitSet(u, 4096))
      /\ (BitSet(x + 2 * u, 16384) <=> BitSet(u, 8192))
      /\ (BitSet(x + 2 * u, 32768) <=> BitSet(u, 16384))
      /\ (BitSet(x + 2 * u, 65536) <=> BitSet(u, 32768))
      /\ (BitSet(x + 2 * u, 131072) <=> BitSet(u, 65536))
  <2>1. \A k \in Int : k > 0 => (BitSet(x + 2 * u, 2 * k) <=> BitSet(u, k))
    BY BitOfDouble
  <2>2. /\ 2 * 1 = 2 /\ 2 * 2 = 4 /\ 2 * 4 = 8 /\ 2 * 8 = 16 /\ 2 * 16 = 32 /\ 2 * 32 = 64
        /\ 2 * 64 = 128 /\ 2 * 128 = 256 /\ 2 * 256 = 512 /\ 2 * 512 = 1024
        /\ 2 * 1024 = 2048 /\ 2 * 2048 = 4096 /\ 2 * 4096 = 8192 /\ 2 * 8192 = 16384
        /\ 2 * 16384 = 32768 /\ 2 * 32768 = 65536 /\ 2 * 65536 = 131072
    BY SMT
  <2>3. /\ (BitSet(x + 2 * u, 2 * 1) <=> BitSet(u, 1))
        /\ (BitSet(x + 2 * u, 2 * 2) <=> BitSet(u, 2))
        /\ (BitSet(x + 2 * u, 2 * 4) <=> BitSet(u, 4))
        /\ (BitSet(x + 2 * u, 2 * 8) <=> BitSet(u, 8))
        /\ (BitSet(x + 2 * u, 2 * 16) <=> BitSet(u, 16))
        /\ (BitSet(x + 2 * u, 2 * 32) <=> BitSet(u, 32))
        /\ (BitSet(x + 2 * u, 2 * 64) <=> BitSet(u, 64))
        /\ (BitSet(x + 2 * u, 2 * 128) <=> BitSet(u, 128))
        /\ (BitSet(x + 2 * u, 2 * 256) <=> BitSet(u, 256))
        /\ (BitSet(x + 2 * u, 2 * 512) <=> BitSet(u, 512))
        /\ (BitSet(x + 2 * u, 2 * 1024) <=> BitSet(u, 1024))
        /\ (BitSet(x + 2 * u, 2 * 2048) <=> BitSet(u, 2048))
        /\ (BitSet(x + 2 * u, 2 * 4096) <=> BitSet(u, 4096))
        /\ (BitSet(x + 2 * u, 2 * 8192) <=> BitSet(u, 8192))
        /\ (BitSet(x + 2 * u, 2 * 16384) <=> BitSet(u, 16384))
        /\ (BitSet(x + 2 * u, 2 * 32768) <=> BitSet(u, 32768))
        /\ (BitSet(x + 2 * u, 2 * 65536) <=> BitSet(u, 65536))
    BY <2>1, SMT
  <2>4. QED BY <2>2, <2>3, SMT
<1>4. /\ ~BitSet(x, 2) /\ ~BitSet(x, 4) /\ ~BitSet(x, 8) /\ ~BitSet(x, 16)
      /\ ~BitSet(x, 32) /\ ~BitSet(x, 64) /\ ~BitSet(x, 128) /\ ~BitSet(x, 256)
      /\ ~BitSet(x, 512) /\ ~BitSet(x, 1024) /\ ~BitSet(x, 2048) /\ ~BitSet(x, 4096)
      /\ ~BitSet(x, 8192) /\ ~BitSet(x, 16384) /\ ~BitSet(x, 32768) /\ ~BitSet(x, 65536)
      /\ ~BitSet(x, 131072)
  BY SMT DEF BitSet
<1>5. QED  BY <1>1, <1>2, <1>3, <1>4 DEF DoubleBits

(* The bit operations as functions, so that a lemma can be about any of them. *)
And == [p \in Word \X Word |-> SLCL(p[1], p[2])]
Or  == [p \in Word \X Word |-> SLSET(p[1], p[2])]
Xor == [p \in Word \X Word |-> SLCP(p[1], p[2])]

BitFunction == {And, Or, Xor}

Splits(f, s) ==
  \A x, y, u, v \in Word :
    x < s /\ y < s /\ x + s * u < WORD /\ y + s * v < WORD
      => f[<<x + s * u, y + s * v>>] = f[<<x, y>>] + s * f[<<u, v>>]

LEMMA WordBound ==
  /\ WORD \in Int /\ WORD <= 262144 /\ WORD >= 64
  /\ Word \subseteq Nat
  /\ \A x \in Word : x \in Int /\ 0 <= x /\ x < WORD
  BY Widths DEF Word

LEMMA AndOfDouble ==
  ASSUME NEW x \in Int, 0 <= x, x < 2, NEW u \in Int, 0 <= u, u < 131072,
         NEW y \in Int, 0 <= y, y < 2, NEW v \in Int, 0 <= v, v < 131072
  PROVE  SLCL(x + 2 * u, y + 2 * v) = SLCL(x, y) + 2 * SLCL(u, v)
<1> DEFINE d(k) == IF BitSet(x + 2 * u, k) /\ BitSet(y + 2 * v, k) THEN k ELSE 0
           c(k) == IF BitSet(x, k) /\ BitSet(y, k) THEN k ELSE 0
           e(k) == IF BitSet(u, k) /\ BitSet(v, k) THEN k ELSE 0
<1>1. DoubleBits(x, u) /\ DoubleBits(y, v)
  BY BitsOfDouble
<1>2. d(1) = c(1) /\ d(2) = 2 * e(1) /\ d(4) = 2 * e(2) /\ d(8) = 2 * e(4) /\ d(16) = 2 * e(8)
      /\ d(32) = 2 * e(16) /\ d(64) = 2 * e(32) /\ d(128) = 2 * e(64) /\ d(256) = 2 * e(128)
      /\ d(512) = 2 * e(256) /\ d(1024) = 2 * e(512) /\ d(2048) = 2 * e(1024)
      /\ d(4096) = 2 * e(2048) /\ d(8192) = 2 * e(4096) /\ d(16384) = 2 * e(8192)
      /\ d(32768) = 2 * e(16384) /\ d(65536) = 2 * e(32768) /\ d(131072) = 2 * e(65536)
      /\ c(2) = 0 /\ c(4) = 0 /\ c(8) = 0 /\ c(16) = 0 /\ c(32) = 0 /\ c(64) = 0
      /\ c(128) = 0 /\ c(256) = 0 /\ c(512) = 0 /\ c(1024) = 0 /\ c(2048) = 0 /\ c(4096) = 0
      /\ c(8192) = 0 /\ c(16384) = 0 /\ c(32768) = 0 /\ c(65536) = 0 /\ c(131072) = 0 /\ e(131072) = 0
  BY <1>1, SMT DEF DoubleBits
<1>3. c(1) \in Int /\ e(1) \in Int /\ e(2) \in Int /\ e(4) \in Int /\ e(8) \in Int /\ e(16) \in Int
      /\ e(32) \in Int /\ e(64) \in Int /\ e(128) \in Int /\ e(256) \in Int
      /\ e(512) \in Int /\ e(1024) \in Int /\ e(2048) \in Int /\ e(4096) \in Int
      /\ e(8192) \in Int /\ e(16384) \in Int /\ e(32768) \in Int /\ e(65536) \in Int
      /\ e(131072) \in Int
  BY SMT
<1> DEFINE d1 == d(1) + d(2) + d(4) + d(8) + d(16) + d(32)
           d2 == d1 + d(64) + d(128) + d(256) + d(512) + d(1024) + d(2048)
           d3 == d2 + d(4096) + d(8192) + d(16384) + d(32768) + d(65536) + d(131072)
           e1 == e(1) + e(2) + e(4) + e(8) + e(16)
           e2 == e1 + e(32) + e(64) + e(128) + e(256) + e(512) + e(1024)
           e3 == e2 + e(2048) + e(4096) + e(8192) + e(16384) + e(32768) + e(65536) + e(131072)
           c1 == c(1) + c(2) + c(4) + c(8) + c(16) + c(32)
           c2 == c1 + c(64) + c(128) + c(256) + c(512) + c(1024) + c(2048)
           c3 == c2 + c(4096) + c(8192) + c(16384) + c(32768) + c(65536) + c(131072)
<1>4. /\ SLCL(x + 2 * u, y + 2 * v) = d3
      /\ SLCL(x, y) = c3
      /\ SLCL(u, v) = e3
  BY SMT DEF SLCL, Assemble
<1> HIDE DEF d, c, e
<1>5. d1 = c(1) + 2 * e1 /\ e1 \in Int
  BY <1>2, <1>3, SMT
<1>6. c3 = c(1)
  BY <1>2, <1>3, SMT
<1> HIDE DEF d1, e1, c3
<1>7. d2 = c(1) + 2 * e2 /\ e2 \in Int
  BY <1>2, <1>3, <1>5, SMT
<1> HIDE DEF d2, e2
<1>8. d3 = c(1) + 2 * e3
  BY <1>2, <1>3, <1>7, SMT
<1> HIDE DEF d3, e3
<1>9. QED  BY <1>4, <1>6, <1>8, SMT

LEMMA OrOfDouble ==
  ASSUME NEW x \in Int, 0 <= x, x < 2, NEW u \in Int, 0 <= u, u < 131072,
         NEW y \in Int, 0 <= y, y < 2, NEW v \in Int, 0 <= v, v < 131072
  PROVE  SLSET(x + 2 * u, y + 2 * v) = SLSET(x, y) + 2 * SLSET(u, v)
<1> DEFINE d(k) == IF BitSet(x + 2 * u, k) \/ BitSet(y + 2 * v, k) THEN k ELSE 0
           c(k) == IF BitSet(x, k) \/ BitSet(y, k) THEN k ELSE 0
           e(k) == IF BitSet(u, k) \/ BitSet(v, k) THEN k ELSE 0
<1>1. DoubleBits(x, u) /\ DoubleBits(y, v)
  BY BitsOfDouble
<1>2. d(1) = c(1) /\ d(2) = 2 * e(1) /\ d(4) = 2 * e(2) /\ d(8) = 2 * e(4) /\ d(16) = 2 * e(8)
      /\ d(32) = 2 * e(16) /\ d(64) = 2 * e(32) /\ d(128) = 2 * e(64) /\ d(256) = 2 * e(128)
      /\ d(512) = 2 * e(256) /\ d(1024) = 2 * e(512) /\ d(2048) = 2 * e(1024)
      /\ d(4096) = 2 * e(2048) /\ d(8192) = 2 * e(4096) /\ d(16384) = 2 * e(8192)
      /\ d(32768) = 2 * e(16384) /\ d(65536) = 2 * e(32768) /\ d(131072) = 2 * e(65536)
      /\ c(2) = 0 /\ c(4) = 0 /\ c(8) = 0 /\ c(16) = 0 /\ c(32) = 0 /\ c(64) = 0
      /\ c(128) = 0 /\ c(256) = 0 /\ c(512) = 0 /\ c(1024) = 0 /\ c(2048) = 0 /\ c(4096) = 0
      /\ c(8192) = 0 /\ c(16384) = 0 /\ c(32768) = 0 /\ c(65536) = 0 /\ c(131072) = 0 /\ e(131072) = 0
  BY <1>1, SMT DEF DoubleBits
<1>3. c(1) \in Int /\ e(1) \in Int /\ e(2) \in Int /\ e(4) \in Int /\ e(8) \in Int /\ e(16) \in Int
      /\ e(32) \in Int /\ e(64) \in Int /\ e(128) \in Int /\ e(256) \in Int
      /\ e(512) \in Int /\ e(1024) \in Int /\ e(2048) \in Int /\ e(4096) \in Int
      /\ e(8192) \in Int /\ e(16384) \in Int /\ e(32768) \in Int /\ e(65536) \in Int
      /\ e(131072) \in Int
  BY SMT
<1> DEFINE d1 == d(1) + d(2) + d(4) + d(8) + d(16) + d(32)
           d2 == d1 + d(64) + d(128) + d(256) + d(512) + d(1024) + d(2048)
           d3 == d2 + d(4096) + d(8192) + d(16384) + d(32768) + d(65536) + d(131072)
           e1 == e(1) + e(2) + e(4) + e(8) + e(16)
           e2 == e1 + e(32) + e(64) + e(128) + e(256) + e(512) + e(1024)
           e3 == e2 + e(2048) + e(4096) + e(8192) + e(16384) + e(32768) + e(65536) + e(131072)
           c1 == c(1) + c(2) + c(4) + c(8) + c(16) + c(32)
           c2 == c1 + c(64) + c(128) + c(256) + c(512) + c(1024) + c(2048)
           c3 == c2 + c(4096) + c(8192) + c(16384) + c(32768) + c(65536) + c(131072)
<1>4. /\ SLSET(x + 2 * u, y + 2 * v) = d3
      /\ SLSET(x, y) = c3
      /\ SLSET(u, v) = e3
  BY SMT DEF SLSET, Assemble
<1> HIDE DEF d, c, e
<1>5. d1 = c(1) + 2 * e1 /\ e1 \in Int
  BY <1>2, <1>3, SMT
<1>6. c3 = c(1)
  BY <1>2, <1>3, SMT
<1> HIDE DEF d1, e1, c3
<1>7. d2 = c(1) + 2 * e2 /\ e2 \in Int
  BY <1>2, <1>3, <1>5, SMT
<1> HIDE DEF d2, e2
<1>8. d3 = c(1) + 2 * e3
  BY <1>2, <1>3, <1>7, SMT
<1> HIDE DEF d3, e3
<1>9. QED  BY <1>4, <1>6, <1>8, SMT

LEMMA XorOfDouble ==
  ASSUME NEW x \in Int, 0 <= x, x < 2, NEW u \in Int, 0 <= u, u < 131072,
         NEW y \in Int, 0 <= y, y < 2, NEW v \in Int, 0 <= v, v < 131072
  PROVE  SLCP(x + 2 * u, y + 2 * v) = SLCP(x, y) + 2 * SLCP(u, v)
<1> DEFINE d(k) == IF ~(BitSet(x + 2 * u, k) <=> BitSet(y + 2 * v, k)) THEN k ELSE 0
           c(k) == IF ~(BitSet(x, k) <=> BitSet(y, k)) THEN k ELSE 0
           e(k) == IF ~(BitSet(u, k) <=> BitSet(v, k)) THEN k ELSE 0
<1>1. DoubleBits(x, u) /\ DoubleBits(y, v)
  BY BitsOfDouble
<1>2. d(1) = c(1) /\ d(2) = 2 * e(1) /\ d(4) = 2 * e(2) /\ d(8) = 2 * e(4) /\ d(16) = 2 * e(8)
      /\ d(32) = 2 * e(16) /\ d(64) = 2 * e(32) /\ d(128) = 2 * e(64) /\ d(256) = 2 * e(128)
      /\ d(512) = 2 * e(256) /\ d(1024) = 2 * e(512) /\ d(2048) = 2 * e(1024)
      /\ d(4096) = 2 * e(2048) /\ d(8192) = 2 * e(4096) /\ d(16384) = 2 * e(8192)
      /\ d(32768) = 2 * e(16384) /\ d(65536) = 2 * e(32768) /\ d(131072) = 2 * e(65536)
      /\ c(2) = 0 /\ c(4) = 0 /\ c(8) = 0 /\ c(16) = 0 /\ c(32) = 0 /\ c(64) = 0
      /\ c(128) = 0 /\ c(256) = 0 /\ c(512) = 0 /\ c(1024) = 0 /\ c(2048) = 0 /\ c(4096) = 0
      /\ c(8192) = 0 /\ c(16384) = 0 /\ c(32768) = 0 /\ c(65536) = 0 /\ c(131072) = 0 /\ e(131072) = 0
  BY <1>1, SMT DEF DoubleBits
<1>3. c(1) \in Int /\ e(1) \in Int /\ e(2) \in Int /\ e(4) \in Int /\ e(8) \in Int /\ e(16) \in Int
      /\ e(32) \in Int /\ e(64) \in Int /\ e(128) \in Int /\ e(256) \in Int
      /\ e(512) \in Int /\ e(1024) \in Int /\ e(2048) \in Int /\ e(4096) \in Int
      /\ e(8192) \in Int /\ e(16384) \in Int /\ e(32768) \in Int /\ e(65536) \in Int
      /\ e(131072) \in Int
  BY SMT
<1> DEFINE d1 == d(1) + d(2) + d(4) + d(8) + d(16) + d(32)
           d2 == d1 + d(64) + d(128) + d(256) + d(512) + d(1024) + d(2048)
           d3 == d2 + d(4096) + d(8192) + d(16384) + d(32768) + d(65536) + d(131072)
           e1 == e(1) + e(2) + e(4) + e(8) + e(16)
           e2 == e1 + e(32) + e(64) + e(128) + e(256) + e(512) + e(1024)
           e3 == e2 + e(2048) + e(4096) + e(8192) + e(16384) + e(32768) + e(65536) + e(131072)
           c1 == c(1) + c(2) + c(4) + c(8) + c(16) + c(32)
           c2 == c1 + c(64) + c(128) + c(256) + c(512) + c(1024) + c(2048)
           c3 == c2 + c(4096) + c(8192) + c(16384) + c(32768) + c(65536) + c(131072)
<1>4. /\ SLCP(x + 2 * u, y + 2 * v) = d3
      /\ SLCP(x, y) = c3
      /\ SLCP(u, v) = e3
  BY SMT DEF SLCP, Assemble
<1> HIDE DEF d, c, e
<1>5. d1 = c(1) + 2 * e1 /\ e1 \in Int
  BY <1>2, <1>3, SMT
<1>6. c3 = c(1)
  BY <1>2, <1>3, SMT
<1> HIDE DEF d1, e1, c3
<1>7. d2 = c(1) + 2 * e2 /\ e2 \in Int
  BY <1>2, <1>3, <1>5, SMT
<1> HIDE DEF d2, e2
<1>8. d3 = c(1) + 2 * e3
  BY <1>2, <1>3, <1>7, SMT
<1> HIDE DEF d3, e3
<1>9. QED  BY <1>4, <1>6, <1>8, SMT

LEMMA BitFunctionType ==
  ASSUME NEW f \in BitFunction
  PROVE  /\ f \in [Word \X Word -> Word]
         /\ \A a, b \in Word : f[<<a, b>>] \in Int /\ f[<<a, b>>] \in Word
<1>1. \A a, b \in Word : SLCL(a, b) \in Word /\ SLSET(a, b) \in Word /\ SLCP(a, b) \in Word
  <2>1. \A a \in Word : a < WORD
    BY WordBound
  <2>2. WORD \in {HIMOD, BYTE, HALF, WORD}
    OBVIOUS
  <2>3. QED  BY <2>1, <2>2, SlclType, SlsetType, SlcpType DEF Word
<1>2. And \in [Word \X Word -> Word] /\ Or \in [Word \X Word -> Word] /\ Xor \in [Word \X Word -> Word]
  BY <1>1 DEF And, Or, Xor
<1>3. f \in [Word \X Word -> Word]
  BY <1>2, Zenon DEF BitFunction
<1>4. \A a, b \in Word : f[<<a, b>>] \in Word
  BY <1>3
<1>5. \A w \in Word : w \in Int
  BY WordBound
<1>6. \A a, b \in Word : f[<<a, b>>] \in Int
  BY <1>4, <1>5, Zenon
<1>7. QED  BY <1>3, <1>4, <1>6, Zenon

LEMMA SplitDigits ==
  ASSUME NEW f, NEW s, Splits(f, s),
         NEW x \in Word, NEW y \in Word, NEW u \in Word, NEW v \in Word,
         x < s, y < s, x + s * u < WORD, y + s * v < WORD
  PROVE  f[<<x + s * u, y + s * v>>] = f[<<x, y>>] + s * f[<<u, v>>]
  BY DEF Splits

LEMMA SplitsTwo ==
  ASSUME NEW f \in BitFunction
  PROVE  Splits(f, 2)
<1>1. SUFFICES ASSUME NEW x \in Word, NEW y \in Word, NEW u \in Word, NEW v \in Word,
                      x < 2, y < 2, x + 2 * u < WORD, y + 2 * v < WORD
               PROVE  f[<<x + 2 * u, y + 2 * v>>] = f[<<x, y>>] + 2 * f[<<u, v>>]
  BY DEF Splits
<1>2. /\ x \in Int /\ 0 <= x /\ y \in Int /\ 0 <= y
      /\ u \in Int /\ 0 <= u /\ u < 131072 /\ v \in Int /\ 0 <= v /\ v < 131072
  BY <1>1, WordBound, SMT
<1>3. x + 2 * u \in Word /\ y + 2 * v \in Word
  BY <1>1, <1>2, WordBound, SMT DEF Word
<1>4. /\ SLCL(x + 2 * u, y + 2 * v) = SLCL(x, y) + 2 * SLCL(u, v)
      /\ SLSET(x + 2 * u, y + 2 * v) = SLSET(x, y) + 2 * SLSET(u, v)
      /\ SLCP(x + 2 * u, y + 2 * v) = SLCP(x, y) + 2 * SLCP(u, v)
  BY <1>1, <1>2, AndOfDouble, OrOfDouble, XorOfDouble, SMT
<1>5. CASE f = And
  BY <1>3, <1>4, <1>5 DEF And
<1>6. CASE f = Or
  BY <1>3, <1>4, <1>6 DEF Or
<1>7. CASE f = Xor
  BY <1>3, <1>4, <1>7 DEF Xor
<1>8. QED  BY <1>5, <1>6, <1>7 DEF BitFunction

(* Two digits are one digit of the product of their bases. *)
LEMMA SplitsTimes ==
  ASSUME NEW f \in BitFunction, NEW s \in Int, s > 0, NEW t \in Int, t > 0,
         Splits(f, s), Splits(f, t)
  PROVE  Splits(f, s * t)
<1>1. SUFFICES ASSUME NEW x \in Word, NEW y \in Word, NEW u \in Word, NEW v \in Word,
                      x < s * t, y < s * t,
                      x + (s * t) * u < WORD, y + (s * t) * v < WORD
               PROVE  f[<<x + (s * t) * u, y + (s * t) * v>>]
                        = f[<<x, y>>] + (s * t) * f[<<u, v>>]
  BY DEF Splits
<1>0. Splits(f, s) /\ Splits(f, t)
  OBVIOUS
<1> DEFINE Low(z)  == z % s
           High(z) == z \div s
<1>2. ASSUME NEW z \in Word, NEW w \in Word, z < s * t, z + (s * t) * w < WORD
      PROVE  /\ Low(z) \in Word /\ Low(z) < s /\ High(z) \in Word /\ High(z) < t
             /\ Low(z) + s * High(z) = z
             /\ High(z) + t * w \in Word
             /\ Low(z) + s * (High(z) + t * w) = z + (s * t) * w
  <2> DEFINE l == Low(z)
             h == High(z)
  <2>1. z \in Int /\ w \in Int /\ 0 <= z /\ 0 <= w /\ z < WORD
    BY WordBound
  <2>2. l \in Int /\ 0 <= l /\ l < s /\ h \in Int /\ l = z - s * h
    BY <2>1, RemainderRange, Remainder, Zenon
  <2>3. 0 <= h /\ h < t
    BY <1>2, <2>1, QuotientRange, Zenon
  <2> HIDE DEF l, h
  <2>4. s * h \in Int /\ l + s * h = z /\ h <= s * h
    <3>1. (s - 1) * h >= 0
      BY <2>2, <2>3, SMT
    <3>2. (s - 1) * h = s * h - h /\ s * h \in Int
      BY <2>2, SMT
    <3>3. QED  BY <2>1, <2>2, <3>1, <3>2, SMT
  <2>5. h + t * w \in Int /\ 0 <= h + t * w
    BY <2>1, <2>2, <2>3, SMT
  <2>6. l + s * (h + t * w) = z + (s * t) * w
    <3>1. s * (h + t * w) = s * h + (s * t) * w /\ (s * t) * w \in Int
      BY <2>1, <2>2, SMT
    <3>2. QED  BY <2>1, <2>2, <2>4, <3>1, SMT
  <2>7. h + t * w < WORD
    <3> DEFINE m == h + t * w
    <3>1. m \in Int /\ 0 <= m /\ l + s * m = z + (s * t) * w
      BY <2>5, <2>6
    <3> HIDE DEF m
    <3>2. (s - 1) * m >= 0 /\ (s - 1) * m = s * m - m /\ s * m \in Int
      BY <3>1, SMT
    <3>3. (s * t) * w \in Int /\ z + (s * t) * w < WORD
      BY <1>2, <2>1, SMT
    <3>4. m < WORD
      BY <2>1, <2>2, <3>1, <3>2, <3>3, WordBound, SMT
    <3>5. QED  BY <3>4 DEF m
  <2>8. l < WORD /\ h < WORD
    BY <2>1, <2>2, <2>3, <2>4, WordBound, SMT
  <2>9. l \in Word /\ h \in Word /\ h + t * w \in Word
    BY <2>2, <2>3, <2>5, <2>7, <2>8, WordBound DEF Word
  <2>10. QED  BY <2>2, <2>3, <2>4, <2>6, <2>9, Zenon DEF l, h
<1> DEFINE x0 == Low(x)
           x1 == High(x)
           y0 == Low(y)
           y1 == High(y)
<1>3. /\ x0 \in Word /\ x0 < s /\ x1 \in Word /\ x1 < t /\ x0 + s * x1 = x
      /\ x1 + t * u \in Word /\ x0 + s * (x1 + t * u) = x + (s * t) * u
  BY <1>1, <1>2, Zenon
<1>4. /\ y0 \in Word /\ y0 < s /\ y1 \in Word /\ y1 < t /\ y0 + s * y1 = y
      /\ y1 + t * v \in Word /\ y0 + s * (y1 + t * v) = y + (s * t) * v
  BY <1>1, <1>2, Zenon
<1> HIDE DEF x0, x1, y0, y1
<1>5. x < WORD /\ y < WORD /\ x1 + t * u < WORD /\ y1 + t * v < WORD
  BY <1>3, <1>4, WordBound
<1>6. f[<<x0 + s * x1, y0 + s * y1>>] = f[<<x0, y0>>] + s * f[<<x1, y1>>]
  <2>1. /\ x0 \in Word /\ y0 \in Word /\ x1 \in Word /\ y1 \in Word /\ x0 < s /\ y0 < s
        /\ x0 + s * x1 < WORD /\ y0 + s * y1 < WORD
    BY <1>3, <1>4, <1>5, Zenon
  <2>2. QED  BY <2>1, <1>0, SMT DEF Splits
<1>7. f[<<x0 + s * (x1 + t * u), y0 + s * (y1 + t * v)>>]
        = f[<<x0, y0>>] + s * f[<<x1 + t * u, y1 + t * v>>]
  <2> DEFINE p == x1 + t * u
             q == y1 + t * v
  <2>1. /\ x0 \in Word /\ y0 \in Word /\ p \in Word /\ q \in Word /\ x0 < s /\ y0 < s
        /\ x0 + s * p < WORD /\ y0 + s * q < WORD
    BY <1>1, <1>3, <1>4, Zenon
  <2> HIDE DEF p, q
  <2>2. f[<<x0 + s * p, y0 + s * q>>] = f[<<x0, y0>>] + s * f[<<p, q>>]
    BY <2>1, <1>0, SMT DEF Splits
  <2>3. QED  BY <2>2 DEF p, q
<1>8. f[<<x1 + t * u, y1 + t * v>>] = f[<<x1, y1>>] + t * f[<<u, v>>]
  <2>1. /\ x1 \in Word /\ y1 \in Word /\ u \in Word /\ v \in Word /\ x1 < t /\ y1 < t
        /\ x1 + t * u < WORD /\ y1 + t * v < WORD
    BY <1>3, <1>4, <1>5, Zenon
  <2>2. QED  BY <2>1, <1>0, SMT DEF Splits
<1> DEFINE a == f[<<x0, y0>>]
           b == f[<<x1, y1>>]
           c == f[<<u, v>>]
<1>9. a \in Int /\ b \in Int /\ c \in Int
  BY <1>3, <1>4, BitFunctionType
<1> HIDE DEF a, b, c
<1>10. a + s * (b + t * c) = (a + s * b) + (s * t) * c
  BY <1>9, SMT
<1>11. f[<<x, y>>] = a + s * b
  BY <1>3, <1>4, <1>6, Zenon DEF a, b
<1>12. f[<<x + (s * t) * u, y + (s * t) * v>>] = a + s * (b + t * c)
  BY <1>3, <1>4, <1>7, <1>8, Zenon DEF a, b, c
<1>13. QED  BY <1>10, <1>11, <1>12, Zenon DEF c

LEMMA SplitsPowers ==
  ASSUME NEW f \in BitFunction
  PROVE  \A s \in {2, 4, 8, 16, 128, 256, 4096, 32768, 65536} : Splits(f, s)
<1>1. Splits(f, 2)
  BY SplitsTwo
<1>2. Splits(f, 2 * 2)
  BY <1>1, SplitsTimes
<1>3. 2 * 2 = 4 /\ 4 * 2 = 8 /\ 4 * 4 = 16 /\ 16 * 8 = 128 /\ 16 * 16 = 256 /\ 256 * 16 = 4096
      /\ 256 * 128 = 32768 /\ 256 * 256 = 65536
  BY SMT
<1>4. Splits(f, 4)
  BY <1>2, <1>3, SMT
<1>5. Splits(f, 4 * 2) /\ Splits(f, 4 * 4)
  BY <1>1, <1>4, SplitsTimes
<1>6. Splits(f, 8) /\ Splits(f, 16)
  BY <1>3, <1>5, SMT
<1>7. Splits(f, 16 * 8) /\ Splits(f, 16 * 16)
  BY <1>6, SplitsTimes
<1>8. Splits(f, 128) /\ Splits(f, 256)
  BY <1>3, <1>7, SMT
<1>9. Splits(f, 256 * 16) /\ Splits(f, 256 * 128) /\ Splits(f, 256 * 256)
  BY <1>6, <1>8, SplitsTimes
<1>10. Splits(f, 4096) /\ Splits(f, 32768) /\ Splits(f, 65536)
  BY <1>3, <1>9, SMT
<1>11. QED  BY <1>1, <1>4, <1>6, <1>8, <1>10

(* SLSET with 0 on either side changes nothing. *)
Keeps(s) == \A x \in Word : x < s => SLSET(x, 0) = x /\ SLSET(0, x) = x

LEMMA ZeroIsWord == 0 \in Word
  BY Widths DEF Word

LEMMA OrSplits ==
  ASSUME NEW s \in Int, s > 0, Splits(Or, s),
         NEW x \in Word, NEW y \in Word, NEW u \in Word, NEW v \in Word,
         x < s, y < s, x + s * u < WORD, y + s * v < WORD
  PROVE  SLSET(x + s * u, y + s * v) = SLSET(x, y) + s * SLSET(u, v)
<1> DEFINE p == x + s * u
           q == y + s * v
<1>1. /\ x \in Int /\ 0 <= x /\ y \in Int /\ 0 <= y
      /\ u \in Int /\ 0 <= u /\ v \in Int /\ 0 <= v
  BY WordBound
<1>2. s * u \in Int /\ s * u >= 0 /\ s * v \in Int /\ s * v >= 0
  BY <1>1, SMT
<1>3. p \in Int /\ 0 <= p /\ p < WORD /\ q \in Int /\ 0 <= q /\ q < WORD
  BY <1>1, <1>2
<1> HIDE DEF p, q
<1>4. p \in Word /\ q \in Word
  BY <1>3, WordBound DEF Word
<1>5. Or[<<p, q>>] = Or[<<x, y>>] + s * Or[<<u, v>>]
  BY SplitDigits DEF p, q
<1>6. Or[<<p, q>>] = SLSET(p, q) /\ Or[<<x, y>>] = SLSET(x, y) /\ Or[<<u, v>>] = SLSET(u, v)
  BY <1>4 DEF Or
<1>7. QED  BY <1>5, <1>6 DEF p, q

LEMMA KeepsTwo == Keeps(2)
<1>1. ASSUME NEW x \in Word, x < 2
      PROVE  SLSET(x, 0) = x /\ SLSET(0, x) = x
  <2>1. x = 0 \/ x = 1
    BY <1>1, WordBound
  <2>2. SLSET(0, 0) = 0 /\ SLSET(0, 1) = 1 /\ SLSET(1, 0) = 1
    BY SMT DEF SLSET, Assemble, BitSet
  <2>3. QED  BY <2>1, <2>2, Zenon
<1>2. QED  BY <1>1 DEF Keeps

LEMMA KeepsTimes ==
  ASSUME NEW s \in Int, s > 0, NEW t \in Int, t > 0, Splits(Or, s), Keeps(s), Keeps(t)
  PROVE  Keeps(s * t)
<1>1. SUFFICES ASSUME NEW x \in Word, x < s * t
               PROVE  SLSET(x, 0) = x /\ SLSET(0, x) = x
  BY DEF Keeps
<1> DEFINE l == x % s
           h == x \div s
<1>2. x \in Int /\ 0 <= x /\ x < WORD
  BY WordBound
<1>3. l \in Int /\ 0 <= l /\ l < s /\ h \in Int /\ l = x - s * h
  BY <1>2, RemainderRange, Remainder, Zenon
<1>4. 0 <= h /\ h < t
  BY <1>1, <1>2, QuotientRange, Zenon
<1> HIDE DEF l, h
<1>5. s * h \in Int /\ l + s * h = x /\ h <= s * h
  <2>1. (s - 1) * h >= 0 /\ (s - 1) * h = s * h - h /\ s * h \in Int
    BY <1>3, <1>4, SMT
  <2>2. QED  BY <1>2, <1>3, <2>1, SMT
<1>6. l < WORD /\ h < WORD
  BY <1>2, <1>3, <1>4, <1>5, WordBound, SMT
<1>7. l \in Word /\ h \in Word
  BY <1>3, <1>4, <1>6, WordBound DEF Word
<1>8. s * 0 = 0 /\ 0 + 0 = 0
  BY SMT
<1>9. 0 + s * 0 = 0 /\ l + s * h < WORD /\ 0 + s * 0 < WORD /\ 0 < s
  BY <1>2, <1>5, <1>8, WordBound
<1>10. SLSET(l + s * h, 0 + s * 0) = SLSET(l, 0) + s * SLSET(h, 0)
  BY <1>3, <1>7, <1>9, ZeroIsWord, OrSplits, SMT
<1>11. SLSET(0 + s * 0, l + s * h) = SLSET(0, l) + s * SLSET(0, h)
  BY <1>3, <1>7, <1>9, ZeroIsWord, OrSplits, SMT
<1>12. SLSET(l, 0) = l /\ SLSET(h, 0) = h /\ SLSET(0, l) = l /\ SLSET(0, h) = h
  BY <1>3, <1>4, <1>7 DEF Keeps
<1>13. QED  BY <1>5, <1>9, <1>10, <1>11, <1>12, Zenon

LEMMA OrZero ==
  ASSUME NEW x \in Word
  PROVE  SLSET(x, 0) = x /\ SLSET(0, x) = x
<1>1. Or \in BitFunction
  BY DEF BitFunction
<1>2. Splits(Or, 2) /\ Splits(Or, 4) /\ Splits(Or, 16) /\ Splits(Or, 256)
  BY <1>1, SplitsPowers, SMT
<1>3. 2 * 2 = 4 /\ 4 * 4 = 16 /\ 16 * 16 = 256 /\ 256 * 256 = 65536 /\ 4 * 65536 = 262144
  BY SMT
<1>4. Keeps(2 * 2)
  BY KeepsTwo, KeepsTimes, <1>2
<1>5. Keeps(4 * 4)
  BY <1>2, <1>3, <1>4, KeepsTimes, SMT
<1>6. Keeps(16 * 16)
  BY <1>2, <1>3, <1>5, KeepsTimes, SMT
<1>7. Keeps(256 * 256)
  BY <1>2, <1>3, <1>6, KeepsTimes, SMT
<1>8. Keeps(65536) /\ Keeps(4)
  BY <1>3, <1>4, <1>7, SMT
<1>9. Keeps(4 * 65536)
  BY <1>2, <1>8, KeepsTimes
<1>10. x < 4 * 65536
  BY WordBound, SMT
<1>11. QED  BY <1>9, <1>10 DEF Keeps

Weights == {2, 4, 8, 16, 128, 256, 4096, 32768, 65536}

(* OR of two words without a common bit is their sum. *)
LEMMA OrDisjoint ==
  ASSUME NEW s \in Weights, NEW x \in Word, NEW v \in Word, x < s, x + s * v < WORD
  PROVE  /\ s * v \in Word
         /\ SLSET(x, s * v) = x + s * v
         /\ SLSET(s * v, x) = x + s * v
<1>1. Splits(Or, s) /\ s \in Int /\ s > 0
  <2>1. Or \in BitFunction
    BY DEF BitFunction
  <2>2. Splits(Or, s)
    BY <2>1, SplitsPowers DEF Weights
  <2>3. s \in Int /\ s > 0
    BY SMT DEF Weights
  <2>4. QED  BY <2>2, <2>3
<1>2. x \in Int /\ 0 <= x /\ v \in Int /\ 0 <= v
  BY WordBound
<1>3. s * v \in Int /\ 0 <= s * v /\ s * v < WORD /\ x + s * 0 = x /\ 0 + s * v = s * v
      /\ s * 0 = 0
  <2>1. s * v \in Int /\ s * v >= 0 /\ s * 0 = 0
    BY <1>1, <1>2, SMT
  <2>2. QED  BY <1>2, <2>1, WordBound, SMT
<1>4. s * v \in Word /\ x + s * 0 < WORD /\ 0 + s * v < WORD /\ 0 < s
  BY <1>1, <1>3, WordBound DEF Word
<1>5. SLSET(x + s * 0, 0 + s * v) = SLSET(x, 0) + s * SLSET(0, v)
  BY <1>1, <1>4, ZeroIsWord, OrSplits, SMT
<1>6. SLSET(0 + s * v, x + s * 0) = SLSET(0, x) + s * SLSET(v, 0)
  BY <1>1, <1>4, ZeroIsWord, OrSplits, SMT
<1>7. SLSET(x, 0) = x /\ SLSET(0, x) = x /\ SLSET(0, v) = v /\ SLSET(v, 0) = v
  BY OrZero
<1>8. QED  BY <1>3, <1>4, <1>5, <1>6, <1>7, Zenon

(* Sign extension: OR-ing ones from a set bit upwards adds what they weigh above it. *)
LEMMA OrOnes ==
  ASSUME NEW s \in Weights, NEW x \in Word, NEW m \in Int, x < s, m > 0,
         s * (2 * m) = WORD
  PROVE  SLSET(x + s, WORD - s) = x + (WORD - s)
<1>1. Splits(Or, s) /\ s \in Int /\ s > 0 /\ Splits(Or, 2)
  <2>1. Or \in BitFunction
    BY DEF BitFunction
  <2>2. Splits(Or, s) /\ Splits(Or, 2)
    BY <2>1, SplitsPowers DEF Weights
  <2>3. s \in Int /\ s > 0
    BY SMT DEF Weights
  <2>4. QED  BY <2>2, <2>3
<1> DEFINE k == m - 1
           o == 1 + 2 * k
<1>2. x \in Int /\ 0 <= x /\ WORD \in Int
  BY WordBound
<1>3. k \in Int /\ 0 <= k /\ o \in Int /\ 1 <= o /\ 2 * m = o + 1 /\ k < o /\ 2 * m \in Int
      /\ o < 2 * m
  OBVIOUS
<1>4. s * (2 * m) = s * o + s /\ s * o \in Int
  <2> HIDE DEF o
  <2>1. s * (o + 1) = s * o + s /\ s * o \in Int
    BY <1>1, <1>3, SMT
  <2>2. QED  BY <1>3, <2>1, Zenon
<1>5. 2 * m <= WORD
  <2> DEFINE d == 2 * m
  <2>1. d \in Int /\ d > 0 /\ s * d = WORD
    BY <1>3
  <2> HIDE DEF d
  <2>2. (s - 1) * d >= 0 /\ (s - 1) * d = s * d - d
    BY <1>1, <2>1, SMT
  <2>3. d <= WORD
    BY <1>2, <2>1, <2>2, SMT
  <2>4. QED  BY <2>3 DEF d
<1> HIDE DEF o
<1>6. o < WORD /\ k < WORD /\ WORD - s = s * o
  BY <1>1, <1>2, <1>3, <1>4, <1>5, SMT
<1>7. o \in Word /\ k \in Word /\ 1 \in Word
  BY <1>3, <1>6, WordBound DEF Word
<1>8. SLSET(1, o) = o
  <2>1. SLSET(1 + 2 * 0, 1 + 2 * k) = SLSET(1, 1) + 2 * SLSET(0, k)
    <3>1. 1 + 2 * 0 < WORD /\ 1 + 2 * k < WORD /\ 1 < 2 /\ 2 > 0 /\ 2 \in Int
      BY <1>6, WordBound DEF o
    <3>2. QED  BY <1>1, <1>7, <3>1, ZeroIsWord, OrSplits, SMT
  <2>2. SLSET(1, 1) = 1 /\ SLSET(0, k) = k /\ 1 + 2 * 0 = 1
    <3>1. SLSET(1, 1) = 1
      BY SMT DEF SLSET, Assemble, BitSet
    <3>2. QED  BY <1>7, <3>1, OrZero
  <2>3. QED  BY <2>1, <2>2, Zenon DEF o
<1>9. s * 1 = s /\ 0 + s * o = s * o /\ 0 < s /\ x + s * 1 < WORD /\ 0 + s * o < WORD
  <2>1. s * 1 = s
    BY <1>1, SMT
  <2>2. s <= s * o
    <3>1. s * (o - 1) >= 0 /\ s * (o - 1) = s * o - s
      BY <1>1, <1>3, SMT
    <3>2. QED  BY <1>1, <1>4, <3>1, SMT
  <2>3. QED  BY <1>1, <1>2, <1>4, <1>6, <2>1, <2>2, SMT
<1>10. SLSET(x + s * 1, 0 + s * o) = SLSET(x, 0) + s * SLSET(1, o)
  BY <1>1, <1>7, <1>9, ZeroIsWord, OrSplits, SMT
<1>11. SLSET(x, 0) = x
  BY OrZero
<1>12. QED  BY <1>6, <1>8, <1>9, <1>10, <1>11, Zenon

(* The two digits of a register value in base HALF. *)
LEMMA HalfDigits ==
  ASSUME NEW a \in RegVal
  PROVE  /\ Full(a) % HALF = a[2] % HALF
         /\ Full(a) \div HALF = (a[2] \div HALF) + 4 * a[1]
         /\ a[2] % HALF \in Word /\ a[2] % HALF < HALF
         /\ a[2] \div HALF \in Word /\ a[2] \div HALF < 4
         /\ (a[2] % HALF) + HALF * (a[2] \div HALF) = a[2]
<1> DEFINE x == Full(a)
           r == a[2] % HALF
           q == a[2] \div HALF
<1>1. a[1] \in Int /\ 0 <= a[1] /\ a[2] \in Int /\ 0 <= a[2] /\ a[2] < WORD
  BY Widths DEF RegVal, Word
<1>2. HALF \in Int /\ HALF > 1 /\ WORD = 4 * HALF
  BY Sizes
<1>0. HALF > 0 /\ HALF \in Int /\ a[2] \in Int
  BY <1>1, <1>2
<1>3. r \in Int /\ 0 <= r /\ r < HALF /\ q \in Int /\ r = a[2] - HALF * q
  BY <1>0, RemainderRange, Remainder, Zenon
<1>4. 0 <= q /\ q < 4
  <2>1. a[2] < HALF * 4
    BY <1>1, <1>2
  <2>2. QED  BY <1>1, <1>2, <2>1, QuotientRange
<1>5. x = HALF * (q + 4 * a[1]) + r
  <2>1. x = a[1] * WORD + a[2]
    BY DEF Full
  <2> HIDE DEF x, r, q
  <2>2. HALF * q \in Int /\ a[2] = HALF * q + r
    BY <1>1, <1>2, <1>3, SMT
  <2>3. a[1] * (4 * HALF) = HALF * (4 * a[1])
    BY <1>1, <1>2, SMT
  <2>4. HALF * (q + 4 * a[1]) = HALF * q + HALF * (4 * a[1]) /\ HALF * (4 * a[1]) \in Int
    BY <1>1, <1>2, <1>3, SMT
  <2>5. QED  BY <1>2, <1>3, <2>1, <2>2, <2>3, <2>4, SMT
<1> DEFINE e == q + 4 * a[1]
<1>6. e \in Int /\ x = HALF * e + r
  BY <1>1, <1>3, <1>5
<1> HIDE DEF x, r, q, e
<1>7. x \in Int
  BY <1>2, <1>3, <1>6, SMT
<1>8. x \div HALF = e /\ x % HALF = r
  BY <1>0, <1>3, <1>6, <1>7, Quotient, Zenon
<1>9. r < WORD /\ q < WORD
  BY <1>2, <1>3, <1>4, SMT
<1>10. r \in Word /\ q \in Word
  BY <1>2, <1>3, <1>4, <1>9 DEF Word
<1>11. r + HALF * q = a[2]
  BY <1>1, <1>2, <1>3, SMT
<1>12. QED  BY <1>3, <1>4, <1>8, <1>10, <1>11, Zenon DEF x, r, q, e

(* A bit operation on the halves of a register is the operation on its value, *)
(* read in two pieces of 2 * BYTEBITS bits.                                   *)
LEMMA BitsOfHalves ==
  ASSUME NEW f \in BitFunction, NEW a \in RegVal, NEW b \in RegVal
  PROVE  f[<<a[1], b[1]>>] * WORD + f[<<a[2], b[2]>>]
           = f[<<Full(a) % HALF, Full(b) % HALF>>]
             + HALF * f[<<Full(a) \div HALF, Full(b) \div HALF>>]
<1> DEFINE r == a[2] % HALF
           q == a[2] \div HALF
           s == b[2] % HALF
           t == b[2] \div HALF
           h == a[1]
           k == b[1]
<1>1. /\ r \in Word /\ r < HALF /\ q \in Word /\ q < 4 /\ r + HALF * q = a[2]
      /\ Full(a) % HALF = r /\ Full(a) \div HALF = q + 4 * h
  BY HalfDigits
<1>2. /\ s \in Word /\ s < HALF /\ t \in Word /\ t < 4 /\ s + HALF * t = b[2]
      /\ Full(b) % HALF = s /\ Full(b) \div HALF = t + 4 * k
  BY HalfDigits
<1>3. h \in Int /\ 0 <= h /\ h < HIMOD /\ k \in Int /\ 0 <= k /\ k < HIMOD
      /\ a[2] < WORD /\ b[2] < WORD
  BY Widths DEF RegVal, Word
<1>4. HALF \in Int /\ HALF > 1 /\ WORD = 4 * HALF /\ HIMOD \in Int /\ HALF = 4 * HIMOD
      /\ HALF \in Weights
  <2>1. HALF \in {16, 256, 65536}
    BY Widths
  <2>2. QED  BY <2>1, Sizes, SMT DEF Weights
<1> HIDE DEF r, q, s, t, h, k
<1>5. h \in Word /\ k \in Word /\ q + 4 * h < WORD /\ t + 4 * k < WORD
  <2>1. q \in Int /\ t \in Int
    BY <1>1, <1>2, WordBound
  <2>2. QED  BY <1>1, <1>2, <1>3, <1>4, <2>1, SMT DEF Word
<1>6. Splits(f, HALF) /\ Splits(f, 4)
  BY <1>4, SplitsPowers DEF Weights
<1>7. f[<<r + HALF * q, s + HALF * t>>] = f[<<r, s>>] + HALF * f[<<q, t>>]
  <2>1. r + HALF * q < WORD /\ s + HALF * t < WORD
    BY <1>1, <1>2, <1>3
  <2>2. QED  BY <1>1, <1>2, <1>6, <2>1, SMT DEF Splits
<1>8. f[<<q + 4 * h, t + 4 * k>>] = f[<<q, t>>] + 4 * f[<<h, k>>]
  BY <1>1, <1>2, <1>5, <1>6, SMT DEF Splits
<1>9. f[<<r, s>>] \in Int /\ f[<<q, t>>] \in Int /\ f[<<h, k>>] \in Int
  BY <1>1, <1>2, <1>5, BitFunctionType
<1> DEFINE A == f[<<r, s>>]
           B == f[<<q, t>>]
           C == f[<<h, k>>]
<1>10. A \in Int /\ B \in Int /\ C \in Int
  BY <1>9
<1>11. f[<<a[2], b[2]>>] = A + HALF * B
  BY <1>1, <1>2, <1>7
<1>12. f[<<Full(a) \div HALF, Full(b) \div HALF>>] = B + 4 * C
  BY <1>1, <1>2, <1>8
<1>13. f[<<Full(a) % HALF, Full(b) % HALF>>] = A /\ f[<<a[1], b[1]>>] = C
  BY <1>1, <1>2, Zenon DEF h, k
<1> HIDE DEF A, B, C
<1>14. C * (4 * HALF) + (A + HALF * B) = A + HALF * (B + 4 * C)
  BY <1>4, <1>10, SMT
<1>15. QED  BY <1>4, <1>11, <1>12, <1>13, <1>14, Zenon

-----------------------------------------------------------------------------
(* The emulator: its shifts *)

LEMMA ShiftMaskType ==
  ASSUME NEW a \in Word \X Word, NEW n \in 0 .. XLEN - 1
  PROVE  ShiftMask(n, a) \in RegVal
<1> DEFINE above == IF n > WBITS THEN 2^(n - WBITS) ELSE 1
           low   == IF n < WBITS THEN a[2] - (a[2] % 2^n) ELSE 0
           high  == a[1] % HIMOD
<1>0. n \in 0 .. 36 /\ (n > WBITS => n - WBITS \in 0 .. 36)
  BY Widths
<1>1. 2^n \in Nat \ {0} /\ above \in Nat \ {0}
  <2>1. n > WBITS => 2^(n - WBITS) \in Nat \ {0}
    BY <1>0, PowerPositive
  <2>2. 2^n \in Nat \ {0}
    BY <1>0, PowerPositive
  <2>3. QED  BY <2>1, <2>2
<1>2. low \in Word
  <2>1. a[2] % 2^n \in 0 .. a[2]
    BY <1>1, ModBound DEF Word
  <2>2. QED  BY <2>1, Widths DEF Word
<1>3. high \in 0 .. HIMOD - 1
  BY Widths DEF Word
<1> HIDE DEF above, high
<1>4. high - (high % above) \in 0 .. HIMOD - 1
  <2>1. high % above \in 0 .. high
    <3>1. high \in Nat  BY <1>3, Widths
    <3>2. QED  BY <1>1, <3>1, ModBound
  <2>2. QED  BY <1>3, <2>1, Widths
<1>5. QED
  BY <1>2, <1>4 DEF ShiftMask, RegVal, above, high

-----------------------------------------------------------------------------
(* Instructions: the fields Encode gives the handlers are in range. *)

USE RegsAssumption

LEMMA RegsSmall == Regs \subseteq 0 .. 31 /\ 0 \in Regs /\ {A0, A1, A7} \subseteq Regs \ {0}
  BY DEF Regs

LEMMA PcDeltaType ==
  ASSUME NEW o \in Offset
  PROVE  PcDelta(o) \in Word
  BY Widths DEF PcDelta, Offset, Word

LEMMA ImmWidths ==
  /\ IMMBITS \in 1 .. 12
  /\ Imm12 \subseteq -2048 .. 2047
  /\ WBITS - IMMBITS \in 0 .. 36
  /\ XLEN \in 0 .. 32
<1>1. CASE BYTEBITS = 2
  BY <1>1, Widths DEF IMMBITS, Imm12
<1>2. CASE BYTEBITS = 4
  BY <1>2, Widths DEF IMMBITS, Imm12
<1>3. CASE BYTEBITS = 8
  <2>1. IMMBITS = 12 /\ 2^(12 - 1) = 2048
    BY <1>3 DEF IMMBITS
  <2>2. Imm12 = -2048 .. 2047
    BY <2>1 DEF Imm12
  <2>3. QED  BY <1>3, <2>1, <2>2, Widths
<1>4. QED  BY <1>1, <1>2, <1>3

InsnType(e) ==
  /\ e.dest \in Regs
  /\ e.word2 \in Word
  /\ e.op \notin UpperOps => e.src1 \in Regs
  /\ e.op \in ROps => e.word2 \div 2 \in Regs
  /\ e.op \in {"slli", "srli"} => e.word2 \in 0 .. XLEN - 1
  /\ e.op = "srai" => e.word2 \in 0 .. 36
  /\ e.op \in UpperOps => e.src1 \in 0 .. 3 /\ e.word2 < HIMOD * 2^(WBITS - IMMBITS)

LEMMA EncodeType ==
  ASSUME NEW i \in Instruction
  PROVE  InsnType(Encode(i))
<1>1. /\ i.op \in Ops /\ i.rd \in Regs /\ i.rs1 \in Regs /\ i.rs2 \in Regs
      /\ i.imm \in Int /\ i.imm \in Imms(i.op)
  BY DEF Instruction
<1>2. i.op \in UpperOps => i.imm \in Upper
  BY <1>1 DEF Imms, UpperOps, IOps, LoadOps, StoreOps, ShiftOps, BranchOps
<1>3. i.op \in BranchOps \cup {"jal"} => i.imm \in Offset
  BY <1>1 DEF Imms, IOps, LoadOps, StoreOps, ShiftOps, BranchOps
<1>4. i.op \in ShiftOps => i.imm \in 0 .. XLEN - 1
  BY <1>1 DEF Imms, IOps, LoadOps, StoreOps, ShiftOps
<1>5. Reg1(i) \in Regs /\ (i.op \notin UpperOps => Reg2(i) \in Regs)
  BY <1>1 DEF Reg1, Reg2
<1>0. i.rs2 \in 0 .. 31
  BY <1>1, RegsSmall
<1>6. Word2(i) \in Word
  <2>1. 2 * i.rs2 \in Word
    BY <1>0, Widths DEF Word
  <2>2. (i.imm - 1) % WORD \in Word /\ i.imm % WORD \in Word
    BY <1>1, Widths DEF Word
  <2>3. i.op = "srai" => i.imm + 4 \in Word
    BY <1>4, Widths DEF Word, ShiftOps
  <2>4. i.op \in BranchOps \cup {"jal"} => PcDelta(i.imm) \in Word
    BY <1>3, PcDeltaType
  <2>5. QED  BY <2>1, <2>2, <2>3, <2>4 DEF Word2
<1>7. i.op \in ROps => Word2(i) \div 2 \in Regs
  <2>1. i.op \in ROps => Word2(i) = 2 * i.rs2
    BY DEF Word2
  <2>2. (2 * i.rs2) \div 2 = i.rs2
    BY <1>0
  <2>3. QED  BY <1>1, <2>1, <2>2
<1>8. i.op \in {"slli", "srli"} => Word2(i) \in 0 .. XLEN - 1
  <2>1. i.op \in {"slli", "srli"} => Word2(i) = i.imm % WORD /\ i.imm \in 0 .. XLEN - 1
    BY <1>4 DEF Word2, ROps, BranchOps, ShiftOps
  <2>2. QED  BY <2>1, Widths
<1>9. i.op = "srai" => Word2(i) \in 0 .. 36
  <2>1. i.op = "srai" => Word2(i) = i.imm + 4 /\ i.imm \in 0 .. XLEN - 1
    BY <1>4 DEF Word2, ROps, ShiftOps
  <2>2. QED  BY <2>1, Widths
<1>10. i.op \in UpperOps => Reg2(i) \in 0 .. 3 /\ Word2(i) < HIMOD * 2^(WBITS - IMMBITS)
  <2>1. i.op \in UpperOps => Reg2(i) = i.imm \div WORD /\ Word2(i) = i.imm % WORD
    BY DEF Reg2, Word2, UpperOps, BranchOps, ROps
  <2>2. i.imm \in Upper =>
          i.imm \div WORD \in 0 .. 3 /\ i.imm % WORD < HIMOD * 2^(WBITS - IMMBITS)
    <3>1. CASE BYTEBITS = 2
      <4>1. IMMBITS = 4 /\ 2^(XLEN - IMMBITS) = 16 /\ 2^(WBITS - IMMBITS) = 4
        BY <3>1, Widths DEF IMMBITS
      <4>2. QED  BY <3>1, <4>1, Widths DEF Upper
    <3>2. CASE BYTEBITS = 4
      <4>1. IMMBITS = 4 /\ 2^(XLEN - IMMBITS) = 4096 /\ 2^(WBITS - IMMBITS) = 64
        BY <3>2, Widths DEF IMMBITS
      <4>2. QED  BY <3>2, <4>1, Widths DEF Upper
    <3>3. CASE BYTEBITS = 8
      <4>1. IMMBITS = 12 /\ 2^(XLEN - IMMBITS) = 1048576 /\ 2^(WBITS - IMMBITS) = 64
        BY <3>3, Widths DEF IMMBITS
      <4>2. QED  BY <3>3, <4>1, Widths DEF Upper
    <3>4. QED  BY <3>1, <3>2, <3>3
  <2>3. QED  BY <1>2, <2>1, <2>2
<1>11. QED
  BY <1>5, <1>6, <1>7, <1>8, <1>9, <1>10 DEF InsnType, Encode

-----------------------------------------------------------------------------
(* The common routines preserve the invariant. *)

LEMMA InsnOK ==
  ASSUME TypeOK
  PROVE  InsnType(Insn)
<1>1. pc \div 2 + 1 \in 1 .. Len(program)
  BY Widths DEF TypeOK, InProgram, Word
<1>2. program[pc \div 2 + 1] \in Instruction
  BY <1>1 DEF TypeOK
<1>3. QED  BY <1>2, EncodeType DEF Insn

LEMMA RegOK ==
  ASSUME TypeOK, NEW r \in Regs
  PROVE  /\ reg[r] \in RegVal /\ reg[r] \in Word \X Word /\ reg[r] \in Int \X Int
         /\ reg[r] = <<reg[r][1], reg[r][2]>>
         /\ reg[r][1] \in 0 .. HIMOD - 1 /\ reg[r][1] \in Word /\ reg[r][2] \in Word
<1>1. reg[r] \in RegVal
  BY DEF TypeOK, RegFile
<1>2. QED  BY <1>1, RegValPair, Widths DEF Word

LEMMA FetchType ==
  ASSUME TypeOK, NEW w \in Word, FetchAt(w), program' = program
  PROVE  /\ program' \in Seq(Instruction)
         /\ pc' \in Word /\ InProgram(pc)'
         /\ status' \in {"run", "stopped", "undefined"}
  BY DEF TypeOK, FetchAt, InProgram

LEMMA NextType ==
  ASSUME TypeOK, NEXT_INSTRUCTION, program' = program
  PROVE  /\ program' \in Seq(Instruction)
         /\ pc' \in Word /\ InProgram(pc)'
         /\ status' \in {"run", "stopped", "undefined"}
<1>1. 2 \in Word /\ pc \in Word
  BY Widths DEF TypeOK, Word
<1>2. ADDAL(pc, 2) \in Word
  BY <1>1, AddalType
<1>3. QED  BY <1>2, FetchType DEF NEXT_INSTRUCTION

LEMMA BranchType ==
  ASSUME TypeOK, BRANCH_TAKE, program' = program
  PROVE  /\ program' \in Seq(Instruction)
         /\ pc' \in Word /\ InProgram(pc)'
         /\ status' \in {"run", "stopped", "undefined"}
<1>1. Insn.word2 \in Word /\ pc \in Word
  BY InsnOK DEF InsnType, TypeOK
<1>2. ADDAL(Insn.word2, pc) \in Word
  BY <1>1, AddalType
<1>3. QED  BY <1>2, FetchType DEF BRANCH_TAKE

LEMMA RegWrite ==
  ASSUME TypeOK, NEW r \in Regs \ {0}, NEW v \in RegVal
  PROVE  [reg EXCEPT ![r] = v] \in RegFile
  BY RegsSmall DEF TypeOK, RegFile

LEMMA StoreResult ==
  ASSUME TypeOK, NEW a \in Int \X Word, STORE_RESULT(a)
  PROVE  TypeOK'
<1>1. <<a[1] % HIMOD, a[2]>> \in RegVal
  BY Widths DEF RegVal
<1>2. Insn.dest \in Regs
  BY InsnOK DEF InsnType
<1>3. reg' \in RegFile
  <2>1. CASE Insn.dest = 0
    BY <2>1 DEF STORE_RESULT, TypeOK
  <2>2. CASE Insn.dest # 0
    BY <1>1, <1>2, <2>2, RegWrite DEF STORE_RESULT
  <2>3. QED  BY <2>1, <2>2
<1>4. QED
  BY <1>3, NextType DEF STORE_RESULT, TypeOK

LEMMA StorePremasked ==
  ASSUME TypeOK, NEW a \in RegVal, STORE_RESULT_PREMASKED(a)
  PROVE  TypeOK'
<1>1. Insn.dest \in Regs /\ 0 \in Regs /\ Zero \in RegVal
  BY InsnOK, RegsSmall, Widths DEF InsnType, Zero, RegVal, Word
<1>2. reg' \in RegFile
  BY <1>1 DEF STORE_RESULT_PREMASKED, TypeOK, RegFile
<1>3. QED
  BY <1>2, NextType DEF STORE_RESULT_PREMASKED, TypeOK

LEMMA LowerWrite ==
  ASSUME TypeOK, NEW r \in Regs, NEW al \in Word
  PROVE  [reg EXCEPT ![r] = <<0, al>>, ![0][2] = 0] \in RegFile
<1> DEFINE f == [reg EXCEPT ![r] = <<0, al>>]
           g == [reg EXCEPT ![r] = <<0, al>>, ![0][2] = 0]
<1>1. <<0, al>> \in RegVal /\ 0 \in Regs
  BY RegsSmall, Widths DEF RegVal
<1>2. f \in [Regs -> RegVal] /\ f[0] \in {<<0, al>>, Zero}
  BY <1>1 DEF TypeOK, RegFile
<1>3. g = [f EXCEPT ![0] = [f[0] EXCEPT ![2] = 0]]
  BY <1>1 DEF TypeOK, RegFile
<1>4. [f[0] EXCEPT ![2] = 0] = Zero
  BY <1>2 DEF Zero
<1>5. Zero \in RegVal
  BY Widths DEF Zero, RegVal, Word
<1>6. QED
  BY <1>1, <1>2, <1>3, <1>4, <1>5 DEF RegFile

LEMMA StoreLower ==
  ASSUME TypeOK, NEW al \in Word, STORE_RESULT_LOWER(al)
  PROVE  TypeOK'
<1>1. Insn.dest \in Regs
  BY InsnOK DEF InsnType
<1>2. reg' \in RegFile
  BY <1>1, LowerWrite DEF STORE_RESULT_LOWER
<1>3. QED
  BY <1>2, NextType DEF STORE_RESULT_LOWER, TypeOK

-----------------------------------------------------------------------------
(* Operands *)

LEMMA Operands ==
  ASSUME TypeOK
  PROVE  /\ Insn.op \notin UpperOps => Src1 \in RegVal
         /\ Insn.op \in ROps => Src2 \in RegVal
         /\ Dest \in RegVal
         /\ Insn.word2 \in Word
         /\ Imm \in Word \X Word /\ Imm \in Int \X Int
         /\ Imm14 \in RegVal
<1>1. InsnType(Insn)
  BY InsnOK
<1>2. SignWord(Insn.word2) \in Word
  BY Widths DEF SignWord, Word
<1>3. (IF Neg(Insn.word2) THEN HIMOD - 1 ELSE 0) \in 0 .. HIMOD - 1
  BY Widths
<1>4. Word \subseteq Int
  BY DEF Word
<1>5. QED
  BY <1>1, <1>2, <1>3, <1>4, RegOK DEF InsnType, Src1, Src2, Dest, Imm, Imm14, RegVal

LEMMA OneType == One \in Int \X Int
  BY DEF One

LEMMA PairInt ==
  ASSUME NEW a \in Word \X Word
  PROVE  a \in Int \X Int /\ a \in Int \X Word /\ a = <<a[1], a[2]>> /\ a[1] \in Word /\ a[2] \in Word
  BY DEF Word

LEMMA PlusType ==
  ASSUME NEW a \in Int \X Int, NEW b \in Int \X Int
  PROVE  Plus(a, b) \in Word \X Word
<1>1. ADDA(a, b) \in Int \X Int
  BY AddaType, PairInt
<1>2. QED
  BY <1>1, OneType, SubaType DEF Plus

LEMMA ArithmeticStep ==
  ASSUME TypeOK, Arithmetic
  PROVE  TypeOK'
<1> USE DEF ROps, UpperOps
<1>1. CASE OP_ADD
  <2>1. Insn.op = "add" /\ STORE_RESULT(Plus(Src1, Src2))
    BY <1>1 DEF OP_ADD, Dispatch
  <2>2. Src1 \in Int \X Int /\ Src2 \in Int \X Int
    BY <2>1, Operands, RegValPair
  <2>3. QED  BY <2>1, <2>2, PlusType, PairInt, StoreResult
<1>2. CASE OP_SUB
  <2>1. Insn.op = "sub" /\ STORE_RESULT(SUBA(Src1, Src2))
    BY <1>2 DEF OP_SUB, Dispatch
  <2>2. Src1 \in Int \X Int /\ Src2 \in Int \X Int
    BY <2>1, Operands, RegValPair
  <2>3. QED  BY <2>1, <2>2, SubaType, PairInt, StoreResult
<1>3. CASE OP_ADDI
  <2>1. Insn.op = "addi" /\ STORE_RESULT(ADDA(Imm, Src1))
    BY <1>3 DEF OP_ADDI, Dispatch
  <2>2. Src1 \in Int \X Int /\ Imm \in Int \X Int
    BY <2>1, Operands, RegValPair
  <2>3. QED  BY <2>1, <2>2, AddaType, PairInt, StoreResult
<1>4. QED  BY <1>1, <1>2, <1>3 DEF Arithmetic

(* Word by word, a bitwise operation of two registers is a register. *)
LEMMA BitwiseType ==
  ASSUME NEW a \in RegVal, NEW b \in RegVal
  PROVE  /\ Bitwise(SLCL, a, b) \in RegVal
         /\ Bitwise(SLSET, a, b) \in RegVal
         /\ Bitwise(SLCP, a, b) \in RegVal
<1>1. /\ a[1] \in Word /\ b[1] \in Word /\ a[1] < HIMOD /\ b[1] < HIMOD
      /\ a[2] \in Word /\ b[2] \in Word /\ a[2] < WORD /\ b[2] < WORD
      /\ HIMOD \in {HIMOD, BYTE, HALF, WORD} /\ WORD \in {HIMOD, BYTE, HALF, WORD}
  BY RegValPair, Widths DEF Word
<1>2. /\ SLCL(a[1], b[1]) \in 0 .. HIMOD - 1 /\ SLCL(a[2], b[2]) \in Word
      /\ SLSET(a[1], b[1]) \in 0 .. HIMOD - 1 /\ SLSET(a[2], b[2]) \in Word
      /\ SLCP(a[1], b[1]) \in 0 .. HIMOD - 1 /\ SLCP(a[2], b[2]) \in Word
  BY <1>1, SlclType, SlsetType, SlcpType DEF Word
<1>3. QED  BY <1>2 DEF Bitwise, RegVal

LEMMA BitwiseStep ==
  ASSUME TypeOK, Bitwise36
  PROVE  TypeOK'
<1> USE DEF ROps, UpperOps
<1>1. CASE OP_AND \/ OP_OR \/ OP_XOR
  <2>1. Insn.op \in {"and", "or", "xor"}
    BY <1>1 DEF OP_AND, OP_OR, OP_XOR, Dispatch
  <2>2. Src1 \in RegVal /\ Src2 \in RegVal
    BY <2>1, Operands
  <2>3. PICK a \in RegVal : STORE_RESULT_PREMASKED(a)
    BY <1>1, <2>2, BitwiseType DEF OP_AND, OP_OR, OP_XOR
  <2>4. QED  BY <2>3, StorePremasked
<1>2. CASE OP_ANDI \/ OP_ORI \/ OP_XORI
  <2>1. Insn.op \in {"andi", "ori", "xori"}
    BY <1>2 DEF OP_ANDI, OP_ORI, OP_XORI, Dispatch
  <2>2. Src1 \in RegVal /\ Imm14 \in RegVal
    BY <2>1, Operands
  <2>3. PICK a \in RegVal : STORE_RESULT_PREMASKED(a)
    BY <1>2, <2>2, BitwiseType DEF OP_ANDI, OP_ORI, OP_XORI
  <2>4. QED  BY <2>3, StorePremasked
<1>3. QED  BY <1>1, <1>2 DEF Bitwise36

LEMMA ShiftsStep ==
  ASSUME TypeOK, Shifts
  PROVE  TypeOK'
<1> USE DEF ROps, UpperOps
<1>0. 4 \in 0 .. XLEN - 1 /\ XLEN \in 1 .. 32
  BY Widths
<1>1. CASE OP_SLL \/ OP_SRL \/ OP_SRA
  <2>1. Insn.op \in {"sll", "srl", "sra"}
    BY <1>1 DEF OP_SLL, OP_SRL, OP_SRA, Dispatch
  <2>2. Src1 \in RegVal /\ Src2 \in RegVal /\ Src1 \in Word \X Word /\ Src2[2] \in Int
    BY <2>1, Operands, RegValPair DEF Word
  <2>3. Shamt \in 0 .. XLEN - 1 /\ Shamt \in 0 .. 36 /\ Shamt + 4 \in 0 .. 36
    BY <1>0, <2>2 DEF Shamt
  <2>4. ShiftMask(Shamt, LSHA(Src1, Shamt)) \in RegVal
    BY <2>2, <2>3, LshaType, ShiftMaskType
  <2>5. RSHA(Src1, Shamt) \in RegVal
    BY <2>2, <2>3, RshaReg
  <2>6. RSHA(LSHA(Src1, 4), Shamt + 4) \in Int \X Word
    BY <1>0, <2>2, <2>3, LshaType, RshaType, PairInt
  <2>7. QED
    BY <1>1, <2>4, <2>5, <2>6, StorePremasked, StoreResult DEF OP_SLL, OP_SRL, OP_SRA
<1>2. CASE OP_SLLI \/ OP_SRLI
  <2>1. Insn.op \in {"slli", "srli"}
    BY <1>2 DEF OP_SLLI, OP_SRLI, Dispatch
  <2>2. Src1 \in RegVal /\ Src1 \in Word \X Word
    BY <2>1, Operands, RegValPair
  <2>3. Insn.word2 \in 0 .. XLEN - 1 /\ Insn.word2 \in 0 .. 36
    BY <1>0, <2>1, InsnOK DEF InsnType
  <2>4. ShiftMask(Insn.word2, LSHA(Src1, Insn.word2)) \in RegVal
    BY <2>2, <2>3, LshaType, ShiftMaskType
  <2>5. RSHA(Src1, Insn.word2) \in RegVal
    BY <2>2, <2>3, RshaReg
  <2>6. QED
    BY <1>2, <2>4, <2>5, StorePremasked DEF OP_SLLI, OP_SRLI
<1>3. CASE OP_SRAI
  <2>1. Insn.op = "srai"
    BY <1>3 DEF OP_SRAI, Dispatch
  <2>2. Src1 \in Word \X Word
    BY <2>1, Operands, RegValPair
  <2>3. Insn.word2 \in 0 .. 36
    BY <2>1, InsnOK DEF InsnType
  <2>4. RSHA(LSHA(Src1, 4), Insn.word2) \in Int \X Word
    BY <1>0, <2>2, <2>3, LshaType, RshaType, PairInt
  <2>5. QED  BY <1>3, <2>4, StoreResult DEF OP_SRAI
<1>4. QED  BY <1>1, <1>2, <1>3 DEF Shifts

LEMMA ComparesStep ==
  ASSUME TypeOK, Compares
  PROVE  TypeOK'
<1>1. 0 \in Word /\ 1 \in Word
  BY Widths DEF Word
<1>2. \E b : STORE_BOOL(b)
  BY DEF Compares, OP_SLT, OP_SLTU, OP_SLTI, OP_SLTIU
<1>3. \E al \in Word : STORE_RESULT_LOWER(al)
  BY <1>1, <1>2 DEF STORE_BOOL
<1>4. QED  BY <1>3, StoreLower

LEMMA BranchesStep ==
  ASSUME TypeOK, Branches
  PROVE  TypeOK'
<1>1. \E b : BranchIf(b)
  BY DEF Branches, OP_BEQ, OP_BNE, OP_BLT, OP_BGE, OP_BLTU, OP_BGEU
<1>2. /\ BRANCH_TAKE \/ NEXT_INSTRUCTION
      /\ UNCHANGED <<program, reg, mem, input, output>>
  BY <1>1 DEF BranchIf
<1>3. QED  BY <1>2, NextType, BranchType DEF TypeOK

-----------------------------------------------------------------------------
(* Memory *)

LEMMA Cell ==
  ASSUME TypeOK, NEW al \in Word, al \div 2 \in DATA
  PROVE  /\ al < WORD \div 2
         /\ RSHAL(al, 1) = al \div 2
         /\ mem[RSHAL(al, 1)] \in 0 .. HALF - 1
<1>1. al \div 2 \in 0 .. HALF - 1
  BY BootsAssumption
<1>2. al < WORD \div 2
  BY <1>1, Widths DEF Word
<1>3. RSHAL(al, 1) = al \div 2
  BY <1>2, RshalType
<1>4. QED  BY <1>2, <1>3 DEF TypeOK, Memory

LEMMA ByteDown ==
  ASSUME NEW w \in Word
  PROVE  RSHAL(w, BYTEBITS) \in Int
<1>1. BYTEBITS \in 0 .. 36
  OBVIOUS
<1>2. RSHAL(w, BYTEBITS) \in Word
  BY <1>1, RshalType
<1>3. QED  BY <1>2 DEF Word

LEMMA LoadByte ==
  ASSUME TypeOK, NEW al \in Word, al \div 2 \in DATA
  PROVE  LOAD_BYTE_UNSIGNED(al) \in 0 .. BYTE - 1
<1> DEFINE word == mem[RSHAL(al, 1)]
<1>1. word \in Word /\ word \in Int
  BY Cell, Widths DEF Word
<1> HIDE DEF word
<1>2. RSHAL(word, BYTEBITS) \in Int
  BY <1>1, ByteDown
<1>3. word % BYTE \in 0 .. BYTE - 1 /\ RSHAL(word, BYTEBITS) % BYTE \in 0 .. BYTE - 1
  BY <1>1, <1>2, Widths
<1>4. QED  BY <1>3 DEF LOAD_BYTE_UNSIGNED, word

(* A byte in the upper half of a memory cell. *)
LEMMA ByteUp ==
  ASSUME NEW b \in 0 .. BYTE - 1
  PROVE  LSHAL(b, BYTEBITS) \in 0 .. HALF - 1
<1>1. CASE BYTEBITS = 2
  <2>1. 2^BYTEBITS = 4 /\ 2^(WBITS - BYTEBITS) = 16
    BY <1>1, Widths
  <2>2. QED  BY <1>1, <2>1, Widths DEF LSHAL
<1>2. CASE BYTEBITS = 4
  <2>1. 2^BYTEBITS = 16 /\ 2^(WBITS - BYTEBITS) = 64
    BY <1>2, Widths
  <2>2. QED  BY <1>2, <2>1, Widths DEF LSHAL
<1>3. CASE BYTEBITS = 8
  <2>1. 2^BYTEBITS = 256 /\ 2^(WBITS - BYTEBITS) = 1024
    BY <1>3, Widths
  <2>2. QED  BY <1>3, <2>1, Widths DEF LSHAL
<1>4. QED  BY <1>1, <1>2, <1>3

(* What SLSET makes of the two bytes of a cell fits the cell. *)
LEMMA CellBits ==
  ASSUME NEW a \in 0 .. HALF - 1, NEW b \in 0 .. HALF - 1
  PROVE  SLSET(a, b) \in 0 .. HALF - 1
<1>1. a \in Word /\ b \in Word /\ a < HALF /\ b < HALF /\ HALF \in {HIMOD, BYTE, HALF, WORD}
  BY Widths DEF Word
<1>2. QED  BY <1>1, SlsetType

LEMMA WordBits ==
  ASSUME NEW a \in Word, NEW b \in Word
  PROVE  SLSET(a, b) \in Word
<1>1. a < WORD /\ b < WORD /\ WORD \in {HIMOD, BYTE, HALF, WORD}
  BY Widths DEF Word
<1>2. QED  BY <1>1, SlsetType DEF Word

LEMMA LoadHalfword ==
  ASSUME TypeOK, NEW al \in Word, al \div 2 \in DATA, (al + 1) \div 2 \in DATA
  PROVE  LOAD_HALFWORD(al) \in 0 .. HALF - 1
<1>1. CASE al % 2 = 0
  BY <1>1, Cell DEF LOAD_HALFWORD
<1>2. CASE al % 2 # 0
  <2>1. ADDAL(al, 1) = al + 1 /\ al + 1 \in Word
    BY Cell, Widths DEF ADDAL, Word
  <2>2. LOAD_BYTE_UNSIGNED(al) \in 0 .. BYTE - 1
    BY LoadByte
  <2>3. LOAD_BYTE_UNSIGNED(ADDAL(al, 1)) \in 0 .. BYTE - 1
    BY <2>1, LoadByte
  <2>4. LOAD_BYTE_UNSIGNED(al) \in 0 .. HALF - 1
    BY <2>2, Widths
  <2>5. LSHAL(LOAD_BYTE_UNSIGNED(ADDAL(al, 1)), BYTEBITS) \in 0 .. HALF - 1
    BY <2>3, ByteUp
  <2>6. QED  BY <1>2, <2>4, <2>5, CellBits DEF LOAD_HALFWORD
<1>3. QED  BY <1>1, <1>2

LEMMA SignExtendType ==
  ASSUME NEW al \in 0 .. HALF - 1, NEW sign \in {BYTE \div 2, HALF \div 2}
  PROVE  SignExtend(al, sign) \in RegVal
<1>1. al \in Word /\ WORD - sign \in Word /\ 0 \in 0 .. HIMOD - 1 /\ HIMOD - 1 \in 0 .. HIMOD - 1
  BY Widths DEF Word
<1>2. SLSET(al, WORD - sign) \in Word
  BY <1>1, WordBits
<1>3. QED  BY <1>1, <1>2 DEF SignExtend, RegVal

LEMMA StoreByte ==
  ASSUME NEW m \in Memory, NEW al, NEW b \in 0 .. BYTE - 1
  PROVE  STORE_BYTE(m, al, b) \in Memory
<1> DEFINE w == RSHAL(al, 1)
<1>1. SUFFICES ASSUME w \in DATA
               PROVE  /\ SLSET(((m[w] \div BYTE) % BYTE) * BYTE, b) \in 0 .. HALF - 1
                      /\ SLSET(m[w] % BYTE, LSHAL(b, BYTEBITS)) \in 0 .. HALF - 1
  BY DEF STORE_BYTE, Memory
<1>2. m[w] \in 0 .. HALF - 1
  BY <1>1 DEF Memory
<1> HIDE DEF w
<1>3. /\ ((m[w] \div BYTE) % BYTE) * BYTE \in 0 .. HALF - 1
      /\ m[w] % BYTE \in 0 .. HALF - 1
      /\ b \in 0 .. HALF - 1
  BY <1>2, Widths
<1>4. LSHAL(b, BYTEBITS) \in 0 .. HALF - 1
  BY ByteUp
<1>5. QED  BY <1>3, <1>4, CellBits

LEMMA StoreHalfword ==
  ASSUME NEW m \in Memory, NEW al, NEW half \in 0 .. HALF - 1
  PROVE  STORE_HALFWORD(m, al, half) \in Memory
<1>1. half % BYTE \in 0 .. BYTE - 1 /\ RSHAL(half, BYTEBITS) % BYTE \in 0 .. BYTE - 1
  <2>1. half \in Word
    BY Widths DEF Word
  <2>2. RSHAL(half, BYTEBITS) \in Int
    BY <2>1, ByteDown
  <2>3. QED  BY <2>2, Widths
<1>2. STORE_BYTE(m, al, half % BYTE) \in Memory
  BY <1>1, StoreByte
<1>3. STORE_BYTE(STORE_BYTE(m, al, half % BYTE), ADDAL(al, 1), RSHAL(half, BYTEBITS) % BYTE)
        \in Memory
  BY <1>1, <1>2, StoreByte
<1>4. [m EXCEPT ![RSHAL(al, 1)] = half] \in Memory
  BY DEF Memory
<1>5. QED  BY <1>3, <1>4 DEF STORE_HALFWORD

(* The upper cell of a word, moved above the lower. *)
LEMMA CellUp ==
  ASSUME NEW h \in 0 .. HALF - 1
  PROVE  /\ LSHA(<<0, h>>, 2 * BYTEBITS)[1] \in 0 .. HIMOD - 1
         /\ LSHA(<<0, h>>, 2 * BYTEBITS)[2] \in Word
<1>0. Full(<<0, h>>) = h
  BY Widths DEF Full
<1>1. CASE BYTEBITS = 2
  <2>1. 2^(2 * BYTEBITS) = 16 /\ 2^(2 * WBITS - 2 * BYTEBITS) = 256
    BY <1>1, Widths
  <2>2. LSHA(<<0, h>>, 2 * BYTEBITS) = Pair(h * 16)
    BY <1>0, <1>1, <2>1, Widths DEF LSHA
  <2>3. QED  BY <1>1, <2>2, Widths DEF Pair, Word
<1>2. CASE BYTEBITS = 4
  <2>1. 2^(2 * BYTEBITS) = 256 /\ 2^(2 * WBITS - 2 * BYTEBITS) = 4096
    BY <1>2, Widths
  <2>2. LSHA(<<0, h>>, 2 * BYTEBITS) = Pair(h * 256)
    BY <1>0, <1>2, <2>1, Widths DEF LSHA
  <2>3. QED  BY <1>2, <2>2, Widths DEF Pair, Word
<1>3. CASE BYTEBITS = 8
  <2>1. 2^(2 * BYTEBITS) = 65536 /\ 2^(2 * WBITS - 2 * BYTEBITS) = 1048576
    BY <1>3, Widths
  <2>2. LSHA(<<0, h>>, 2 * BYTEBITS) = Pair(h * 65536)
    BY <1>0, <1>3, <2>1, Widths DEF LSHA
  <2>3. QED  BY <1>3, <2>2, Widths DEF Pair, Word
<1>4. QED  BY <1>1, <1>2, <1>3

LEMMA AddressType ==
  ASSUME TypeOK, Insn.op \notin UpperOps
  PROVE  /\ EffectiveAddress \in Word \X Word
         /\ AL \in Word
         /\ \A width \in {1, 2, 4} : InImage(width) =>
              \A k \in 0 .. width - 1 : (AL + k) \div 2 \in DATA
<1>1. Src1 \in Int \X Int /\ Imm \in Int \X Int
  BY Operands, RegValPair
<1>2. EffectiveAddress \in Word \X Word
  BY <1>1, PlusType DEF EffectiveAddress
<1>3. QED  BY <1>2 DEF AL, InImage

LEMMA StoreMem ==
  ASSUME TypeOK, NEW m \in Memory, STORE(m)
  PROVE  TypeOK'
<1>1. /\ mem' = m /\ NEXT_INSTRUCTION /\ UNCHANGED <<program, reg, input, output>>
  BY DEF STORE
<1>2. QED  BY <1>1, NextType DEF TypeOK, RegFile, Memory

LEMMA LoadStep ==
  ASSUME TypeOK, OP_LBU \/ OP_LB \/ OP_LHU \/ OP_LH \/ OP_LW
  PROVE  TypeOK'
<1>0. Insn.op \notin UpperOps
  BY DEF OP_LBU, OP_LB, OP_LHU, OP_LH, OP_LW, Dispatch, UpperOps
<1>1. CASE OP_LBU \/ OP_LB
  <2>1. InImage(1)
    BY <1>1 DEF OP_LBU, OP_LB
  <2>2. AL \in Word /\ AL \div 2 \in DATA
    <3>1. AL \in Word /\ (AL + 0) \div 2 \in DATA
      BY <1>0, <2>1, AddressType
    <3>2. QED  BY <3>1 DEF Word
  <2>3. LOAD_BYTE_UNSIGNED(AL) \in 0 .. BYTE - 1
    BY <2>2, LoadByte
  <2>4. LOAD_BYTE_UNSIGNED(AL) \in Word /\ LOAD_BYTE_UNSIGNED(AL) \in 0 .. HALF - 1
    BY <2>3, Widths DEF Word
  <2>5. SignExtend(LOAD_BYTE_UNSIGNED(AL), BYTE \div 2) \in RegVal
    BY <2>4, SignExtendType
  <2>6. QED  BY <1>1, <2>4, <2>5, StoreLower, StorePremasked DEF OP_LBU, OP_LB
<1>2. CASE OP_LHU \/ OP_LH
  <2>1. InImage(2)
    BY <1>2 DEF OP_LHU, OP_LH
  <2>2. AL \in Word /\ AL \div 2 \in DATA /\ (AL + 1) \div 2 \in DATA
    <3>1. AL \in Word /\ (AL + 0) \div 2 \in DATA /\ (AL + 1) \div 2 \in DATA
      BY <1>0, <2>1, AddressType
    <3>2. QED  BY <3>1 DEF Word
  <2>3. LOAD_HALFWORD(AL) \in 0 .. HALF - 1
    BY <2>2, LoadHalfword
  <2>4. LOAD_HALFWORD(AL) \in Word
    BY <2>3, Widths DEF Word
  <2>5. SignExtend(LOAD_HALFWORD(AL), HALF \div 2) \in RegVal
    BY <2>3, SignExtendType
  <2>6. QED  BY <1>2, <2>4, <2>5, StoreLower, StorePremasked DEF OP_LHU, OP_LH
<1>3. CASE OP_LW
  <2>1. InImage(4)
    BY <1>3 DEF OP_LW
  <2>2. /\ AL \in Word /\ AL \div 2 \in DATA /\ (AL + 1) \div 2 \in DATA
        /\ (AL + 2) \div 2 \in DATA /\ (AL + 3) \div 2 \in DATA
    <3>1. /\ AL \in Word /\ (AL + 0) \div 2 \in DATA /\ (AL + 1) \div 2 \in DATA
          /\ (AL + 2) \div 2 \in DATA /\ (AL + 3) \div 2 \in DATA
      BY <1>0, <2>1, AddressType
    <3>2. QED  BY <3>1 DEF Word
  <2>3. ADDAL(AL, 2) = AL + 2 /\ AL + 2 \in Word /\ (AL + 2) + 1 = AL + 3
    BY <2>2, Cell, Widths DEF ADDAL, Word
  <2>4. LOAD_HALFWORD(AL) \in 0 .. HALF - 1
    BY <2>2, LoadHalfword
  <2>5. LOAD_HALFWORD(ADDAL(AL, 2)) \in 0 .. HALF - 1
    BY <2>2, <2>3, LoadHalfword
  <2> DEFINE upper == LSHA(<<0, LOAD_HALFWORD(ADDAL(AL, 2))>>, 2 * BYTEBITS)
             word  == <<upper[1], SLSET(upper[2], LOAD_HALFWORD(AL))>>
  <2>6. upper[1] \in 0 .. HIMOD - 1 /\ upper[2] \in Word
    BY <2>5, CellUp
  <2>7. LOAD_HALFWORD(AL) \in Word
    BY <2>4, Widths DEF Word
  <2>8. word \in RegVal
    BY <2>6, <2>7, WordBits DEF RegVal
  <2>9. STORE_RESULT_PREMASKED(word)
    BY <1>3 DEF OP_LW
  <2>10. QED  BY <2>8, <2>9, StorePremasked
<1>4. QED  BY <1>1, <1>2, <1>3

LEMMA StoreStep ==
  ASSUME TypeOK, OP_SB \/ OP_SH \/ OP_SW
  PROVE  TypeOK'
<1>0. mem \in Memory /\ Dest \in Word \X Word /\ Dest[2] \in Int
  BY Operands, RegValPair DEF TypeOK, Word
<1>1. Dest[2] % BYTE \in 0 .. BYTE - 1 /\ Dest[2] % HALF \in 0 .. HALF - 1
  BY <1>0, Widths
<1>2. CASE OP_SB
  BY <1>0, <1>1, <1>2, StoreByte, StoreMem DEF OP_SB
<1>3. CASE OP_SH
  BY <1>0, <1>1, <1>3, StoreHalfword, StoreMem DEF OP_SH
<1>4. CASE OP_SW
  <2> DEFINE upper == RSHA(Dest, 2 * BYTEBITS)[2] % HALF
  <2>1. 2 * BYTEBITS \in 0 .. 36
    OBVIOUS
  <2>2. RSHA(Dest, 2 * BYTEBITS) \in Int \X Int
    BY <1>0, <2>1, RshaType, PairInt
  <2>3. upper \in 0 .. HALF - 1
    BY <2>2, Widths
  <2>4. STORE_HALFWORD(STORE_HALFWORD(mem, AL, Dest[2] % HALF), ADDAL(AL, 2), upper) \in Memory
    BY <1>0, <1>1, <2>3, StoreHalfword
  <2>5. QED  BY <1>4, <2>4, StoreMem DEF OP_SW
<1>5. QED  BY <1>2, <1>3, <1>4

LEMMA MemoryStep ==
  ASSUME TypeOK, MemoryOps
  PROVE  TypeOK'
<1>1. CASE OutOfImage
  BY <1>1 DEF OutOfImage, TypeOK, InProgram
<1>2. QED  BY <1>1, LoadStep, StoreStep DEF MemoryOps

-----------------------------------------------------------------------------
(* Jumps *)

LEMMA LinkType ==
  ASSUME TypeOK
  PROVE  Link[2] \in Word /\ Link = <<0, Link[2]>> /\ Link \in RegVal
<1>1. pc \in Word /\ 2 \in Word /\ 1 \in 0 .. WBITS /\ 0 \in 0 .. HIMOD - 1
  BY Widths DEF TypeOK, Word
<1>2. ADDAL(pc, 2) \in Word
  BY <1>1, AddalType
<1>3. LSHAL(ADDAL(pc, 2), 1) \in Word
  BY <1>1, <1>2, LshalType
<1>4. QED  BY <1>1, <1>3 DEF Link, RegVal

LEMMA JalStep ==
  ASSUME TypeOK, OP_JAL
  PROVE  TypeOK'
<1>1. Link \in RegVal /\ Insn.dest \in Regs
  BY LinkType, InsnOK DEF InsnType
<1>2. reg' \in RegFile
  <2>1. CASE Insn.dest = 0
    BY <2>1 DEF OP_JAL, TypeOK
  <2>2. CASE Insn.dest # 0
    BY <1>1, <2>2, RegWrite DEF OP_JAL
  <2>3. QED  BY <2>1, <2>2
<1>3. BRANCH_TAKE /\ UNCHANGED <<program, mem, input, output>>
  BY DEF OP_JAL
<1>4. QED
  BY <1>2, <1>3, BranchType DEF TypeOK

LEMMA JalrStep ==
  ASSUME TypeOK, OP_JALR
  PROVE  TypeOK'
<1> DEFINE target == ADDAL(ADDAL(RSHA(EffectiveAddress, 1)[2], MinusOnes(2)), 2)
<1>1. Insn.op \notin UpperOps /\ Insn.dest \in Regs
  BY InsnOK DEF OP_JALR, Dispatch, UpperOps, InsnType
<1>2. reg' \in RegFile
  <2>1. reg' = [reg EXCEPT ![Insn.dest] = <<0, Link[2]>>, ![0][2] = 0]
    BY LinkType DEF OP_JALR
  <2>2. QED  BY <1>1, <2>1, LinkType, LowerWrite
<1>3. target \in Word
  <2>1. EffectiveAddress \in Word \X Word /\ 1 \in 0 .. 36
    BY <1>1, AddressType
  <2>2. RSHA(EffectiveAddress, 1)[2] \in Word
    BY <2>1, RshaType, PairInt
  <2>3. MinusOnes(2) \in Word /\ 2 \in Word
    BY Widths DEF MinusOnes, Word
  <2>4. QED  BY <2>2, <2>3, AddalType
<1>4. /\ UNCHANGED <<program, mem, input, output>>
      /\ FetchAt(target) \/ (pc' = pc /\ status' = "undefined")
  BY DEF OP_JALR
<1>5. /\ program' \in Seq(Instruction)
      /\ pc' \in Word /\ InProgram(pc)'
      /\ status' \in {"run", "stopped", "undefined"}
  <2>1. CASE FetchAt(target)
    BY <1>3, <1>4, <2>1, FetchType
  <2>2. CASE pc' = pc /\ status' = "undefined"
    BY <1>4, <2>2 DEF TypeOK, InProgram
  <2>3. QED  BY <1>4, <2>1, <2>2
<1>6. QED  BY <1>2, <1>4, <1>5 DEF TypeOK

(* The immediate of LUI and AUIPC, in place. *)
LEMMA UpperImmediate ==
  ASSUME TypeOK, Insn.op \in UpperOps
  PROVE  ImmUpper \in 0 .. HIMOD - 1 /\ ImmLower \in Word
<1> DEFINE w == Insn.word2
           n == WBITS - IMMBITS
<1>1. w \in Word /\ w < HIMOD * 2^n
  BY InsnOK DEF InsnType
<1>2. n \in 0 .. 36 /\ IMMBITS \in 0 .. 36 /\ IMMBITS \in 0 .. WBITS
  BY ImmWidths, Widths
<1>3. 2^n \in Nat \ {0} /\ 2^IMMBITS \in Nat \ {0}
  BY <1>2, PowerPositive
<1> HIDE DEF w, n
<1>4. w \div 2^n \in 0 .. HIMOD - 1
  <2> DEFINE p == 2^n
  <2>1. p \in Nat \ {0} /\ w \in Nat /\ w < HIMOD * p /\ HIMOD \in Nat
    BY <1>1, <1>3, Widths DEF Word
  <2> HIDE DEF p
  <2>2. w \div p \in 0 .. HIMOD - 1
    <3>1. w \div p \in Nat /\ (w \div p) * p <= w
      BY <2>1
    <3>2. w \div p >= HIMOD => (w \div p) * p >= HIMOD * p
      BY <2>1, <3>1
    <3>3. QED  BY <2>1, <3>1, <3>2
  <2>3. QED  BY <2>2 DEF p
<1>5. Full(<<0, w>>) = w
  BY <1>1, Widths DEF Full, Word
<1>6. ~Neg(0)
  BY Widths DEF Neg
<1>7. RSHA(<<0, w>>, n) = Pair(w \div 2^n)
  BY <1>3, <1>5, <1>6, <1>1 DEF RSHA, Word
<1>8. RSHA(<<0, w>>, n)[2] = w \div 2^n
  BY <1>4, <1>7, Widths DEF Pair
<1>9. ImmUpper \in 0 .. HIMOD - 1
  BY <1>4, <1>8 DEF ImmUpper, w, n
<1>10. LSHAL(w, IMMBITS) \in Word
  BY <1>1, <1>2, LshalType
<1>11. LSHAL(w, IMMBITS) % 2^IMMBITS \in 0 .. LSHAL(w, IMMBITS)
  BY <1>3, <1>10, ModBound DEF Word
<1>12. ImmLower \in Word
  BY <1>10, <1>11, Widths DEF ImmLower, w, Word
<1>13. QED  BY <1>9, <1>12

LEMMA LuiStep ==
  ASSUME TypeOK, OP_LUI
  PROVE  TypeOK'
<1> DEFINE top == LSHAL(2 * Insn.src1, IMMBITS - 1) % HIMOD
           v   == <<SLSET(ImmUpper, top), ImmLower>>
<1>1. Insn.op \in UpperOps
  BY DEF OP_LUI, Dispatch, UpperOps
<1>2. ImmUpper \in 0 .. HIMOD - 1 /\ ImmLower \in Word
  BY <1>1, UpperImmediate
<1>3. top \in 0 .. HIMOD - 1
  <2>1. Insn.src1 \in 0 .. 3
    BY <1>1, InsnOK DEF InsnType
  <2>2. 2 * Insn.src1 \in Word /\ IMMBITS - 1 \in 0 .. WBITS
    BY <2>1, ImmWidths, Widths DEF Word
  <2>3. LSHAL(2 * Insn.src1, IMMBITS - 1) \in Word
    BY <2>2, LshalType
  <2>4. QED  BY <2>3, Widths DEF Word
<1> HIDE DEF top
<1>4. /\ ImmUpper \in Word /\ top \in Word /\ ImmUpper < HIMOD /\ top < HIMOD
      /\ HIMOD \in {HIMOD, BYTE, HALF, WORD}
  BY <1>2, <1>3, Widths DEF Word
<1>5. SLSET(ImmUpper, top) \in 0 .. HIMOD - 1
  BY <1>4, SlsetType
<1>6. v \in RegVal
  BY <1>2, <1>5 DEF RegVal
<1>7. STORE_RESULT_PREMASKED(v)
  BY DEF OP_LUI, top
<1>8. QED  BY <1>6, <1>7, StorePremasked

LEMMA AuipcStep ==
  ASSUME TypeOK, OP_AUIPC
  PROVE  TypeOK'
<1>1. Insn.op \in UpperOps
  BY DEF OP_AUIPC, Dispatch, UpperOps
<1>2. ADDAL(pc, pc) \in Word
  BY AddalType DEF TypeOK
<1>3. <<0, ADDAL(pc, pc)>> \in Int \X Int /\ <<ImmUpper, ImmLower>> \in Int \X Int
  BY <1>1, <1>2, UpperImmediate, Widths DEF Word
<1>4. Plus(<<0, ADDAL(pc, pc)>>, <<ImmUpper, ImmLower>>) \in Int \X Word
  BY <1>3, PlusType, PairInt
<1>5. QED  BY <1>4, StoreResult DEF OP_AUIPC

LEMMA JumpsStep ==
  ASSUME TypeOK, Jumps
  PROVE  TypeOK'
  BY JalStep, JalrStep, LuiStep, AuipcStep DEF Jumps

-----------------------------------------------------------------------------
(* Multiplication: whatever the half products, the result is masked. *)

LEMMA HalfWord ==
  ASSUME NEW x \in Word
  PROVE  x % HALF \in Word
  BY Widths DEF Word

LEMMA LowerHalfType ==
  ASSUME NEW r \in RegVal
  PROVE  LowerHalf(r) \in Word
<1>1. r[2] \in Word
  BY RegValPair
<1>2. QED  BY <1>1, HalfWord DEF LowerHalf

LEMMA PlusPair ==
  ASSUME NEW a \in Word \X Word, NEW b \in Word \X Word
  PROVE  Plus(a, b) \in Word \X Word
  BY PairInt, PlusType

LEMMA MaskType ==
  ASSUME NEW a \in Word \X Word
  PROVE  Mask14(a) \in Word \X Word
<1>1. a[1] \in Word /\ a[2] \in Word
  BY PairInt
<1>2. a[1] % HIMOD \in Word
  BY <1>1, Widths DEF Word
<1>3. QED  BY <1>1, <1>2 DEF Mask14

LEMMA MulStep ==
  ASSUME TypeOK, OP_MUL
  PROVE  TypeOK'
<1> DEFINE UpperHalf(r) == RSHA(r, 2 * BYTEBITS)[2] % HALF
           ll  == MULAL(LowerHalf(Src1), LowerHalf(Src2))
           lh  == MULAL(LowerHalf(Src1), UpperHalf(Src2))
           hl  == MULAL(UpperHalf(Src1), LowerHalf(Src2))
           mid == LSHA(Plus(hl, lh), 2 * BYTEBITS)
           up  == <<mid[1], mid[2] - (mid[2] % HALF)>>
<1>1. Src1 \in RegVal /\ Src2 \in RegVal
  BY Operands DEF OP_MUL, Dispatch, ROps, UpperOps
<1>2. 2 * BYTEBITS \in 0 .. 36 /\ 2 * BYTEBITS \in 0 .. XLEN - 1
  BY Widths
<1>3. \A r \in RegVal : UpperHalf(r) \in Word
  <2>1. TAKE r \in RegVal
  <2>2. RSHA(r, 2 * BYTEBITS) \in RegVal
    BY <1>2, RshaReg
  <2>3. RSHA(r, 2 * BYTEBITS)[2] \in Word
    BY <2>2, RegValPair
  <2>4. QED  BY <2>3, HalfWord
<1>4. STORE_RESULT(Plus(ll, up))
  BY DEF OP_MUL
<1> HIDE DEF UpperHalf
<1>5. ll \in Word \X Word /\ lh \in Word \X Word /\ hl \in Word \X Word
  BY <1>1, <1>3, LowerHalfType, MulalType
<1> HIDE DEF ll, lh, hl
<1>6. mid \in Word \X Word
  BY <1>2, <1>5, PlusPair, LshaType
<1> HIDE DEF mid
<1>7. up \in Word \X Word
  <2>1. mid[1] \in Word /\ mid[2] \in Word
    BY <1>6, PairInt
  <2>2. mid[2] - (mid[2] % HALF) \in Word
    BY <2>1, Widths DEF Word
  <2>3. QED  BY <2>1, <2>2
<1> HIDE DEF up
<1>8. Plus(ll, up) \in Int \X Word
  BY <1>5, <1>7, PlusPair, PairInt
<1>9. QED  BY <1>4, <1>8, StoreResult

LEMMA CarryType ==
  ASSUME NEW a \in Word \X Word
  PROVE  <<0, RSHA(<<0, a[1]>>, WBITS - 4)[2]>> \in Word \X Word
<1>1. 0 \in Word /\ a[1] \in Word /\ WBITS - 4 \in 0 .. 36
  BY PairInt, Widths DEF Word
<1>2. RSHA(<<0, a[1]>>, WBITS - 4) \in Word \X Word
  BY <1>1, RshaType
<1>3. QED  BY <1>1, <1>2, PairInt

LEMMA UpperProductType ==
  ASSUME NEW r \in RegVal, NEW s \in RegVal
  PROVE  UpperProduct(r, s) \in Word \X Word
<1> DEFINE UpperHalf(x) == ADDAL(LSHAL(x[1], 2), RSHA(<<0, x[2]>>, 2 * BYTEBITS)[2])
           Shifted(a)   == LSHA(<<0, a[2] % HALF>>, 2 * BYTEBITS)
           ll == MULAL(LowerHalf(r), LowerHalf(s))
           lh == MULAL(LowerHalf(r), UpperHalf(s))
           hl == MULAL(UpperHalf(r), LowerHalf(s))
           hh == MULAL(UpperHalf(r), UpperHalf(s))
           lo1 == Plus(ll, Shifted(lh))
           lo2 == Plus(Mask14(lo1), Shifted(hl))
           carry1 == <<0, RSHA(<<0, lo1[1]>>, WBITS - 4)[2]>>
           carry2 == <<0, RSHA(<<0, lo2[1]>>, WBITS - 4)[2]>>
           hi1 == Mask14(Plus(RSHA(lh, 2 * BYTEBITS), hh))
           hi2 == Mask14(Plus(RSHA(hl, 2 * BYTEBITS), hi1))
           hi3 == Mask14(Plus(carry1, hi2))
<1>1. UpperProduct(r, s) = Mask14(Plus(carry2, hi3))
  BY DEF UpperProduct
<1>2. /\ 2 * BYTEBITS \in 0 .. 36 /\ 2 * BYTEBITS \in 0 .. XLEN - 1
      /\ 2 \in 0 .. WBITS /\ 0 \in Word
  BY Widths DEF Word
<1>3. \A x \in RegVal : UpperHalf(x) \in Word
  <2>1. TAKE x \in RegVal
  <2>2. x \in Word \X Word /\ x[1] \in Word /\ x[2] \in Word
    BY RegValPair, PairInt
  <2>3. RSHA(<<0, x[2]>>, 2 * BYTEBITS)[2] \in Word
    BY <1>2, <2>2, RshaType, PairInt
  <2>4. LSHAL(x[1], 2) \in Word
    BY <1>2, <2>2, LshalType
  <2>5. QED  BY <2>3, <2>4, AddalType
<1>4. \A a \in Word \X Word : Shifted(a) \in Word \X Word
  <2>1. TAKE a \in Word \X Word
  <2>2. a[2] % HALF \in Word
    BY PairInt, HalfWord
  <2>3. QED  BY <1>2, <2>2, LshaType
<1> HIDE DEF UpperHalf, Shifted
<1>5. /\ ll \in Word \X Word /\ lh \in Word \X Word
      /\ hl \in Word \X Word /\ hh \in Word \X Word
  BY <1>3, LowerHalfType, MulalType
<1> HIDE DEF ll, lh, hl, hh
<1>6. lo1 \in Word \X Word
  BY <1>4, <1>5, PlusPair
<1> HIDE DEF lo1
<1>7. lo2 \in Word \X Word
  BY <1>4, <1>5, <1>6, MaskType, PlusPair
<1> HIDE DEF lo2
<1>8. carry1 \in Word \X Word /\ carry2 \in Word \X Word
  BY <1>6, <1>7, CarryType
<1> HIDE DEF carry1, carry2
<1>9. RSHA(lh, 2 * BYTEBITS) \in Word \X Word /\ RSHA(hl, 2 * BYTEBITS) \in Word \X Word
  BY <1>2, <1>5, RshaType
<1>10. hi1 \in Word \X Word
  BY <1>5, <1>9, PlusPair, MaskType
<1> HIDE DEF hi1
<1>11. hi2 \in Word \X Word
  BY <1>9, <1>10, PlusPair, MaskType
<1> HIDE DEF hi2
<1>12. hi3 \in Word \X Word
  BY <1>8, <1>11, PlusPair, MaskType
<1> HIDE DEF hi3
<1>13. QED  BY <1>1, <1>8, <1>12, PlusPair, MaskType

LEMMA UpperMulStep ==
  ASSUME TypeOK, OP_MULH \/ OP_MULHSU \/ OP_MULHU
  PROVE  TypeOK'
<1> DEFINE hi == UpperProduct(Src1, Src2)
<1>1. Src1 \in RegVal /\ Src2 \in RegVal
  BY Operands DEF OP_MULH, OP_MULHSU, OP_MULHU, Dispatch, ROps, UpperOps
<1>2. hi \in Word \X Word
  BY <1>1, UpperProductType
<1>3. /\ Src1 \in Int \X Int /\ Src2 \in Int \X Int /\ hi \in Int \X Int
      /\ hi \in Int \X Word
  BY <1>1, <1>2, RegValPair, PairInt
<1>4. \/ STORE_RESULT(hi)
      \/ STORE_RESULT(SUBA(hi, Src1))
      \/ STORE_RESULT(SUBA(hi, Src2))
      \/ STORE_RESULT(SUBA(SUBA(hi, Src1), Src2))
  BY DEF OP_MULH, OP_MULHSU, OP_MULHU
<1> HIDE DEF hi
<1>5. SUBA(hi, Src1) \in Int \X Word /\ SUBA(hi, Src2) \in Int \X Word
  BY <1>3, SubaType, PairInt
<1>6. SUBA(SUBA(hi, Src1), Src2) \in Int \X Word
  <2>1. SUBA(hi, Src1) \in Int \X Int
    BY <1>3, SubaType, PairInt
  <2>2. QED  BY <1>3, <2>1, SubaType, PairInt
<1>7. QED  BY <1>3, <1>4, <1>5, <1>6, StoreResult

LEMMA MultiplyStep ==
  ASSUME TypeOK, Multiply
  PROVE  TypeOK'
  BY MulStep, UpperMulStep DEF Multiply

-----------------------------------------------------------------------------
(* System calls *)

LEMMA ChannelType ==
  ASSUME TypeOK, NEW r \in {A0, A1}
  PROVE  Channel(r) \in Channels
<1>1. reg[r][2] \in Nat
  BY RegsSmall, RegOK DEF Word
<1>2. QED  BY <1>1, BootsAssumption DEF Channel, Channels

LEMMA CharReg ==
  ASSUME NEW c \in Char
  PROVE  <<0, c % BYTE>> \in RegVal
  BY Widths DEF Char, RegVal, Word

LEMMA GetcharStep ==
  ASSUME TypeOK, ECALL_GETCHAR
  PROVE  TypeOK'
<1> DEFINE c == Channel(A0)
<1>1. c \in Channels
  BY ChannelType
<1> HIDE DEF c
<1>2. /\ input[c] # <<>>
      /\ reg' = [reg EXCEPT ![A0] = <<0, Head(input[c]) % BYTE>>]
      /\ input' = [input EXCEPT ![c] = Tail(@)]
      /\ NEXT_INSTRUCTION
      /\ UNCHANGED <<program, mem, output>>
  BY DEF ECALL_GETCHAR, c
<1>3. input[c] \in Seq(Char)
  BY <1>1 DEF TypeOK
<1>4. Head(input[c]) \in Char /\ Tail(input[c]) \in Seq(Char)
  BY <1>2, <1>3
<1>5. reg' \in RegFile
  BY <1>2, <1>4, CharReg, RegsSmall, RegWrite
<1>6. input' \in [Channels -> Seq(Char)]
  BY <1>1, <1>2, <1>4 DEF TypeOK
<1>7. QED
  BY <1>2, <1>5, <1>6, NextType DEF TypeOK

LEMMA PutcharStep ==
  ASSUME TypeOK, ECALL_PUTCHAR
  PROVE  TypeOK'
<1>1. reg[A0][2] \in Nat
  BY RegsSmall, RegOK DEF Word
<1>2. reg[A0][2] % BYTE \in Char
  BY <1>1, Widths DEF Char
<1>3. <<Channel(A1), reg[A0][2] % BYTE>> \in Channels \X Char
  BY <1>2, ChannelType
<1>4. output' \in Seq(Channels \X Char)
  BY <1>3 DEF ECALL_PUTCHAR, TypeOK
<1>5. NEXT_INSTRUCTION /\ UNCHANGED <<program, reg, mem, input>>
  BY DEF ECALL_PUTCHAR
<1>6. QED
  BY <1>4, <1>5, NextType DEF TypeOK

LEMMA MemclearStep ==
  ASSUME TypeOK, ECALL_MEMCLEAR
  PROVE  TypeOK'
<1>1. mem' \in Memory
  <2>1. 0 \in 0 .. HALF - 1
    BY Widths
  <2>2. QED  BY <2>1 DEF ECALL_MEMCLEAR, TypeOK, Memory
<1>2. NEXT_INSTRUCTION /\ UNCHANGED <<program, reg, input, output>>
  BY DEF ECALL_MEMCLEAR
<1>3. QED
  BY <1>1, <1>2, NextType DEF TypeOK

LEMMA TimeStep ==
  ASSUME TypeOK, ECALL_TIME
  PROVE  TypeOK'
<1>1. PICK t \in CLOCK : reg' = [reg EXCEPT ![A0] = <<0, t>>]
  BY DEF ECALL_TIME
<1>2. <<0, t>> \in RegVal
  BY BootsAssumption, Widths DEF RegVal
<1>3. reg' \in RegFile
  BY <1>1, <1>2, RegsSmall, RegWrite
<1>4. NEXT_INSTRUCTION /\ UNCHANGED <<program, mem, input, output>>
  BY DEF ECALL_TIME
<1>5. QED
  BY <1>3, <1>4, NextType DEF TypeOK

LEMMA SyscallsStep ==
  ASSUME TypeOK, Syscalls
  PROVE  TypeOK'
<1>1. CASE ECALL_EXIT
  BY <1>1 DEF ECALL_EXIT, TypeOK, InProgram
<1>2. CASE BadSyscall
  BY <1>2 DEF BadSyscall, TypeOK, InProgram
<1>3. QED
  BY <1>1, <1>2, GetcharStep, PutcharStep, MemclearStep, TimeStep DEF Syscalls

-----------------------------------------------------------------------------

LEMMA Boot == Init => TypeOK
<1> SUFFICES ASSUME Init PROVE TypeOK
  OBVIOUS
<1>1. PICK b \in BOOTS : program = b.program /\ reg = b.reg /\ mem = b.mem /\ input = b.input
  BY DEF Init
<1>2. /\ program \in Seq(Instruction) \ {<<>>} /\ reg \in RegFile
      /\ mem \in Memory /\ input \in [Channels -> Seq(Char)]
  BY <1>1, BootsAssumption
<1>3. 0 \in Word /\ InProgram(0)
  BY <1>2, Widths DEF Word, InProgram
<1>4. QED
  BY <1>2, <1>3 DEF Init, TypeOK

LEMMA Step == TypeOK /\ [Next]_vars => TypeOK'
<1>1. CASE UNCHANGED vars
  BY <1>1 DEF vars, TypeOK, InProgram
<1>2. QED
  BY <1>1, ArithmeticStep, BitwiseStep, ShiftsStep, MemoryStep, ComparesStep, BranchesStep,
     JumpsStep, MultiplyStep, SyscallsStep DEF Next

(* No instruction leaves a bit above the 14 or a value in x0, no store a      *)
(* cell of more than 16 bits: the invariant every handler relies on (01-     *)
(* common.univac:43), for any program, any registers the last program left   *)
(* behind, any input, at every width of the machine.                         *)
THEOREM RegisterInvariant == Spec => []TypeOK
  BY Boot, Step, PTL DEF Spec

-----------------------------------------------------------------------------
(* What the start-up code of C relies on *)

LEMMA BytePowers ==
  /\ BYTE^0 = 1 /\ BYTE^1 = BYTE /\ BYTE^2 = HALF /\ BYTE^3 = HALF * BYTE
<1>1. /\ 4^0 = 1 /\ 4^1 = 4 /\ 4^2 = 16 /\ 4^3 = 64
      /\ 16^0 = 1 /\ 16^1 = 16 /\ 16^2 = 256 /\ 16^3 = 4096
      /\ 256^0 = 1 /\ 256^1 = 256 /\ 256^2 = 65536 /\ 256^3 = 16777216
  BY SMT
<1>2. BYTE = 4 => BYTE^0 = 4^0 /\ BYTE^1 = 4^1 /\ BYTE^2 = 4^2 /\ BYTE^3 = 4^3
  BY Zenon
<1>3. BYTE = 16 => BYTE^0 = 16^0 /\ BYTE^1 = 16^1 /\ BYTE^2 = 16^2 /\ BYTE^3 = 16^3
  BY Zenon
<1>4. BYTE = 256 => BYTE^0 = 256^0 /\ BYTE^1 = 256^1 /\ BYTE^2 = 256^2 /\ BYTE^3 = 256^3
  BY Zenon
<1>5. \/ BYTE = 4 /\ HALF = 16
      \/ BYTE = 16 /\ HALF = 256
      \/ BYTE = 256 /\ HALF = 65536
  BY Widths
<1>6. QED  BY <1>1, <1>2, <1>3, <1>4, <1>5, SMT

(* An address whose word is one of the image is halved exactly: the sign that   *)
(* RSHAL copies would give a word beyond every image.                         *)
LEMMA HalvedInImage ==
  ASSUME NEW w \in Word, RSHAL(w, 1) < HALF
  PROVE  RSHAL(w, 1) = w \div 2
<1>1. 2^1 = 2
  OBVIOUS
<1>2. CASE w < WORD \div 2
  <2>1. 1 \in 0 .. 36
    OBVIOUS
  <2>2. QED  BY <1>1, <1>2, <2>1, RshalType
<1>3. CASE ~(w < WORD \div 2)
  <2>1. RSHAL(w, 1) = ((w - WORD) \div 2) % WORD
    BY <1>1, <1>3, Widths DEF RSHAL, Word, Neg
  <2>2. FALSE
    <3>1. CASE BYTEBITS = 2  BY <1>3, <2>1, <3>1, Widths DEF Word
    <3>2. CASE BYTEBITS = 4  BY <1>3, <2>1, <3>2, Widths DEF Word
    <3>3. CASE BYTEBITS = 8  BY <1>3, <2>1, <3>3, Widths DEF Word
    <3>4. QED  BY <3>1, <3>2, <3>3
  <2>3. QED  BY <2>2
<1>4. QED  BY <1>2, <1>3

LEMMA ClearedImage ==
  ASSUME TypeOK, ECALL_MEMCLEAR, BssAligned, NEW a \in ImageBytes
  PROVE  /\ a \in bss_start .. bss_end - 1 => ImageByte(mem', a) = 0
         /\ a < bss_start => ImageByte(mem', a) = ImageByte(mem, a)
<1> DEFINE s == reg[A0][2]
           e == reg[A1][2]
<1>1. s \in Word /\ e \in Word
  <2>1. A0 \in Regs /\ A1 \in Regs
    BY RegsSmall
  <2>2. QED  BY <2>1, RegOK
<1>2. /\ MC_START <= MC_END /\ MC_START .. MC_END \subseteq DATA
      /\ mem' = [w \in DATA |-> IF w \in MC_START .. MC_END THEN 0 ELSE mem[w]]
  BY DEF ECALL_MEMCLEAR
<1>3. DATA \subseteq 0 .. HALF - 1 /\ HALF \in Nat
  BY BootsAssumption, Widths
<1>4. s % 2 = 0
  BY DEF BssAligned, ECALL_MEMCLEAR, bss_start
<1>5. MC_START = s \div 2 /\ MC_END = e \div 2
  <2>1. MC_START \in Int /\ MC_END \in Int
    <3>1. 1 \in 0 .. 36
      OBVIOUS
    <3>2. RSHAL(s, 1) \in Word /\ RSHAL(e, 1) \in Word
      BY <1>1, <3>1, RshalType, Zenon
    <3>3. QED  BY <3>2 DEF MC_START, MC_END, Word
  <2>2. MC_START < HALF /\ MC_END < HALF
    BY <1>2, <1>3, <2>1
  <2>3. QED  BY <1>1, <2>2, HalvedInImage, Zenon DEF MC_START, MC_END
<1>6. a \in Nat /\ a \div 2 \in DATA
  <2>1. PICK w \in DATA : a = 2 * w \/ a = 2 * w + 1
    BY Zenon DEF ImageBytes
  <2>2. w \in Nat
    BY <1>3
  <2>3. a \in Nat /\ a \div 2 = w
    BY <2>1, <2>2
  <2>4. QED  BY <2>3
<1>7. s \in Nat /\ e \in Nat
  BY <1>1, Widths DEF Word
<1> HIDE DEF s, e
<1>8. ASSUME a \in s .. e - 1
      PROVE  ImageByte(mem', a) = 0
  <2>1. a \div 2 \in s \div 2 .. e \div 2
    BY <1>6, <1>7, <1>8
  <2>2. mem'[a \div 2] = 0
    BY <1>2, <1>5, <1>6, <2>1
  <2>3. a % 2 \in {0, 1}
    BY <1>6
  <2>4. BYTE^(a % 2) \in Nat \ {0}
    <3>1. BYTE^0 \in Nat \ {0} /\ BYTE^1 \in Nat \ {0}
      BY BytePowers, Widths
    <3>2. QED  BY <2>3, <3>1, Zenon
  <2>5. (0 \div BYTE^(a % 2)) % BYTE = 0
    BY <2>4, Widths
  <2>6. QED  BY <2>2, <2>5 DEF ImageByte
<1>9. ASSUME a < s
      PROVE  ImageByte(mem', a) = ImageByte(mem, a)
  <2>1. a \div 2 \notin s \div 2 .. e \div 2
    BY <1>4, <1>6, <1>7, <1>9
  <2>2. mem'[a \div 2] = mem[a \div 2]
    BY <1>2, <1>5, <1>6, <2>1
  <2>3. QED  BY <2>2 DEF ImageByte
<1>10. QED  BY <1>8, <1>9 DEF s, e, bss_start, bss_end

(* Of an image of any size, at every width, _start_c finds every byte of .bss   *)
(* zero and every byte below it as loaded, if .bss starts where linker.ld      *)
(* aligns it; nothing is assumed of where it ends (start.c:8).                 *)
THEOREM StartupClears == Spec /\ []BssAligned => BssZeroed
<1>1. TypeOK /\ BssAligned /\ [Next]_vars
        => [ECALL_MEMCLEAR =>
              \A a \in ImageBytes : /\ a \in bss_start .. bss_end - 1 => ImageByte(mem', a) = 0
                                    /\ a < bss_start => ImageByte(mem', a) = ImageByte(mem, a)]_vars
  BY ClearedImage
<1>2. QED  BY <1>1, RegisterInvariant, PTL DEF Spec, BssZeroed

=============================================================================
