--------------------------- MODULE TestSeedsProofs ---------------------------
(***************************************************************************)
(* The seeds of the tests are apart, and stay apart as long as the tests   *)
(* draw from them, for all test indexes of 24 bits and for any number of   *)
(* recorded tests.  A number of 64 bits stands for the integer it is.      *)
(***************************************************************************)
EXTENDS TestSeeds, M6809AluProofs, FiniteSetTheorems

Number == [1..8 -> Byte]

\* The integer a number stands for, in two parts of 24 and of 40 bits.
Low(x) == x[1] + 256 * (x[2] + 256 * x[3])
Top(x) == x[4] + 256 * (x[5] + 256 * (x[6] + 256 * (x[7] + 256 * x[8])))

\* A seed has 24 bits for the index of the test.
LastIndex == 16777215
IndexRange == 0..LastIndex
IndexesFit == Indexes \subseteq IndexRange

-----------------------------------------------------------------------------
(***************************************************************************)
(* Arithmetic of 64 bits.                                                  *)
(***************************************************************************)
LEMMA OneToEight == \A i : i \in 1..8 <=> i \in {1, 2, 3, 4, 5, 6, 7, 8}
  OBVIOUS

LEMMA PartsTyped == \A x \in Number : /\ Low(x) \in Int /\ Top(x) \in Int
                                      /\ 0 <= Low(x) /\ Low(x) < 16777216
                                      /\ 0 <= Top(x) /\ Top(x) < 1099511627776
<1> SUFFICES ASSUME NEW x \in Number
             PROVE  /\ Low(x) \in Int /\ Top(x) \in Int
                    /\ 0 <= Low(x) /\ Low(x) < 16777216
                    /\ 0 <= Top(x) /\ Top(x) < 1099511627776
  OBVIOUS
<1>1. \A i \in {1, 2, 3, 4, 5, 6, 7, 8} : x[i] \in Int /\ 0 <= x[i] /\ x[i] <= 255
  BY ByteIs, OneToEight DEF Number
<1> DEFINE a1 == x[1]  a2 == x[2]  a3 == x[3]  a4 == x[4]
           a5 == x[5]  a6 == x[6]  a7 == x[7]  a8 == x[8]
<1>2. /\ Low(x) = a1 + 256 * (a2 + 256 * a3)
      /\ Top(x) = a4 + 256 * (a5 + 256 * (a6 + 256 * (a7 + 256 * a8)))
  BY DEF Low, Top
<1>3. /\ a1 \in Int /\ 0 <= a1 /\ a1 <= 255
      /\ a2 \in Int /\ 0 <= a2 /\ a2 <= 255
      /\ a3 \in Int /\ 0 <= a3 /\ a3 <= 255
  BY <1>1
<1>4. /\ a4 \in Int /\ 0 <= a4 /\ a4 <= 255
      /\ a5 \in Int /\ 0 <= a5 /\ a5 <= 255
      /\ a6 \in Int /\ 0 <= a6 /\ a6 <= 255
      /\ a7 \in Int /\ 0 <= a7 /\ a7 <= 255
      /\ a8 \in Int /\ 0 <= a8 /\ a8 <= 255
  BY <1>1
<1> HIDE DEF a1, a2, a3, a4, a5, a6, a7, a8
<1> DEFINE l == a1 + 256 * (a2 + 256 * a3)
           t == a4 + 256 * (a5 + 256 * (a6 + 256 * (a7 + 256 * a8)))
<1>5. l \in Int /\ 0 <= l /\ l < 16777216
  BY <1>3, SMT
<1>6. t \in Int /\ 0 <= t /\ t < 1099511627776
  BY <1>4, SMT
<1>7. Low(x) = l /\ Top(x) = t
  BY <1>2
<1> HIDE DEF l, t
<1> QED BY <1>5, <1>6, <1>7

LEMMA BytesOfSum ==
  \A v \in Int : v = 256 * (v \div 256) + (v % 256) /\ v \div 256 \in Int /\ v % 256 \in Byte
  BY ByteIs

\* A sum of columns is what it stands for, but for what does not fit.
LEMMA CarriedIs ==
  ASSUME NEW column, \A i \in 1..8 : column[i] \in Int
  PROVE  /\ Carried(column) \in Number
         /\ \E c, k \in Int :
              /\ Low(column) = Low(Carried(column)) + 16777216 * c
              /\ Top(column) + c = Top(Carried(column)) + 1099511627776 * k
<1> DEFINE Carries(h) == [i \in 1..9 |-> IF i = 1 THEN 0
                                       ELSE (column[i - 1] + h[i - 1]) \div 256]
           f == CHOOSE h : h = Carries(h)
           z == Carried(column)
<1>1. z = [i \in 1..8 |-> (column[i] + f[i]) % 256]
  BY DEF Carried
<1>2. f = Carries(f)
  <2> DEFINE c2 == (column[1] + 0) \div 256   c3 == (column[2] + c2) \div 256
             c4 == (column[3] + c3) \div 256   c5 == (column[4] + c4) \div 256
             c6 == (column[5] + c5) \div 256   c7 == (column[6] + c6) \div 256
             c8 == (column[7] + c7) \div 256   c9 == (column[8] + c8) \div 256
             g == [i \in 1..9 |-> IF i = 1 THEN 0 ELSE IF i = 2 THEN c2
                                  ELSE IF i = 3 THEN c3 ELSE IF i = 4 THEN c4
                                  ELSE IF i = 5 THEN c5 ELSE IF i = 6 THEN c6
                                  ELSE IF i = 7 THEN c7 ELSE IF i = 8 THEN c8 ELSE c9]
  <2> HIDE DEF c2, c3, c4, c5, c6, c7, c8, c9
  <2>1. /\ g[1] = 0 /\ g[2] = c2 /\ g[3] = c3 /\ g[4] = c4 /\ g[5] = c5
        /\ g[6] = c6 /\ g[7] = c7 /\ g[8] = c8 /\ g[9] = c9
    OBVIOUS
  <2>2. ASSUME NEW i \in 1..9
        PROVE  g[i] = IF i = 1 THEN 0 ELSE (column[i - 1] + g[i - 1]) \div 256
    <3>1. CASE i = 1  BY <3>1, <2>1
    <3>2. CASE i = 2  BY <3>2, <2>1 DEF c2
    <3>3. CASE i = 3  BY <3>3, <2>1 DEF c3
    <3>4. CASE i = 4  BY <3>4, <2>1 DEF c4
    <3>5. CASE i = 5  BY <3>5, <2>1 DEF c5
    <3>6. CASE i = 6  BY <3>6, <2>1 DEF c6
    <3>7. CASE i = 7  BY <3>7, <2>1 DEF c7
    <3>8. CASE i = 8  BY <3>8, <2>1 DEF c8
    <3>9. CASE i = 9  BY <3>9, <2>1 DEF c9
    <3> QED BY <3>1, <3>2, <3>3, <3>4, <3>5, <3>6, <3>7, <3>8, <3>9
  <2> HIDE DEF g
  <2>3. DOMAIN g = 1..9 /\ g = [i \in 1..9 |-> g[i]]
    BY DEF g
  <2>4. g = Carries(g)
    BY <2>2, <2>3
  <2> HIDE DEF Carries
  <2> QED BY <2>4
<1> HIDE DEF f, z
<1>3. f[1] = 0 /\ \A i \in 1..8 : f[i + 1] = (column[i] + f[i]) \div 256
  <2>1. ASSUME NEW j \in 1..9
        PROVE  f[j] = IF j = 1 THEN 0 ELSE (column[j - 1] + f[j - 1]) \div 256
    BY <1>2
  <2>2. ASSUME NEW i \in 1..8
        PROVE  f[i + 1] = (column[i] + f[i]) \div 256
    BY <2>1, i + 1 \in 1..9, i + 1 # 1, (i + 1) - 1 = i
  <2> QED BY <2>1, <2>2
<1>4. ASSUME NEW i \in 1..8, f[i] \in Int
      PROVE  /\ column[i] + f[i] = 256 * f[i + 1] + z[i]
             /\ f[i + 1] \in Int /\ z[i] \in Byte
  <2>1. z[i] = (column[i] + f[i]) % 256
    BY <1>1
  <2> QED BY <2>1, <1>3, BytesOfSum, column[i] + f[i] \in Int
<1>5. /\ f[1] \in Int /\ f[2] \in Int /\ f[3] \in Int /\ f[4] \in Int /\ f[5] \in Int
      /\ f[6] \in Int /\ f[7] \in Int /\ f[8] \in Int
  <2>1. f[1] \in Int  BY <1>3
  <2>2. f[2] \in Int  BY <2>1, <1>4, 1 + 1 = 2
  <2>3. f[3] \in Int  BY <2>2, <1>4, 2 + 1 = 3
  <2>4. f[4] \in Int  BY <2>3, <1>4, 3 + 1 = 4
  <2>5. f[5] \in Int  BY <2>4, <1>4, 4 + 1 = 5
  <2>6. f[6] \in Int  BY <2>5, <1>4, 5 + 1 = 6
  <2>7. f[7] \in Int  BY <2>6, <1>4, 6 + 1 = 7
  <2>8. f[8] \in Int  BY <2>7, <1>4, 7 + 1 = 8
  <2> QED BY <2>1, <2>2, <2>3, <2>4, <2>5, <2>6, <2>7, <2>8
<1>6. \A i \in 1..8 : f[i] \in Int
  BY <1>5, OneToEight
<1>7. z \in Number
  BY <1>1, <1>4, <1>6 DEF Number
<1>8. /\ column[1] + f[1] = 256 * f[2] + z[1]  /\ column[2] + f[2] = 256 * f[3] + z[2]
      /\ column[3] + f[3] = 256 * f[4] + z[3]  /\ column[4] + f[4] = 256 * f[5] + z[4]
      /\ column[5] + f[5] = 256 * f[6] + z[5]  /\ column[6] + f[6] = 256 * f[7] + z[6]
      /\ column[7] + f[7] = 256 * f[8] + z[7]  /\ column[8] + f[8] = 256 * f[9] + z[8]
  <2>1. \A i \in {1, 2, 3, 4, 5, 6, 7, 8} : column[i] + f[i] = 256 * f[i + 1] + z[i]
    BY <1>4, <1>6, OneToEight
  <2> QED BY <2>1
<1>9. f[9] \in Int
  BY <1>4, <1>5, 8 + 1 = 9
<1>10. \A i \in {1, 2, 3, 4, 5, 6, 7, 8} : column[i] \in Int /\ z[i] \in Int
  BY <1>7, OneToEight, ByteIs DEF Number
<1>11. /\ Low(column) = Low(z) + 16777216 * f[4]
       /\ Top(column) + f[4] = Top(z) + 1099511627776 * f[9]
  <2> DEFINE a1 == column[1]  a2 == column[2]  a3 == column[3]  a4 == column[4]
             a5 == column[5]  a6 == column[6]  a7 == column[7]  a8 == column[8]
             b1 == z[1]  b2 == z[2]  b3 == z[3]  b4 == z[4]
             b5 == z[5]  b6 == z[6]  b7 == z[7]  b8 == z[8]
             f2 == f[2]  f3 == f[3]  f4 == f[4]  f5 == f[5]
             f6 == f[6]  f7 == f[7]  f8 == f[8]  f9 == f[9]
  <2>1. a1 = 256 * f2 + b1 /\ f2 \in Int /\ b1 \in Int
    BY <1>3, <1>5, <1>8, <1>10
  <2>2. a2 + f2 = 256 * f3 + b2 /\ a2 \in Int /\ f3 \in Int /\ b2 \in Int
    BY <1>5, <1>8, <1>10
  <2>3. a3 + f3 = 256 * f4 + b3 /\ a3 \in Int /\ f4 \in Int /\ b3 \in Int
    BY <1>5, <1>8, <1>10
  <2>4. a4 + f4 = 256 * f5 + b4 /\ a4 \in Int /\ f5 \in Int /\ b4 \in Int
    BY <1>5, <1>8, <1>10
  <2>5. a5 + f5 = 256 * f6 + b5 /\ a5 \in Int /\ f6 \in Int /\ b5 \in Int
    BY <1>5, <1>8, <1>10
  <2>6. a6 + f6 = 256 * f7 + b6 /\ a6 \in Int /\ f7 \in Int /\ b6 \in Int
    BY <1>5, <1>8, <1>10
  <2>7. a7 + f7 = 256 * f8 + b7 /\ a7 \in Int /\ f8 \in Int /\ b7 \in Int
    BY <1>5, <1>8, <1>10
  <2>8. a8 + f8 = 256 * f9 + b8 /\ a8 \in Int /\ f9 \in Int /\ b8 \in Int
    BY <1>8, <1>9, <1>10
  <2>9. /\ Low(column) = a1 + 256 * (a2 + 256 * a3)
        /\ Low(z) = b1 + 256 * (b2 + 256 * b3)
        /\ Top(column) = a4 + 256 * (a5 + 256 * (a6 + 256 * (a7 + 256 * a8)))
        /\ Top(z) = b4 + 256 * (b5 + 256 * (b6 + 256 * (b7 + 256 * b8)))
        /\ f[4] = f4 /\ f[9] = f9
    BY DEF Low, Top
  <2> HIDE DEF a1, a2, a3, a4, a5, a6, a7, a8, b1, b2, b3, b4, b5, b6, b7, b8,
               f2, f3, f4, f5, f6, f7, f8, f9
  <2>10. a7 + 256 * a8 = b7 + 256 * b8 + 65536 * f9 - f7
    BY <2>6, <2>7, <2>8, SMT
  <2>11. a5 + 256 * (a6 + 256 * (a7 + 256 * a8))
           = b5 + 256 * (b6 + 256 * (b7 + 256 * b8)) + 4294967296 * f9 - f5
    BY <2>4, <2>5, <2>6, <2>7, <2>8, <2>10, SMT
  <2>12. a1 + 256 * (a2 + 256 * a3) = b1 + 256 * (b2 + 256 * b3) + 16777216 * f4
    BY <2>1, <2>2, <2>3, SMT
  <2>13. a4 + 256 * (a5 + 256 * (a6 + 256 * (a7 + 256 * a8))) + f4
           = b4 + 256 * (b5 + 256 * (b6 + 256 * (b7 + 256 * b8))) + 1099511627776 * f9
    BY <2>3, <2>4, <2>5, <2>6, <2>7, <2>8, <2>11, SMT
  <2> QED BY <2>9, <2>12, <2>13
<1> QED BY <1>5, <1>7, <1>9, <1>11 DEF z

LEMMA Add64Is ==
  ASSUME NEW x \in Number, NEW y \in Number
  PROVE  /\ Add64(x, y) \in Number
         /\ \E c, k \in Int :
              /\ Low(x) + Low(y) = Low(Add64(x, y)) + 16777216 * c
              /\ Top(x) + Top(y) + c = Top(Add64(x, y)) + 1099511627776 * k
<1> DEFINE column == [i \in 1..8 |-> x[i] + y[i]]
<1>1. \A i \in 1..8 : x[i] \in Int /\ y[i] \in Int
  BY ByteIs DEF Number
<1>2. \A i \in 1..8 : column[i] = x[i] + y[i] /\ column[i] \in Int
  BY <1>1
<1>3. Add64(x, y) = Carried(column)
  BY DEF Add64
<1>4. Low(column) = Low(x) + Low(y)
  <2> DEFINE a1 == x[1]  a2 == x[2]  a3 == x[3]  b1 == y[1]  b2 == y[2]  b3 == y[3]
  <2>1. column[1] = a1 + b1 /\ column[2] = a2 + b2 /\ column[3] = a3 + b3
    BY <1>2, OneToEight
  <2>2. /\ a1 \in Int /\ a2 \in Int /\ a3 \in Int
        /\ b1 \in Int /\ b2 \in Int /\ b3 \in Int
    BY <1>1, OneToEight
  <2>3. /\ Low(column) = column[1] + 256 * (column[2] + 256 * column[3])
        /\ Low(x) = a1 + 256 * (a2 + 256 * a3) /\ Low(y) = b1 + 256 * (b2 + 256 * b3)
    BY DEF Low
  <2> HIDE DEF column, a1, a2, a3, b1, b2, b3
  <2>4. (a1 + b1) + 256 * ((a2 + b2) + 256 * (a3 + b3))
          = (a1 + 256 * (a2 + 256 * a3)) + (b1 + 256 * (b2 + 256 * b3))
    BY <2>2, SMT
  <2> QED BY <2>1, <2>3, <2>4
<1>5. Top(column) = Top(x) + Top(y)
  <2> DEFINE a4 == x[4]  a5 == x[5]  a6 == x[6]  a7 == x[7]  a8 == x[8]
             b4 == y[4]  b5 == y[5]  b6 == y[6]  b7 == y[7]  b8 == y[8]
  <2>1. /\ column[4] = a4 + b4 /\ column[5] = a5 + b5 /\ column[6] = a6 + b6
        /\ column[7] = a7 + b7 /\ column[8] = a8 + b8
    BY <1>2, OneToEight
  <2>2. /\ a4 \in Int /\ a5 \in Int /\ a6 \in Int /\ a7 \in Int /\ a8 \in Int
        /\ b4 \in Int /\ b5 \in Int /\ b6 \in Int /\ b7 \in Int /\ b8 \in Int
    BY <1>1, OneToEight
  <2>3. /\ Top(column) = column[4] + 256 * (column[5] + 256 * (column[6]
                            + 256 * (column[7] + 256 * column[8])))
        /\ Top(x) = a4 + 256 * (a5 + 256 * (a6 + 256 * (a7 + 256 * a8)))
        /\ Top(y) = b4 + 256 * (b5 + 256 * (b6 + 256 * (b7 + 256 * b8)))
    BY DEF Top
  <2> HIDE DEF column, a4, a5, a6, a7, a8, b4, b5, b6, b7, b8
  <2>4. (a4 + b4) + 256 * ((a5 + b5) + 256 * ((a6 + b6) + 256 * ((a7 + b7) + 256 * (a8 + b8))))
          = (a4 + 256 * (a5 + 256 * (a6 + 256 * (a7 + 256 * a8))))
            + (b4 + 256 * (b5 + 256 * (b6 + 256 * (b7 + 256 * b8))))
    BY <2>2, SMT
  <2> QED BY <2>1, <2>3, <2>4
<1> HIDE DEF column
<1>6. /\ Carried(column) \in Number
      /\ \E c, k \in Int :
           /\ Low(column) = Low(Carried(column)) + 16777216 * c
           /\ Top(column) + c = Top(Carried(column)) + 1099511627776 * k
  BY <1>2, CarriedIs
<1> QED BY <1>3, <1>4, <1>5, <1>6

One64 == <<1, 0, 0, 0, 0, 0, 0, 0>>

LEMMA NumberOfBytes ==
  ASSUME NEW a1 \in Byte, NEW a2 \in Byte, NEW a3 \in Byte, NEW a4 \in Byte,
         NEW a5 \in Byte, NEW a6 \in Byte, NEW a7 \in Byte, NEW a8 \in Byte
  PROVE  <<a1, a2, a3, a4, a5, a6, a7, a8>> \in Number
  BY OneToEight DEF Number

LEMMA ConstantsAre ==
  /\ One64 \in Number /\ Low(One64) = 1 /\ Top(One64) = 0
  /\ Gamma \in Number /\ Low(Gamma) = 4881429 /\ Top(Gamma) = 679535556991
<1>1. /\ 0 \in Byte /\ 1 \in Byte /\ 21 \in Byte /\ 124 \in Byte /\ 74 \in Byte
      /\ 127 \in Byte /\ 185 \in Byte /\ 121 \in Byte /\ 55 \in Byte /\ 158 \in Byte
  BY ByteIs
<1>2. Gamma = <<21, 124, 74, 127, 185, 121, 55, 158>>
  BY DEF Gamma
<1>3. One64 \in Number /\ Gamma \in Number
  <2>1. <<1, 0, 0, 0, 0, 0, 0, 0>> \in Number
    BY <1>1, NumberOfBytes
  <2>2. ASSUME NEW a, NEW b, NEW c, NEW d, NEW e, NEW f, NEW g, NEW h,
               a = 21 /\ b = 124 /\ c = 74 /\ d = 127 /\ e = 185 /\ f = 121 /\ g = 55 /\ h = 158
        PROVE  <<a, b, c, d, e, f, g, h>> \in Number
    <3>1. /\ a \in Byte /\ b \in Byte /\ c \in Byte /\ d \in Byte
          /\ e \in Byte /\ f \in Byte /\ g \in Byte /\ h \in Byte
      BY <1>1, <2>2
    <3> QED BY <3>1, NumberOfBytes
  <2> QED BY <1>2, <2>1, <2>2 DEF One64
<1>4. Low(One64) = 1 /\ Top(One64) = 0
  BY DEF One64, Low, Top
<1>5. Low(Gamma) = 4881429 /\ Top(Gamma) = 679535556991
  BY <1>2 DEF Low, Top
<1> QED BY <1>3, <1>4, <1>5

LEMMA ComplementIs ==
  ASSUME NEW y \in Number
  PROVE  /\ Complement(y) \in Number
         /\ Low(Complement(y)) = 16777215 - Low(y)
         /\ Top(Complement(y)) = 1099511627775 - Top(y)
<1> DEFINE n == Complement(y)
<1>1. \A i \in 1..8 : y[i] \in Int /\ 0 <= y[i] /\ y[i] <= 255
  BY ByteIs DEF Number
<1>2. \A i \in 1..8 : n[i] = 255 - y[i]
  BY DEF Complement
<1>3. n \in Number
  <2>1. \A i \in 1..8 : 255 - y[i] \in Byte
    BY <1>1, ByteIs
  <2> QED BY <2>1 DEF Complement, Number
<1> HIDE DEF n
<1> DEFINE b1 == y[1]  b2 == y[2]  b3 == y[3]  b4 == y[4]
           b5 == y[5]  b6 == y[6]  b7 == y[7]  b8 == y[8]
<1>4. /\ n[1] = 255 - b1 /\ n[2] = 255 - b2 /\ n[3] = 255 - b3 /\ n[4] = 255 - b4
      /\ n[5] = 255 - b5 /\ n[6] = 255 - b6 /\ n[7] = 255 - b7 /\ n[8] = 255 - b8
  BY <1>2, OneToEight
<1>5. /\ b1 \in Int /\ b2 \in Int /\ b3 \in Int /\ b4 \in Int
      /\ b5 \in Int /\ b6 \in Int /\ b7 \in Int /\ b8 \in Int
  BY <1>1, OneToEight
<1>6. /\ Low(n) = n[1] + 256 * (n[2] + 256 * n[3]) /\ Low(y) = b1 + 256 * (b2 + 256 * b3)
      /\ Top(n) = n[4] + 256 * (n[5] + 256 * (n[6] + 256 * (n[7] + 256 * n[8])))
      /\ Top(y) = b4 + 256 * (b5 + 256 * (b6 + 256 * (b7 + 256 * b8)))
  BY DEF Low, Top
<1> HIDE DEF b1, b2, b3, b4, b5, b6, b7, b8
<1>7. (255 - b1) + 256 * ((255 - b2) + 256 * (255 - b3))
        = 16777215 - (b1 + 256 * (b2 + 256 * b3))
  BY <1>5, SMT
<1>8. (255 - b4) + 256 * ((255 - b5) + 256 * ((255 - b6) + 256 * ((255 - b7) + 256 * (255 - b8))))
        = 1099511627775 - (b4 + 256 * (b5 + 256 * (b6 + 256 * (b7 + 256 * b8))))
  BY <1>5, SMT
<1>9. Low(n) = 16777215 - Low(y) /\ Top(n) = 1099511627775 - Top(y)
  BY <1>4, <1>6, <1>7, <1>8
<1> QED BY <1>3, <1>9 DEF n

LEMMA Minus64Is ==
  ASSUME NEW x \in Number, NEW y \in Number
  PROVE  /\ Minus64(x, y) \in Number
         /\ \E c, k \in Int :
              /\ Low(x) - Low(y) = Low(Minus64(x, y)) + 16777216 * c
              /\ Top(x) - Top(y) + c = Top(Minus64(x, y)) + 1099511627776 * k
<1> DEFINE n == Complement(y)   z == Add64(x, n)   m == Minus64(x, y)
<1>1. n \in Number /\ Low(n) = 16777215 - Low(y) /\ Top(n) = 1099511627775 - Top(y)
  BY ComplementIs
<1>2. m = Add64(z, One64)
  BY DEF Minus64, One64
<1> HIDE DEF n
<1>3. PICK c1, k1 \in Int : /\ Low(x) + Low(n) = Low(z) + 16777216 * c1
                            /\ Top(x) + Top(n) + c1 = Top(z) + 1099511627776 * k1
  BY <1>1, Add64Is
<1>4. z \in Number
  BY <1>1, Add64Is
<1> HIDE DEF z, m
<1>5. m \in Number
  BY <1>2, <1>4, Add64Is, ConstantsAre
<1>6. PICK c2, k2 \in Int : /\ Low(z) + Low(One64) = Low(m) + 16777216 * c2
                            /\ Top(z) + Top(One64) + c2 = Top(m) + 1099511627776 * k2
  BY <1>2, <1>4, Add64Is, ConstantsAre
<1>7. /\ Low(x) \in Int /\ Low(y) \in Int /\ Low(z) \in Int /\ Low(m) \in Int
      /\ Top(x) \in Int /\ Top(y) \in Int /\ Top(z) \in Int /\ Top(m) \in Int
  BY <1>4, <1>5, PartsTyped
<1> DEFINE c == c1 + c2 - 1   k == k1 + k2 - 1
<1>8. /\ Low(x) - Low(y) = Low(m) + 16777216 * c
      /\ Top(x) - Top(y) + c = Top(m) + 1099511627776 * k
  BY <1>1, <1>3, <1>6, <1>7, ConstantsAre, SMT
<1>9. c \in Int /\ k \in Int
  OBVIOUS
<1> HIDE DEF c, k
<1> QED BY <1>5, <1>8, <1>9, SMT DEF m

-----------------------------------------------------------------------------
(***************************************************************************)
(* No multiple of Gamma, up to the number of draws of a test, comes near a *)
(* multiple of 2^64.  The fractions 6765/10946 and 4181/6765 enclose the   *)
(* ratio of the two so closely that smaller multiples stay away.           *)
(***************************************************************************)
Near(d, k) ==
  /\ -80000 <= d * 679535556991 - k * 1099511627776
  /\ d * 679535556991 - k * 1099511627776 <= 80000

LEMMA FarFromZero ==
  ASSUME NEW d \in Int, 1 <= d, d <= 8201, NEW k \in Int
  PROVE  ~Near(d, k)
<1> DEFINE x == 10946 * k - 6765 * d
           y == 4181 * d - 6765 * k
<1>1. d \in Int /\ 1 <= d /\ d <= 8201 /\ x \in Int /\ y \in Int
  OBVIOUS
<1>2. d = 6765 * x + 10946 * y /\ k = 4181 * x + 6765 * y
  OBVIOUS
<1> HIDE DEF x, y
<1>3. d * 679535556991 - k * 1099511627776
        = y * 44918846 - x * 72687341
  BY <1>1, <1>2
<1>4. CASE y = 0
  BY <1>1, <1>2, <1>3, <1>4 DEF Near
<1>5. CASE y > 0
  BY <1>1, <1>2, <1>3, <1>5 DEF Near
<1>6. CASE y < 0
  BY <1>1, <1>2, <1>3, <1>6 DEF Near
<1> QED BY <1>1, <1>4, <1>5, <1>6

-----------------------------------------------------------------------------
(***************************************************************************)
(* Seeds.                                                                  *)
(***************************************************************************)
\* A byte is the sum of its bits.
LEMMA ByteOfBits ==
  \A v \in Byte : v = FromBits([m \in ByteMasks |-> Bit(v, m)])
<1> SUFFICES ASSUME NEW v \in Byte PROVE v = FromBits([m \in ByteMasks |-> Bit(v, m)])
  OBVIOUS
<1> DEFINE f == [m \in ByteMasks |-> Bit(v, m)]
           v1 == v \div 2  v2 == v1 \div 2  v3 == v2 \div 2  v4 == v3 \div 2
           v5 == v4 \div 2  v6 == v5 \div 2  v7 == v6 \div 2
<1>1. v \in Int /\ 0 <= v /\ v <= 255
  BY ByteIs
<1>2. /\ f[1] = v % 2 /\ f[2] = v1 % 2 /\ f[4] = v2 % 2 /\ f[8] = v3 % 2
      /\ f[16] = v4 % 2 /\ f[32] = v5 % 2 /\ f[64] = v6 % 2 /\ f[128] = v7 % 2
  <2>1. /\ v \div 4 = v2 /\ v \div 8 = v3 /\ v \div 16 = v4 /\ v \div 32 = v5
        /\ v \div 64 = v6 /\ v \div 128 = v7 /\ v \div 1 = v
    BY <1>1
  <2> QED BY <2>1 DEF ByteMasks, Bit
<1> HIDE DEF f
<1>3. /\ v1 \in Int /\ v2 \in Int /\ v3 \in Int /\ v4 \in Int
      /\ v5 \in Int /\ v6 \in Int /\ v7 \in Int
  BY <1>1
<1> DEFINE r0 == v % 2   r1 == v1 % 2  r2 == v2 % 2  r3 == v3 % 2
           r4 == v4 % 2  r5 == v5 % 2  r6 == v6 % 2  r7 == v7 % 2
<1>4. \A u \in Int : u = 2 * (u \div 2) + (u % 2) /\ u % 2 \in Int
  OBVIOUS
<1>5. /\ v = 2 * v1 + r0 /\ v1 = 2 * v2 + r1 /\ v2 = 2 * v3 + r2 /\ v3 = 2 * v4 + r3
      /\ v4 = 2 * v5 + r4 /\ v5 = 2 * v6 + r5 /\ v6 = 2 * v7 + r6
      /\ r0 \in Int /\ r1 \in Int /\ r2 \in Int /\ r3 \in Int
      /\ r4 \in Int /\ r5 \in Int /\ r6 \in Int
  <2> HIDE DEF f
  <2> QED BY <1>1, <1>3, <1>4
<1>6. v7 = r7
  BY <1>1
<1>7. FromBits(f) = r0 + 2 * r1 + 4 * r2 + 8 * r3 + 16 * r4 + 32 * r5 + 64 * r6 + 128 * r7
  BY <1>2 DEF FromBits
<1> HIDE DEF v1, v2, v3, v4, v5, v6, v7, r0, r1, r2, r3, r4, r5, r6, r7
<1>8. r0 + 2 * r1 + 4 * r2 + 8 * r3 + 16 * r4 + 32 * r5 + 64 * r6 + 128 * r7 = v
  BY <1>1, <1>3, <1>5, <1>6, SMT
<1> QED BY <1>7, <1>8 DEF f

\* Different bits are different bytes.
LEMMA FromBitsInjective ==
  ASSUME NEW f \in [ByteMasks -> {0, 1}], NEW g \in [ByteMasks -> {0, 1}],
         FromBits(f) = FromBits(g)
  PROVE  \A m \in ByteMasks : f[m] = g[m]
<1> DEFINE a1 == f[1]  a2 == f[2]  a3 == f[4]  a4 == f[8]
           a5 == f[16]  a6 == f[32]  a7 == f[64]  a8 == f[128]
           b1 == g[1]  b2 == g[2]  b3 == g[4]  b4 == g[8]
           b5 == g[16]  b6 == g[32]  b7 == g[64]  b8 == g[128]
<1>1. \A m \in {1, 2, 4, 8, 16, 32, 64, 128} :
        f[m] \in Int /\ 0 <= f[m] /\ f[m] <= 1 /\ g[m] \in Int /\ 0 <= g[m] /\ g[m] <= 1
  BY DEF ByteMasks
<1>2. /\ a1 \in Int /\ 0 <= a1 /\ a1 <= 1  /\ a2 \in Int /\ 0 <= a2 /\ a2 <= 1
      /\ a3 \in Int /\ 0 <= a3 /\ a3 <= 1  /\ a4 \in Int /\ 0 <= a4 /\ a4 <= 1
      /\ a5 \in Int /\ 0 <= a5 /\ a5 <= 1  /\ a6 \in Int /\ 0 <= a6 /\ a6 <= 1
      /\ a7 \in Int /\ 0 <= a7 /\ a7 <= 1  /\ a8 \in Int /\ 0 <= a8 /\ a8 <= 1
  BY <1>1
<1>3. /\ b1 \in Int /\ 0 <= b1 /\ b1 <= 1  /\ b2 \in Int /\ 0 <= b2 /\ b2 <= 1
      /\ b3 \in Int /\ 0 <= b3 /\ b3 <= 1  /\ b4 \in Int /\ 0 <= b4 /\ b4 <= 1
      /\ b5 \in Int /\ 0 <= b5 /\ b5 <= 1  /\ b6 \in Int /\ 0 <= b6 /\ b6 <= 1
      /\ b7 \in Int /\ 0 <= b7 /\ b7 <= 1  /\ b8 \in Int /\ 0 <= b8 /\ b8 <= 1
  BY <1>1
<1>4. a1 + 2 * a2 + 4 * a3 + 8 * a4 + 16 * a5 + 32 * a6 + 64 * a7 + 128 * a8
        = b1 + 2 * b2 + 4 * b3 + 8 * b4 + 16 * b5 + 32 * b6 + 64 * b7 + 128 * b8
  BY DEF FromBits
<1> HIDE DEF a1, a2, a3, a4, a5, a6, a7, a8, b1, b2, b3, b4, b5, b6, b7, b8
<1>5. /\ a1 = b1 /\ a2 = b2 /\ a3 = b3 /\ a4 = b4
      /\ a5 = b5 /\ a6 = b6 /\ a7 = b7 /\ a8 = b8
  BY <1>2, <1>3, <1>4, SMT
<1>6. \A m \in {1, 2, 4, 8, 16, 32, 64, 128} : f[m] = g[m]
  BY <1>5 DEF a1, a2, a3, a4, a5, a6, a7, a8, b1, b2, b3, b4, b5, b6, b7, b8
<1> QED BY <1>6 DEF ByteMasks

\* An exclusive or loses nothing.
LEMMA XorInjective ==
  ASSUME NEW a \in Byte, NEW x \in Byte, NEW y \in Byte, ByteXor(a, x) = ByteXor(a, y)
  PROVE  x = y
<1> DEFINE f == [m \in ByteMasks |-> (Bit(a, m) + Bit(x, m)) % 2]
           g == [m \in ByteMasks |-> (Bit(a, m) + Bit(y, m)) % 2]
<1>1. \A m \in ByteMasks : /\ Bit(a, m) = 0 \/ Bit(a, m) = 1
                           /\ Bit(x, m) = 0 \/ Bit(x, m) = 1
                           /\ Bit(y, m) = 0 \/ Bit(y, m) = 1
  BY BitTyped, ByteIs
<1>2. f \in [ByteMasks -> {0, 1}] /\ g \in [ByteMasks -> {0, 1}]
  BY <1>1
<1>3. FromBits(f) = FromBits(g)
  BY DEF ByteXor
<1>4. \A m \in ByteMasks : f[m] = g[m]
  <2> HIDE DEF f, g
  <2> QED BY <1>2, <1>3, FromBitsInjective
<1>5. \A m \in ByteMasks : Bit(x, m) = Bit(y, m)
  BY <1>1, <1>4
<1>6. [m \in ByteMasks |-> Bit(x, m)] = [m \in ByteMasks |-> Bit(y, m)]
  BY <1>5
<1> QED BY <1>6, ByteOfBits

LEMMA XorInjectiveOnTheLeft ==
  ASSUME NEW a \in Byte, NEW x \in Byte, NEW y \in Byte, ByteXor(x, a) = ByteXor(y, a)
  PROVE  x = y
<1>1. ASSUME NEW p \in Byte PROVE ByteXor(p, a) = ByteXor(a, p)
  <2>1. \A m \in ByteMasks : Bit(p, m) \in Int /\ Bit(a, m) \in Int
    BY BitTyped, ByteIs
  <2>2. \A m \in ByteMasks : (Bit(p, m) + Bit(a, m)) % 2 = (Bit(a, m) + Bit(p, m)) % 2
    BY <2>1
  <2> QED BY <2>2 DEF ByteXor
<1> QED BY <1>1, XorInjective

LEMMA PowersAre == 2^8 = 256 /\ 2^16 = 65536 /\ 2^24 = 16777216
  OBVIOUS

LEMMA IndexIs == \A n : n \in IndexRange <=> n \in Int /\ 0 <= n /\ n <= 16777215
<1>1. LastIndex \in Nat
  BY SMT DEF LastIndex
<1>2. \A v : v \in IndexRange <=> v \in Int /\ 0 <= v /\ v <= LastIndex
  BY <1>1, IntervalIs DEF IndexRange
<1> QED BY <1>2, SMT DEF LastIndex

\* The bytes of a seed: three of the index, two of the opcode, three of no test.
LEMMA SeedIs ==
  ASSUME NEW key, key[1] \in Byte, key[2] \in Byte, NEW n \in IndexRange
  PROVE  LET seed == test_seed(key, n)
         IN  /\ seed \in Number
             /\ seed[1] = ByteXor(ByteXor(237, 0), n % 256)
             /\ seed[2] = ByteXor(ByteXor(94, 0), (n \div 256) % 256)
             /\ seed[3] = ByteXor(ByteXor(30, 0), (n \div 65536) % 256)
             /\ seed[4] = ByteXor(ByteXor(161, key[2]), 0)
             /\ seed[5] = ByteXor(ByteXor(9, key[1]), 0)
             /\ seed[6] = ByteXor(ByteXor(104, 0), 0)
             /\ seed[7] = ByteXor(ByteXor(0, 0), 0)
             /\ seed[8] = ByteXor(ByteXor(0, 0), 0)
<1> DEFINE seed == test_seed(key, n)
           k == <<237, 94, 30, 161, 9, 104, 0, 0>>
           o == <<0, 0, 0, key[2], key[1], 0, 0, 0>>
           x == <<n % 256, (n \div 256) % 256, (n \div 65536) % 256, 0, 0, 0, 0, 0>>
<1>1. n \in Int /\ 0 <= n /\ n <= 16777215
  BY IndexIs
<1>2. Number64(n) = x
  <2>1. n \div 16777216 = 0
    BY <1>1
  <2> QED BY <2>1, PowersAre DEF Number64
<1>3. seed = [i \in 1..8 |-> ByteXor([j \in 1..8 |-> ByteXor(k[j], o[j])][i], x[i])]
  BY <1>2 DEF test_seed, Xor64
<1> HIDE DEF seed, x, k, o
<1>4. \A i \in 1..8 : seed[i] = ByteXor(ByteXor(k[i], o[i]), x[i])
  BY <1>3
<1>5. /\ k[1] = 237 /\ k[2] = 94 /\ k[3] = 30 /\ k[4] = 161
      /\ k[5] = 9 /\ k[6] = 104 /\ k[7] = 0 /\ k[8] = 0
  BY DEF k
<1>6. /\ o[1] = 0 /\ o[2] = 0 /\ o[3] = 0 /\ o[4] = key[2]
      /\ o[5] = key[1] /\ o[6] = 0 /\ o[7] = 0 /\ o[8] = 0
  BY DEF o
<1>7. /\ x[1] = n % 256 /\ x[2] = (n \div 256) % 256 /\ x[3] = (n \div 65536) % 256
      /\ x[4] = 0 /\ x[5] = 0 /\ x[6] = 0 /\ x[7] = 0 /\ x[8] = 0
  BY DEF x
<1>8. \A i \in 1..8 : k[i] \in Byte /\ o[i] \in Byte /\ x[i] \in Byte
  <2>1. /\ 0 \in Byte /\ 237 \in Byte /\ 94 \in Byte /\ 30 \in Byte /\ 161 \in Byte
        /\ 9 \in Byte /\ 104 \in Byte
    BY ByteIs
  <2>2. n % 256 \in Byte /\ (n \div 256) % 256 \in Byte /\ (n \div 65536) % 256 \in Byte
    BY <1>1, ByteIs
  <2>3. \A i \in {1, 2, 3, 4, 5, 6, 7, 8} : k[i] \in Byte /\ o[i] \in Byte /\ x[i] \in Byte
    BY <1>5, <1>6, <1>7, <2>1, <2>2
  <2> QED BY <2>3, OneToEight
<1>9. seed \in Number
  <2>1. \A i \in 1..8 : ByteXor(ByteXor(k[i], o[i]), x[i]) \in Byte
    BY <1>8, BitwiseTyped
  <2>2. seed = [i \in 1..8 |-> ByteXor(ByteXor(k[i], o[i]), x[i])]
    BY <1>3
  <2> QED BY <2>1, <2>2 DEF Number
<1>10. \A i \in {1, 2, 3, 4, 5, 6, 7, 8} : seed[i] = ByteXor(ByteXor(k[i], o[i]), x[i])
  BY <1>4, OneToEight
<1>11. /\ seed[1] = ByteXor(ByteXor(237, 0), n % 256)
       /\ seed[2] = ByteXor(ByteXor(94, 0), (n \div 256) % 256)
       /\ seed[3] = ByteXor(ByteXor(30, 0), (n \div 65536) % 256)
       /\ seed[4] = ByteXor(ByteXor(161, key[2]), 0)
       /\ seed[5] = ByteXor(ByteXor(9, key[1]), 0)
       /\ seed[6] = ByteXor(ByteXor(104, 0), 0)
       /\ seed[7] = ByteXor(ByteXor(0, 0), 0)
       /\ seed[8] = ByteXor(ByteXor(0, 0), 0)
  BY <1>5, <1>6, <1>7, <1>10
<1> QED BY <1>9, <1>11 DEF seed

LEMMA TestIs ==
  ASSUME IndexesFit, NEW t \in Tests
  PROVE  /\ t = <<t[1], t[2]>> /\ t[1] = <<t[1][1], t[1][2]>>
         /\ t[1][1] \in Byte /\ t[1][2] \in Byte /\ t[2] \in IndexRange
<1>1. t \in Listed \X Indexes
  BY DEF Tests
<1>2. t = <<t[1], t[2]>> /\ t[1] \in Listed /\ t[2] \in Indexes
  BY <1>1
<1>3. Listed \subseteq Byte \X Byte
  <2>1. /\ \h00 \in Byte /\ \h10 \in Byte /\ \h11 \in Byte
        /\ \h20..\h2F \subseteq Byte /\ \A b \in {\h83, \h8C, \h8E, \hC3, \hCE, \h8F, \hCF} : Quad(b) \subseteq Byte
        /\ {\h3E, \h3F, \h87, \h8F, \hC7, \hCF} \subseteq Byte
    BY ByteIs DEF Quad
  <2> QED BY <2>1 DEF Listed
<1>4. t[1] \in Byte \X Byte
  BY <1>2, <1>3
<1> QED BY <1>2, <1>4 DEF IndexesFit

LEMMA SeedOfTest ==
  ASSUME IndexesFit, NEW t \in Tests
  PROVE  /\ test_seed(t[1], t[2]) \in Number
         /\ High(test_seed(t[1], t[2])) = <<ByteXor(ByteXor(104, 0), 0),
                                            ByteXor(ByteXor(0, 0), 0), ByteXor(ByteXor(0, 0), 0)>>
<1>1. t[1][1] \in Byte /\ t[1][2] \in Byte /\ t[2] \in IndexRange
  BY TestIs
<1> DEFINE seed == test_seed(t[1], t[2])
<1>2. /\ seed \in Number
      /\ seed[6] = ByteXor(ByteXor(104, 0), 0)
      /\ seed[7] = ByteXor(ByteXor(0, 0), 0)
      /\ seed[8] = ByteXor(ByteXor(0, 0), 0)
  BY <1>1, SeedIs
<1> HIDE DEF seed
<1>3. High(seed) = <<ByteXor(ByteXor(104, 0), 0), ByteXor(ByteXor(0, 0), 0),
                     ByteXor(ByteXor(0, 0), 0)>>
  BY <1>2 DEF High
<1> QED BY <1>2, <1>3 DEF seed

\* The bytes of an index say which it is.
LEMMA IndexOfBytes ==
  ASSUME NEW n \in IndexRange, NEW m \in IndexRange,
         n % 256 = m % 256, (n \div 256) % 256 = (m \div 256) % 256,
         (n \div 65536) % 256 = (m \div 65536) % 256
  PROVE  n = m
<1>1. /\ n \in Int /\ 0 <= n /\ n <= 16777215
      /\ m \in Int /\ 0 <= m /\ m <= 16777215
  BY IndexIs
<1> DEFINE n1 == n \div 256   n2 == n1 \div 256   m1 == m \div 256   m2 == m1 \div 256
<1>2. /\ n \div 65536 = n2 /\ m \div 65536 = m2
      /\ n2 \in Int /\ 0 <= n2 /\ n2 <= 255 /\ m2 \in Int /\ 0 <= m2 /\ m2 <= 255
  BY <1>1, SMT
<1>3. n2 = m2
  <2>1. n2 % 256 = m2 % 256
    BY <1>2
  <2>2. n2 % 256 = n2 /\ m2 % 256 = m2
    BY <1>2, SMT
  <2> QED BY <2>1, <2>2
<1>4. \A u \in Int : u = 256 * (u \div 256) + (u % 256)
  OBVIOUS
<1>5. n1 \in Int /\ m1 \in Int
  BY <1>1, SMT
<1>6. n1 = m1
  <2>1. n1 = 256 * n2 + (n1 % 256) /\ m1 = 256 * m2 + (m1 % 256)
    BY <1>4, <1>5
  <2> HIDE DEF n2, m2
  <2> QED BY <1>3, <2>1
<1>7. n = 256 * n1 + (n % 256) /\ m = 256 * m1 + (m % 256)
  BY <1>1, <1>4
<1> HIDE DEF n1, m1
<1> QED BY <1>6, <1>7

LEMMA SeedsInjective ==
  ASSUME IndexesFit, NEW t \in Tests, NEW u \in Tests,
         test_seed(t[1], t[2]) = test_seed(u[1], u[2])
  PROVE  t = u
<1>1. /\ t = <<t[1], t[2]>> /\ t[1] = <<t[1][1], t[1][2]>>
      /\ t[1][1] \in Byte /\ t[1][2] \in Byte /\ t[2] \in IndexRange
  BY TestIs
<1>2. /\ u = <<u[1], u[2]>> /\ u[1] = <<u[1][1], u[1][2]>>
      /\ u[1][1] \in Byte /\ u[1][2] \in Byte /\ u[2] \in IndexRange
  BY TestIs
<1> DEFINE n == t[2]  m == u[2]  p == t[1][1]  o == t[1][2]  q == u[1][1]  r == u[1][2]
<1>3. /\ ByteXor(ByteXor(237, 0), n % 256) = ByteXor(ByteXor(237, 0), m % 256)
      /\ ByteXor(ByteXor(94, 0), (n \div 256) % 256) = ByteXor(ByteXor(94, 0), (m \div 256) % 256)
      /\ ByteXor(ByteXor(30, 0), (n \div 65536) % 256)
           = ByteXor(ByteXor(30, 0), (m \div 65536) % 256)
      /\ ByteXor(ByteXor(161, o), 0) = ByteXor(ByteXor(161, r), 0)
      /\ ByteXor(ByteXor(9, p), 0) = ByteXor(ByteXor(9, q), 0)
  <2> DEFINE s == test_seed(t[1], t[2])   z == test_seed(u[1], u[2])
  <2>1. /\ s[1] = ByteXor(ByteXor(237, 0), n % 256)
        /\ s[2] = ByteXor(ByteXor(94, 0), (n \div 256) % 256)
        /\ s[3] = ByteXor(ByteXor(30, 0), (n \div 65536) % 256)
        /\ s[4] = ByteXor(ByteXor(161, o), 0) /\ s[5] = ByteXor(ByteXor(9, p), 0)
    BY <1>1, SeedIs
  <2>2. /\ z[1] = ByteXor(ByteXor(237, 0), m % 256)
        /\ z[2] = ByteXor(ByteXor(94, 0), (m \div 256) % 256)
        /\ z[3] = ByteXor(ByteXor(30, 0), (m \div 65536) % 256)
        /\ z[4] = ByteXor(ByteXor(161, r), 0) /\ z[5] = ByteXor(ByteXor(9, q), 0)
    BY <1>2, SeedIs
  <2>3. s = z
    OBVIOUS
  <2> HIDE DEF s, z, n, m, p, o, q, r
  <2> QED BY <2>1, <2>2, <2>3
<1> HIDE DEF n, m, p, o, q, r
<1>4. /\ n \in IndexRange /\ m \in IndexRange
      /\ p \in Byte /\ o \in Byte /\ q \in Byte /\ r \in Byte
  BY <1>1, <1>2 DEF n, m, p, o, q, r
<1>5. /\ 0 \in Byte /\ 237 \in Byte /\ 94 \in Byte /\ 30 \in Byte /\ 161 \in Byte /\ 9 \in Byte
  BY ByteIs
<1>6. /\ ByteXor(237, 0) \in Byte /\ ByteXor(94, 0) \in Byte /\ ByteXor(30, 0) \in Byte
      /\ ByteXor(161, o) \in Byte /\ ByteXor(161, r) \in Byte
      /\ ByteXor(9, p) \in Byte /\ ByteXor(9, q) \in Byte
  BY <1>4, <1>5, BitwiseTyped
<1>7. n = m
  <2>1. /\ n % 256 \in Byte /\ (n \div 256) % 256 \in Byte /\ (n \div 65536) % 256 \in Byte
        /\ m % 256 \in Byte /\ (m \div 256) % 256 \in Byte /\ (m \div 65536) % 256 \in Byte
    <3>1. /\ n \in Int /\ m \in Int
          /\ n \div 256 \in Int /\ m \div 256 \in Int
          /\ n \div 65536 \in Int /\ m \div 65536 \in Int
      BY <1>4, IndexIs, SMT
    <3> QED BY <3>1, BytesOfSum
  <2>2. /\ n % 256 = m % 256 /\ (n \div 256) % 256 = (m \div 256) % 256
        /\ (n \div 65536) % 256 = (m \div 65536) % 256
    BY <1>3, <1>6, <2>1, XorInjective
  <2> QED BY <1>4, <2>2, IndexOfBytes
<1>8. o = r /\ p = q
  <2>1. ByteXor(161, o) = ByteXor(161, r) /\ ByteXor(9, p) = ByteXor(9, q)
    BY <1>3, <1>5, <1>6, XorInjectiveOnTheLeft
  <2> QED BY <1>4, <1>5, <2>1, XorInjective
<1>9. t = <<<<p, o>>, n>> /\ u = <<<<q, r>>, m>>
  BY <1>1, <1>2 DEF n, m, p, o, q, r
<1> QED BY <1>7, <1>8, <1>9

LEMMA TestsFinite == IndexesFit => IsFiniteSet(Tests)
<1> SUFFICES ASSUME IndexesFit PROVE IsFiniteSet(Tests)
  OBVIOUS
<1>1. IsFiniteSet(IndexRange)
  <2>1. LastIndex \in Int
    BY SMT DEF LastIndex
  <2> QED BY <2>1, FS_Interval DEF IndexRange
<1>2. IsFiniteSet(Byte)
  <2> DEFINE n == 255
  <2>1. n \in Int /\ Byte = 0..n
    BY DEF Byte
  <2> HIDE DEF n
  <2> QED BY <2>1, FS_Interval
<1>3. IsFiniteSet(Byte \X Byte)
  BY <1>2, FS_Product
<1>4. IsFiniteSet((Byte \X Byte) \X IndexRange)
  BY <1>1, <1>3, FS_Product
<1>5. Tests \subseteq (Byte \X Byte) \X IndexRange
  BY TestIs
<1> QED BY <1>4, <1>5, FS_Subset

LEMMA SeedsCounted == IndexesFit => Cardinality(Seeds) = Cardinality(Tests)
<1> SUFFICES ASSUME IndexesFit PROVE Cardinality(Seeds) = Cardinality(Tests)
  OBVIOUS
<1> DEFINE f == [t \in Tests |-> test_seed(t[1], t[2])]
<1>1. f \in Surjection(Tests, Seeds)
  <2>1. f \in [Tests -> Seeds]
    BY DEF Seeds
  <2>2. \A z \in Seeds : \E t \in Tests : f[t] = z
    BY DEF Seeds
  <2> QED BY <2>1, <2>2 DEF Surjection
<1>2. \A t, u \in Tests : f[t] = f[u] => t = u
  BY SeedsInjective
<1>3. f \in Injection(Tests, Seeds)
  <2> HIDE DEF f
  <2> QED BY <1>1, <1>2 DEF Surjection, Injection, IsInjective
<1> HIDE DEF f
<1> QED BY <1>1, <1>3, TestsFinite, FS_Surjection

-----------------------------------------------------------------------------
(***************************************************************************)
(* No two tests have the same seed.                                        *)
(***************************************************************************)
THEOREM TestsHaveTheirSeeds == IndexesFit => (Spec => []SeedsDistinct)
<1> SUFFICES ASSUME IndexesFit PROVE Spec => []SeedsDistinct
  OBVIOUS
<1>1. SeedsDistinct
  BY SeedsCounted DEF SeedsDistinct
<1> QED BY <1>1, PTL

(***************************************************************************)
(* Where a test is in the numbers that begin with its seed: it has taken   *)
(* the step of splitmix64 as often as it has drawn.                        *)
(***************************************************************************)
Drawn(seed, x, n, c, k) ==
  /\ Low(x) + 16777216 * c = Low(seed) + n * 4881429
  /\ Top(x) + 1099511627776 * k = Top(seed) + n * 679535556991 + c

StreamInv ==
  /\ test \in Tests /\ state \in Number /\ draws \in Int /\ 0 <= draws /\ draws <= 8201
  /\ \E c, k \in Int : Drawn(test_seed(test[1], test[2]), state, draws, c, k)

LEMMA DrawsAre == Draws = 8201
  BY DEF Draws, Memory

LEMMA StreamInit == IndexesFit /\ Init => StreamInv
<1> SUFFICES ASSUME IndexesFit, Init PROVE StreamInv
  OBVIOUS
<1> DEFINE seed == test_seed(test[1], test[2])
<1>1. test \in Tests
  BY SeedAssumption DEF Init, Tests
<1>2. state = seed /\ draws = 0
  BY DEF Init, Begin
<1>3. seed \in Number
  BY <1>1, SeedOfTest
<1>4. Low(seed) \in Int /\ Top(seed) \in Int
  BY <1>3, PartsTyped
<1> HIDE DEF seed
<1>5. Drawn(seed, state, draws, 0, 0)
  BY <1>2, <1>4, SMT DEF Drawn
<1>6. draws \in Int /\ 0 <= draws /\ draws <= 8201 /\ 0 \in Int
  BY <1>2
<1> QED BY <1>1, <1>2, <1>3, <1>5, <1>6 DEF StreamInv, seed

LEMMA StreamStep == IndexesFit /\ StreamInv /\ [Next]_vars => StreamInv'
<1> SUFFICES ASSUME IndexesFit, StreamInv, [Next]_vars PROVE StreamInv'
  OBVIOUS
<1> DEFINE seed == test_seed(test[1], test[2])
<1>1. CASE UNCHANGED vars
  BY <1>1 DEF StreamInv, vars
<1>2. CASE Draw
  <2>1. /\ draws < 8201 /\ state' = Add64(state, Gamma) /\ draws' = draws + 1 /\ test' = test
    BY <1>2, DrawsAre DEF Draw, Advanced
  <2>2. test \in Tests /\ state \in Number /\ draws \in Int /\ 0 <= draws /\ draws <= 8201
    BY DEF StreamInv
  <2>3. PICK c, k \in Int : Drawn(seed, state, draws, c, k)
    BY DEF StreamInv
  <2>4. seed \in Number
    BY <2>2, SeedOfTest
  <2> HIDE DEF seed
  <2> DEFINE s == state'
  <2>5. s \in Number
    BY <2>1, <2>2, Add64Is, ConstantsAre
  <2>6. PICK e, j \in Int :
          /\ Low(state) + Low(Gamma) = Low(s) + 16777216 * e
          /\ Top(state) + Top(Gamma) + e = Top(s) + 1099511627776 * j
    BY <2>1, <2>2, Add64Is, ConstantsAre, SMT
  <2> HIDE DEF s
  <2>7. /\ Low(state) \in Int /\ Top(state) \in Int /\ Low(s) \in Int /\ Top(s) \in Int
        /\ Low(seed) \in Int /\ Top(seed) \in Int
    BY <2>2, <2>4, <2>5, PartsTyped
  <2> DEFINE f == c + e   l == k + j   d == draws + 1
  <2>8. Drawn(seed, s, d, f, l)
    <3> DEFINE a == Low(state)  b == Low(s)  p == Low(seed)
               x == Top(state)  y == Top(s)  q == Top(seed)
    <3>1. /\ a + 16777216 * c = p + draws * 4881429 /\ a + 4881429 = b + 16777216 * e
          /\ a \in Int /\ b \in Int /\ p \in Int
      BY <2>3, <2>6, <2>7, ConstantsAre, SMT DEF Drawn
    <3>2. /\ x + 1099511627776 * k = q + draws * 679535556991 + c
          /\ x + 679535556991 + e = y + 1099511627776 * j
          /\ x \in Int /\ y \in Int /\ q \in Int
      BY <2>3, <2>6, <2>7, ConstantsAre, SMT DEF Drawn
    <3> HIDE DEF a, b, p, x, y, q
    <3>3. b + 16777216 * f = p + d * 4881429
      BY <2>2, <3>1, SMT
    <3>4. y + 1099511627776 * l = q + d * 679535556991 + f
      BY <2>2, <3>2, SMT
    <3> QED BY <3>3, <3>4, SMT DEF Drawn, a, b, p, x, y, q
  <2>9. f \in Int /\ l \in Int /\ d \in Int /\ 0 <= d /\ d <= 8201 /\ draws' = d
    BY <2>1, <2>2
  <2> HIDE DEF f, l, d
  <2>10. \E g, h \in Int : Drawn(seed, state', draws', g, h)
    BY <2>8, <2>9 DEF s
  <2>11. seed = test_seed(test'[1], test'[2])
    BY <2>1 DEF seed
  <2>12. state' \in Number
    BY <2>5 DEF s
  <2> QED BY <2>1, <2>2, <2>9, <2>10, <2>11, <2>12 DEF StreamInv
<1> QED BY <1>1, <1>2 DEF Next

\* What is far from a multiple of 2^64 has neither all ones nor all zeros on top.
LEMMA HighIs ==
  ASSUME NEW x \in Number, High(x) \in {<<0, 0, 0>>, <<255, 255, 255>>}
  PROVE  Top(x) < 65536 \/ Top(x) >= 1099511562240
<1> DEFINE a4 == x[4]  a5 == x[5]  a6 == x[6]  a7 == x[7]  a8 == x[8]
<1>1. \A i \in {1, 2, 3, 4, 5, 6, 7, 8} : x[i] \in Int /\ 0 <= x[i] /\ x[i] <= 255
  BY ByteIs, OneToEight DEF Number
<1>2. a4 \in Int /\ 0 <= a4 /\ a4 <= 255 /\ a5 \in Int /\ 0 <= a5 /\ a5 <= 255
  BY <1>1
<1>3. \/ a6 = 0 /\ a7 = 0 /\ a8 = 0
      \/ a6 = 255 /\ a7 = 255 /\ a8 = 255
  <2>1. CASE <<x[6], x[7], x[8]>> = <<0, 0, 0>>
    BY <2>1
  <2>2. CASE <<x[6], x[7], x[8]>> = <<255, 255, 255>>
    BY <2>2
  <2> QED BY <2>1, <2>2 DEF High
<1>4. Top(x) = a4 + 256 * (a5 + 256 * (a6 + 256 * (a7 + 256 * a8)))
  BY DEF Top
<1> HIDE DEF a4, a5, a6, a7, a8
<1> QED BY <1>2, <1>3, <1>4, SMT

LEMMA StreamFar ==
  ASSUME IndexesFit, StreamInv, draws > 0
  PROVE  High(Minus64(state, test_seed(test[1], test[2]))) \notin {<<0, 0, 0>>, <<255, 255, 255>>}
<1> DEFINE seed == test_seed(test[1], test[2])   m == Minus64(state, seed)
<1>1. test \in Tests /\ state \in Number /\ draws \in Int /\ 1 <= draws /\ draws <= 8201
  BY DEF StreamInv
<1>2. seed \in Number
  BY <1>1, SeedOfTest
<1>3. PICK c, k \in Int : Drawn(seed, state, draws, c, k)
  BY DEF StreamInv
<1> HIDE DEF seed
<1>4. PICK e, j \in Int :
        /\ Low(state) - Low(seed) = Low(m) + 16777216 * e
        /\ Top(state) - Top(seed) + e = Top(m) + 1099511627776 * j
  BY <1>1, <1>2, Minus64Is, SMT
<1>5. m \in Number
  BY <1>1, <1>2, Minus64Is
<1> HIDE DEF m
<1>6. /\ Low(state) \in Int /\ Top(state) \in Int /\ Low(seed) \in Int /\ Top(seed) \in Int
      /\ Low(m) \in Int /\ 0 <= Low(m) /\ Low(m) < 16777216
      /\ Top(m) \in Int /\ 0 <= Top(m) /\ Top(m) < 1099511627776
  BY <1>1, <1>2, <1>5, PartsTyped, SMT
<1> DEFINE w == c + e   l == k + j
<1>7. w \in Int /\ l \in Int
  OBVIOUS
<1>8. /\ Low(m) + 16777216 * w = draws * 4881429
      /\ Top(m) + 1099511627776 * l = draws * 679535556991 + w
  BY <1>1, <1>3, <1>4, <1>6, SMT DEF Drawn
<1> HIDE DEF w, l
<1>9. 0 <= w /\ w <= 8201
  BY <1>1, <1>6, <1>7, <1>8, SMT
<1> SUFFICES ASSUME High(m) \in {<<0, 0, 0>>, <<255, 255, 255>>} PROVE FALSE
  BY DEF m, seed
<1>10. CASE Top(m) < 65536
  <2>1. Near(draws, l)
    BY <1>1, <1>6, <1>7, <1>8, <1>9, <1>10, SMT DEF Near
  <2> QED BY <1>1, <1>7, <2>1, FarFromZero
<1>11. CASE Top(m) >= 1099511562240
  <2> DEFINE n == l + 1
  <2>1. n \in Int
    BY <1>7
  <2>2. Near(draws, n)
    BY <1>1, <1>6, <1>7, <1>8, <1>9, <1>11, SMT DEF Near
  <2> HIDE DEF n
  <2> QED BY <1>1, <2>1, <2>2, FarFromZero
<1> QED BY <1>5, <1>10, <1>11, HighIs, SMT

(***************************************************************************)
(* No test starts in the middle of the numbers of another one.             *)
(***************************************************************************)
THEOREM StreamsStayApart == IndexesFit => (Spec => []StreamsApart)
<1> SUFFICES ASSUME IndexesFit PROVE Spec => []StreamsApart
  OBVIOUS
<1>1. Init => StreamInv
  BY StreamInit
<1>2. StreamInv /\ [Next]_vars => StreamInv'
  BY StreamStep
<1>3. StreamInv => StreamsApart
  <2> SUFFICES ASSUME StreamInv PROVE StreamsApart
    OBVIOUS
  <2>1. test \in Tests
    BY DEF StreamInv
  <2>2. \A t \in Tests : High(test_seed(t[1], t[2])) = High(test_seed(test[1], test[2]))
    BY <2>1, SeedOfTest
  <2>3. HighOfSeeds = {High(test_seed(test[1], test[2]))}
    BY <2>1, <2>2 DEF HighOfSeeds, Seeds
  <2> QED BY <2>3, StreamFar DEF StreamsApart
<1> QED BY <1>1, <1>2, <1>3, PTL DEF Spec
=============================================================================
