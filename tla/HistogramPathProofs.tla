------------------------- MODULE HistogramPathProofs -------------------------
(* The general path of HistogramRange from rows to answer: what a row adds  *)
(* to the builder's series, what finish makes of them, and what the engine  *)
(* has added to each bucket's sum. It begins with sums of values, which are *)
(* fractions or absent, in any order.                                       *)
EXTENDS HistogramRangeProofs

-----------------------------------------------------------------------------
(* Fractions.                                                               *)

(* A quotient and a remainder are determined by the number.                 *)
LEMMA Quotient ==
    ASSUME NEW b \in Nat \ {0}, NEW q \in Int, NEW r \in 0..(b - 1), NEW a, a = b * q + r
    PROVE  a \in Int /\ a \div b = q /\ a % b = r
  <1> DEFINE x == a \div b
             y == a % b
             z == b * q
             w == b * x
             e == q - x
             f == b * e
  <1>1. z \in Int /\ a \in Int /\ a = z + r
    <2>1. z \in Int
      BY ONLY b \in Nat \ {0}, q \in Int
    <2> HIDE DEF z
    <2>2. a = z + r
      BY DEF z
    <2> QED
      BY <2>1, <2>2
  <1>2. x \in Int /\ y \in Int /\ y >= 0 /\ y < b /\ a = w + y
    BY ONLY <1>1, b \in Nat \ {0}
  <1>3. e \in Int /\ f \in Int /\ f = z - w
    <2>1. e \in Int
      BY <1>2
    <2>2. f = z - w
      BY ONLY b \in Nat \ {0}, q \in Int, <1>2
    <2>3. f \in Int
      BY ONLY b \in Nat \ {0}, <2>1
    <2> QED
      BY <2>1, <2>2, <2>3
  <1>4. w \in Int
    BY ONLY b \in Nat \ {0}, <1>2
  <1>5. e >= 1 => f >= b
    BY ONLY b \in Nat \ {0}, <1>3
  <1>6. e <= -1 => f <= -b
    BY ONLY b \in Nat \ {0}, <1>3
  <1> HIDE DEF z, w, f, x, y
  <1>7. f = y - r
    BY <1>1, <1>2, <1>3, <1>4
  <1>8. e = 0
    <2> HIDE DEF e
    <2> QED
      BY <1>2, <1>3, <1>5, <1>6, <1>7
  <1>9. q = x
    BY <1>2, <1>8
  <1>10. z = w
    BY <1>9 DEF z, w
  <1>11. y = r
    BY <1>1, <1>2, <1>4, <1>10
  <1> QED
    BY <1>1, <1>9, <1>11 DEF x, y

(* A common factor of both numbers is one of the remainder.                 *)
Scales(k, a, b) ==
    k * b \in Nat \ {0} /\ k * a \in Nat /\ (k * a) % (k * b) = k * (a % b)

LEMMA ModScale ==
    ASSUME NEW k \in Nat \ {0}, NEW a \in Nat, NEW b \in Nat \ {0}
    PROVE  Scales(k, a, b)
  <1> DEFINE q == a \div b
             r == a % b
             m == k * b
             s == k * r
  <1>1. q \in Int /\ r \in 0..(b - 1) /\ a = b * q + r
    BY ONLY a \in Nat, b \in Nat \ {0}
  <1> HIDE DEF q, r
  <1>2. m \in Nat \ {0} /\ k * a \in Nat
    BY ONLY a \in Nat, k \in Nat \ {0}, b \in Nat \ {0}
  <1>3. s \in Int /\ s >= 0
    BY ONLY k \in Nat \ {0}, b \in Nat \ {0}, <1>1
  <1>4. s < m
    <2> DEFINE d == b - r
               z == k * d
    <2>1. d \in Nat \ {0}
      BY <1>1
    <2>2. z > 0 /\ z \in Int
      <3> HIDE DEF d
      <3> QED
        BY ONLY k \in Nat \ {0}, <2>1
    <2>3. z = m - s
      BY ONLY k \in Nat \ {0}, b \in Nat \ {0}, <1>1
    <2> HIDE DEF z, m, s
    <2> QED
      BY <1>2, <1>3, <2>2, <2>3
  <1>5. k * a = m * q + s
    BY ONLY k \in Nat \ {0}, b \in Nat \ {0}, <1>1
  <1> DEFINE n == k * a
  <1>6. n = m * q + s
    BY <1>5
  <1> HIDE DEF m, s, n
  <1>7. n % m = s
    <2>1. s \in 0..(m - 1)
      BY <1>2, <1>3, <1>4
    <2> QED
      BY ONLY <1>1, <1>2, <1>6, <2>1, Quotient
  <1> QED
    BY <1>2, <1>7 DEF m, s, n, r, Scales

(* A common factor of both numbers is one of their divisor.                 *)
LEMMA GcdScale ==
    ASSUME NEW k \in Nat \ {0}, NEW a \in Nat, NEW b \in Nat
    PROVE  Gcd[<<k * a, k * b>>] = k * Gcd[<<a, b>>]
  <1> DEFINE N == {m \in Nat : \A x, y \in Nat : y <= m => Gcd[<<k * x, k * y>>] = k * Gcd[<<x, y>>]}
  <1>1. ASSUME NEW x \in Nat PROVE Gcd[<<k * x, k * 0>>] = k * Gcd[<<x, 0>>]
    <2> DEFINE z == k * x
    <2>1. z \in Nat /\ k * 0 = 0
      BY ONLY k \in Nat \ {0}, x \in Nat
    <2> HIDE DEF z
    <2>2. <<z, 0>> \in Nat \X Nat /\ <<z, 0>>[2] = 0 /\ <<z, 0>>[1] = z
      BY <2>1
    <2>3. <<x, 0>> \in Nat \X Nat /\ <<x, 0>>[2] = 0 /\ <<x, 0>>[1] = x
      OBVIOUS
    <2>4. Gcd[<<z, 0>>] = z
      BY <2>2, GcdUnfold, LastStep
    <2>5. Gcd[<<x, 0>>] = x
      BY <2>3, GcdUnfold, LastStep
    <2> QED
      BY <2>1, <2>4, <2>5 DEF z
  <1>2. ASSUME NEW x \in Nat, NEW y \in Nat \ {0},
               \A u \in Nat : u < y => Gcd[<<k * y, k * u>>] = k * Gcd[<<y, u>>]
        PROVE  Gcd[<<k * x, k * y>>] = k * Gcd[<<x, y>>]
    <2> DEFINE z == k * x
               w == k * y
               u == x % y
    <2>1. w \in Nat \ {0} /\ z \in Nat /\ z % w = k * u
      <3>1. Scales(k, x, y)
        BY ModScale
      <3> QED
        BY <3>1 DEF Scales
    <2>2. u \in Nat /\ u < y
      BY ONLY x \in Nat, y \in Nat \ {0}
    <2>3. Gcd[<<x, y>>] = Gcd[<<y, u>>]
      <3>1. <<x, y>> \in Nat \X Nat /\ <<x, y>>[2] # 0 /\ NextPair(<<x, y>>) = <<y, u>>
        BY DEF NextPair
      <3> QED
        BY <3>1, GcdUnfold, Remainder
    <2> HIDE DEF z, w
    <2>4. Gcd[<<z, w>>] = Gcd[<<w, z % w>>]
      <3>1. <<z, w>> \in Nat \X Nat /\ <<z, w>>[2] # 0 /\ NextPair(<<z, w>>) = <<w, z % w>>
        BY <2>1 DEF NextPair
      <3> QED
        BY <3>1, GcdUnfold, Remainder
    <2>5. Gcd[<<w, k * u>>] = k * Gcd[<<y, u>>]
      BY <1>2, <2>2 DEF w
    <2> HIDE DEF u
    <2>6. Gcd[<<z, w>>] = k * Gcd[<<x, y>>]
      BY <2>1, <2>3, <2>4, <2>5
    <2> QED
      BY <2>6 DEF z, w
  <1>3. 0 \in N
    <2> SUFFICES ASSUME NEW x \in Nat, NEW y \in Nat, y <= 0
                 PROVE  Gcd[<<k * x, k * y>>] = k * Gcd[<<x, y>>]
      OBVIOUS
    <2>1. y = 0
      OBVIOUS
    <2> QED
      BY <1>1, <2>1
  <1>4. ASSUME NEW m \in Nat, m \in N PROVE m + 1 \in N
    <2> SUFFICES ASSUME NEW x \in Nat, NEW y \in Nat, y <= m + 1
                 PROVE  Gcd[<<k * x, k * y>>] = k * Gcd[<<x, y>>]
      OBVIOUS
    <2>1. CASE y = 0
      BY <1>1, <2>1
    <2>2. CASE y # 0
      <3>1. \A u \in Nat : u < y => Gcd[<<k * y, k * u>>] = k * Gcd[<<y, u>>]
        BY <1>4
      <3> QED
        BY <1>2, <2>2, <3>1
    <2> QED
      BY <2>1, <2>2
  <1>5. b \in N
    <2> HIDE DEF N
    <2> QED
      BY <1>3, <1>4, InductionBySet
  <1> QED
    BY <1>5

(* The divisor of two numbers divides both.                                 *)
LEMMA GcdDivides ==
    ASSUME NEW a \in Nat, NEW b \in Nat, a # 0 \/ b # 0
    PROVE  \E x, y \in Nat : a = Gcd[<<a, b>>] * x /\ b = Gcd[<<a, b>>] * y
  <1> DEFINE Divides(c, d) == \E x, y \in Nat : c = Gcd[<<c, d>>] * x /\ d = Gcd[<<c, d>>] * y
             N == {m \in Nat : \A c, d \in Nat : d <= m /\ (c # 0 \/ d # 0) => Divides(c, d)}
  <1>1. ASSUME NEW c \in Nat PROVE Divides(c, 0)
    <2>1. <<c, 0>> \in Nat \X Nat /\ <<c, 0>>[2] = 0 /\ <<c, 0>>[1] = c
      OBVIOUS
    <2>2. Gcd[<<c, 0>>] = c
      BY <2>1, GcdUnfold, LastStep
    <2>3. c = c * 1 /\ 0 = c * 0 /\ 0 \in Nat /\ 1 \in Nat
      OBVIOUS
    <2> QED
      BY <2>2, <2>3
  <1>2. ASSUME NEW c \in Nat, NEW d \in Nat \ {0}, \A u \in Nat : u < d => Divides(d, u)
        PROVE  Divides(c, d)
    <2> DEFINE q == c \div d
               u == c % d
               g == Gcd[<<d, u>>]
    <2>1. q \in Nat /\ u \in Nat /\ u < d /\ c = d * q + u
      BY ONLY c \in Nat, d \in Nat \ {0}
    <2>2. Gcd[<<c, d>>] = g
      <3>1. <<c, d>> \in Nat \X Nat /\ <<c, d>>[2] # 0 /\ NextPair(<<c, d>>) = <<d, u>>
        BY DEF NextPair
      <3> QED
        BY <3>1, GcdUnfold, Remainder
    <2>3. PICK x \in Nat, y \in Nat : d = g * x /\ u = g * y
      <3> HIDE DEF u
      <3> QED
        BY <1>2, <2>1
    <2>4. g \in Nat
      <3> DEFINE p == <<d, u>>
      <3>1. p \in Nat \X Nat /\ p[1] # 0
        BY <2>1
      <3> HIDE DEF p
      <3>2. Gcd[p] \in Nat
        BY <3>1, GcdPositive
      <3> QED
        BY <3>2 DEF p
    <2> HIDE DEF g, u, q
    <2>5. c = g * (x * q + y) /\ x * q + y \in Nat
      BY ONLY <2>1, <2>3, <2>4
    <2> QED
      BY <2>2, <2>3, <2>5
  <1> HIDE DEF Divides
  <1>3. 0 \in N
    <2> SUFFICES ASSUME NEW c \in Nat, NEW d \in Nat, d <= 0 PROVE Divides(c, d)
      OBVIOUS
    <2>1. d = 0
      OBVIOUS
    <2> QED
      BY <1>1, <2>1
  <1>4. ASSUME NEW m \in Nat, m \in N PROVE m + 1 \in N
    <2> SUFFICES ASSUME NEW c \in Nat, NEW d \in Nat, d <= m + 1 PROVE Divides(c, d)
      OBVIOUS
    <2>1. CASE d = 0
      BY <1>1, <2>1
    <2>2. CASE d # 0
      <3>1. \A u \in Nat : u < d => Divides(d, u)
        BY <1>4, <2>2
      <3> QED
        BY <1>2, <2>2, <3>1
    <2> QED
      BY <2>1, <2>2
  <1>5. b \in N
    <2> HIDE DEF N
    <2> QED
      BY <1>3, <1>4, InductionBySet
  <1> QED
    BY <1>5 DEF Divides

(* A fraction and the factor that has been divided out.                     *)
FractionIs(n, d, g, x, y) ==
    /\ g = Gcd[<<AbsOf(n), d>>] /\ g \in Nat \ {0}
    /\ x \in Int /\ y \in Nat \ {0} /\ n = g * x /\ d = g * y
    /\ Fraction(n, d) = [n |-> x, d |-> y]

LEMMA FractionParts ==
    ASSUME NEW n \in Int, NEW d \in Nat \ {0}
    PROVE  \E g, x, y : FractionIs(n, d, g, x, y)
  <1> DEFINE m == AbsOf(n)
             p == <<m, d>>
             g == Gcd[p]
  <1>1. m \in Nat /\ (n = m \/ n = -m)
    BY DEF AbsOf
  <1>2. g \in Nat \ {0}
    <2>1. p \in Nat \X Nat /\ p[2] # 0
      BY <1>1
    <2> HIDE DEF p
    <2> QED
      BY <2>1, GcdPositive
  <1>3. PICK z \in Nat, y \in Nat : m = g * z /\ d = g * y
    <2>1. d \in Nat /\ d # 0
      OBVIOUS
    <2> HIDE DEF m
    <2> QED
      BY <1>1, <2>1, GcdDivides
  <1>4. Fraction(n, d) = [n |-> n \div g, d |-> d \div g]
    BY DEF Fraction
  <1>5. g = Gcd[<<AbsOf(n), d>>]
    OBVIOUS
  <1> HIDE DEF g, m, p
  <1>6. y # 0
    <2> SUFFICES ASSUME y = 0 PROVE FALSE
      OBVIOUS
    <2>1. d = g * 0
      BY <1>3
    <2> QED
      BY <1>2, <2>1
  <1>7. PICK x \in Int : n = g * x
    <2>1. CASE n = m
      BY <1>3, <2>1
    <2>2. CASE n = -m
      <3>1. n = g * (-z)
        BY ONLY <1>2, <1>3, <2>2
      <3> QED
        BY <1>3, <3>1
    <2> QED
      BY <1>1, <2>1, <2>2
  <1>8. \A u \in Int : \A w : w = g * u => w \div g = u
    <2> SUFFICES ASSUME NEW u \in Int, NEW w, w = g * u PROVE w \div g = u
      OBVIOUS
    <2>1. w = g * u + 0 /\ 0 \in 0..(g - 1)
      BY <1>2
    <2> QED
      BY <1>2, <2>1, Quotient
  <1>9. n \div g = x /\ d \div g = y
    BY <1>3, <1>7, <1>8
  <1>10. FractionIs(n, d, g, x, y)
    BY <1>2, <1>3, <1>4, <1>5, <1>6, <1>7, <1>9 DEF FractionIs
  <1> QED
    BY <1>10

(* Values: fractions, and NaN.                                              *)
Number == [n : Int, d : Nat \ {0}]
Value == Number \cup {NaN}

LEMMA FractionTyped ==
    ASSUME NEW n \in Int, NEW d \in Nat \ {0}
    PROVE  Fraction(n, d) \in Number
  <1>1. PICK g, x, y : FractionIs(n, d, g, x, y)
    BY FractionParts
  <1> QED
    BY <1>1 DEF FractionIs, Number

(* Expanding a fraction does not change it.                                 *)
Expands(k, n, d, kn, kd) == kn = k * n /\ kd = k * d

LEMMA FractionScale ==
    ASSUME NEW k \in Nat \ {0}, NEW n \in Int, NEW d \in Nat \ {0},
           NEW kn, NEW kd, Expands(k, n, d, kn, kd)
    PROVE  kn \in Int /\ kd \in Nat \ {0} /\ Fraction(kn, kd) = Fraction(n, d)
  <1>0. kn = k * n /\ kd = k * d
    BY DEF Expands
  <1>1. kn \in Int /\ kd \in Nat \ {0}
    BY ONLY k \in Nat \ {0}, n \in Int, d \in Nat \ {0}, <1>0
  <1>2. PICK g, x, y : FractionIs(n, d, g, x, y)
    BY FractionParts
  <1>3. PICK h, u, w : FractionIs(kn, kd, h, u, w)
    BY <1>1, FractionParts
  <1>4. AbsOf(kn) = k * AbsOf(n) /\ AbsOf(n) \in Nat
    <2>1. AbsOf(n) \in Nat
      BY DEF AbsOf
    <2>2. CASE n < 0
      <3>1. kn < 0 /\ -kn = k * (-n)
        BY ONLY k \in Nat \ {0}, n \in Int, <1>0, <2>2
      <3>2. AbsOf(n) = -n /\ AbsOf(kn) = -kn
        BY <2>2, <3>1, Zenon DEF AbsOf
      <3> QED
        BY <2>1, <3>1, <3>2, Zenon
    <2>3. CASE ~(n < 0)
      <3>1. ~(kn < 0)
        BY ONLY k \in Nat \ {0}, n \in Int, <1>0, <2>3
      <3>2. AbsOf(n) = n /\ AbsOf(kn) = kn
        BY <2>3, <3>1, Zenon DEF AbsOf
      <3> QED
        BY <1>0, <2>1, <3>2, Zenon
    <2> QED
      BY <2>2, <2>3
  <1>5. h = k * g
    <2>1. d \in Nat
      OBVIOUS
    <2>2. Gcd[<<k * AbsOf(n), k * d>>] = k * Gcd[<<AbsOf(n), d>>]
      BY <1>4, <2>1, GcdScale
    <2> QED
      BY <1>0, <1>2, <1>3, <1>4, <2>2, Zenon DEF FractionIs
  <1>6. k * n = (k * g) * x /\ k * d = (k * g) * y
    <2>1. g \in Nat \ {0} /\ x \in Int /\ y \in Nat \ {0} /\ n = g * x /\ d = g * y
      BY <1>2 DEF FractionIs
    <2> QED
      BY ONLY k \in Nat \ {0}, <2>1
  <1>7. h \in Nat \ {0} /\ kn = h * x /\ kd = h * y /\ kn = h * u /\ kd = h * w
    BY <1>0, <1>3, <1>5, <1>6 DEF FractionIs
  <1>8. x \in Int /\ y \in Int /\ u \in Int /\ w \in Int
    BY <1>2, <1>3 DEF FractionIs
  <1>9. x = u /\ y = w
    <2>1. \A v \in Int : \A z : z = h * v => z \div h = v
      <3> SUFFICES ASSUME NEW v \in Int, NEW z, z = h * v PROVE z \div h = v
        OBVIOUS
      <3>1. z = h * v + 0 /\ 0 \in 0..(h - 1)
        BY <1>7
      <3> QED
        BY <1>7, <3>1, Quotient
    <2> QED
      BY <1>7, <1>8, <2>1
  <1> QED
    BY <1>1, <1>2, <1>3, <1>9 DEF FractionIs

(* Adding to a fraction is adding to what it was made of.                   *)
LEMMA PlusFraction ==
    ASSUME NEW n \in Int, NEW d \in Nat \ {0}, NEW c \in Number
    PROVE  Plus(Fraction(n, d), c) = Fraction(n * c.d + c.n * d, d * c.d)
  <1>1. PICK g, x, y : FractionIs(n, d, g, x, y)
    BY FractionParts
  <1>2. /\ g \in Nat \ {0} /\ x \in Int /\ y \in Nat \ {0} /\ n = g * x /\ d = g * y
        /\ Fraction(n, d) = [n |-> x, d |-> y]
    BY <1>1 DEF FractionIs
  <1>3. c.n \in Int /\ c.d \in Nat \ {0}
    BY DEF Number
  <1> DEFINE a == x * c.d + c.n * y
             b == y * c.d
             p == n * c.d + c.n * d
             r == d * c.d
  <1>4. Plus(Fraction(n, d), c) = Fraction(a, b)
    BY <1>2 DEF Plus
  <1>5. a \in Int /\ b \in Nat \ {0}
    BY ONLY <1>2, <1>3
  <1>6. p = g * a /\ r = g * b
    BY ONLY <1>2, <1>3
  <1> HIDE DEF a, b, p, r
  <1>7. Fraction(p, r) = Fraction(a, b)
    <2>1. g \in Nat \ {0}
      BY <1>2
    <2>2. Expands(g, a, b, p, r)
      BY <1>6 DEF Expands
    <2> QED
      BY ONLY <1>5, <2>1, <2>2, FractionScale
  <1> QED
    BY <1>4, <1>7 DEF p, r

LEMMA PlusTyped ==
    ASSUME NEW a \in Number, NEW b \in Number
    PROVE  Plus(a, b) \in Number
  <1>1. a.n \in Int /\ a.d \in Nat \ {0} /\ b.n \in Int /\ b.d \in Nat \ {0}
    BY DEF Number
  <1> DEFINE n == a.n * b.d + b.n * a.d
             d == a.d * b.d
  <1>2. n \in Int /\ d \in Nat \ {0}
    BY ONLY <1>1
  <1>3. Plus(a, b) = Fraction(n, d)
    BY DEF Plus
  <1> HIDE DEF n, d
  <1> QED
    BY <1>2, <1>3, FractionTyped

LEMMA PlusCommutes ==
    ASSUME NEW a \in Number, NEW b \in Number
    PROVE  Plus(a, b) = Plus(b, a)
  <1>1. a.n \in Int /\ a.d \in Nat \ {0} /\ b.n \in Int /\ b.d \in Nat \ {0}
    BY DEF Number
  <1>2. a.n * b.d + b.n * a.d = b.n * a.d + a.n * b.d /\ a.d * b.d = b.d * a.d
    BY ONLY <1>1
  <1> QED
    BY <1>2, Zenon DEF Plus

(* The order of two additions does not matter.                              *)
LEMMA PlusSwaps ==
    ASSUME NEW a \in Number, NEW b \in Number, NEW c \in Number
    PROVE  Plus(Plus(a, b), c) = Plus(Plus(a, c), b)
  <1>1. /\ a.n \in Int /\ a.d \in Nat \ {0} /\ b.n \in Int /\ b.d \in Nat \ {0}
        /\ c.n \in Int /\ c.d \in Nat \ {0}
    BY DEF Number
  <1> DEFINE n == a.n * b.d + b.n * a.d
             d == a.d * b.d
             m == a.n * c.d + c.n * a.d
             e == a.d * c.d
  <1>2. n \in Int /\ d \in Nat \ {0} /\ m \in Int /\ e \in Nat \ {0}
    BY ONLY <1>1
  <1>3. Plus(a, b) = Fraction(n, d) /\ Plus(a, c) = Fraction(m, e)
    BY DEF Plus
  <1>4. n * c.d + c.n * d = m * b.d + b.n * e /\ d * c.d = e * b.d
    BY ONLY <1>1
  <1> HIDE DEF n, d, m, e
  <1>5. Plus(Fraction(n, d), c) = Fraction(n * c.d + c.n * d, d * c.d)
    BY <1>2, PlusFraction
  <1>6. Plus(Fraction(m, e), b) = Fraction(m * b.d + b.n * e, e * b.d)
    BY <1>2, PlusFraction
  <1> QED
    BY <1>3, <1>4, <1>5, <1>6, Zenon

LEMMA AddTyped ==
    ASSUME NEW a \in Value, NEW b \in Value
    PROVE  AddValue(a, b) \in Value
  BY PlusTyped DEF Value, AddValue

LEMMA AddSwaps ==
    ASSUME NEW a \in Value, NEW b \in Value, NEW c \in Value
    PROVE  AddValue(AddValue(a, b), c) = AddValue(AddValue(a, c), b)
  <1>1. \A x, y \in Number : Plus(x, y) \in Number /\ x # NaN /\ Plus(x, y) # NaN
    <2>1. NaN \notin Number
      <3>1. Number \subseteq [n : Int, d : Int]
        BY DEF Number
      <3> QED
        BY <3>1, RollupAssumption
    <2> QED
      BY <2>1, PlusTyped
  <1>2. CASE a = NaN /\ b # NaN /\ c # NaN
    BY <1>1, <1>2, PlusCommutes DEF Value, AddValue
  <1>3. CASE a # NaN /\ b # NaN /\ c # NaN
    BY <1>1, <1>3, PlusSwaps DEF Value, AddValue
  <1>4. CASE b = NaN \/ c = NaN
    BY <1>4, Zenon DEF AddValue
  <1> QED
    BY <1>2, <1>3, <1>4

-----------------------------------------------------------------------------
(* Sums of values.                                                          *)

(* The sum of the values f of a set, NaN being nothing.                     *)
ValueStep(g, f, s) == IF s = {} THEN NaN ELSE AddValue(g[s \ {AnyOf(s)}], f[AnyOf(s)])
ValueSolves(g, f, S) == g = [s \in SUBSET S |-> ValueStep(g, f, s)]
ValueSum(f, S) == (CHOOSE g : ValueSolves(g, f, S))[S]
ValueTerms(f, S) == IsFiniteSet(S) /\ \A x \in S : f[x] \in Value

LEMMA ValueSolved ==
    ASSUME NEW S, IsFiniteSet(S), NEW f
    PROVE  \E g : ValueSolves(g, f, S)
  <1> DEFINE Fits(g, n) == \A s \in SUBSET S : Cardinality(s) <= n => g[s] = ValueStep(g, f, s)
             N == {n \in Nat : \E g : g = [s \in SUBSET S |-> g[s]] /\ Fits(g, n)}
  <1>0. \A s \in SUBSET S : IsFiniteSet(s) /\ Cardinality(s) \in Nat /\ Cardinality(s) <= Cardinality(S)
    BY FS_Subset, FS_CardinalityType
  <1>1. 0 \in N
    <2> DEFINE g == [s \in SUBSET S |-> NaN]
    <2>1. g = [s \in SUBSET S |-> g[s]]
      OBVIOUS
    <2>2. ASSUME NEW s \in SUBSET S, Cardinality(s) <= 0 PROVE g[s] = ValueStep(g, f, s)
      <3>1. s = {}
        BY <1>0, <2>2, FS_EmptySet
      <3> QED
        BY <3>1 DEF ValueStep
    <2>3. Fits(g, 0)
      BY <2>2
    <2> HIDE DEF g, Fits
    <2> QED
      BY <2>1, <2>3
  <1>2. ASSUME NEW n \in Nat, n \in N PROVE n + 1 \in N
    <2>1. PICK g : g = [s \in SUBSET S |-> g[s]] /\ Fits(g, n)
      BY <1>2
    <2> DEFINE h == [s \in SUBSET S |-> IF Cardinality(s) <= n THEN g[s] ELSE ValueStep(g, f, s)]
    <2>2. h = [s \in SUBSET S |-> h[s]]
      OBVIOUS
    <2>3. \A s \in SUBSET S : h[s] = ValueStep(g, f, s)
      BY <2>1
    <2>4. \A s \in SUBSET S : Cardinality(s) <= n => h[s] = g[s]
      OBVIOUS
    <2> HIDE DEF h
    <2>5. ASSUME NEW s \in SUBSET S, Cardinality(s) <= n + 1, s # {}
          PROVE  h[s \ {AnyOf(s)}] = g[s \ {AnyOf(s)}]
      <3>1. AnyOf(s) \in s
        BY <2>5, AnyElement
      <3>2. Cardinality(s \ {AnyOf(s)}) = Cardinality(s) - 1
        BY <1>0, <3>1, FS_RemoveElement
      <3>3. Cardinality(s \ {AnyOf(s)}) <= n
        BY <1>0, <2>5, <3>2
      <3> QED
        BY <2>4, <3>3
    <2>6. ASSUME NEW s \in SUBSET S, Cardinality(s) <= n + 1 PROVE h[s] = ValueStep(h, f, s)
      <3>1. CASE s = {}
        BY <2>3, <3>1 DEF ValueStep
      <3>2. CASE s # {}
        BY <2>3, <2>5, <2>6, <3>2 DEF ValueStep
      <3> QED
        BY <3>1, <3>2
    <2>7. Fits(h, n + 1)
      BY <2>6
    <2> HIDE DEF Fits
    <2> QED
      BY <2>2, <2>7
  <1>3. Cardinality(S) \in Nat
    BY FS_CardinalityType
  <1>4. Cardinality(S) \in N
    <2> HIDE DEF N
    <2> QED
      BY <1>1, <1>2, <1>3, InductionBySet
  <1>5. PICK g : g = [s \in SUBSET S |-> g[s]] /\ Fits(g, Cardinality(S))
    BY <1>4
  <1>6. \A s \in SUBSET S : g[s] = ValueStep(g, f, s)
    BY <1>0, <1>5
  <1>7. ValueSolves(g, f, S)
    BY <1>5, <1>6 DEF ValueSolves
  <1> QED
    BY <1>7

LEMMA ValueIsSolution ==
    ASSUME NEW S, IsFiniteSet(S), NEW f
    PROVE  \E g : ValueSolves(g, f, S) /\ ValueSum(f, S) = g[S]
  BY ValueSolved DEF ValueSum

LEMMA ValuesAgree ==
    ASSUME NEW S, IsFiniteSet(S), NEW T \in SUBSET S, NEW f, NEW g, NEW h,
           ValueSolves(g, f, S), ValueSolves(h, f, T)
    PROVE  \A s \in SUBSET T : g[s] = h[s]
  <1> DEFINE N == {n \in Nat : \A s \in SUBSET T : Cardinality(s) = n => g[s] = h[s]}
  <1>0. \A s \in SUBSET T : IsFiniteSet(s) /\ Cardinality(s) \in Nat /\ s \in SUBSET S
    BY FS_Subset, FS_CardinalityType
  <1>1. \A s \in SUBSET T : g[s] = ValueStep(g, f, s) /\ h[s] = ValueStep(h, f, s)
    BY <1>0 DEF ValueSolves
  <1>2. 0 \in N
    <2>1. \A s \in SUBSET T : Cardinality(s) = 0 => s = {}
      BY <1>0, FS_EmptySet
    <2> QED
      BY <1>1, <2>1 DEF ValueStep
  <1>3. ASSUME NEW n \in Nat, n \in N PROVE n + 1 \in N
    <2> SUFFICES ASSUME NEW s \in SUBSET T, Cardinality(s) = n + 1 PROVE g[s] = h[s]
      OBVIOUS
    <2>1. s # {}
      BY FS_EmptySet
    <2>2. AnyOf(s) \in s
      BY <2>1, AnyElement
    <2>3. Cardinality(s \ {AnyOf(s)}) = n
      <3>1. Cardinality(s \ {AnyOf(s)}) = Cardinality(s) - 1
        BY <1>0, <2>2, FS_RemoveElement
      <3> QED
        BY <3>1
    <2>4. g[s \ {AnyOf(s)}] = h[s \ {AnyOf(s)}]
      BY <1>3, <2>3
    <2> QED
      BY <1>1, <2>1, <2>4 DEF ValueStep
  <1>4. \A n \in Nat : n \in N
    <2> HIDE DEF N
    <2> QED
      BY <1>2, <1>3, InductionBySet
  <1> QED
    BY <1>0, <1>4

LEMMA ValueUnfold ==
    ASSUME NEW S, IsFiniteSet(S), NEW f
    PROVE  /\ S = {} => ValueSum(f, S) = NaN
           /\ S # {} => ValueSum(f, S) = AddValue(ValueSum(f, S \ {AnyOf(S)}), f[AnyOf(S)])
  <1>1. PICK g : ValueSolves(g, f, S) /\ ValueSum(f, S) = g[S]
    BY ValueIsSolution
  <1>2. g[S] = ValueStep(g, f, S)
    BY <1>1 DEF ValueSolves
  <1>3. CASE S = {}
    BY <1>1, <1>2, <1>3 DEF ValueStep
  <1>4. CASE S # {}
    <2> DEFINE T == S \ {AnyOf(S)}
    <2>1. IsFiniteSet(T) /\ T \in SUBSET S
      BY FS_Subset
    <2> HIDE DEF T
    <2>2. PICK h : ValueSolves(h, f, T) /\ ValueSum(f, T) = h[T]
      BY <2>1, ValueIsSolution
    <2>3. \A s \in SUBSET T : g[s] = h[s]
      BY <1>1, <2>1, <2>2, ValuesAgree
    <2>4. g[T] = h[T]
      BY <2>3
    <2> QED
      BY <1>1, <1>2, <1>4, <2>2, <2>4 DEF ValueStep, T
  <1> QED
    BY <1>3, <1>4

(* A sum of values is a value.                                              *)
LEMMA ValueSumTyped ==
    ASSUME NEW S, NEW f, ValueTerms(f, S)
    PROVE  ValueSum(f, S) \in Value
  <1> DEFINE N == {n \in Nat : \A T \in SUBSET S :
                      Cardinality(T) = n => ValueSum(f, T) \in Value}
  <1>0. IsFiniteSet(S) /\ \A x \in S : f[x] \in Value
    BY DEF ValueTerms
  <1>1. \A T \in SUBSET S : IsFiniteSet(T) /\ Cardinality(T) \in Nat
    BY <1>0, FS_Subset, FS_CardinalityType
  <1>2. 0 \in N
    <2> SUFFICES ASSUME NEW T \in SUBSET S, Cardinality(T) = 0 PROVE ValueSum(f, T) \in Value
      OBVIOUS
    <2>1. T = {}
      BY <1>1, FS_EmptySet
    <2>2. ValueSum(f, T) = NaN
      BY <1>1, <2>1, ValueUnfold
    <2> QED
      BY <2>2 DEF Value
  <1>3. ASSUME NEW n \in Nat, n \in N PROVE n + 1 \in N
    <2> SUFFICES ASSUME NEW T \in SUBSET S, Cardinality(T) = n + 1
                 PROVE  ValueSum(f, T) \in Value
      OBVIOUS
    <2> DEFINE a == AnyOf(T)
    <2>1. T # {} /\ IsFiniteSet(T)
      BY <1>1, FS_EmptySet
    <2>2. a \in T
      BY <2>1, AnyElement
    <2>3. ValueSum(f, T) = AddValue(ValueSum(f, T \ {a}), f[a])
      BY <2>1, ValueUnfold
    <2> HIDE DEF a
    <2>4. Cardinality(T \ {a}) = Cardinality(T) - 1
      BY <2>1, <2>2, FS_RemoveElement
    <2>5. Cardinality(T \ {a}) = n /\ T \ {a} \in SUBSET S
      BY <2>4
    <2>6. ValueSum(f, T \ {a}) \in Value
      BY <1>3, <2>5
    <2> QED
      BY <1>0, <2>2, <2>3, <2>6, AddTyped
  <1>4. \A n \in Nat : n \in N
    <2> HIDE DEF N
    <2> QED
      BY <1>2, <1>3, InductionBySet
  <1> QED
    BY <1>1, <1>4

LEMMA FewerValues ==
    ASSUME NEW S, NEW f, ValueTerms(f, S), NEW T \in SUBSET S
    PROVE  ValueTerms(f, T)
  <1>1. IsFiniteSet(T)
    BY FS_Subset DEF ValueTerms
  <1> QED
    BY <1>1 DEF ValueTerms

(* Any term may be taken last.                                              *)
LEMMA ValueRemove ==
    ASSUME NEW S, NEW f, ValueTerms(f, S), NEW y \in S
    PROVE  ValueSum(f, S) = AddValue(ValueSum(f, S \ {y}), f[y])
  <1> DEFINE Good(T) == \A x \in T : ValueSum(f, T) = AddValue(ValueSum(f, T \ {x}), f[x])
             N == {n \in Nat : \A T \in SUBSET S : Cardinality(T) = n => Good(T)}
  <1>0. IsFiniteSet(S) /\ \A x \in S : f[x] \in Value
    BY DEF ValueTerms
  <1>1. \A T \in SUBSET S : IsFiniteSet(T) /\ Cardinality(T) \in Nat
    BY <1>0, FS_Subset, FS_CardinalityType
  <1>2. 0 \in N
    <2>1. \A T \in SUBSET S : Cardinality(T) = 0 => T = {}
      BY <1>1, FS_EmptySet
    <2> QED
      BY <2>1
  <1>3. ASSUME NEW n \in Nat, n \in N PROVE n + 1 \in N
    <2> SUFFICES ASSUME NEW T \in SUBSET S, Cardinality(T) = n + 1, NEW x \in T
                 PROVE ValueSum(f, T) = AddValue(ValueSum(f, T \ {x}), f[x])
      OBVIOUS
    <2> DEFINE a == AnyOf(T)
    <2>1. IsFiniteSet(T)
      BY <1>1
    <2>2. a \in T
      BY AnyElement
    <2>3. ValueSum(f, T) = AddValue(ValueSum(f, T \ {a}), f[a])
      BY <2>1, ValueUnfold
    <2> HIDE DEF a
    <2>4. ASSUME NEW z \in T, NEW w \in T, z # w
          PROVE  ValueSum(f, T \ {z}) = AddValue(ValueSum(f, (T \ {z}) \ {w}), f[w])
      <3>1. Cardinality(T \ {z}) = Cardinality(T) - 1
        BY <2>1, FS_RemoveElement
      <3>2. Cardinality(T \ {z}) = n /\ T \ {z} \in SUBSET S /\ w \in T \ {z}
        BY <2>4, <3>1
      <3> QED
        BY <1>3, <3>2
    <2>5. CASE x = a
      BY <2>3, <2>5
    <2>6. CASE x # a
      <3> DEFINE U == (T \ {a}) \ {x}
      <3>1. U = (T \ {x}) \ {a}
        OBVIOUS
      <3>2. ValueSum(f, T \ {a}) = AddValue(ValueSum(f, U), f[x])
        BY <2>2, <2>4, <2>6
      <3>3. ValueSum(f, T \ {x}) = AddValue(ValueSum(f, U), f[a])
        BY <2>2, <2>4, <2>6, <3>1
      <3>4. ValueSum(f, U) \in Value
        <4>1. ValueTerms(f, U)
          BY FewerValues
        <4> QED
          BY <4>1, ValueSumTyped
      <3>5. f[x] \in Value /\ f[a] \in Value
        BY <1>0, <2>2
      <3> HIDE DEF U
      <3> QED
        BY <2>3, <3>2, <3>3, <3>4, <3>5, AddSwaps
    <2> QED
      BY <2>5, <2>6
  <1>4. \A n \in Nat : n \in N
    <2> HIDE DEF N
    <2> QED
      BY <1>2, <1>3, InductionBySet
  <1> QED
    BY <1>1, <1>4

(* A new term is added to the sum.                                          *)
LEMMA ValueAdd ==
    ASSUME NEW S, NEW f, NEW y, ValueTerms(f, S), f[y] \in Value, y \notin S
    PROVE  ValueSum(f, S \cup {y}) = AddValue(ValueSum(f, S), f[y])
  <1> DEFINE U == S \cup {y}
  <1>1. ValueTerms(f, U) /\ y \in U
    <2>1. IsFiniteSet(U)
      BY FS_AddElement DEF ValueTerms
    <2> QED
      BY <2>1 DEF ValueTerms
  <1>2. U \ {y} = S
    OBVIOUS
  <1> HIDE DEF U
  <1>3. ValueSum(f, U) = AddValue(ValueSum(f, U \ {y}), f[y])
    BY <1>1, ValueRemove
  <1> QED
    BY <1>2, <1>3 DEF U

(* Terms that are NaN do not count.                                         *)
LEMMA ValueSumWithin ==
    ASSUME NEW S, NEW T \in SUBSET S, NEW f, NEW g, ValueTerms(f, S), ValueTerms(g, T),
           \A x \in T : f[x] = g[x], \A x \in S \ T : f[x] = NaN
    PROVE  ValueSum(f, S) = ValueSum(g, T)
  <1> DEFINE N == {n \in Nat : \A U \in SUBSET S :
                      Cardinality(U) = n => ValueSum(f, U) = ValueSum(g, U \cap T)}
  <1>1. \A U \in SUBSET S : IsFiniteSet(U) /\ Cardinality(U) \in Nat
    BY FS_Subset, FS_CardinalityType DEF ValueTerms
  <1>2. 0 \in N
    <2> SUFFICES ASSUME NEW U \in SUBSET S, Cardinality(U) = 0
                 PROVE  ValueSum(f, U) = ValueSum(g, U \cap T)
      OBVIOUS
    <2>1. U = {} /\ U \cap T = {}
      BY <1>1, FS_EmptySet
    <2> QED
      BY <2>1, FS_EmptySet, ValueUnfold
  <1>3. ASSUME NEW n \in Nat, n \in N PROVE n + 1 \in N
    <2> SUFFICES ASSUME NEW U \in SUBSET S, Cardinality(U) = n + 1
                 PROVE  ValueSum(f, U) = ValueSum(g, U \cap T)
      OBVIOUS
    <2>1. IsFiniteSet(U) /\ U # {}
      BY <1>1, FS_EmptySet
    <2>2. PICK x \in U : TRUE
      BY <2>1
    <2> DEFINE W == U \ {x}
               V == U \cap T
    <2>3. Cardinality(W) = n /\ W \in SUBSET S
      <3>1. Cardinality(U \ {x}) = Cardinality(U) - 1
        BY <2>1, FS_RemoveElement
      <3> QED
        BY <3>1
    <2>4. ValueSum(f, W) = ValueSum(g, W \cap T)
      BY <1>3, <2>3
    <2>5. ValueSum(f, U) = AddValue(ValueSum(f, W), f[x])
      <3>1. ValueTerms(f, U)
        BY FewerValues
      <3> QED
        BY <3>1, ValueRemove
    <2>6. CASE x \in T
      <3>1. ValueTerms(g, V) /\ x \in V /\ V \ {x} = W \cap T
        BY <2>6, FewerValues
      <3> HIDE DEF V, W
      <3>2. ValueSum(g, V) = AddValue(ValueSum(g, V \ {x}), g[x])
        BY <3>1, ValueRemove
      <3> QED
        BY <2>4, <2>5, <2>6, <3>1, <3>2 DEF V
    <2>7. CASE x \notin T
      <3>1. W \cap T = U \cap T /\ f[x] = NaN
        BY <2>2, <2>7
      <3> QED
        BY <2>4, <2>5, <3>1 DEF AddValue
    <2> QED
      BY <2>6, <2>7
  <1>4. \A n \in Nat : n \in N
    <2> HIDE DEF N
    <2> QED
      BY <1>2, <1>3, InductionBySet
  <1>5. S \cap T = T
    OBVIOUS
  <1> QED
    BY <1>1, <1>4, <1>5

-----------------------------------------------------------------------------
(* What a counter function gives is a value.                                *)

(* What the drops of integers add is an integer.                            *)
LEMMA ResetsTyped ==
    ASSUME NEW w \in Seq(Int)
    PROVE  ResetsOf(w) \in Int
  <1> DEFINE n == Len(w)
             r == [i \in 1..(n - 1) |-> ResetOf(w[i], w[i + 1])]
             D == 1..(n - 1)
  <1>1. n \in Nat /\ \A i \in 1..n : w[i] \in Int
    BY LenProperties, ElementOfSeq
  <1>2. \A x, y \in Int : ResetOf(x, y) \in Int
    BY DEF ResetOf
  <1>3. \A i \in D : r[i] \in Int
    <2> SUFFICES ASSUME NEW i \in D PROVE ResetOf(w[i], w[i + 1]) \in Int
      OBVIOUS
    <2>1. i \in 1..n /\ i + 1 \in 1..n
      BY <1>1
    <2> QED
      BY <1>1, <1>2, <2>1
  <1>4. IsFiniteSet(D)
    <2>1. 1 \in Int /\ n - 1 \in Int
      BY <1>1
    <2> QED
      BY <2>1, FS_Interval
  <1>5. DOMAIN r = D /\ ResetsOf(w) = SumFunction(r)
    BY DEF ResetsOf
  <1> HIDE DEF r, D
  <1>6. Terms(r, D)
    BY <1>3, <1>4 DEF Terms
  <1> QED
    BY <1>5, <1>6, SumInteger DEF SumFunction

(* A difference of counters is a whole number, a rate or NaN.               *)
LEMMA DifferenceTyped ==
    ASSUME NEW name, NEW P \in Seq(Point), \A i \in DOMAIN P : P[i].v \in Int,
           NEW begin \in 1..Len(P), NEW baseline \in Int
    PROVE  CounterDifference(name, P, begin, baseline) \in Value
  <1> DEFINE n == Len(P)
             V == Values(SubSeq(P, begin, n))
             w == <<baseline>> \o V
             resets == IF name = "increase" \/ name \in Rates THEN ResetsOf(w) ELSE 0
             value == P[n].v - baseline + resets
             millis == P[n].t - P[begin].t
  <1>1. n \in Nat /\ DOMAIN P = 1..n /\ begin \in 1..n /\ n \in 1..n
    BY LenProperties
  <1>2. P[n].v \in Int /\ millis \in Int
    BY <1>1, PointAt
  <1>3. w \in Seq(Int)
    <2> DEFINE S == SubSeq(P, begin, n)
               m == Len(S)
    <2>1. S \in Seq(Point) /\ m = n - begin + 1 /\ \A i \in 1..m : S[i] = P[begin + i - 1]
      BY <1>1, SubSeqProperties
    <2>2. m \in Nat /\ DOMAIN S = 1..m
      BY <1>1, <2>1, LenProperties
    <2>3. \A i \in 1..m : begin + i - 1 \in DOMAIN P
      BY <1>1, <2>1
    <2> HIDE DEF S, m
    <2>4. V = [i \in 1..m |-> V[i]] /\ \A i \in 1..m : V[i] \in Int
      BY <2>1, <2>2, <2>3 DEF Values, S
    <2> HIDE DEF V
    <2>5. V \in Seq(Int)
      BY <2>2, <2>4, SequenceOf
    <2>6. <<baseline>> \in Seq(Int)
      OBVIOUS
    <2> QED
      BY <2>5, <2>6, ConcatProperties
  <1>4. resets \in Int
    <2> HIDE DEF w
    <2> QED
      BY <1>3, ResetsTyped
  <1>5. CounterDifference(name, P, begin, baseline)
          = IF name \notin Rates THEN Whole(value)
            ELSE IF begin = n \/ millis <= 0 THEN NaN
            ELSE Fraction(value * 1000, millis)
    BY DEF CounterDifference
  <1> HIDE DEF resets, millis
  <1>6. value \in Int /\ value * 1000 \in Int
    BY <1>2, <1>4
  <1> HIDE DEF value
  <1>7. Whole(value) \in Value
    BY <1>6 DEF Whole, Number, Value
  <1>8. ~(millis <= 0) => Fraction(value * 1000, millis) \in Value
    <2> DEFINE x == value * 1000
    <2>1. x \in Int
      BY <1>6
    <2> HIDE DEF x
    <2> SUFFICES ASSUME ~(millis <= 0) PROVE Fraction(x, millis) \in Value
      BY DEF x
    <2>2. millis \in Nat \ {0}
      BY <1>2
    <2> QED
      BY <2>1, <2>2, FractionTyped DEF Value
  <1> QED
    BY <1>5, <1>7, <1>8 DEF Value

LEMMA CounterTyped ==
    ASSUME NEW name, NEW P \in Seq(Point), \A i \in DOMAIN P : P[i].v \in Int,
           NEW first \in Nat \ {0}, NEW start, NEW maxPrev, NEW lookback
    PROVE  metricsQLCounterValue(name, P, first, start, maxPrev, lookback) \in Value
  <1> DEFINE n == Len(P)
             prev == /\ first > 1
                     /\ \/ P[first - 1].t > start - maxPrev
                        \/ name \in Totals /\ P[first].t - P[first - 1].t < lookback
             value == metricsQLCounterValue(name, P, first, start, maxPrev, lookback)
  <1>1. n \in Nat /\ DOMAIN P = 1..n /\ \A i \in 1..n : P[i].v \in Int
    BY LenProperties
  <1>2. CASE first > n
    BY <1>2, Zenon DEF metricsQLCounterValue, Value
  <1>3. CASE ~(first > n)
    <2>1. value = CounterFrom(name, P, first, prev)
      BY <1>3, Zenon DEF metricsQLCounterValue
    <2>2. first \in 1..n
      BY <1>1, <1>3
    <2>3. prev => first - 1 \in 1..n
      BY <2>2
    <2> HIDE DEF prev, value
    <2>4. CASE name \in LastTwo
      <3> DEFINE from == IF prev THEN first - 1 ELSE first
                 begin == Larger(from, n - 1)
                 base == IF name = "idelta" /\ begin = n THEN 0 ELSE P[begin].v
      <3>1. value = CounterDifference(name, P, begin, base)
        BY <2>1, <2>4, Zenon DEF CounterFrom, LastTwoValue
      <3>2. from \in 1..n
        BY <2>2, <2>3
      <3> HIDE DEF from
      <3>3. begin \in 1..n
        BY <1>1, <3>2 DEF Larger
      <3> HIDE DEF begin
      <3>4. base \in Int
        <4>1. P[begin].v \in Int
          BY <1>1, <3>3
        <4>2. base = 0 \/ base = P[begin].v
          BY Zenon
        <4> HIDE DEF base
        <4> QED
          BY <4>1, <4>2
      <3> HIDE DEF base
      <3> QED
        BY <3>1, <3>3, <3>4, DifferenceTyped DEF value
    <2>5. CASE name \notin LastTwo /\ prev
      <3> DEFINE begin == first - 1
      <3>1. value = CounterDifference(name, P, begin, P[begin].v)
        BY <2>1, <2>5, Zenon DEF CounterFrom
      <3>2. begin \in 1..n
        BY <2>3, <2>5
      <3> HIDE DEF begin
      <3> QED
        BY <1>1, <3>1, <3>2, DifferenceTyped DEF value
    <2>6. CASE name \notin LastTwo /\ ~prev
      <3> DEFINE rise == IF first < n THEN P[first + 1].v - P[first].v ELSE 0
                 base == IF name \in Rates THEN P[first].v ELSE FirstBaseline(P[first].v, rise)
      <3>1. value = CounterDifference(name, P, first, base)
        BY <2>1, <2>6, Zenon DEF CounterFrom
      <3>2. P[first].v \in Int
        BY <1>1, <2>2
      <3> HIDE DEF rise
      <3>3. FirstBaseline(P[first].v, rise) \in Int
        <4> DEFINE v == P[first].v
        <4>1. FirstBaseline(v, rise) = 0 \/ FirstBaseline(v, rise) = v
          BY Zenon DEF FirstBaseline
        <4> QED
          BY <3>2, <4>1
      <3>4. base \in Int
        BY <3>2, <3>3
      <3> HIDE DEF base
      <3> QED
        BY <2>2, <3>1, <3>4, DifferenceTyped DEF value
    <2> QED
      BY <2>4, <2>5, <2>6
  <1> QED
    BY <1>2, <1>3

(* The engine gives a value for any points it has read.                     *)
LEMMA RollupTyped ==
    ASSUME plan \in Plans, NEW M \in Seq(Point), NEW ts
    PROVE  metricsQLRollup(plan, M, ts) \in Value
  <1> DEFINE P == NonStale(M)
  <1>1. plan.name \in CounterFunctions /\ plan.name # "default_rollup"
    <2>1. plan \in RangePlan
      BY HistogramAssumption
    <2> QED
      BY <2>1 DEF RangePlan, CounterFunctions, Totals, Rates, LastTwo
  <1>2. P \in Seq(Point) /\ \A i \in DOMAIN P : P[i].v \in Int
    <2>1. P \in Seq(Point) /\ Range(P) = {p \in Range(M) : p.v # Stale}
      BY NonStalePoints
    <2> HIDE DEF P
    <2>2. ASSUME NEW i \in DOMAIN P PROVE P[i].v \in Int
      <3>1. P[i] \in Range(P)
        BY DEF Range
      <3>2. P[i].v # Stale /\ P[i].v \in Int \cup {Stale}
        BY <2>1, <3>1, PointAt
      <3> QED
        BY <3>2
    <2> QED
      BY <2>1, <2>2
  <1> DEFINE maxPrev == MaxPrev(plan, P)
             start == ts - plan.offset - WindowOf(plan, maxPrev)
             first == CountUntil(P, start) + 1
  <1>3. metricsQLRollup(plan, M, ts)
          = metricsQLCounterValue(plan.name, P, first, start, maxPrev, plan.lookback)
    BY <1>1, Zenon DEF metricsQLRollup, RollupPoints, RollupWith, WindowRollupOf, RollupFrom
  <1> HIDE DEF P, maxPrev, start
  <1>4. first \in Nat \ {0}
    <2> DEFINE I == {i \in DOMAIN P : P[i].t <= start}
    <2>1. I \in SUBSET DOMAIN P /\ IsFiniteSet(DOMAIN P)
      BY <1>2, TimeOrderTotal
    <2> HIDE DEF I
    <2>2. Cardinality(I) \in Nat
      BY <2>1, FS_Subset, FS_CardinalityType
    <2>3. CountUntil(P, start) = Cardinality(I)
      BY DEF CountUntil, I
    <2> QED
      BY <2>2, <2>3
  <1> HIDE DEF first
  <1> QED
    BY <1>2, <1>3, <1>4, CounterTyped
-----------------------------------------------------------------------------
(* What the engine adds up.                                                 *)

(* The labels whose series of bucket b is added up to step g, and what each *)
(* of them adds.                                                            *)
Added(b, g) ==
    {labels \in Labels : <<labels, b>> \in read \/ (it.key = <<labels, b>> /\ g < it.grid)}
RollupsOf(b, g) ==
    [labels \in Labels |-> RollupAt(plan, built.series[<<labels, b>>], GridTime(g))]
BucketsBuilt == {k[2] : k \in DOMAIN built.series}
SumsOk ==
    sums = [b \in BucketsBuilt |-> [g \in Grid |-> ValueSum(RollupsOf(b, g), Added(b, g))]]

(* A series is read once, and carries the labels of a stored row.           *)
ReadOk ==
    /\ read \subseteq DOMAIN built.series /\ it.key \notin read
    /\ \A k \in DOMAIN built.series : k[1] \in Labels
SeriesOnce == \A k \in DOMAIN built.series : OnePerTime(built.series[k])

LEMMA LabelsFinite == ASSUME store \in Stores PROVE IsFiniteSet(Labels)
  <1> DEFINE D == DOMAIN StoredRows
             f == [i \in D |-> LabelsOf[StoredRows[i].id]]
  <1>1. StoredRows \in Seq(Row)
    <2>1. store \in Seq(Row)
      BY HistogramAssumption
    <2> QED
      BY <2>1, PickedElements DEF StoredRows
  <1>2. IsFiniteSet(D)
    <2>1. D = 1..Len(StoredRows) /\ Len(StoredRows) \in Int
      BY <1>1, LenProperties
    <2> QED
      BY <2>1, FS_Interval
  <1>3. f \in Surjection(D, Labels)
    BY DEF Surjection, Labels, Range
  <1> HIDE DEF D, f
  <1> QED
    BY <1>2, <1>3, FS_Surjection

(* What is added are values.                                                *)
LEMMA AddedValues ==
    ASSUME Inv, phase = "engine", NEW b, NEW g \in Nat, NEW S \in SUBSET Labels,
           \A labels \in S : <<labels, b>> \in DOMAIN built.series
    PROVE  ValueTerms(RollupsOf(b, g), S)
  <1>1. plan \in Plans /\ store \in Stores
    BY DEF Inv
  <1>2. ASSUME NEW labels \in S PROVE RollupsOf(b, g)[labels] \in Value
    <2> DEFINE s == built.series[<<labels, b>>]
               m == MatrixAt(plan, s, GridTime(g))
    <2>1. s \in Seq(Point)
      BY SeriesRead
    <2>2. GridTime(g) \in Int /\ SelectorRange(plan) \in Int
      BY <1>1, PlanNumbers
    <2>3. plan.offset = 0
      BY <1>1, HistogramAssumption DEF RangePlan
    <2> HIDE DEF s
    <2>4. m \in Seq(Point)
      BY <2>1, <2>2, <2>3, BetweenPoints DEF MatrixAt
    <2>5. RollupsOf(b, g)[labels] = metricsQLRollup(plan, m, GridTime(g))
      BY DEF RollupsOf, RollupAt, s
    <2> HIDE DEF m
    <2> QED
      BY <1>1, <2>4, <2>5, RollupTyped
  <1>3. IsFiniteSet(S)
    BY <1>1, LabelsFinite, FS_Subset
  <1> QED
    BY <1>2, <1>3 DEF ValueTerms

(* The value added to a bucket is the function of the step's matrix.        *)
LEMMA EvaluatedValue ==
    ASSUME Inv, phase = "engine", Ready, OnePerTime(Points)
    PROVE  metricsQLRollup(plan, EngineWindow, GridTime(it.grid))
             = RollupAt(plan, Points, GridTime(it.grid))
  <1> DEFINE ts == GridTime(it.grid)
  <1>1. EngineWindow = Between(Points, ts - SelectorRange(plan), ts)
    BY InvReads DEF WindowRead
  <1>2. it # NoIterator
    BY DEF Ready, NoIterator
  <1>3. it.grid \in Nat /\ plan \in Plans
    BY <1>2 DEF Inv, ReaderOk, Positions
  <1>4. ts \in Int /\ plan.offset = 0 /\ SelectorRange(plan) \in Int
    <2>1. plan.offset = 0
      BY <1>3, HistogramAssumption DEF RangePlan
    <2> QED
      BY <1>3, <2>1, PlanNumbers
  <1> HIDE DEF ts
  <1>5. MatrixAt(plan, Points, ts) = Between(Points, ts - SelectorRange(plan), ts)
    <2>1. ts - plan.offset = ts
      BY <1>4
    <2> QED
      BY <2>1 DEF MatrixAt
  <1>6. metricsQLRollup(plan, EngineWindow, ts) = RollupAt(plan, Points, ts)
    BY <1>1, <1>5 DEF RollupAt
  <1> QED
    BY <1>6 DEF ts

(* After a step of a series the next step is to come; after the last one,   *)
(* the series is read.                                                      *)
LEMMA AddedNext ==
    ASSUME Inv, ReadOk, EngineEvaluate, NEW b, NEW g \in Grid
    PROVE  /\ ReadOk'
           /\ Added(b, g)' = IF b = it.key[2] /\ g = it.grid
                               THEN Added(b, g) \cup {it.key[1]} ELSE Added(b, g)
           /\ g = it.grid => it.key[1] \notin Added(it.key[2], g)
  <1>1. /\ phase = "engine" /\ it.fill /\ UNCHANGED <<store, plan, built>>
        /\ \/ /\ it'.key = it.key /\ it'.grid = it.grid + 1 /\ it.grid < plan.steps - 1
              /\ read' = read
           \/ it' = NoIterator /\ it.grid >= plan.steps - 1 /\ read' = read \cup {it.key}
    <2>1. /\ phase = "engine" /\ it.fill /\ UNCHANGED <<store, plan, built>>
          /\ IF it.grid < plan.steps - 1
               THEN it' = [it EXCEPT !.grid = @ + 1, !.fill = FALSE] /\ UNCHANGED read
               ELSE it' = NoIterator /\ read' = read \cup {it.key}
      BY DEF EngineEvaluate, Ready
    <2>2. it # NoIterator
      BY <2>1 DEF NoIterator
    <2>3. it \in Positions
      BY <2>2 DEF Inv, ReaderOk
    <2>4. it.grid \in Nat /\ plan.steps \in Nat
      BY <2>3, PlanNumbers DEF Positions, Inv
    <2>5. (it.grid < plan.steps - 1) \/ (it.grid >= plan.steps - 1)
      BY <2>4
    <2>6. CASE it.grid < plan.steps - 1
      <3>1. it' = [it EXCEPT !.grid = @ + 1, !.fill = FALSE] /\ read' = read
        BY <2>1, <2>6
      <3>2. it'.key = it.key /\ it'.grid = it.grid + 1
        BY <2>3, <3>1 DEF Positions
      <3> QED
        BY <2>1, <2>6, <3>1, <3>2
    <2>7. CASE it.grid >= plan.steps - 1
      <3>1. ~(it.grid < plan.steps - 1)
        BY <2>4, <2>7
      <3> QED
        BY <2>1, <2>7, <3>1
    <2> QED
      BY <2>5, <2>6, <2>7
  <1>2. /\ it \in Positions /\ it.key \in DOMAIN built.series /\ it.key \in Keys
        /\ it.grid \in Nat /\ plan.steps \in Nat \ {0}
    <2>1. it # NoIterator
      BY <1>1 DEF NoIterator
    <2>2. ReaderOk
      BY <2>1 DEF Inv
    <2> QED
      BY <2>2, PlanNumbers DEF Inv, ReaderOk, Positions
  <1>3. it.key = <<it.key[1], it.key[2]>> /\ it.key[1] \in Labels /\ <<>> \notin Keys
    BY <1>2 DEF Keys, ReadOk
  <1>4. Labels' = Labels
    BY <1>1 DEF Labels, StoredRows, GridTime, End
  <1>5. it.key \notin read
    BY DEF ReadOk
  <1>6. DOMAIN built.series \subseteq Keys
    BY DEF Inv, BuiltOk, SeriesOk
  <1>7. ReadOk'
    <2>1. NoIterator.key = <<>>
      BY DEF NoIterator
    <2> QED
      BY <1>1, <1>2, <1>3, <1>4, <1>5, <1>6, <2>1 DEF ReadOk
  <1>8. g \in Int /\ g <= plan.steps - 1
    BY <1>2 DEF Grid
  <1>9. ASSUME NEW labels
        PROVE  (<<labels, b>> \in read' \/ (it'.key = <<labels, b>> /\ g < it'.grid))
                 <=> \/ <<labels, b>> \in read \/ (it.key = <<labels, b>> /\ g < it.grid)
                     \/ it.key = <<labels, b>> /\ g = it.grid
    <2>1. NoIterator.key # <<labels, b>>
      BY DEF NoIterator
    <2> QED
      BY <1>1, <1>2, <1>8, <2>1
  <1>10. \A labels : it.key = <<labels, b>> <=> labels = it.key[1] /\ b = it.key[2]
    BY <1>3
  <1>11. Added(b, g)' = {labels \in Labels :
              \/ <<labels, b>> \in read \/ (it.key = <<labels, b>> /\ g < it.grid)
              \/ it.key = <<labels, b>> /\ g = it.grid}
    BY <1>4, <1>9 DEF Added
  <1>12. Added(b, g)' = IF b = it.key[2] /\ g = it.grid
                               THEN Added(b, g) \cup {it.key[1]} ELSE Added(b, g)
    BY <1>3, <1>10, <1>11 DEF Added
  <1>13. g = it.grid => it.key[1] \notin Added(it.key[2], g)
    BY <1>3, <1>5, <1>8 DEF Added
  <1> QED
    BY <1>7, <1>12, <1>13
(* Each step adds its value to the sum of the series' bucket.               *)
LEMMA EvaluateSums ==
    ASSUME Inv, ReadOk, SeriesOnce, SumsOk, EngineEvaluate
    PROVE  SumsOk'
  <1> DEFINE c == it.grid
             l0 == it.key[1]
             b0 == it.key[2]
             x == metricsQLRollup(plan, EngineWindow, GridTime(c))
             S(b, g) == ValueSum(RollupsOf(b, g), Added(b, g))
  <1>1. phase = "engine" /\ Ready /\ UNCHANGED <<store, plan, built>>
    BY DEF EngineEvaluate
  <1>2. sums' = [sums EXCEPT ![b0][c] = AddValue(@, x)]
    BY DEF EngineEvaluate
  <1>3. /\ it.key \in DOMAIN built.series /\ it.key = <<l0, b0>> /\ l0 \in Labels /\ it.grid \in Nat
    <2>1. it # NoIterator
      BY <1>1 DEF Ready, NoIterator
    <2>2. it.key \in DOMAIN built.series /\ it.key \in Keys /\ it.grid \in Nat
      BY <2>1 DEF Inv, ReaderOk, Positions
    <2> QED
      BY <2>2 DEF Keys, ReadOk
  <1>4. x = RollupsOf(b0, c)[l0]
    <2>1. OnePerTime(Points)
      BY <1>3 DEF SeriesOnce, Points
    <2>2. x = RollupAt(plan, Points, GridTime(c))
      BY <1>1, <2>1, EvaluatedValue
    <2> HIDE DEF x, c, l0, b0
    <2>3. RollupsOf(b0, c)[l0] = RollupAt(plan, built.series[<<l0, b0>>], GridTime(c))
      BY <1>3 DEF RollupsOf
    <2> QED
      BY <1>3, <2>2, <2>3 DEF Points
  <1> HIDE DEF x
  <1>5. \A b, g : RollupsOf(b, g)' = RollupsOf(b, g)
    BY <1>1 DEF RollupsOf, Labels, StoredRows, End, GridTime
  <1>6. BucketsBuilt' = BucketsBuilt /\ Grid' = Grid /\ Grid \subseteq Nat
    BY <1>1 DEF BucketsBuilt, Grid
  <1>7. \A b \in BucketsBuilt, g \in Grid : sums[b][g] = S(b, g)
    BY DEF SumsOk
  <1>8. ASSUME NEW b \in BucketsBuilt, NEW g \in Grid
        PROVE  sums'[b][g] = ValueSum(RollupsOf(b, g), Added(b, g)')
    <2>1. sums'[b][g] = IF b = b0 /\ g = c THEN AddValue(sums[b][g], x) ELSE sums[b][g]
      <3>1. DOMAIN sums = BucketsBuilt /\ DOMAIN sums[b] = Grid
        BY DEF SumsOk
      <3> QED
        BY <1>2, <3>1
    <2>2. /\ Added(b, g)' = IF b = b0 /\ g = c THEN Added(b, g) \cup {l0} ELSE Added(b, g)
          /\ b = b0 /\ g = c => l0 \notin Added(b, g)
      BY AddedNext
    <2>3. CASE ~(b = b0 /\ g = c)
      BY <1>7, <2>1, <2>2, <2>3
    <2>4. CASE b = b0 /\ g = c
      <3> DEFINE A == Added(b, g)
      <3>1. A \cup {l0} \in SUBSET Labels /\ g \in Nat
            /\ \A labels \in A \cup {l0} : <<labels, b>> \in DOMAIN built.series
        BY <1>3, <1>6, <2>4 DEF Added, ReadOk
      <3>2. l0 \notin A /\ Added(b, g)' = A \cup {l0}
        BY <2>2, <2>4
      <3> HIDE DEF A
      <3>3. ValueTerms(RollupsOf(b, g), A \cup {l0})
        BY <1>1, <3>1, AddedValues
      <3>4. ValueTerms(RollupsOf(b, g), A) /\ RollupsOf(b, g)[l0] \in Value
        BY <3>3, FewerValues DEF ValueTerms
      <3>5. ValueSum(RollupsOf(b, g), A \cup {l0})
              = AddValue(ValueSum(RollupsOf(b, g), A), RollupsOf(b, g)[l0])
        BY <3>2, <3>4, ValueAdd
      <3>6. sums[b][g] = ValueSum(RollupsOf(b, g), A)
        BY <1>7 DEF A
      <3>7. x = RollupsOf(b, g)[l0]
        BY <1>4, <2>4
      <3> QED
        BY <2>1, <2>4, <3>2, <3>5, <3>6, <3>7
    <2> QED
      BY <2>3, <2>4
  <1>9. sums' = [b \in BucketsBuilt |-> [g \in Grid |-> sums'[b][g]]]
    <2>1. sums = [b \in BucketsBuilt |-> [g \in Grid |-> S(b, g)]]
      BY DEF SumsOk
    <2> HIDE DEF S
    <2> QED
      BY <1>2, <2>1
  <1>10. sums' = [b \in BucketsBuilt |-> [g \in Grid |-> ValueSum(RollupsOf(b, g), Added(b, g)')]]
    BY <1>8, <1>9
  <1>11. sums' = [b \in BucketsBuilt' |-> [g \in Grid' |-> ValueSum(RollupsOf(b, g)', Added(b, g)')]]
    BY <1>5, <1>6, <1>10
  <1> QED
    BY <1>11 DEF SumsOk
-----------------------------------------------------------------------------
(* What one row adds.                                                       *)

(* The bounds of a row that becomes points increase, the last one included. *)
LEMMA BoundsIncrease ==
    ASSUME NEW r \in Row, ~BadBuckets(r)
    PROVE  Increasing(BoundsOf(r), Len(r.bounds) + 1)
  <1> DEFINE n == Len(r.bounds)
             B == BoundsOf(r)
             N == {m \in Nat : \A k, l \in 1..(n + 1) : k < l /\ l - k <= m => B[k] < B[l]}
  <1>1. r.bounds \in Seq(Int) /\ Inf \in Int
    BY HistogramAssumption DEF Row
  <1>2. n \in Nat /\ DOMAIN r.bounds = 1..n /\ \A i \in 1..n : r.bounds[i] \in Int
    BY <1>1, LenProperties, ElementOfSeq
  <1>3. B[n + 1] = Inf /\ \A i \in 1..n : B[i] = r.bounds[i]
    BY <1>1, <1>2, AppendProperties DEF BoundsOf
  <1> HIDE DEF B
  <1>4. /\ \A i \in 1..n : r.bounds[i] < Inf
        /\ \A i \in 2..n : r.bounds[i - 1] < r.bounds[i]
    <2>1. /\ \A i \in DOMAIN r.bounds : ~(r.bounds[i] >= Inf)
          /\ \A i \in 2..Len(r.bounds) : ~(r.bounds[i] <= r.bounds[i - 1])
      BY DEF BadBuckets
    <2>2. ASSUME NEW i \in 1..n PROVE r.bounds[i] < Inf
      <3>1. r.bounds[i] \in Int /\ ~(r.bounds[i] >= Inf)
        BY <1>2, <2>1
      <3> QED
        BY <1>1, <3>1
    <2>3. ASSUME NEW i \in 2..n PROVE r.bounds[i - 1] < r.bounds[i]
      <3>1. i - 1 \in 1..n /\ i \in 1..n
        BY <1>2
      <3>2. r.bounds[i] \in Int /\ r.bounds[i - 1] \in Int /\ ~(r.bounds[i] <= r.bounds[i - 1])
        BY <1>2, <2>1, <3>1
      <3> QED
        BY <3>2
    <2> QED
      BY <2>2, <2>3
  <1>5. \A i \in 1..(n + 1) : B[i] \in Int
    <2> SUFFICES ASSUME NEW i \in 1..(n + 1) PROVE B[i] \in Int
      OBVIOUS
    <2>1. i = n + 1 \/ i \in 1..n
      BY <1>2
    <2> QED
      BY <1>1, <1>2, <1>3, <2>1
  <1>6. ASSUME NEW i \in 1..n PROVE B[i] < B[i + 1]
    <2>1. CASE i = n
      BY <1>3, <1>4, <2>1
    <2>2. CASE i # n
      <3>1. i + 1 \in 2..n /\ i + 1 \in 1..n /\ (i + 1) - 1 = i
        BY <1>2, <2>2
      <3>2. r.bounds[i] < r.bounds[i + 1]
        BY <1>4, <3>1
      <3> QED
        BY <1>3, <3>1, <3>2
    <2> QED
      BY <2>1, <2>2
  <1> HIDE DEF n
  <1>7. 0 \in N
    BY <1>2
  <1>8. ASSUME NEW m \in Nat, m \in N PROVE m + 1 \in N
    <2> SUFFICES ASSUME NEW k \in 1..(n + 1), NEW l \in 1..(n + 1), k < l, l - k <= m + 1
                 PROVE  B[k] < B[l]
      OBVIOUS
    <2>1. k \in 1..n /\ k + 1 \in 1..(n + 1) /\ B[k] < B[k + 1]
      BY <1>2, <1>6
    <2>2. CASE k + 1 = l
      BY <2>1, <2>2
    <2>3. CASE k + 1 # l
      <3>1. k + 1 < l /\ l - (k + 1) <= m
        BY <1>2, <2>3
      <3>2. B[k + 1] < B[l]
        BY <1>8, <2>1, <3>1
      <3> QED
        BY <1>5, <2>1, <3>2
    <2> QED
      BY <2>2, <2>3
  <1>9. n \in N
    <2> HIDE DEF N
    <2> QED
      BY <1>2, <1>7, <1>8, InductionBySet
  <1>10. \A k, l \in 1..(n + 1) : k < l => B[k] < B[l]
    BY <1>2, <1>9
  <1> QED
    BY <1>10 DEF Increasing, n, B

(* A cumulative count is what the row stores up to its bound.               *)
LEMMA CumulativeIs ==
    ASSUME NEW r \in Row, ~BadLengths(r), ~BadBuckets(r), NEW j \in DOMAIN BoundsOf(r)
    PROVE  j \in DOMAIN r.counts /\ Cumulative(r)[j] = CountUpTo(r, BoundsOf(r)[j])
  <1> DEFINE n == Len(r.bounds) + 1
             B == BoundsOf(r)
  <1>1. DOMAIN B = 1..n /\ n \in Nat /\ \A i \in 1..n : B[i] \in Int
    BY RowBounds, ElementOfSeq
  <1>2. DOMAIN r.counts = 1..n
    <2>1. r.counts \in Seq(Nat)
      BY DEF Row
    <2> QED
      BY <2>1, LenProperties DEF BadLengths
  <1>3. Increasing(B, n)
    BY BoundsIncrease
  <1> HIDE DEF B, n
  <1>4. {i \in DOMAIN r.counts : B[i] <= B[j]} = 1..j
    <2>1. j \in 1..n
      BY <1>1 DEF B
    <2>2. ASSUME NEW i \in 1..n PROVE B[i] <= B[j] <=> i <= j
      <3>1. i < j \/ i = j \/ j < i
        BY <1>1, <2>1
      <3>2. i < j => B[i] < B[j]
        BY <1>3, <2>1 DEF Increasing
      <3>3. j < i => B[j] < B[i]
        BY <1>3, <2>1 DEF Increasing
      <3>4. B[i] \in Int /\ B[j] \in Int
        BY <1>1, <2>1
      <3> QED
        BY <1>1, <2>1, <3>1, <3>2, <3>3, <3>4
    <2> QED
      BY <1>1, <1>2, <2>1, <2>2
  <1>5. j \in DOMAIN r.counts
    BY <1>1, <1>2 DEF B
  <1>6. Cumulative(r)[j] = SumFunctionOnSet(r.counts, 1..j)
    BY <1>5 DEF Cumulative
  <1> QED
    BY <1>4, <1>5, <1>6 DEF CountUpTo, B

(* The point a row adds to the series of a bucket.                          *)
PointFor(r, b) == [t |-> r.t, v |-> IF HasBound(r, b) THEN CountUpTo(r, b) ELSE Stale]

(* One point for each bucket of the row, and at most one for any other.     *)
PointsFrom(r, points) ==
    /\ points \in Seq(KeyedPoint)
    /\ \A i \in DOMAIN points :
          /\ points[i].key = <<LabelsOf[r.id], points[i].key[2]>>
          /\ [t |-> points[i].t, v |-> points[i].v] = PointFor(r, points[i].key[2])
    /\ \A i, j \in DOMAIN points : i < j => points[i].key # points[j].key
    /\ \A b \in Range(BoundsOf(r)) :
          \E i \in DOMAIN points : points[i].key = <<LabelsOf[r.id], b>>

LEMMA RowAdds ==
    ASSUME NEW r \in Row, ~BadLengths(r), ~BadBuckets(r),
           r.id \in DOMAIN built.previous =>
              built.previous[r.id] \subseteq Int /\ IsFiniteSet(built.previous[r.id])
    PROVE  PointsFrom(r, PointsOf(r) \o MarkersOf(r))
  <1> DEFINE n == Len(r.bounds) + 1
             B == BoundsOf(r)
             G == Gone(r)
             m == Cardinality(G)
             gone == Ranked(G, <=)
             p == PointsOf(r)
             q == MarkersOf(r)
             points == p \o q
             L == LabelsOf[r.id]
  <1>1. points \in Seq(KeyedPoint)
    BY RowPoints
  <1>2. DOMAIN B = 1..n /\ n \in Nat /\ (\A i \in 1..n : B[i] \in Int) /\ Increasing(B, n)
    BY RowBounds, ElementOfSeq, BoundsIncrease
  <1>3. G \subseteq Int /\ IsFiniteSet(G)
    BY FS_Subset, FS_EmptySet DEF Gone
  <1>4. m \in Nat /\ gone \in [1..m -> G] /\ Increasing(gone, m)
    BY <1>3, RankedNumbers
  <1>5. G \cap Range(B) = {}
    BY DEF Gone
  <1>6. p = [i \in 1..n |-> Keyed(r, B[i], Cumulative(r)[i])]
    BY <1>2 DEF PointsOf
  <1>7. q = [i \in 1..m |-> Keyed(r, gone[i], Stale)]
    BY <1>4, Zenon DEF MarkersOf
  <1>8. ASSUME NEW i \in 1..n PROVE B[i] \in Range(B)
    BY <1>2 DEF Range
  <1>9. \A x \in Range(B) : \E i \in 1..n : B[i] = x
    BY <1>2 DEF Range
  <1>10. \A i \in 1..n : Cumulative(r)[i] = CountUpTo(r, B[i])
    BY <1>2, CumulativeIs
  <1> DEFINE bound == [i \in 1..(n + m) |-> IF i <= n THEN B[i] ELSE gone[i - n]]
  <1> HIDE DEF B, G, gone, m, n
  <1>11. /\ DOMAIN points = 1..(n + m)
         /\ \A i \in 1..n : points[i] = p[i]
         /\ \A i \in 1..(n + m) : ~(i <= n) => i - n \in 1..m /\ points[i] = q[i - n]
    <2>1. Len(p) = n /\ Len(q) = m /\ p \in Seq(KeyedPoint) /\ q \in Seq(KeyedPoint)
      <3>1. \A i \in 1..n : p[i] \in KeyedPoint
        <4>1. r.id \in DOMAIN LabelsOf /\ r.t \in Int /\ L \in Range(LabelsOf)
          BY DEF Row, Range
        <4>2. \A i \in 1..n : CountUpTo(r, B[i]) \in Int
          BY CountTyped
        <4> QED
          BY <1>2, <1>6, <1>10, <4>1, <4>2 DEF Keyed, KeyedPoint, Keys
      <3>2. \A i \in 1..m : q[i] \in KeyedPoint
        <4>1. r.id \in DOMAIN LabelsOf /\ r.t \in Int /\ L \in Range(LabelsOf)
          BY DEF Row, Range
        <4>2. \A i \in 1..m : gone[i] \in Int
          BY <1>3, <1>4
        <4>3. ASSUME NEW b \in Int PROVE Keyed(r, b, Stale) \in KeyedPoint
          BY <4>1 DEF Keyed, KeyedPoint, Keys
        <4> QED
          BY <1>7, <4>2, <4>3
      <3> HIDE DEF p, q
      <3>3. p = [i \in 1..n |-> p[i]] /\ q = [i \in 1..m |-> q[i]]
        BY <1>6, <1>7
      <3> QED
        BY <1>2, <1>4, <3>1, <3>2, <3>3, SequenceOf
    <2> HIDE DEF p, q
    <2>2. Len(points) = n + m
      BY <2>1, ConcatProperties
    <2>3. \A i \in 1..(n + m) : points[i] = IF i <= n THEN p[i] ELSE q[i - n]
      BY <2>1, ConcatProperties
    <2>4. DOMAIN points = 1..(n + m)
      BY <1>1, <2>2, LenProperties
    <2> HIDE DEF points
    <2> QED
      BY <1>2, <1>4, <2>3, <2>4
  <1>12. ASSUME NEW i \in 1..(n + m)
         PROVE  /\ points[i].key = <<L, bound[i]>>
                /\ [t |-> points[i].t, v |-> points[i].v] = PointFor(r, bound[i])
    <2>1. CASE i <= n
      <3>1. i \in 1..n
        BY <1>2, <2>1
      <3>2. points[i] = Keyed(r, B[i], CountUpTo(r, B[i])) /\ bound[i] = B[i]
        BY <1>6, <1>10, <1>11, <2>1, <3>1
      <3>3. HasBound(r, B[i])
        BY <1>8, <3>1 DEF HasBound, B
      <3> HIDE DEF points, bound
      <3> QED
        BY <3>2, <3>3 DEF Keyed, PointFor
    <2>2. CASE ~(i <= n)
      <3>1. i - n \in 1..m /\ points[i] = Keyed(r, gone[i - n], Stale) /\ bound[i] = gone[i - n]
        BY <1>7, <1>11, <2>2
      <3>2. ~HasBound(r, bound[i])
        BY <1>4, <1>5, <3>1 DEF HasBound, B
      <3> HIDE DEF points, bound
      <3> QED
        BY <3>1, <3>2 DEF Keyed, PointFor
    <2> QED
      BY <2>1, <2>2
  <1>13. ASSUME NEW i \in 1..(n + m), NEW j \in 1..(n + m), i < j PROVE bound[i] # bound[j]
    <2>1. CASE j <= n
      <3>1. i \in 1..n /\ j \in 1..n /\ i <= n
        BY <1>2, <1>4, <1>13, <2>1
      <3>2. B[i] < B[j] /\ B[i] \in Int
        BY <1>2, <1>13, <3>1 DEF Increasing
      <3> QED
        BY <2>1, <3>1, <3>2
    <2>2. CASE ~(j <= n) /\ i <= n
      <3>1. i \in 1..n /\ j - n \in 1..m
        BY <1>2, <1>4, <2>2
      <3>2. B[i] \in Range(B) /\ gone[j - n] \in G
        BY <1>4, <1>8, <3>1
      <3> QED
        BY <1>5, <2>2, <3>2
    <2>3. CASE ~(j <= n) /\ ~(i <= n)
      <3>1. i - n \in 1..m /\ j - n \in 1..m /\ i - n < j - n
        BY <1>2, <1>4, <1>13, <2>3
      <3>2. gone[i - n] < gone[j - n] /\ gone[i - n] \in Int
        BY <1>3, <1>4, <3>1 DEF Increasing
      <3> QED
        BY <2>3, <3>2
    <2> QED
      BY <2>1, <2>2, <2>3
  <1>14. ASSUME NEW b \in Range(B) PROVE \E i \in 1..(n + m) : bound[i] = b
    <2>1. PICK i \in 1..n : B[i] = b
      BY <1>9
    <2>2. i \in 1..(n + m) /\ i <= n
      BY <1>2, <1>4
    <2> QED
      BY <2>1, <2>2
  <1> HIDE DEF points, bound
  <1>15. \A i \in DOMAIN points :
           /\ points[i].key = <<LabelsOf[r.id], points[i].key[2]>>
           /\ [t |-> points[i].t, v |-> points[i].v] = PointFor(r, points[i].key[2])
    BY <1>11, <1>12
  <1>16. ASSUME NEW i \in DOMAIN points, NEW j \in DOMAIN points, i < j
         PROVE  points[i].key # points[j].key
    <2>1. bound[i] # bound[j]
      BY <1>11, <1>13, <1>16
    <2>2. points[i].key = <<L, bound[i]>> /\ points[j].key = <<L, bound[j]>>
      BY <1>11, <1>12
    <2> QED
      BY <2>1, <2>2
  <1>17. ASSUME NEW b \in Range(BoundsOf(r))
         PROVE  \E i \in DOMAIN points : points[i].key = <<LabelsOf[r.id], b>>
    <2>1. PICK i \in 1..(n + m) : bound[i] = b
      BY <1>14 DEF B
    <2> QED
      BY <1>11, <1>12, <2>1
  <1> QED
    BY <1>1, <1>15, <1>16, <1>17 DEF PointsFrom, points
(* A point with the key of a series is appended to it, and no other.        *)
LEMMA AppendedOne ==
    ASSUME NEW series, SeriesOk(series), NEW r \in Row, NEW points, PointsFrom(r, points),
           NEW k \in DOMAIN AppendTo(series, points), NEW old,
           old = IF k \in DOMAIN series THEN series[k] ELSE <<>>
    PROVE  \/ /\ k \in DOMAIN series /\ AppendTo(series, points)[k] = old
              /\ ~(k[1] = LabelsOf[r.id] /\ HasBound(r, k[2]))
           \/ /\ k[1] = LabelsOf[r.id]
              /\ AppendTo(series, points)[k] = Append(old, PointFor(r, k[2]))
  <1> DEFINE I == {i \in DOMAIN points : points[i].key = k}
             added == Picked(points, I)
             tail == [i \in DOMAIN added |-> [t |-> added[i].t, v |-> added[i].v]]
             n == Cardinality(I)
  <1>1. points \in Seq(KeyedPoint) /\ DOMAIN points = 1..Len(points) /\ Len(points) \in Nat
    BY LenProperties DEF PointsFrom
  <1>2. AppendTo(series, points)[k] = old \o tail
    BY DEF AppendTo
  <1>3. old \in Seq(Point)
    BY EmptySeq DEF SeriesOk
  <1>4. added \in Seq(KeyedPoint) /\ Len(added) = n /\ n \in Nat
    BY <1>1, PickedElements
  <1>5. PICK order \in [1..n -> I] :
                /\ \A x \in I : \E j \in 1..n : order[j] = x
                /\ \A j \in 1..n : added[j] = points[order[j]]
    <2>1. I \in SUBSET DOMAIN points
      OBVIOUS
    <2> HIDE DEF I
    <2> QED
      BY <1>1, <2>1, PickedElements
  <1>6. DOMAIN added = 1..n
    BY <1>4, LenProperties
  <1> HIDE DEF added, n
  <1>7. CASE I = {}
    <2>1. n = 0
      BY <1>7, FS_EmptySet DEF n
    <2>2. tail = <<>>
      BY <1>6, <2>1
    <2>3. old \o tail = old
      BY <1>3, <2>2, ConcatEmptySeq
    <2>4. k \in DOMAIN series
      BY <1>7 DEF AppendTo, Range
    <2>5. ~(k[1] = LabelsOf[r.id] /\ HasBound(r, k[2]))
      <3> SUFFICES ASSUME k[1] = LabelsOf[r.id], HasBound(r, k[2]) PROVE FALSE
        OBVIOUS
      <3>1. PICK i \in DOMAIN points : points[i].key = <<LabelsOf[r.id], k[2]>>
        BY DEF PointsFrom, HasBound
      <3>2. k \in Keys
        BY <2>4 DEF SeriesOk
      <3>3. k = <<k[1], k[2]>>
        BY <3>2 DEF Keys
      <3> QED
        BY <1>7, <3>1, <3>3
    <2> QED
      BY <1>2, <2>3, <2>4, <2>5
  <1>8. CASE I # {}
    <2>1. PICK i \in I : TRUE
      BY <1>8
    <2>2. \A j \in I : j = i
      <3>1. \A j, l \in I : j \in Int /\ ~(j < l)
        BY <1>1 DEF PointsFrom
      <3> QED
        BY <3>1
    <2>3. I = {i}
      BY <2>1, <2>2
    <2>4. n = 1
      BY <2>3, FS_Singleton DEF n
    <2> HIDE DEF I
    <2>5. added[1] = points[i]
      BY <1>5, <2>2, <2>4
    <2>6. tail = <<PointFor(r, k[2])>> /\ k[1] = LabelsOf[r.id]
      <3>1. /\ points[i].key = <<LabelsOf[r.id], points[i].key[2]>>
            /\ [t |-> points[i].t, v |-> points[i].v] = PointFor(r, points[i].key[2])
            /\ points[i].key = k
        BY <2>1 DEF I, PointsFrom
      <3>2. tail = [j \in 1..1 |-> [t |-> added[j].t, v |-> added[j].v]]
        BY <1>6, <2>4
      <3>3. tail = [j \in 1..1 |-> PointFor(r, k[2])]
        BY <2>5, <3>1, <3>2
      <3> HIDE DEF tail
      <3> QED
        BY <3>1, <3>3
    <2> HIDE DEF tail
    <2>7. PointFor(r, k[2]) \in Point
      <3>1. r.t \in Int /\ CountUpTo(r, k[2]) \in Int
        BY CountTyped DEF Row
      <3> QED
        BY <3>1 DEF Point, PointFor
    <2>8. old \o tail = Append(old, PointFor(r, k[2]))
      BY <1>3, <2>6, <2>7, AppendIsConcat
    <2> QED
      BY <1>2, <2>6, <2>8
  <1> QED
    BY <1>7, <1>8

(* A series of the builder after n rows: its points come from rows of its   *)
(* labels, in their order, and each row that has its bound gave one.        *)
LabelAt(i) == LabelsOf[GeneralRows[i].id]
Traced(order, s, k, n) ==
    /\ s \in Seq(Point) /\ order \in [1..Len(s) -> 1..n] /\ Increasing(order, Len(s))
    /\ \A j \in 1..Len(s) : LabelAt(order[j]) = k[1] /\ s[j] = PointFor(GeneralRows[order[j]], k[2])
    /\ \A i \in 1..n : LabelAt(i) = k[1] /\ HasBound(GeneralRows[i], k[2])
                         => \E j \in 1..Len(s) : order[j] = i

LEMMA TraceKept ==
    ASSUME NEW n \in Nat, NEW s, NEW k, NEW order, Traced(order, s, k, n),
           ~(LabelAt(n + 1) = k[1] /\ HasBound(GeneralRows[n + 1], k[2]))
    PROVE  Traced(order, s, k, n + 1)
  <1>1. \A i \in 1..(n + 1) : i \in 1..n \/ i = n + 1
    OBVIOUS
  <1>2. s \in Seq(Point) /\ order \in [1..Len(s) -> 1..n]
    BY DEF Traced
  <1>3. order \in [1..Len(s) -> 1..(n + 1)]
    <2>1. 1..n \subseteq 1..(n + 1)
      OBVIOUS
    <2> QED
      BY <1>2, <2>1
  <1>4. \A i \in 1..(n + 1) : LabelAt(i) = k[1] /\ HasBound(GeneralRows[i], k[2])
                                => \E j \in 1..Len(s) : order[j] = i
    BY <1>1 DEF Traced
  <1> QED
    BY <1>2, <1>3, <1>4 DEF Traced

LEMMA TraceGrows ==
    ASSUME NEW n \in Nat, NEW s, NEW k, NEW order, Traced(order, s, k, n),
           LabelAt(n + 1) = k[1], PointFor(GeneralRows[n + 1], k[2]) \in Point
    PROVE  \E longer : Traced(longer, Append(s, PointFor(GeneralRows[n + 1], k[2])), k, n + 1)
  <1> DEFINE p == PointFor(GeneralRows[n + 1], k[2])
             u == Append(s, p)
             m == Len(s)
             longer == [j \in 1..(m + 1) |-> IF j <= m THEN order[j] ELSE n + 1]
  <1>1. /\ s \in Seq(Point) /\ order \in [1..m -> 1..n] /\ Increasing(order, m)
        /\ \A j \in 1..m : LabelAt(order[j]) = k[1] /\ s[j] = PointFor(GeneralRows[order[j]], k[2])
        /\ \A i \in 1..n : LabelAt(i) = k[1] /\ HasBound(GeneralRows[i], k[2])
                             => \E j \in 1..m : order[j] = i
    BY DEF Traced
  <1>2. m \in Nat /\ u \in Seq(Point) /\ Len(u) = m + 1 /\ u[m + 1] = p
        /\ \A j \in 1..m : u[j] = s[j]
    BY <1>1, LenProperties, AppendProperties
  <1> HIDE DEF u, m
  <1>3. \A j \in 1..(m + 1) : (j \in 1..m /\ longer[j] = order[j] /\ longer[j] \in 1..n)
                               \/ (j = m + 1 /\ longer[j] = n + 1)
    <2> SUFFICES ASSUME NEW j \in 1..(m + 1)
                 PROVE  (j \in 1..m /\ longer[j] = order[j] /\ longer[j] \in 1..n)
                               \/ (j = m + 1 /\ longer[j] = n + 1)
      OBVIOUS
    <2>1. CASE j <= m
      <3>1. j \in 1..m
        BY <1>2, <2>1
      <3> QED
        BY <1>1, <2>1, <3>1
    <2>2. CASE ~(j <= m)
      <3>1. j = m + 1
        BY <1>2, <2>2
      <3> QED
        BY <2>2, <3>1
    <2> QED
      BY <2>1, <2>2
  <1>4. DOMAIN longer = 1..(m + 1) /\ longer = [j \in 1..(m + 1) |-> longer[j]]
    OBVIOUS
  <1> HIDE DEF longer, p
  <1>5. longer \in [1..(m + 1) -> 1..(n + 1)]
    <2>1. \A j \in 1..(m + 1) : longer[j] \in 1..(n + 1)
      BY <1>3
    <2> QED
      BY <1>4, <2>1
  <1>6. Increasing(longer, m + 1)
    <2> SUFFICES ASSUME NEW j \in 1..(m + 1), NEW l \in 1..(m + 1), j < l
                 PROVE  longer[j] < longer[l]
      BY DEF Increasing
    <2>1. j \in 1..m /\ longer[j] = order[j] /\ longer[j] \in 1..n
      BY <1>2, <1>3
    <2>2. CASE l \in 1..m /\ longer[l] = order[l]
      BY <1>1, <2>1, <2>2 DEF Increasing
    <2>3. CASE longer[l] = n + 1
      BY <2>1, <2>3
    <2> QED
      BY <1>3, <2>2, <2>3
  <1>7. \A j \in 1..(m + 1) : LabelAt(longer[j]) = k[1]
                              /\ u[j] = PointFor(GeneralRows[longer[j]], k[2])
    <2>1. p = PointFor(GeneralRows[n + 1], k[2])
      BY DEF p
    <2> QED
      BY <1>1, <1>2, <1>3, <2>1
  <1>8. ASSUME NEW i \in 1..(n + 1), LabelAt(i) = k[1], HasBound(GeneralRows[i], k[2])
        PROVE  \E j \in 1..(m + 1) : longer[j] = i
    <2>1. CASE i = n + 1
      <3>1. m + 1 \in 1..(m + 1) /\ ~(m + 1 \in 1..m)
        BY <1>2
      <3> QED
        BY <1>3, <2>1, <3>1
    <2>2. CASE i # n + 1
      <3>1. i \in 1..n
        BY <2>2
      <3>2. PICK j \in 1..m : order[j] = i
        BY <1>1, <1>8, <3>1
      <3>3. j \in 1..(m + 1) /\ j # m + 1
        BY <1>2
      <3> QED
        BY <1>3, <3>2, <3>3
    <2> QED
      BY <2>1, <2>2
  <1>9. Traced(longer, u, k, n + 1)
    BY <1>2, <1>5, <1>6, <1>7, <1>8 DEF Traced
  <1> QED
    BY <1>9 DEF u, p
(* The builder's series after n rows are those of the rows' buckets.        *)
Collected(n, series, temporality) ==
    /\ n \in 0..Len(GeneralRows)
    /\ \A i \in 1..n :
          /\ LabelAt(i) \in DOMAIN temporality
          /\ temporality[LabelAt(i)] = GeneralRows[i].temporality
          /\ \A b \in Range(BoundsOf(GeneralRows[i])) : <<LabelAt(i), b>> \in DOMAIN series
    /\ \A k \in DOMAIN series :
          /\ \E i \in 1..n : LabelAt(i) = k[1]
          /\ \E order : Traced(order, series[k], k, n)

(* A label set keeps its temporality.                                       *)
LEMMA CollectedRow ==
    ASSUME store \in Stores, NEW n \in Nat, n < Len(GeneralRows),
           NEW series, SeriesOk(series), NEW temporality, Collected(n, series, temporality),
           NEW r, r = GeneralRows[n + 1], NEW points, PointsFrom(r, points),
           LabelsOf[r.id] \in DOMAIN temporality => temporality[LabelsOf[r.id]] = r.temporality
    PROVE  Collected(n + 1, AppendTo(series, points),
                     [k \in DOMAIN temporality \cup {LabelsOf[r.id]} |->
                        IF k = LabelsOf[r.id] THEN r.temporality ELSE temporality[k]])
  <1> DEFINE L == LabelsOf[r.id]
             T == [k \in DOMAIN temporality \cup {L} |->
                     IF k = L THEN r.temporality ELSE temporality[k]]
             U == AppendTo(series, points)
  <1>1. GeneralRows \in Seq(Row) /\ Len(GeneralRows) \in Nat
    BY GeneralRowsTyped, LenProperties
  <1>2. r \in Row /\ LabelAt(n + 1) = L
    <2>1. n + 1 \in 1..Len(GeneralRows)
      BY <1>1
    <2> QED
      BY <1>1, <2>1, ElementOfSeq DEF LabelAt
  <1>3. n + 1 \in 0..Len(GeneralRows)
    BY <1>1
  <1>4. DOMAIN U = DOMAIN series \cup {p.key : p \in Range(points)}
    BY DEF AppendTo
  <1>5. ASSUME NEW i \in 1..(n + 1)
        PROVE  LabelAt(i) \in DOMAIN T /\ T[LabelAt(i)] = GeneralRows[i].temporality
    <2>1. CASE i = n + 1
      BY <1>2, <2>1
    <2>2. CASE i # n + 1
      <3>1. i \in 1..n
        BY <2>2
      <3>2. LabelAt(i) \in DOMAIN temporality /\ temporality[LabelAt(i)] = GeneralRows[i].temporality
        BY <3>1 DEF Collected
      <3> QED
        BY <3>2
    <2> QED
      BY <2>1, <2>2
  <1>6. ASSUME NEW i \in 1..(n + 1), NEW b \in Range(BoundsOf(GeneralRows[i]))
        PROVE  <<LabelAt(i), b>> \in DOMAIN U
    <2>1. CASE i = n + 1
      <3>1. PICK j \in DOMAIN points : points[j].key = <<L, b>>
        BY <2>1 DEF PointsFrom
      <3> QED
        BY <1>2, <1>4, <2>1, <3>1 DEF Range
    <2>2. CASE i # n + 1
      <3>1. i \in 1..n
        BY <2>2
      <3> QED
        BY <1>4, <3>1 DEF Collected
    <2> QED
      BY <2>1, <2>2
  <1>7. ASSUME NEW k \in DOMAIN U
        PROVE  (\E i \in 1..(n + 1) : LabelAt(i) = k[1]) /\ \E order : Traced(order, U[k], k, n + 1)
    <2> DEFINE old == IF k \in DOMAIN series THEN series[k] ELSE <<>>
    <2>1. \E order : Traced(order, old, k, n)
      <3>1. CASE k \in DOMAIN series
        BY <3>1 DEF Collected
      <3>2. CASE k \notin DOMAIN series
        <4>1. old = <<>> /\ old \in Seq(Point) /\ Len(old) = 0
          BY <3>2, EmptySeq
        <4>2. \A i \in 1..n : ~(LabelAt(i) = k[1] /\ HasBound(GeneralRows[i], k[2]))
          <5> SUFFICES ASSUME NEW i \in 1..n, LabelAt(i) = k[1], HasBound(GeneralRows[i], k[2])
                       PROVE  FALSE
            OBVIOUS
          <5>1. <<k[1], k[2]>> \in DOMAIN series
            BY DEF Collected, HasBound
          <5>2. k = <<k[1], k[2]>>
            <6>1. k \in {p.key : p \in Range(points)}
              BY <1>4, <3>2
            <6>2. PICK j \in DOMAIN points : k = points[j].key
              BY <6>1 DEF Range
            <6>3. k = <<L, k[2]>>
              BY <6>2 DEF PointsFrom
            <6> HIDE DEF L
            <6>4. k[1] = L
              BY <6>3
            <6> QED
              BY <6>3, <6>4
          <5> QED
            BY <3>2, <5>1, <5>2
        <4> DEFINE order == [j \in 1..0 |-> 1]
        <4>3. order \in [1..0 -> 1..n] /\ Increasing(order, 0)
          BY DEF Increasing
        <4> HIDE DEF order, old
        <4>4. Traced(order, old, k, n)
          BY <4>1, <4>2, <4>3 DEF Traced
        <4> QED
          BY <4>4
      <3> QED
        BY <3>1, <3>2
    <2>2. PICK order : Traced(order, old, k, n)
      BY <2>1
    <2>3. \/ /\ k \in DOMAIN series /\ U[k] = old
             /\ ~(k[1] = L /\ HasBound(r, k[2]))
          \/ /\ k[1] = L /\ U[k] = Append(old, PointFor(r, k[2]))
      <3> HIDE DEF old
      <3>1. old = IF k \in DOMAIN series THEN series[k] ELSE <<>>
        BY DEF old
      <3> QED
        BY <1>2, <3>1, AppendedOne
    <2> HIDE DEF old, U, T
    <2>4. CASE /\ k \in DOMAIN series /\ U[k] = old
               /\ ~(k[1] = L /\ HasBound(r, k[2]))
      <3>1. PICK i \in 1..n : LabelAt(i) = k[1]
        BY <2>4 DEF Collected
      <3>2. i \in 1..(n + 1)
        OBVIOUS
      <3>3. Traced(order, old, k, n + 1)
        BY <1>2, <2>2, <2>4, TraceKept
      <3> QED
        BY <2>4, <3>1, <3>2, <3>3
    <2>5. CASE k[1] = L /\ U[k] = Append(old, PointFor(r, k[2]))
      <3>1. PointFor(r, k[2]) \in Point
        <4>1. r.t \in Int /\ CountUpTo(r, k[2]) \in Int
          BY <1>2, CountTyped DEF Row
        <4> QED
          BY <4>1 DEF Point, PointFor
      <3>2. n + 1 \in 1..(n + 1) /\ LabelAt(n + 1) = k[1]
        BY <1>2, <2>5
      <3>3. \E longer : Traced(longer, Append(old, PointFor(GeneralRows[n + 1], k[2])), k, n + 1)
        BY <2>2, <3>1, <3>2, TraceGrows
      <3> QED
        BY <2>5, <3>2, <3>3
    <2> QED
      BY <2>3, <2>4, <2>5
  <1> HIDE DEF U, T
  <1>8. Collected(n + 1, U, T)
    BY <1>3, <1>5, <1>6, <1>7 DEF Collected
  <1> QED
    BY <1>8 DEF U, T

(* Every row of the general read is collected, or the query fails.          *)
LEMMA CollectedNext ==
    ASSUME Inv, Collected(row, built.series, built.temporality), BuildAdd
    PROVE  \/ phase' = "failed"
           \/ phase' = "build" /\ Collected(row, built.series, built.temporality)'
  <1> DEFINE r == GeneralRows[row + 1]
             L == LabelsOf[r.id]
             points == PointsOf(r) \o MarkersOf(r)
             series == AppendTo(built.series, points)
             T == [k \in DOMAIN built.temporality \cup {L} |->
                     IF k = L THEN r.temporality ELSE built.temporality[k]]
  <1>1. /\ phase = "build" /\ row \in Nat /\ store \in Stores /\ BuiltOk
        /\ row < Len(GeneralRows) /\ BuildRow(r, L, points) /\ UNCHANGED <<store, plan>>
    BY DEF BuildAdd, Inv
  <1>2. r \in Row
    <2>1. GeneralRows \in Seq(Row)
      BY <1>1, GeneralRowsTyped
    <2> HIDE DEF r
    <2>2. row + 1 \in DOMAIN GeneralRows
      BY <1>1, <2>1, LenProperties
    <2> QED
      BY <2>1, <2>2, ElementOfSeq DEF r
  <1>3. SeriesOk(built.series)
    BY <1>1 DEF BuiltOk
  <1>4. r = GeneralRows[row + 1]
    OBVIOUS
  <1> HIDE DEF r
  <1>5. ASSUME ~BadLengths(r), ~BadBuckets(r),
               ~(L \in DOMAIN built.temporality /\ built.temporality[L] # r.temporality),
               built'.series = series, built'.temporality = T, row' = row + 1, phase' = phase
        PROVE  phase' = "build" /\ Collected(row, built.series, built.temporality)'
    <2>1. PointsFrom(r, points)
      BY <1>1, <1>2, <1>5, RowAdds DEF BuiltOk
    <2> HIDE DEF points
    <2>2. Collected(row + 1, series, T)
      BY <1>1, <1>3, <1>4, <1>5, <2>1, CollectedRow
    <2> HIDE DEF series, T
    <2>3. GeneralRows' = GeneralRows
      BY <1>1 DEF GeneralRows, RowsFrom, End, GridTime
    <2>4. \A i : LabelAt(i)' = LabelAt(i)
      BY <1>1, <2>3 DEF LabelAt
    <2>5. \A order, s, k, n : Traced(order, s, k, n)' <=> Traced(order, s, k, n)
      BY <2>3, <2>4 DEF Traced
    <2>6. Collected(row, built.series, built.temporality)'
      BY <1>5, <2>2, <2>3, <2>4, <2>5 DEF Collected
    <2> QED
      BY <1>1, <1>5, <2>6
  <1> HIDE DEF points, L
  <1>6. \/ phase' = "failed"
        \/ /\ ~BadLengths(r) /\ ~BadBuckets(r)
           /\ ~(L \in DOMAIN built.temporality /\ built.temporality[L] # r.temporality)
           /\ built'.series = series /\ built'.temporality = T /\ row' = row + 1 /\ phase' = phase
    <2>1. \/ phase' = "failed"
          \/ /\ ~BadLengths(r) /\ ~BadBuckets(r)
             /\ ~(L \in DOMAIN built.temporality /\ built.temporality[L] # r.temporality)
             /\ built' = [series |-> series,
                          previous |-> [k \in DOMAIN built.previous \cup {r.id} |->
                             IF k = r.id THEN Range(BoundsOf(r)) ELSE built.previous[k]],
                          temporality |-> T, samples |-> built.samples + Len(points)]
             /\ row' = row + 1 /\ phase' = phase
      BY <1>1, Zenon DEF BuildRow
    <2> HIDE DEF series, T
    <2> QED
      BY <2>1
  <1> QED
    BY <1>5, <1>6
-----------------------------------------------------------------------------
(* What was stored and what was built.                                      *)

(* A sum may be taken over other indices of the same terms.                 *)
Renames(h, S, T) ==
    /\ \A x \in S : h[x] \in T
    /\ \A x, y \in S : h[x] = h[y] => x = y
    /\ \A z \in T : \E x \in S : h[x] = z

LEMMA SameTerms ==
    ASSUME NEW S, NEW f, Terms(f, S), NEW T, NEW g, Terms(g, T), NEW h, Renames(h, S, T),
           \A x \in S : f[x] = g[h[x]]
    PROVE  SumFunctionOnSet(f, S) = SumFunctionOnSet(g, T)
  <1> DEFINE Image(A) == {h[x] : x \in A}
             N == {n \in Nat : \A A \in SUBSET S : Cardinality(A) = n =>
                      SumFunctionOnSet(f, A) = SumFunctionOnSet(g, Image(A))}
  <1>1. \A A \in SUBSET S : IsFiniteSet(A) /\ Cardinality(A) \in Nat
    BY FS_Subset, FS_CardinalityType DEF Terms
  <1>2. 0 \in N
    <2> SUFFICES ASSUME NEW A \in SUBSET S, Cardinality(A) = 0
                 PROVE  SumFunctionOnSet(f, A) = SumFunctionOnSet(g, Image(A))
      OBVIOUS
    <2>1. A = {}
      BY <1>1, FS_EmptySet
    <2>2. Image(A) = {}
      BY <2>1
    <2> QED
      BY <2>1, <2>2, EmptySum
  <1>3. ASSUME NEW n \in Nat, n \in N PROVE n + 1 \in N
    <2> SUFFICES ASSUME NEW A \in SUBSET S, Cardinality(A) = n + 1
                 PROVE  SumFunctionOnSet(f, A) = SumFunctionOnSet(g, Image(A))
      OBVIOUS
    <2>1. A # {} /\ IsFiniteSet(A)
      BY <1>1, FS_EmptySet
    <2>2. PICK x : x \in A
      BY <2>1
    <2> DEFINE B == A \ {x}
    <2>3. Cardinality(B) = n /\ B \in SUBSET S
      <3>1. Cardinality(B) = Cardinality(A) - 1
        BY <2>1, <2>2, FS_RemoveElement
      <3> QED
        BY <3>1
    <2>4. SumFunctionOnSet(f, B) = SumFunctionOnSet(g, Image(B))
      BY <1>3, <2>3
    <2>5. Image(B) = Image(A) \ {h[x]} /\ h[x] \in Image(A) /\ Image(A) \in SUBSET T
      BY <2>2 DEF Renames
    <2> HIDE DEF Image, B
    <2>6. SumFunctionOnSet(f, A) = f[x] + SumFunctionOnSet(f, B)
      <3>1. Terms(f, A)
        BY FewerTerms
      <3> QED
        BY <2>2, <3>1, SumRemove DEF B
    <2>7. SumFunctionOnSet(g, Image(A)) = g[h[x]] + SumFunctionOnSet(g, Image(B))
      <3>1. Terms(g, Image(A))
        BY <2>5, FewerTerms
      <3> QED
        BY <2>5, <3>1, SumRemove
    <2> QED
      BY <2>2, <2>4, <2>6, <2>7
  <1>4. \A n \in Nat : n \in N
    <2> HIDE DEF N
    <2> QED
      BY <1>2, <1>3, InductionBySet
  <1>5. SumFunctionOnSet(f, S) = SumFunctionOnSet(g, Image(S))
    BY <1>1, <1>4
  <1>6. Image(S) = T
    BY DEF Renames
  <1> QED
    BY <1>5, <1>6

(* The rows of a label set that have a bound; what they store up to it, and *)
(* their total up to a time.                                                *)
RowsOfBucket(L, b) ==
    {i \in DOMAIN GeneralRows : LabelAt(i) = L /\ HasBound(GeneralRows[i], b)}
StoredCounts(L, b) == [i \in RowsOfBucket(L, b) |-> CountUpTo(GeneralRows[i], b)]
TotalUntil(L, b, t) ==
    SumFunctionOnSet(StoredCounts(L, b), {i \in RowsOfBucket(L, b) : GeneralRows[i].t <= t})

(* The points of a series that are not stale are those of the rows.         *)
Fresh(u) == {i \in DOMAIN u : u[i].v # Stale}
Holds(u, h, L, b) ==
    /\ u \in Seq(Point) /\ Renames(h, Fresh(u), RowsOfBucket(L, b))
    /\ \A i \in Fresh(u) : u[i] = [t |-> GeneralRows[h[i]].t, v |-> CountUpTo(GeneralRows[h[i]], b)]

LEMMA BucketRows ==
    ASSUME store \in Stores, NEW L, NEW b
    PROVE  /\ IsFiniteSet(RowsOfBucket(L, b))
           /\ \A i \in RowsOfBucket(L, b) :
                /\ GeneralRows[i] \in Row /\ GeneralRows[i].t \in Int
                /\ CountUpTo(GeneralRows[i], b) \in Int
                /\ StoredCounts(L, b)[i] = CountUpTo(GeneralRows[i], b)
  <1> DEFINE D == DOMAIN GeneralRows
  <1>1. GeneralRows \in Seq(Row) /\ D = 1..Len(GeneralRows) /\ Len(GeneralRows) \in Nat
    BY GeneralRowsTyped, LenProperties
  <1>2. IsFiniteSet(D) /\ RowsOfBucket(L, b) \in SUBSET D
    <2>1. IsFiniteSet(1..Len(GeneralRows))
      BY <1>1, FS_Interval
    <2> QED
      BY <1>1, <2>1 DEF RowsOfBucket
  <1>3. IsFiniteSet(RowsOfBucket(L, b))
    BY <1>2, FS_Subset
  <1>4. ASSUME NEW i \in RowsOfBucket(L, b)
        PROVE  /\ GeneralRows[i] \in Row /\ GeneralRows[i].t \in Int
               /\ CountUpTo(GeneralRows[i], b) \in Int
    <2>1. GeneralRows[i] \in Row
      BY <1>1, <1>2, ElementOfSeq
    <2> QED
      BY <2>1, CountTyped DEF Row
  <1> QED
    BY <1>3, <1>4 DEF StoredCounts

(* Such a series has the rows' totals.                                      *)
LEMMA HeldTotal ==
    ASSUME store \in Stores, NEW u, NEW h, NEW L, NEW b, Holds(u, h, L, b), NEW t
    PROVE  SumFunctionOnSet(Values(u), {i \in Fresh(u) : u[i].t <= t}) = TotalUntil(L, b, t)
  <1> DEFINE J == RowsOfBucket(L, b)
             C == StoredCounts(L, b)
             S == {i \in Fresh(u) : u[i].t <= t}
             T == {i \in J : GeneralRows[i].t <= t}
  <1>1. u \in Seq(Point) /\ Renames(h, Fresh(u), J)
        /\ \A i \in Fresh(u) : u[i] = [t |-> GeneralRows[h[i]].t, v |-> CountUpTo(GeneralRows[h[i]], b)]
    BY DEF Holds
  <1>2. ASSUME NEW i \in Fresh(u)
        PROVE  u[i].t = GeneralRows[h[i]].t /\ u[i].v = CountUpTo(GeneralRows[h[i]], b)
    <2>1. u[i] = [t |-> GeneralRows[h[i]].t, v |-> CountUpTo(GeneralRows[h[i]], b)]
      BY <1>1
    <2> QED
      BY ONLY <2>1
  <1>3. \A i \in Fresh(u) : Values(u)[i] = u[i].v
    BY DEF Values, Fresh
  <1>4. IsFiniteSet(J) /\ \A i \in J : C[i] = CountUpTo(GeneralRows[i], b) /\ C[i] \in Int
    BY BucketRows
  <1> HIDE DEF J, C
  <1>5. Terms(C, T)
    <2>1. IsFiniteSet(T)
      BY <1>4, FS_Subset
    <2> QED
      BY <1>4, <2>1 DEF Terms
  <1>6. \A i \in S : Values(u)[i] = C[h[i]] /\ h[i] \in T
    BY <1>1, <1>2, <1>3, <1>4 DEF Renames
  <1>7. Terms(Values(u), S)
    <2>1. IsFiniteSet(S)
      <3>1. S \in SUBSET DOMAIN u
        BY DEF Fresh
      <3> HIDE DEF S
      <3> QED
        BY <1>1, <3>1, TimeOrderTotal, FS_Subset
    <2> QED
      BY <1>4, <1>6, <2>1 DEF Terms
  <1>8. Renames(h, S, T)
    BY <1>1, <1>2 DEF Renames
  <1> HIDE DEF S, T
  <1>9. SumFunctionOnSet(Values(u), S) = SumFunctionOnSet(C, T)
    BY <1>5, <1>6, <1>7, <1>8, SameTerms
  <1> QED
    BY <1>9 DEF S, T, J, C, TotalUntil

(* Such a series has the rows' points.                                      *)
LEMMA HeldPoints ==
    ASSUME NEW u, NEW h, NEW L, NEW b, Holds(u, h, L, b)
    PROVE  {u[i] : i \in Fresh(u)}
             = {[t |-> GeneralRows[i].t, v |-> CountUpTo(GeneralRows[i], b)] : i \in RowsOfBucket(L, b)}
  <1> DEFINE J == RowsOfBucket(L, b)
             point(i) == [t |-> GeneralRows[i].t, v |-> CountUpTo(GeneralRows[i], b)]
  <1>1. Renames(h, Fresh(u), J) /\ \A i \in Fresh(u) : u[i] = point(h[i])
    BY DEF Holds
  <1> HIDE DEF J, point
  <1>2. {u[i] : i \in Fresh(u)} = {point(i) : i \in J}
    BY <1>1 DEF Renames
  <1> QED
    BY <1>2 DEF J, point

(* A running total of a series has one point for each time with a fresh     *)
(* point, and otherwise markers.                                            *)
LEMMA AccumulatedRange ==
    ASSUME NEW s \in Seq(Point)
    PROVE  Range(NonStale(Accumulate(s)))
             = {[t |-> s[j].t,
                 v |-> SumFunctionOnSet(Values(s), {i \in Fresh(s) : s[i].t <= s[j].t})] : j \in Fresh(s)}
  <1> DEFINE times == Ranked(TimesOf(s), <=)
             n == Cardinality(TimesOf(s))
             Finite(I) == {i \in I : s[i].v # Stale}
             At(t) == Finite({i \in DOMAIN s : s[i].t = t})
             Until(t) == Finite({i \in DOMAIN s : s[i].t <= t})
             total(t) == SumFunctionOnSet(Values(s), {i \in Fresh(s) : s[i].t <= t})
             val(t) == IF At(t) = {} THEN Stale ELSE total(t)
             u == [k \in DOMAIN times |-> [t |-> times[k], v |-> val(times[k])]]
  <1>1. Accumulate(s) = u
    <2>1. \A t : Until(t) = {i \in Fresh(s) : s[i].t <= t}
      BY DEF Fresh
    <2> QED
      BY <2>1, Zenon DEF Accumulate, TimesOf
  <1>2. n \in Nat /\ times \in [1..n -> TimesOf(s)] /\ \A x \in TimesOf(s) : \E k \in 1..n : times[k] = x
    <2>1. TimesOf(s) \subseteq Int /\ IsFiniteSet(TimesOf(s))
      BY FiniteTimes
    <2> QED
      BY <2>1, RankedNumbers
  <1>3. u \in Seq(Point)
    BY <1>1, AccumulatedPoints
  <1>4. \A t : At(t) # {} <=> \E j \in Fresh(s) : s[j].t = t
    BY DEF Fresh
  <1>5. \A t : total(t) # Stale
    <2> SUFFICES ASSUME NEW t PROVE total(t) # Stale
      OBVIOUS
    <2> DEFINE S == {i \in Fresh(s) : s[i].t <= t}
    <2>1. S \in SUBSET DOMAIN s /\ \A i \in S : i \in DOMAIN s /\ s[i].v # Stale
      BY DEF Fresh
    <2> HIDE DEF S
    <2>2. IsFiniteSet(S)
      BY <2>1, TimeOrderTotal, FS_Subset
    <2>3. \A i \in S : Values(s)[i] \in Int
      BY <2>1, PointAt DEF Values
    <2>4. Terms(Values(s), S)
      BY <2>2, <2>3 DEF Terms
    <2> QED
      BY <2>4, SumInteger, RollupAssumption DEF S
  <1> HIDE DEF At, total, times, n
  <1>6. Range(NonStale(u)) = {p \in Range(u) : p.v # Stale}
    BY <1>3, NonStalePoints
  <1>7. \A k \in 1..n : u[k].t = times[k] /\ u[k].v = val(times[k]) /\ u[k] = [t |-> times[k], v |-> val(times[k])]
    BY <1>2
  <1>8. DOMAIN u = 1..n
    BY <1>2
  <1>9. ASSUME NEW p \in Range(u), p.v # Stale
        PROVE  \E j \in Fresh(s) : p = [t |-> s[j].t, v |-> total(s[j].t)]
    <2>1. PICK k \in 1..n : p = u[k]
      BY <1>8 DEF Range
    <2>2. val(times[k]) # Stale
      BY <1>7, <1>9, <2>1
    <2>3. At(times[k]) # {} /\ val(times[k]) = total(times[k])
      BY <2>2
    <2> QED
      BY <1>4, <1>7, <2>1, <2>3
  <1>10. ASSUME NEW j \in Fresh(s)
         PROVE  LET p == [t |-> s[j].t, v |-> total(s[j].t)] IN p \in Range(u) /\ p.v # Stale
    <2>1. s[j].t \in TimesOf(s)
      BY DEF Fresh, TimesOf
    <2>2. PICK k \in 1..n : times[k] = s[j].t
      BY <1>2, <2>1
    <2>3. At(times[k]) # {}
      BY <1>4, <2>2
    <2>4. u[k] = [t |-> s[j].t, v |-> total(s[j].t)]
      BY <1>7, <2>2, <2>3
    <2> HIDE DEF u
    <2> QED
      BY <1>5, <1>8, <2>4 DEF Range
  <1> HIDE DEF u
  <1>11. Range(NonStale(u)) = {[t |-> s[j].t, v |-> total(s[j].t)] : j \in Fresh(s)}
    BY <1>6, <1>9, <1>10
  <1> QED
    BY <1>1, <1>11 DEF total
(* The general read finds the rows of the request.                          *)
LEMMA GeneralIsStored ==
    ASSUME store \in Stores, plan \in Plans
    PROVE  GeneralRows = StoredRows
  <1> DEFINE low == plan.start - SelectorRange(plan)
  <1>1. low \in Int
    BY PlanNumbers
  <1>2. store \in Seq(Row)
    BY HistogramAssumption
  <1>3. GeneralRows = Picked(store, {i \in DOMAIN store : store[i].t >= low + 1 /\ store[i].t <= End})
    BY Zenon DEF GeneralRows, RowsFrom
  <1>4. StoredRows = Picked(store, {i \in DOMAIN store : low < store[i].t /\ store[i].t <= End})
    BY Zenon DEF StoredRows
  <1> HIDE DEF low
  <1>5. \A i \in DOMAIN store : store[i].t >= low + 1 <=> low < store[i].t
    <2> SUFFICES ASSUME NEW i \in DOMAIN store PROVE store[i].t >= low + 1 <=> low < store[i].t
      OBVIOUS
    <2>1. store[i].t \in Int
      <3>1. store[i] \in Row
        BY <1>2, ElementOfSeq, LenProperties
      <3> QED
        BY <3>1 DEF Row
    <2> QED
      BY <1>1, <2>1
  <1>6. {i \in DOMAIN store : store[i].t >= low + 1 /\ store[i].t <= End}
          = {i \in DOMAIN store : low < store[i].t /\ store[i].t <= End}
    BY <1>5
  <1> QED
    BY <1>3, <1>4, <1>6

(* The points of a bucket hold its rows.                                    *)
PointsOfRows(points, rows, L, b) ==
    /\ rows = RowsWith(L, b)
    /\ points = [i \in DOMAIN rows |-> [t |-> rows[i].t, v |-> CountUpTo(rows[i], b)]]

LEMMA BucketPoints ==
    ASSUME store \in Stores, plan \in Plans, NEW L, NEW b, NEW rows, NEW points,
           PointsOfRows(points, rows, L, b)
    PROVE  /\ rows \in Seq(Row) /\ points \in Seq(Point)
           /\ DOMAIN points = DOMAIN rows /\ Fresh(points) = DOMAIN rows
           /\ \E h : Holds(points, h, L, b) /\ \A i \in DOMAIN rows : rows[i] = GeneralRows[h[i]]
  <1> DEFINE J == RowsOfBucket(L, b)
             n == Cardinality(J)
  <1>0. rows = RowsWith(L, b)
        /\ points = [i \in DOMAIN rows |-> [t |-> rows[i].t, v |-> CountUpTo(rows[i], b)]]
    BY DEF PointsOfRows
  <1>1. rows = Picked(GeneralRows, J)
    BY <1>0, GeneralIsStored, Zenon DEF RowsWith, RowsOfBucket, LabelAt
  <1>2. GeneralRows \in Seq(Row) /\ J \in SUBSET DOMAIN GeneralRows
    BY GeneralRowsTyped DEF RowsOfBucket
  <1> HIDE DEF J
  <1>3. rows \in Seq(Row) /\ Len(rows) = n /\ n \in Nat
    BY <1>1, <1>2, PickedElements
  <1>4. PICK h \in [1..n -> J] :
           /\ Increasing(h, n)
           /\ \A x \in J : \E k \in 1..n : h[k] = x
           /\ \A k \in 1..n : Picked(GeneralRows, J)[k] = GeneralRows[h[k]]
    BY <1>2, PickedElements
  <1>5. DOMAIN rows = 1..n
    BY <1>3, LenProperties
  <1> HIDE DEF n
  <1>6. ASSUME NEW i \in 1..n
        PROVE  /\ rows[i] = GeneralRows[h[i]] /\ points[i] \in Point /\ points[i].v # Stale
               /\ points[i] = [t |-> GeneralRows[h[i]].t, v |-> CountUpTo(GeneralRows[h[i]], b)]
    <2>1. rows[i] = GeneralRows[h[i]]
      BY <1>1, <1>4
    <2>2. points[i] = [t |-> GeneralRows[h[i]].t, v |-> CountUpTo(GeneralRows[h[i]], b)]
      BY <1>0, <1>5, <2>1
    <2>3. h[i] \in J
      BY <1>4
    <2>4. GeneralRows[h[i]].t \in Int /\ CountUpTo(GeneralRows[h[i]], b) \in Int
      BY <2>3, BucketRows DEF J
    <2> QED
      BY <2>1, <2>2, <2>4, RollupAssumption DEF Point
  <1>7. points = [i \in 1..n |-> points[i]]
    BY <1>0, <1>5
  <1>8. points \in Seq(Point) /\ DOMAIN points = 1..n
    BY <1>3, <1>6, <1>7, SequenceOf
  <1>9. Fresh(points) = 1..n
    BY <1>6, <1>8 DEF Fresh
  <1>10. Renames(h, 1..n, J)
    <2>1. ASSUME NEW i \in 1..n, NEW j \in 1..n, h[i] = h[j] PROVE i = j
      <3>1. h[i] \in Int
        <4>1. h[i] \in DOMAIN GeneralRows
          BY <1>2, <1>4
        <4> QED
          BY <1>2, <4>1, LenProperties
      <3>2. ~(i < j) /\ ~(j < i)
        BY <1>4, <2>1, <3>1 DEF Increasing
      <3> QED
        BY <1>3, <3>2
    <2> QED
      BY <1>4, <2>1 DEF Renames
  <1>11. Holds(points, h, L, b)
    BY <1>6, <1>8, <1>9, <1>10 DEF Holds, J
  <1> QED
    BY <1>3, <1>5, <1>6, <1>8, <1>9, <1>11

TimesDiffer(J) == \A i, j \in J : GeneralRows[i].t = GeneralRows[j].t => i = j

LEMMA HeldOnce ==
    ASSUME NEW u, NEW h, NEW L, NEW b, Holds(u, h, L, b)
    PROVE  (\A i, j \in Fresh(u) : u[i].t = u[j].t => i = j) <=> TimesDiffer(RowsOfBucket(L, b))
  <1> DEFINE J == RowsOfBucket(L, b)
  <1>1. Renames(h, Fresh(u), J) /\ \A i \in Fresh(u) : u[i].t = GeneralRows[h[i]].t
    <2>1. Renames(h, Fresh(u), J)
      BY DEF Holds
    <2>2. ASSUME NEW i \in Fresh(u) PROVE u[i].t = GeneralRows[h[i]].t
      <3>1. u[i] = [t |-> GeneralRows[h[i]].t, v |-> CountUpTo(GeneralRows[h[i]], b)]
        BY DEF Holds
      <3> QED
        BY ONLY <3>1
    <2> QED
      BY <2>1, <2>2
  <1> HIDE DEF J
  <1>2. (\A i, j \in Fresh(u) : u[i].t = u[j].t => i = j) <=> TimesDiffer(J)
    BY <1>1 DEF Renames, TimesDiffer
  <1> QED
    BY <1>2 DEF J

LEMMA SortedOnce ==
    ASSUME NEW s \in Seq(Point)
    PROVE  OnePerTime(SortBy(s, LAMBDA p : p.t)) <=> OnePerTime(s)
  <1> DEFINE u == SortBy(s, LAMBDA p : p.t)
  <1>1. u \in Seq(Point) /\ Len(u) = Len(s) /\ \E order : Permutes(order, s, u)
    BY SortedOrder
  <1> HIDE DEF u
  <1>2. PICK order : Permutes(order, s, u)
    BY <1>1
  <1>3. DOMAIN u = 1..Len(s) /\ DOMAIN s = 1..Len(s) /\ Len(s) \in Nat
    BY <1>1, LenProperties
  <1>4. \A k, l \in 1..Len(s) : order[k] = order[l] => k = l
    BY <1>2, <1>3 DEF Permutes
  <1>5. OnePerTime(u) => OnePerTime(s)
    <2> SUFFICES ASSUME OnePerTime(u), NEW i \in DOMAIN s, NEW j \in DOMAIN s, s[i].t = s[j].t
                 PROVE  i = j
      BY DEF OnePerTime
    <2>1. PICK k \in 1..Len(s), l \in 1..Len(s) : order[k] = i /\ order[l] = j
      BY <1>2 DEF Permutes
    <2>2. u[k].t = u[l].t
      BY <1>2, <2>1 DEF Permutes
    <2> QED
      BY <1>3, <2>1, <2>2 DEF OnePerTime
  <1>6. OnePerTime(s) => OnePerTime(u)
    <2> SUFFICES ASSUME OnePerTime(s), NEW k \in DOMAIN u, NEW l \in DOMAIN u, u[k].t = u[l].t
                 PROVE  k = l
      BY DEF OnePerTime
    <2>1. /\ order[k] \in DOMAIN s /\ order[l] \in DOMAIN s /\ u[k] = s[order[k]] /\ u[l] = s[order[l]]
      BY <1>2, <1>3 DEF Permutes
    <2>2. order[k] = order[l]
      BY <2>1 DEF OnePerTime
    <2> QED
      BY <1>3, <1>4, <2>2
  <1> QED
    BY <1>5, <1>6 DEF u

(* The bucket series that was stored, from its rows.                        *)
StoredAs(L, b, x) ==
    /\ x = "delta" =>
         /\ Strict(BucketSeries(L, b))
         /\ Range(BucketSeries(L, b))
              = {[t |-> GeneralRows[i].t, v |-> TotalUntil(L, b, GeneralRows[i].t)] :
                    i \in RowsOfBucket(L, b)}
    /\ x # "delta" =>
         /\ OnePerTime(BucketSeries(L, b)) <=> TimesDiffer(RowsOfBucket(L, b))
         /\ Range(BucketSeries(L, b))
              = {[t |-> GeneralRows[i].t, v |-> CountUpTo(GeneralRows[i], b)] :
                    i \in RowsOfBucket(L, b)}

LEMMA BucketIs ==
    ASSUME store \in Stores, plan \in Plans, NEW L, NEW b, NEW x,
           \A i \in RowsOfBucket(L, b) : GeneralRows[i].temporality = x
    PROVE  StoredAs(L, b, x)
  <1> DEFINE J == RowsOfBucket(L, b)
             rows == RowsWith(L, b)
             points == [i \in DOMAIN rows |-> [t |-> rows[i].t, v |-> CountUpTo(rows[i], b)]]
             times == Ranked({rows[i].t : i \in DOMAIN rows}, <=)
             before(t) == {i \in DOMAIN rows : rows[i].t <= t}
             u == [k \in DOMAIN times |->
                     [t |-> times[k], v |-> SumFunctionOnSet(Values(points), before(times[k]))]]
             sorted == SortBy(points, LAMBDA p : p.t)
             once(i) == [t |-> GeneralRows[i].t, v |-> CountUpTo(GeneralRows[i], b)]
             total(i) == [t |-> GeneralRows[i].t, v |-> TotalUntil(L, b, GeneralRows[i].t)]
  <1>1. BucketSeries(L, b) = IF rows # <<>> /\ rows[1].temporality = "delta" THEN u ELSE sorted
    BY DEF BucketSeries
  <1>2. /\ rows \in Seq(Row) /\ points \in Seq(Point)
        /\ DOMAIN points = DOMAIN rows /\ Fresh(points) = DOMAIN rows
        /\ \E h : Holds(points, h, L, b) /\ \A i \in DOMAIN rows : rows[i] = GeneralRows[h[i]]
    <2>1. PointsOfRows(points, rows, L, b)
      BY DEF PointsOfRows
    <2> HIDE DEF rows, points
    <2> QED
      BY <2>1, BucketPoints
  <1>3. PICK h : Holds(points, h, L, b) /\ \A i \in DOMAIN rows : rows[i] = GeneralRows[h[i]]
    BY <1>2
  <1>4. Renames(h, DOMAIN rows, J)
    BY <1>2, <1>3 DEF Holds
  <1>5. \A i \in DOMAIN rows : rows[i].temporality = x
    BY <1>3, <1>4 DEF Renames
  <1>6. rows = <<>> \/ 1 \in DOMAIN rows
    <2>1. Len(rows) \in Nat /\ DOMAIN rows = 1..Len(rows)
      BY <1>2, LenProperties
    <2>2. Len(rows) = 0 => rows = <<>>
      BY <1>2, EmptySeq
    <2> HIDE DEF rows
    <2> QED
      BY <2>1, <2>2
  <1>7. \A i \in DOMAIN rows : points[i].t = rows[i].t
    OBVIOUS
  <1> HIDE DEF rows
  <1>8. Range(sorted) = {once(i) : i \in J}
    <2>1. Range(points) = {points[i] : i \in Fresh(points)}
      BY <1>2 DEF Range
    <2> HIDE DEF points
    <2>2. Range(sorted) = Range(points)
      BY <1>2, SortedByTime
    <2>3. {points[i] : i \in Fresh(points)} = {once(i) : i \in J}
      BY <1>3, HeldPoints
    <2> QED
      BY <2>1, <2>2, <2>3
  <1>9. OnePerTime(sorted) <=> TimesDiffer(J)
    <2> HIDE DEF points
    <2>1. OnePerTime(sorted) <=> OnePerTime(points)
      BY <1>2, SortedOnce
    <2>2. OnePerTime(points) <=> TimesDiffer(J)
      BY <1>2, <1>3, HeldOnce DEF OnePerTime
    <2> QED
      BY <2>1, <2>2
  <1>10. CASE x # "delta"
    <2>1. BucketSeries(L, b) = sorted
      BY <1>1, <1>5, <1>6, <1>10
    <2> HIDE DEF sorted
    <2> QED
      BY <1>8, <1>9, <1>10, <2>1 DEF StoredAs
  <1>11. CASE x = "delta" /\ rows = <<>>
    <2>1. BucketSeries(L, b) = sorted /\ DOMAIN points = {}
      BY <1>1, <1>2, <1>11
    <2>2. J = {}
      BY <1>4, <1>11 DEF Renames
    <2> HIDE DEF points
    <2>3. Len(points) = 0 /\ sorted \in Seq(Point) /\ Len(sorted) = Len(points)
      <3>1. Len(points) \in Nat /\ DOMAIN points = 1..Len(points)
        BY <1>2, LenProperties
      <3>2. Len(points) = 0
        BY <2>1, <3>1
      <3> QED
        BY <1>2, <3>2, SortedByTime
    <2> HIDE DEF sorted
    <2>4. DOMAIN sorted = {}
      BY <2>3, LenProperties
    <2>5. Strict(sorted) /\ Range(sorted) = {}
      BY <2>4 DEF Strict, Range
    <2> QED
      BY <1>11, <2>1, <2>2, <2>5 DEF StoredAs
  <1>12. CASE x = "delta" /\ rows # <<>>
    <2>1. BucketSeries(L, b) = u
      BY <1>1, <1>5, <1>6, <1>12
    <2> DEFINE At(t) == {i \in {j \in DOMAIN points : points[j].t = t} : points[i].v # Stale}
               Until(t) == {i \in {j \in DOMAIN points : points[j].t <= t} : points[i].v # Stale}
               all == Ranked({points[i].t : i \in DOMAIN points}, <=)
    <2>2. Accumulate(points)
            = [k \in DOMAIN all |-> [t |-> all[k], v |-> IF At(all[k]) = {} THEN Stale
                                     ELSE SumFunctionOnSet(Values(points), Until(all[k]))]]
      BY Zenon DEF Accumulate
    <2> HIDE DEF points
    <2>3. all = times
      <3>1. {points[i].t : i \in DOMAIN points} = {rows[i].t : i \in DOMAIN rows}
        BY <1>2, <1>7
      <3> QED
        BY <3>1
    <2>4. \A i \in DOMAIN points : points[i].v # Stale
      BY <1>2 DEF Fresh
    <2>5. \A t : Until(t) = before(t)
      BY <1>2, <1>7, <2>4
    <2>6. ASSUME NEW k \in DOMAIN times PROVE At(times[k]) # {}
      <3> DEFINE T == {points[i].t : i \in DOMAIN points}
      <3>1. T \subseteq Int /\ IsFiniteSet(T)
        BY <1>2, FiniteTimes DEF TimesOf
      <3>2. times = Ranked(T, <=)
        BY <2>3
      <3> HIDE DEF T, times
      <3>3. times[k] \in T
        BY <3>1, <3>2, RankedNumbers
      <3> QED
        BY <2>4, <3>3 DEF T
    <2> HIDE DEF all, times, At, Until, before
    <2>7. u = Accumulate(points)
      BY <2>2, <2>3, <2>5, <2>6
    <2> HIDE DEF u
    <2>8. Strict(u) /\ u \in Seq(Point)
      BY <1>2, <2>7, AccumulatedPoints
    <2>9. Range(NonStale(u)) = {total(i) : i \in J}
      <3> DEFINE sum(t) == SumFunctionOnSet(Values(points), {i \in Fresh(points) : points[i].t <= t})
      <3>1. Range(NonStale(u)) = {[t |-> points[j].t, v |-> sum(points[j].t)] : j \in Fresh(points)}
        BY <1>2, <2>7, AccumulatedRange
      <3>2. \A t : sum(t) = TotalUntil(L, b, t)
        BY <1>3, HeldTotal
      <3>3. \A j \in Fresh(points) : points[j].t = GeneralRows[h[j]].t
        BY <1>2, <1>3, <1>7
      <3>4. Renames(h, Fresh(points), J)
        BY <1>2, <1>4
      <3> HIDE DEF sum, J
      <3>5. \A j \in Fresh(points) : [t |-> points[j].t, v |-> sum(points[j].t)] = total(h[j])
        BY <3>2, <3>3
      <3> HIDE DEF total
      <3>6. Range(NonStale(u)) = {total(h[j]) : j \in Fresh(points)}
        BY <3>1, <3>5
      <3> QED
        BY <3>4, <3>6 DEF Renames
    <2>10. Range(u) = Range(NonStale(u))
      <3>1. Range(NonStale(u)) = {p \in Range(u) : p.v # Stale}
        BY <2>8, NonStalePoints
      <3>2. ASSUME NEW k \in DOMAIN u PROVE u[k].v # Stale
        <4>1. DOMAIN u = DOMAIN times /\ u[k].v = SumFunctionOnSet(Values(points), before(times[k]))
          BY DEF u
        <4> DEFINE S == before(times[k])
        <4>2. S \in SUBSET DOMAIN points
          BY <1>2 DEF before
        <4> HIDE DEF S
        <4>3. IsFiniteSet(S)
          BY <1>2, <4>2, TimeOrderTotal, FS_Subset
        <4>4. \A i \in S : Values(points)[i] \in Int
          BY <1>2, <2>4, <4>2, PointAt DEF Values
        <4>5. Terms(Values(points), S)
          BY <4>3, <4>4 DEF Terms
        <4> QED
          BY <4>1, <4>5, SumInteger, RollupAssumption DEF S
      <3> QED
        BY <3>1, <3>2 DEF Range
    <2> QED
      BY <1>12, <2>1, <2>8, <2>9, <2>10 DEF StoredAs
  <1> QED
    BY <1>10, <1>11, <1>12
(* Every row has the bound of the last bucket.                              *)
LEMMA InfLast == ASSUME NEW r \in Row PROVE HasBound(r, Inf)
  <1>1. r.bounds \in Seq(Int) /\ Inf \in Int
    BY HistogramAssumption DEF Row
  <1>2. BoundsOf(r)[Len(r.bounds) + 1] = Inf /\ Len(r.bounds) \in Nat
    BY <1>1, AppendProperties, LenProperties DEF BoundsOf
  <1>3. Len(r.bounds) + 1 \in DOMAIN BoundsOf(r)
    BY <1>2, RowBounds
  <1> QED
    BY <1>2, <1>3 DEF HasBound, Range

LEMMA StrictOnce == ASSUME NEW s \in Seq(Point), Strict(s) PROVE OnePerTime(s)
  <1> SUFFICES ASSUME NEW i \in DOMAIN s, NEW j \in DOMAIN s, s[i].t = s[j].t PROVE i = j
    BY DEF OnePerTime
  <1>1. i \in Int /\ j \in Int /\ s[i].t \in Int
    BY PointAt
  <1>2. ~(i < j) /\ ~(j < i)
    BY <1>1 DEF Strict
  <1> QED
    BY <1>1, <1>2

(* A traced series holds the rows of its bucket.                            *)
LEMMA TraceHolds ==
    ASSUME store \in Stores, NEW s, NEW k, NEW order, Traced(order, s, k, Len(GeneralRows))
    PROVE  Holds(s, order, k[1], k[2])
  <1> DEFINE J == RowsOfBucket(k[1], k[2])
             m == Len(s)
             N == 1..Len(GeneralRows)
  <1>1. /\ s \in Seq(Point) /\ order \in [1..m -> N] /\ Increasing(order, m)
        /\ \A j \in 1..m : LabelAt(order[j]) = k[1] /\ s[j] = PointFor(GeneralRows[order[j]], k[2])
        /\ \A i \in N : LabelAt(i) = k[1] /\ HasBound(GeneralRows[i], k[2])
                          => \E j \in 1..m : order[j] = i
    BY DEF Traced
  <1>2. DOMAIN GeneralRows = N /\ DOMAIN s = 1..m /\ m \in Nat /\ N \subseteq Int
        /\ \A i \in N : GeneralRows[i] \in Row
    BY <1>1, GeneralRowsTyped, LenProperties, ElementOfSeq
  <1> HIDE DEF m, N
  <1>3. ASSUME NEW j \in 1..m
        PROVE  /\ HasBound(GeneralRows[order[j]], k[2]) => s[j].v # Stale
               /\ ~HasBound(GeneralRows[order[j]], k[2]) => s[j].v = Stale
    <2>1. CountUpTo(GeneralRows[order[j]], k[2]) # Stale
      <3>1. GeneralRows[order[j]] \in Row
        BY <1>1, <1>2
      <3> QED
        BY <3>1, CountTyped, RollupAssumption
    <2>2. s[j] = PointFor(GeneralRows[order[j]], k[2])
      BY <1>1
    <2> QED
      BY <2>1, <2>2 DEF PointFor
  <1>4. \A j \in 1..m : j \in Fresh(s) <=> HasBound(GeneralRows[order[j]], k[2])
    BY <1>2, <1>3 DEF Fresh
  <1>5. Fresh(s) \subseteq 1..m
    BY <1>2 DEF Fresh
  <1>6. \A j \in Fresh(s) : s[j] = [t |-> GeneralRows[order[j]].t,
                                    v |-> CountUpTo(GeneralRows[order[j]], k[2])]
    BY <1>1, <1>4, <1>5 DEF PointFor
  <1>7. \A j \in Fresh(s) : order[j] \in J
    BY <1>1, <1>2, <1>4, <1>5 DEF RowsOfBucket
  <1>8. \A i \in J : i \in N /\ LabelAt(i) = k[1] /\ HasBound(GeneralRows[i], k[2])
    BY <1>2 DEF RowsOfBucket
  <1>9. ASSUME NEW i \in 1..m, NEW j \in 1..m, order[i] = order[j] PROVE i = j
    <2>1. ~(i < j) /\ ~(j < i)
      <3>1. order[i] \in Int
        BY <1>1, <1>2
      <3> QED
        BY <1>1, <1>9, <3>1 DEF Increasing
    <2> QED
      BY <1>2, <2>1
  <1> HIDE DEF J
  <1>10. Renames(order, Fresh(s), J)
    BY <1>1, <1>4, <1>5, <1>7, <1>8, <1>9 DEF Renames
  <1> QED
    BY <1>1, <1>6, <1>10 DEF Holds, J

(* Sorting a series does not change what it holds.                          *)
LEMMA SortedHolds ==
    ASSUME NEW s, NEW h, NEW L, NEW b, Holds(s, h, L, b)
    PROVE  \E g : Holds(SortBy(s, LAMBDA p : p.t), g, L, b)
  <1> DEFINE u == SortBy(s, LAMBDA p : p.t)
             J == RowsOfBucket(L, b)
             point(i) == [t |-> GeneralRows[i].t, v |-> CountUpTo(GeneralRows[i], b)]
  <1>1. s \in Seq(Point) /\ Renames(h, Fresh(s), J) /\ \A i \in Fresh(s) : s[i] = point(h[i])
    BY DEF Holds
  <1> HIDE DEF J, point
  <1>2. u \in Seq(Point) /\ Len(u) = Len(s) /\ \E order : Permutes(order, s, u)
    BY <1>1, SortedOrder
  <1> HIDE DEF u
  <1>3. PICK order : Permutes(order, s, u)
    BY <1>2
  <1>4. DOMAIN u = 1..Len(s) /\ DOMAIN s = 1..Len(s) /\ Len(s) \in Nat
    BY <1>1, <1>2, LenProperties
  <1>5. /\ \A k, l \in 1..Len(s) : order[k] = order[l] => k = l
        /\ \A k \in 1..Len(s) : order[k] \in DOMAIN s /\ u[k] = s[order[k]]
        /\ \A i \in DOMAIN s : \E k \in 1..Len(s) : order[k] = i
    <2>1. /\ order \in [1..Len(s) -> DOMAIN s]
          /\ \A k, l \in 1..Len(s) : k < l => order[k] # order[l]
          /\ \A i \in DOMAIN s : \E k \in 1..Len(s) : order[k] = i
          /\ \A k \in 1..Len(s) : u[k] = s[order[k]]
      BY <1>3, Zenon DEF Permutes
    <2>2. \A k \in 1..Len(s) : order[k] \in DOMAIN s
      BY ONLY <2>1
    <2>3. ASSUME NEW k \in 1..Len(s), NEW l \in 1..Len(s), order[k] = order[l] PROVE k = l
      <3>1. ~(k < l) /\ ~(l < k)
        BY <2>1, <2>3
      <3>2. k \in Int /\ l \in Int
        BY <1>4
      <3> QED
        BY ONLY <3>1, <3>2
    <2> QED
      BY <2>1, <2>2, <2>3
  <1> DEFINE g == [k \in 1..Len(s) |-> h[order[k]]]
  <1>6. \A k \in 1..Len(s) : k \in Fresh(u) <=> order[k] \in Fresh(s)
    BY <1>4, <1>5 DEF Fresh
  <1>7. Fresh(u) \subseteq 1..Len(s) /\ Fresh(s) \subseteq 1..Len(s)
    BY <1>4 DEF Fresh
  <1>8. \A k \in Fresh(u) : g[k] = h[order[k]] /\ order[k] \in Fresh(s) /\ u[k] = s[order[k]]
    BY <1>5, <1>6, <1>7
  <1> HIDE DEF g
  <1>9. Renames(g, Fresh(u), J)
    <2>1. \A k \in Fresh(u) : g[k] \in J
      BY <1>1, <1>8 DEF Renames
    <2>2. ASSUME NEW k \in Fresh(u), NEW l \in Fresh(u), g[k] = g[l] PROVE k = l
      <3>1. order[k] = order[l]
        BY <1>1, <1>8, <2>2 DEF Renames
      <3> QED
        BY <1>5, <1>7, <3>1
    <2>3. ASSUME NEW z \in J PROVE \E k \in Fresh(u) : g[k] = z
      <3>1. PICK i \in Fresh(s) : h[i] = z
        BY <1>1 DEF Renames
      <3>2. PICK k \in 1..Len(s) : order[k] = i
        BY <1>4, <1>5, <1>7, <3>1
      <3>3. k \in Fresh(u)
        BY <1>6, <3>1, <3>2
      <3> QED
        BY <1>8, <3>1, <3>2, <3>3
    <2> QED
      BY <2>1, <2>2, <2>3 DEF Renames
  <1>10. \A k \in Fresh(u) : u[k] = point(g[k])
    BY <1>1, <1>8
  <1>11. Holds(u, g, L, b)
    BY <1>2, <1>9, <1>10 DEF Holds, J, point
  <1> QED
    BY <1>11 DEF u

(* finish makes of a series of the builder what was stored in its bucket.   *)
Finished(s, temporality) == IF temporality = "delta" THEN Accumulate(s) ELSE s
IsStored(s, k) == OnePerTime(s) /\ NonStale(s) = BucketSeries(k[1], k[2])

LEMMA FinishedSeries ==
    ASSUME store \in Stores, plan \in Plans, StoreOnePerTime,
           NEW series, NEW temporality, Collected(Len(GeneralRows), series, temporality),
           NEW k \in DOMAIN series
    PROVE  k[1] \in Labels /\ IsStored(Finished(SortSamples(series[k]), temporality[k[1]]), k)
  <1> DEFINE L == k[1]
             b == k[2]
             s == series[k]
             x == temporality[L]
             u == SortSamples(s)
             J == RowsOfBucket(L, b)
             N == 1..Len(GeneralRows)
  <1>1. PICK order : Traced(order, s, k, Len(GeneralRows))
    BY DEF Collected
  <1>2. PICK n \in N : LabelAt(n) = L
    BY DEF Collected
  <1>3. DOMAIN GeneralRows = N /\ N \subseteq Int /\ \A i \in N : GeneralRows[i] \in Row
    BY GeneralRowsTyped, LenProperties, ElementOfSeq
  <1>4. L \in Labels
    BY <1>2, <1>3, GeneralIsStored DEF Labels, LabelAt, Range
  <1>5. ASSUME NEW i \in N, LabelAt(i) = L PROVE GeneralRows[i].temporality = x
    BY <1>5 DEF Collected
  <1>6. s \in Seq(Point) /\ DOMAIN s = 1..Len(s)
        /\ order \in [1..Len(s) -> N] /\ Increasing(order, Len(s)) /\ Len(s) \in Nat
        /\ \A j \in 1..Len(s) : LabelAt(order[j]) = L /\ s[j].t = GeneralRows[order[j]].t
    <2>1. s \in Seq(Point)
      BY <1>1 DEF Traced
    <2>2. /\ order \in [1..Len(s) -> N] /\ Increasing(order, Len(s))
          /\ \A j \in 1..Len(s) : LabelAt(order[j]) = L /\ s[j] = PointFor(GeneralRows[order[j]], b)
      BY <1>1 DEF Traced
    <2> HIDE DEF s
    <2>3. ASSUME NEW j \in 1..Len(s) PROVE s[j].t = GeneralRows[order[j]].t
      <3>1. s[j] = PointFor(GeneralRows[order[j]], b)
        BY <2>2
      <3> QED
        BY ONLY <3>1 DEF PointFor
    <2> QED
      BY <2>1, <2>2, <2>3, LenProperties
  <1> HIDE DEF s
  <1>7. \E h : Holds(u, h, L, b)
    <2>1. Holds(s, order, L, b)
      BY <1>1, TraceHolds
    <2> QED
      BY <2>1, SortedHolds DEF SortSamples
  <1>8. u \in Seq(Point) /\ Timed(u)
    BY <1>6, SortedByTime DEF SortSamples
  <1>9. \A i \in J : GeneralRows[i].temporality = x
    BY <1>3, <1>5 DEF RowsOfBucket
  <1>10. BucketSeries(L, b) \in Seq(Point) /\ Timed(BucketSeries(L, b))
    BY StoredSeries
  <1> DEFINE Running == {[t |-> GeneralRows[i].t, v |-> TotalUntil(L, b, GeneralRows[i].t)] : i \in J}
             Stored == {[t |-> GeneralRows[i].t, v |-> CountUpTo(GeneralRows[i], b)] : i \in J}
  <1>11. /\ x = "delta" => Strict(BucketSeries(L, b)) /\ Range(BucketSeries(L, b)) = Running
         /\ x # "delta" => /\ OnePerTime(BucketSeries(L, b)) <=> TimesDiffer(J)
                           /\ Range(BucketSeries(L, b)) = Stored
    <2>1. StoredAs(L, b, x)
      <3> HIDE DEF x, L, b
      <3> QED
        BY <1>9, BucketIs
    <2> HIDE DEF x, L, b
    <2> QED
      BY <2>1 DEF StoredAs
  <1>12. CASE x = "delta"
    <2> DEFINE v == Accumulate(u)
    <2>1. /\ Strict(BucketSeries(L, b))
          /\ Range(BucketSeries(L, b))
               = {[t |-> GeneralRows[i].t, v |-> TotalUntil(L, b, GeneralRows[i].t)] : i \in J}
      BY <1>12, <1>11
    <2>2. v \in Seq(Point) /\ Strict(v)
      BY <1>8, AccumulatedPoints
    <2> HIDE DEF u, v
    <2>3. PICK h : Holds(u, h, L, b)
      BY <1>7
    <2>4. Range(NonStale(v))
             = {[t |-> GeneralRows[i].t, v |-> TotalUntil(L, b, GeneralRows[i].t)] : i \in J}
      <3> DEFINE sum(t) == SumFunctionOnSet(Values(u), {i \in Fresh(u) : u[i].t <= t})
                 total(i) == [t |-> GeneralRows[i].t, v |-> TotalUntil(L, b, GeneralRows[i].t)]
      <3>1. Range(NonStale(v)) = {[t |-> u[j].t, v |-> sum(u[j].t)] : j \in Fresh(u)}
        BY <1>8, AccumulatedRange DEF v
      <3>2. \A t : sum(t) = TotalUntil(L, b, t)
        BY <2>3, HeldTotal
      <3>3. ASSUME NEW j \in Fresh(u) PROVE u[j].t = GeneralRows[h[j]].t
        <4>1. u[j] = [t |-> GeneralRows[h[j]].t, v |-> CountUpTo(GeneralRows[h[j]], b)]
          BY <2>3 DEF Holds
        <4> QED
          BY ONLY <4>1
      <3>4. Renames(h, Fresh(u), J)
        BY <2>3 DEF Holds
      <3> HIDE DEF sum, J
      <3>5. \A j \in Fresh(u) : [t |-> u[j].t, v |-> sum(u[j].t)] = total(h[j])
        BY <3>2, <3>3
      <3> HIDE DEF total
      <3>6. Range(NonStale(v)) = {total(h[j]) : j \in Fresh(u)}
        BY <3>1, <3>5
      <3>7. Range(NonStale(v)) = {total(i) : i \in J}
        BY <3>4, <3>6 DEF Renames
      <3> QED
        BY <3>7 DEF total
    <2>5. NonStale(v) \in Seq(Point) /\ Strict(NonStale(v))
      BY <2>2, NonStalePoints
    <2>6. NonStale(v) = BucketSeries(L, b)
      BY <1>10, <2>1, <2>4, <2>5, StrictUnique
    <2>7. OnePerTime(v)
      BY <2>2, StrictOnce
    <2>8. Finished(u, x) = v
      BY <1>12 DEF Finished, v
    <2> QED
      BY <1>4, <2>6, <2>7, <2>8 DEF IsStored, u, s
  <1>13. CASE x # "delta"
    <2>1. TimesDiffer(RowsOfBucket(L, Inf))
      <3>1. \A i \in RowsOfBucket(L, Inf) : GeneralRows[i].temporality = x
        BY <1>3, <1>5 DEF RowsOfBucket
      <3>2. Inf \in AllBounds
        <4>1. HasBound(GeneralRows[n], Inf)
          BY <1>2, <1>3, InfLast
        <4> QED
          BY <1>2, <1>3, <4>1, GeneralIsStored DEF AllBounds, HasBound, Range
      <3>3. OnePerTime(BucketSeries(L, Inf))
        BY <1>4, <3>2 DEF StoreOnePerTime
      <3> QED
        <4>1. StoredAs(L, Inf, x)
          <5> HIDE DEF L, x
          <5> QED
            BY <3>1, BucketIs
        <4> QED
          BY <1>13, <3>3, <4>1 DEF StoredAs
    <2>2. \A i \in N : LabelAt(i) = L => i \in RowsOfBucket(L, Inf)
      BY <1>3, InfLast DEF RowsOfBucket
    <2>3. TimesDiffer(J)
      BY <1>3, <2>1, <2>2 DEF TimesDiffer, RowsOfBucket
    <2>4. OnePerTime(s)
      <3> SUFFICES ASSUME NEW i \in 1..Len(s), NEW j \in 1..Len(s), s[i].t = s[j].t PROVE i = j
        BY <1>6 DEF OnePerTime
      <3>1. order[i] \in N /\ order[j] \in N /\ order[i] \in Int
        <4> HIDE DEF N
        <4> QED
          BY <1>3, <1>6
      <3>2. order[i] \in RowsOfBucket(L, Inf) /\ order[j] \in RowsOfBucket(L, Inf)
            /\ GeneralRows[order[i]].t = GeneralRows[order[j]].t
        BY <1>6, <2>2, <3>1
      <3>3. order[i] = order[j]
        BY <2>1, <3>2 DEF TimesDiffer
      <3>4. ~(i < j) /\ ~(j < i)
        BY <1>6, <3>1, <3>3 DEF Increasing
      <3> QED
        BY <3>4
    <2>5. OnePerTime(u) /\ Strict(u)
      <3>1. OnePerTime(u)
        BY <1>6, <2>4, SortedOnce DEF SortSamples
      <3> QED
        BY <1>8, <3>1, OneTimeStrict
    <2>6. /\ OnePerTime(BucketSeries(L, b))
          /\ Range(BucketSeries(L, b))
               = {[t |-> GeneralRows[i].t, v |-> CountUpTo(GeneralRows[i], b)] : i \in J}
      BY <1>13, <1>11, <2>3
    <2>7. Strict(BucketSeries(L, b))
      BY <1>10, <2>6, OneTimeStrict
    <2> HIDE DEF u, J
    <2>8. Range(NonStale(u)) = Range(BucketSeries(L, b))
      <3>1. Range(NonStale(u)) = {p \in Range(u) : p.v # Stale}
        BY <1>8, NonStalePoints
      <3>2. Range(NonStale(u)) = {u[i] : i \in Fresh(u)}
        BY <3>1 DEF Range, Fresh
      <3> QED
        BY <1>7, <2>6, <3>2, HeldPoints DEF J
    <2>9. NonStale(u) = BucketSeries(L, b)
      <3>1. NonStale(u) \in Seq(Point) /\ Strict(NonStale(u))
        BY <1>8, <2>5, NonStalePoints
      <3> QED
        BY <1>10, <2>7, <2>8, <3>1, StrictUnique
    <2>10. Finished(u, x) = u
      BY <1>13 DEF Finished
    <2> QED
      BY <1>4, <2>5, <2>9, <2>10 DEF IsStored, u, s
  <1> QED
    BY <1>12, <1>13
-----------------------------------------------------------------------------
(* What is answered.                                                        *)

(* Stale markers do not matter to a counter function.                       *)
LEMMA MarkersUnseen ==
    ASSUME plan \in Plans, NEW s \in Seq(Point), Strict(s), NEW ts \in Int
    PROVE  RollupAt(plan, NonStale(s), ts) = RollupAt(plan, s, ts)
  <1> DEFINE lo == ts - plan.offset - SelectorRange(plan)
             hi == ts - plan.offset
             m == Between(s, lo, hi)
             n == Between(NonStale(s), lo, hi)
  <1>1. plan.offset = 0 /\ plan.name # "default_rollup"
    BY HistogramAssumption DEF RangePlan, CounterFunctions, Totals, Rates, LastTwo
  <1>2. lo \in Int /\ hi \in Int
    BY <1>1, PlanNumbers
  <1>3. MatrixAt(plan, s, ts) = m /\ MatrixAt(plan, NonStale(s), ts) = n
    BY DEF MatrixAt
  <1> HIDE DEF lo, hi
  <1>4. NonStale(s) \in Seq(Point) /\ Strict(NonStale(s))
        /\ Range(NonStale(s)) = {p \in Range(s) : p.v # Stale}
    BY NonStalePoints
  <1>5. m \in Seq(Point) /\ Strict(m) /\ Range(m) = {p \in Range(s) : lo < p.t /\ p.t <= hi}
    BY <1>2, BetweenPoints
  <1>6. n \in Seq(Point) /\ Strict(n) /\ Range(n) = {p \in Range(NonStale(s)) : lo < p.t /\ p.t <= hi}
    BY <1>2, <1>4, BetweenPoints
  <1> HIDE DEF m, n
  <1>7. NonStale(n) = NonStale(m)
    <2>1. NonStale(m) \in Seq(Point) /\ Strict(NonStale(m))
          /\ Range(NonStale(m)) = {p \in Range(m) : p.v # Stale}
      BY <1>5, NonStalePoints
    <2>2. NonStale(n) \in Seq(Point) /\ Strict(NonStale(n))
          /\ Range(NonStale(n)) = {p \in Range(n) : p.v # Stale}
      BY <1>6, NonStalePoints
    <2>3. Range(NonStale(m)) = Range(NonStale(n))
      BY <1>4, <1>5, <1>6, <2>1, <2>2
    <2> QED
      BY <2>1, <2>2, <2>3, StrictUnique
  <1>8. metricsQLRollup(plan, n, ts) = metricsQLRollup(plan, m, ts)
    BY <1>1, <1>7, Zenon DEF metricsQLRollup
  <1> QED
    BY <1>3, <1>8 DEF RollupAt

(* Without points there is no value.                                        *)
LEMMA NoPoints ==
    ASSUME plan \in Plans, NEW s \in Seq(Point), Range(s) = {}, NEW ts \in Int
    PROVE  RollupAt(plan, s, ts) = NaN
  <1> DEFINE lo == ts - plan.offset - SelectorRange(plan)
             hi == ts - plan.offset
             m == Between(s, lo, hi)
             P == NonStale(m)
  <1>1. plan.offset = 0 /\ plan.name # "default_rollup"
    BY HistogramAssumption DEF RangePlan, CounterFunctions, Totals, Rates, LastTwo
  <1>2. lo \in Int /\ hi \in Int
    BY <1>1, PlanNumbers
  <1>3. MatrixAt(plan, s, ts) = m
    BY DEF MatrixAt
  <1> HIDE DEF lo, hi
  <1>4. m \in Seq(Point) /\ Range(m) = {}
    BY <1>2, BetweenPoints
  <1> HIDE DEF m
  <1>5. P \in Seq(Point) /\ Range(P) = {}
    BY <1>4, NonStalePoints
  <1> HIDE DEF P
  <1>6. Len(P) = 0
    <2>1. Len(P) \in Nat /\ DOMAIN P = 1..Len(P)
      BY <1>5, LenProperties
    <2>2. DOMAIN P = {}
      BY <1>5 DEF Range
    <2> QED
      BY <2>1, <2>2
  <1> DEFINE maxPrev == MaxPrev(plan, P)
             start == ts - plan.offset - WindowOf(plan, maxPrev)
             first == CountUntil(P, start) + 1
  <1>7. metricsQLRollup(plan, m, ts)
          = metricsQLCounterValue(plan.name, P, first, start, maxPrev, plan.lookback)
    BY <1>1, Zenon DEF metricsQLRollup, RollupPoints, RollupWith, WindowRollupOf, RollupFrom, P
  <1>8. first > Len(P)
    <2> DEFINE I == {i \in DOMAIN P : P[i].t <= start}
    <2>1. I \in SUBSET DOMAIN P /\ IsFiniteSet(DOMAIN P)
      BY <1>5, TimeOrderTotal
    <2> HIDE DEF I
    <2>2. Cardinality(I) \in Nat
      BY <2>1, FS_Subset, FS_CardinalityType
    <2>3. first = Cardinality(I) + 1
      BY DEF CountUntil, I
    <2> QED
      BY <1>6, <2>2, <2>3
  <1> HIDE DEF first, start, maxPrev
  <1>9. metricsQLRollup(plan, m, ts) = NaN
    BY <1>7, <1>8, Zenon DEF metricsQLCounterValue
  <1> QED
    BY <1>3, <1>9 DEF RollupAt

(* The expected answer is a sum of values.                                  *)
StoredRollups(b, g) == [labels \in Labels |-> RollupAt(plan, BucketSeries(labels, b), GridTime(g))]

FoldStep(f, s, b, g) ==
    IF s = {} THEN NaN
    ELSE AddValue(f[s \ {AnyOf(s)}], RollupAt(plan, BucketSeries(AnyOf(s), b), GridTime(g)))
FoldOf(f, b, g) == f = [s \in SUBSET Labels |-> FoldStep(f, s, b, g)]

LEMMA ExpectedSum ==
    ASSUME store \in Stores, NEW b, NEW g
    PROVE  Expected(b, g) = ValueSum(StoredRollups(b, g), Labels)
  <1> DEFINE F == CHOOSE f : FoldOf(f, b, g)
  <1>1. Expected(b, g) = F[Labels]
    BY Zenon DEF Expected, FoldSet, MapThenFoldSet, FoldOf, FoldStep, AnyOf
  <1>2. ASSUME NEW f PROVE FoldOf(f, b, g) <=> ValueSolves(f, StoredRollups(b, g), Labels)
    <2>1. ASSUME NEW s \in SUBSET Labels
          PROVE  FoldStep(f, s, b, g) = ValueStep(f, StoredRollups(b, g), s)
      <3>1. CASE s = {}
        BY <3>1 DEF FoldStep, ValueStep
      <3>2. CASE s # {}
        <4>1. AnyOf(s) \in Labels
          BY <3>2, AnyElement
        <4>2. StoredRollups(b, g)[AnyOf(s)] = RollupAt(plan, BucketSeries(AnyOf(s), b), GridTime(g))
          BY <4>1 DEF StoredRollups
        <4> QED
          BY <3>2, <4>2, Zenon DEF FoldStep, ValueStep
      <3> QED
        BY <3>1, <3>2
    <2>2. [s \in SUBSET Labels |-> FoldStep(f, s, b, g)]
            = [s \in SUBSET Labels |-> ValueStep(f, StoredRollups(b, g), s)]
      BY <2>1
    <2> QED
      BY <2>2 DEF FoldOf, ValueSolves
  <1>3. IsFiniteSet(Labels)
    BY LabelsFinite
  <1>4. FoldOf(F, b, g)
    <2>1. \E f : FoldOf(f, b, g)
      BY <1>2, <1>3, ValueSolved
    <2> QED
      BY <2>1
  <1> HIDE DEF F
  <1>5. ValueSolves(F, StoredRollups(b, g), Labels)
    BY <1>2, <1>4
  <1>6. PICK f : ValueSolves(f, StoredRollups(b, g), Labels)
                   /\ ValueSum(StoredRollups(b, g), Labels) = f[Labels]
    BY <1>3, ValueIsSolution
  <1>7. F[Labels] = f[Labels]
    BY <1>3, <1>5, <1>6, ValuesAgree
  <1> QED
    BY <1>1, <1>6, <1>7
(* The builder's series are those of the stored buckets, none missing.      *)
Complete ==
    \A labels \in Labels : \A b :
        <<labels, b>> \notin DOMAIN built.series => RowsOfBucket(labels, b) = {}
BuiltAsStored == \A k \in DOMAIN built.series : IsStored(built.series[k], k)
EngineOk == ReadOk /\ Complete /\ BuiltAsStored /\ SumsOk

(* From the first row of the general path to its answer.                    *)
GeneralOk ==
    /\ phase = "compact" => path = "compact" /\ built = NewBuilder
    /\ phase \in {"compact", "build"} => read = {} /\ it = NoIterator
    /\ phase = "build" => Collected(row, built.series, built.temporality)
    /\ phase = "engine" /\ StoreOnePerTime => EngineOk
    /\ GeneralExact

(* What the engine adds of a built series is what was stored.               *)
LEMMA SameRollups ==
    ASSUME Inv, phase = "engine", EngineOk, NEW b, NEW g \in Nat, NEW labels \in Labels,
           <<labels, b>> \in DOMAIN built.series
    PROVE  StoredRollups(b, g)[labels] = RollupsOf(b, g)[labels]
  <1> DEFINE k == <<labels, b>>
             s == built.series[k]
  <1>1. s \in Seq(Point) /\ Timed(s)
    BY SeriesRead
  <1>2. OnePerTime(s) /\ NonStale(s) = BucketSeries(labels, b)
    <2>1. IsStored(s, k)
      BY DEF EngineOk, BuiltAsStored
    <2> QED
      BY <2>1 DEF IsStored
  <1>3. plan \in Plans /\ GridTime(g) \in Int
    BY PlanNumbers DEF Inv
  <1> HIDE DEF s
  <1>4. RollupAt(plan, BucketSeries(labels, b), GridTime(g)) = RollupAt(plan, s, GridTime(g))
    BY <1>1, <1>2, <1>3, OneTimeStrict, MarkersUnseen
  <1> QED
    BY <1>4 DEF StoredRollups, RollupsOf, s

(* A label set without the bucket adds nothing.                             *)
LEMMA NothingStored ==
    ASSUME store \in Stores, plan \in Plans, NEW b, NEW g \in Nat, NEW labels \in Labels,
           RowsOfBucket(labels, b) = {}
    PROVE  StoredRollups(b, g)[labels] = NaN
  <1>1. StoredAs(labels, b, "cumulative")
    BY BucketIs
  <1>2. Range(BucketSeries(labels, b)) = {}
    BY <1>1 DEF StoredAs
  <1>3. BucketSeries(labels, b) \in Seq(Point)
    BY StoredSeries
  <1>4. RollupAt(plan, BucketSeries(labels, b), GridTime(g)) = NaN
    BY <1>2, <1>3, PlanNumbers, NoPoints
  <1> QED
    BY <1>4 DEF StoredRollups

LEMMA StoredTerms ==
    ASSUME store \in Stores, plan \in Plans, NEW b, NEW g \in Nat
    PROVE  ValueTerms(StoredRollups(b, g), Labels)
  <1>1. ASSUME NEW labels \in Labels PROVE StoredRollups(b, g)[labels] \in Value
    <2> DEFINE s == BucketSeries(labels, b)
               m == MatrixAt(plan, s, GridTime(g))
    <2>1. s \in Seq(Point)
      BY StoredSeries
    <2>2. GridTime(g) \in Int /\ SelectorRange(plan) \in Int
      BY PlanNumbers
    <2>3. plan.offset = 0
      BY HistogramAssumption DEF RangePlan
    <2> HIDE DEF s
    <2>4. m \in Seq(Point)
      BY <2>1, <2>2, <2>3, BetweenPoints DEF MatrixAt
    <2>5. StoredRollups(b, g)[labels] = metricsQLRollup(plan, m, GridTime(g))
      BY DEF StoredRollups, RollupAt, s
    <2> HIDE DEF m
    <2> QED
      BY <2>4, <2>5, RollupTyped
  <1> QED
    BY <1>1, LabelsFinite DEF ValueTerms

(* When every series is read, the sums are the expected answer.             *)
LEMMA AllRead ==
    ASSUME Inv, phase = "engine", EngineOk, it.key = <<>>, read = DOMAIN built.series
    PROVE  AnswerIs
  <1> SUFFICES ASSUME NEW b, NEW g \in Grid PROVE Answered(b, g) = Expected(b, g)
    BY DEF AnswerIs
  <1> DEFINE T == {labels \in Labels : <<labels, b>> \in DOMAIN built.series}
  <1>1. store \in Stores /\ plan \in Plans /\ g \in Nat
    BY DEF Inv, Grid
  <1>2. T \in SUBSET Labels /\ \A labels \in T : <<labels, b>> \in DOMAIN built.series
    OBVIOUS
  <1>3. \A labels \in Labels \ T : RowsOfBucket(labels, b) = {}
    BY DEF EngineOk, Complete
  <1>4. Added(b, g) = T
    BY DEF Added
  <1>5. b \notin BucketsBuilt => T = {}
    <2> SUFFICES ASSUME NEW labels \in T PROVE b \in BucketsBuilt
      OBVIOUS
    <2>1. <<labels, b>> \in DOMAIN built.series /\ <<labels, b>>[2] = b
      OBVIOUS
    <2> QED
      BY <2>1 DEF BucketsBuilt
  <1> HIDE DEF T
  <1>6. ValueSum(StoredRollups(b, g), Labels) = ValueSum(RollupsOf(b, g), T)
    <2>1. ValueTerms(StoredRollups(b, g), Labels)
      BY <1>1, StoredTerms
    <2>2. ValueTerms(RollupsOf(b, g), T)
      BY <1>1, <1>2, AddedValues
    <2>3. \A labels \in T : StoredRollups(b, g)[labels] = RollupsOf(b, g)[labels]
      BY <1>1, <1>2, SameRollups
    <2>4. \A labels \in Labels \ T : StoredRollups(b, g)[labels] = NaN
      BY <1>1, <1>3, NothingStored
    <2> QED
      BY <1>2, <2>1, <2>2, <2>3, <2>4, ValueSumWithin
  <1>7. Expected(b, g) = ValueSum(RollupsOf(b, g), T)
    BY <1>1, <1>6, ExpectedSum
  <1>8. DOMAIN sums = BucketsBuilt /\ (b \in BucketsBuilt => sums[b][g] = ValueSum(RollupsOf(b, g), T))
    BY <1>4 DEF EngineOk, SumsOk
  <1>9. CASE b \in BucketsBuilt
    BY <1>7, <1>8, <1>9 DEF Answered
  <1>10. CASE b \notin BucketsBuilt
    <2>1. ValueSum(RollupsOf(b, g), T) = NaN
      BY <1>5, <1>10, FS_EmptySet, ValueUnfold
    <2> QED
      BY <1>7, <1>8, <1>10, <2>1 DEF Answered
  <1> QED
    BY <1>9, <1>10

(* What a step does not change.                                             *)
LEMMA StoreKept ==
    ASSUME UNCHANGED <<store, plan>>
    PROVE  /\ GeneralRows' = GeneralRows /\ Labels' = Labels /\ AllBounds' = AllBounds
           /\ StoreOnePerTime' <=> StoreOnePerTime
           /\ \A b, g : Expected(b, g)' = Expected(b, g)
           /\ \A labels, b : BucketSeries(labels, b)' = BucketSeries(labels, b)
           /\ \A labels, b : RowsOfBucket(labels, b)' = RowsOfBucket(labels, b)
           /\ \A n, series, temporality :
                Collected(n, series, temporality)' <=> Collected(n, series, temporality)
           /\ Grid' = Grid /\ \A g : GridTime(g)' = GridTime(g)
  <1>1. GeneralRows' = GeneralRows /\ StoredRows' = StoredRows
    BY DEF GeneralRows, StoredRows, RowsFrom, End, GridTime
  <1>2. Labels' = Labels /\ AllBounds' = AllBounds
    BY <1>1 DEF Labels, AllBounds
  <1>3. \A labels, b : BucketSeries(labels, b)' = BucketSeries(labels, b)
    <2>1. \A labels, b : RowsWith(labels, b)' = RowsWith(labels, b)
      BY <1>1 DEF RowsWith
    <2> SUFFICES ASSUME NEW labels, NEW b PROVE BucketSeries(labels, b)' = BucketSeries(labels, b)
      OBVIOUS
    <2>2. RowsWith(labels, b)' = RowsWith(labels, b)
      BY <2>1
    <2> QED
      BY <2>2, SMT DEF BucketSeries, SortBy, Ranked
  <1>4. \A i : LabelAt(i)' = LabelAt(i)
    BY <1>1 DEF LabelAt
  <1>5. \A labels, b : RowsOfBucket(labels, b)' = RowsOfBucket(labels, b)
    BY <1>1, <1>4 DEF RowsOfBucket
  <1>6. \A order, s, k, n : Traced(order, s, k, n)' <=> Traced(order, s, k, n)
    BY <1>1, <1>4 DEF Traced
  <1>7. \A n, series, temporality :
          Collected(n, series, temporality)' <=> Collected(n, series, temporality)
    BY <1>1, <1>4, <1>6 DEF Collected
  <1>8. StoreOnePerTime' <=> StoreOnePerTime
    BY <1>2, <1>3 DEF StoreOnePerTime
  <1>9. Grid' = Grid /\ \A g : GridTime(g)' = GridTime(g)
    BY DEF Grid, GridTime
  <1>10. \A b, g : Expected(b, g)' = Expected(b, g)
    <2> SUFFICES ASSUME NEW b, NEW g PROVE Expected(b, g)' = Expected(b, g)
      OBVIOUS
    <2>1. plan' = plan
      OBVIOUS
    <2>2. \A labels : RollupAt(plan, BucketSeries(labels, b), GridTime(g))'
                        = RollupAt(plan, BucketSeries(labels, b), GridTime(g))
      BY <2>1, <1>3, <1>9
    <2>3. \A f : FoldOf(f, b, g)' <=> FoldOf(f, b, g)
      BY <2>2, <1>2 DEF FoldOf, FoldStep
    <2>4. Expected(b, g) = (CHOOSE f : FoldOf(f, b, g))[Labels]
      BY Zenon DEF Expected, FoldSet, MapThenFoldSet, FoldOf, FoldStep, AnyOf
    <2>5. Expected(b, g)' = (CHOOSE f : FoldOf(f, b, g)')[Labels']
      BY Zenon DEF Expected, FoldSet, MapThenFoldSet, FoldOf, FoldStep, AnyOf
    <2>6. (CHOOSE f : FoldOf(f, b, g)') = (CHOOSE f : FoldOf(f, b, g))
      BY <2>3
    <2> QED
      BY <2>4, <2>5, <2>6, <1>2
  <1> QED
    BY <1>1, <1>2, <1>3, <1>5, <1>7, <1>8, <1>9, <1>10
-----------------------------------------------------------------------------
(* The general path, step by step.                                          *)

(* Before the first row nothing is collected.                               *)
LEMMA CollectedNone ==
    ASSUME store \in Stores PROVE Collected(0, NewBuilder.series, NewBuilder.temporality)
  <1>1. Len(GeneralRows) \in Nat
    BY GeneralRowsTyped, LenProperties
  <1> QED
    BY <1>1 DEF Collected, NewBuilder

(* An answer stays what it is.                                              *)
LEMMA AnswerKept ==
    ASSUME UNCHANGED <<store, plan, sums>>
    PROVE  AnswerIs' <=> AnswerIs
  <1>1. AllBounds' = AllBounds /\ Grid' = Grid /\ \A b, g : Expected(b, g)' = Expected(b, g)
    BY StoreKept
  <1>2. \A b, g : Answered(b, g)' = Answered(b, g)
    BY DEF Answered
  <1> QED
    BY <1>1, <1>2 DEF AnswerIs

(* A step that changes nothing the sums depend on.                          *)
LEMMA EngineKept ==
    ASSUME EngineOk, UNCHANGED <<store, plan, built, read, sums>>, it'.key \notin read,
           \A b : \A g \in Grid : Added(b, g)' = Added(b, g)
    PROVE  EngineOk'
  <1>1. /\ Labels' = Labels /\ Grid' = Grid /\ \A g : GridTime(g)' = GridTime(g)
        /\ \A labels, b : BucketSeries(labels, b)' = BucketSeries(labels, b)
        /\ \A labels, b : RowsOfBucket(labels, b)' = RowsOfBucket(labels, b)
    BY StoreKept
  <1>2. ReadOk'
    BY <1>1 DEF EngineOk, ReadOk
  <1>3. Complete'
    BY <1>1 DEF EngineOk, Complete
  <1>4. BuiltAsStored'
    BY <1>1 DEF EngineOk, BuiltAsStored, IsStored
  <1>5. \A b, g : RollupsOf(b, g)' = RollupsOf(b, g)
    BY <1>1 DEF RollupsOf
  <1>6. BucketsBuilt' = BucketsBuilt
    BY DEF BucketsBuilt
  <1>7. SumsOk'
    BY <1>1, <1>5, <1>6 DEF EngineOk, SumsOk
  <1> QED
    BY <1>2, <1>3, <1>4, <1>7 DEF EngineOk

LEMMA CompactStays == ASSUME Inv, GeneralOk, CompactAdd \/ CompactFinish \/ ReadFails PROVE GeneralOk'
  <1>1. store \in Stores /\ UNCHANGED <<store, plan, built, it, read>>
    BY DEF Inv, CompactAdd, CompactFinish, ReadFails
  <1>2. CASE CompactAdd
    <2> DEFINE r == CompactRows[row + 1]
               before == EndSource(r)
    <2>1. AddRow(r, before.ev, before.sums) /\ phase = "compact"
      BY <1>2 DEF CompactAdd, AddAfter
    <2> HIDE DEF r, before
    <2>2. \/ phase' \in {"build", "failed"} /\ row' = 0
          \/ phase' = "compact" /\ path' = path
      BY <2>1, AddPhase
    <2>3. path = "compact" /\ built = NewBuilder /\ read = {} /\ it = NoIterator
      BY <2>1 DEF GeneralOk
    <2>4. built' = NewBuilder /\ read' = {} /\ it' = NoIterator /\ NewBuilder' = NewBuilder /\ NoIterator' = NoIterator
      BY <1>1, <2>3 DEF NewBuilder, NoIterator
    <2>5. Collected(0, NewBuilder.series, NewBuilder.temporality)'
      BY <1>1, CollectedNone, StoreKept
    <2>6. phase' = "build" => Collected(row, built.series, built.temporality)'
      BY <2>2, <2>4, <2>5
    <2> QED
      BY <2>2, <2>3, <2>4, <2>6 DEF GeneralOk, GeneralExact
  <1>3. CASE CompactFinish
    BY <1>3 DEF CompactFinish, GeneralOk, GeneralExact
  <1>4. CASE ReadFails
    BY <1>4 DEF ReadFails, GeneralOk, GeneralExact
  <1> QED
    BY <1>2, <1>3, <1>4

LEMMA BuildStays == ASSUME Inv, GeneralOk, BuildAdd PROVE GeneralOk'
  <1>1. phase = "build" /\ UNCHANGED <<it, read>>
    BY DEF BuildAdd
  <1>2. \/ phase' = "failed"
        \/ phase' = "build" /\ Collected(row, built.series, built.temporality)'
    BY <1>1, CollectedNext DEF GeneralOk
  <1>3. read' = {} /\ it' = NoIterator
    BY <1>1 DEF GeneralOk
  <1> QED
    BY <1>2, <1>3 DEF GeneralOk, GeneralExact, NoIterator

(* finish begins the engine's part with what was stored and empty sums.     *)
LEMMA FinishBegins ==
    ASSUME Inv, GeneralOk, BuildFinish, StoreOnePerTime
    PROVE  EngineOk'
  <1> DEFINE old == built.series
             new(k) == Finished(SortSamples(old[k]), built.temporality[k[1]])
             series == [k \in DOMAIN old |-> new(k)]
  <1>1. /\ phase = "build" /\ row = Len(GeneralRows) /\ BuiltOk
        /\ store \in Stores /\ plan \in Plans /\ UNCHANGED <<store, plan, it, read>>
        /\ Collected(Len(GeneralRows), old, built.temporality) /\ read = {} /\ it = NoIterator
    BY DEF Inv, BuildFinish, GeneralOk
  <1>2. built'.series = series
    <2>1. built' = [built EXCEPT !.series = series]
      BY DEF BuildFinish, Finished
    <2> HIDE DEF series
    <2> QED
      BY <1>1, <2>1 DEF BuiltOk
  <1>3. sums' = [b \in {k[2] : k \in DOMAIN old} |-> [g \in Grid |-> NaN]]
    BY DEF BuildFinish
  <1>4. \A k \in DOMAIN old : k[1] \in Labels /\ IsStored(new(k), k)
    BY <1>1, FinishedSeries
  <1>5. /\ Labels' = Labels /\ Grid' = Grid /\ GeneralRows' = GeneralRows
        /\ \A labels, b : BucketSeries(labels, b)' = BucketSeries(labels, b)
        /\ \A labels, b : RowsOfBucket(labels, b)' = RowsOfBucket(labels, b)
    BY <1>1, StoreKept
  <1>6. DOMAIN built'.series = DOMAIN old /\ \A k \in DOMAIN old : built'.series[k] = new(k)
    BY <1>2
  <1> HIDE DEF new, series, old
  <1>7. read' = {} /\ it'.key = <<>>
    BY <1>1 DEF NoIterator
  <1>8. ReadOk'
    BY <1>4, <1>5, <1>6, <1>7 DEF ReadOk
  <1>9. BuiltAsStored'
    BY <1>4, <1>5, <1>6 DEF BuiltAsStored, IsStored
  <1>10. ASSUME NEW labels \in Labels, NEW b, <<labels, b>> \notin DOMAIN old
         PROVE  RowsOfBucket(labels, b) = {}
    <2> SUFFICES ASSUME NEW i \in RowsOfBucket(labels, b) PROVE FALSE
      OBVIOUS
    <2>1. i \in 1..Len(GeneralRows) /\ LabelAt(i) = labels /\ b \in Range(BoundsOf(GeneralRows[i]))
      BY <1>1, GeneralRowsTyped, LenProperties DEF RowsOfBucket, HasBound
    <2> QED
      BY <1>1, <1>10, <2>1 DEF Collected
  <1>11. Complete'
    BY <1>5, <1>6, <1>10 DEF Complete
  <1>12. \A b, g : Added(b, g)' = {}
    BY <1>7 DEF Added
  <1>13. \A f : ValueSum(f, {}) = NaN
    BY FS_EmptySet, ValueUnfold
  <1>14. BucketsBuilt' = {k[2] : k \in DOMAIN old}
    BY <1>6 DEF BucketsBuilt
  <1>15. SumsOk'
    BY <1>3, <1>5, <1>12, <1>13, <1>14 DEF SumsOk
  <1> QED
    BY <1>8, <1>9, <1>11, <1>15 DEF EngineOk

LEMMA FinishStays == ASSUME Inv, GeneralOk, BuildFinish PROVE GeneralOk'
  <1>1. phase' = "engine" /\ UNCHANGED <<store, plan>>
    BY DEF BuildFinish
  <1>2. StoreOnePerTime' <=> StoreOnePerTime
    BY <1>1, StoreKept
  <1>3. StoreOnePerTime => EngineOk'
    BY FinishBegins
  <1> QED
    BY <1>1, <1>2, <1>3 DEF GeneralOk, GeneralExact

(* While the engine reads, an answer is not yet given.                      *)
LEMMA EngineStays ==
    ASSUME phase' = "engine", UNCHANGED <<store, plan>>, StoreOnePerTime => EngineOk'
    PROVE  GeneralOk'
  <1>1. StoreOnePerTime' <=> StoreOnePerTime
    BY StoreKept
  <1> QED
    BY <1>1 DEF GeneralOk, GeneralExact

LEMMA OpenStays == ASSUME Inv, GeneralOk, OpenIterator PROVE GeneralOk'
  <1>1. /\ phase = "engine" /\ phase' = "engine" /\ it.key = <<>>
        /\ UNCHANGED <<store, plan, built, read, sums>>
    BY DEF OpenIterator
  <1>2. PICK k \in DOMAIN built.series :
          it' = [NoIterator EXCEPT !.key = k, !.idx = NextIdx(built.series[k], 0)] /\ k \notin read
    BY DEF OpenIterator
  <1>3. it'.key = k /\ it'.grid = 0 /\ k \notin read
    BY <1>2 DEF NoIterator
  <1>4. \A b : \A g \in Grid : Added(b, g)' = Added(b, g)
    <2>1. Labels' = Labels
      BY <1>1, StoreKept
    <2>2. \A g \in Grid : ~(g < 0)
      BY PlanNumbers DEF Inv, Grid
    <2> QED
      BY <1>1, <1>3, <2>1, <2>2 DEF Added
  <1>5. StoreOnePerTime => EngineOk'
    BY <1>1, <1>3, <1>4, EngineKept DEF GeneralOk
  <1> QED
    BY <1>1, <1>5, EngineStays

LEMMA MoveStays == ASSUME Inv, GeneralOk, EngineSeek \/ EngineNext PROVE GeneralOk'
  <1>1. /\ phase = "engine" /\ phase' = "engine" /\ UNCHANGED <<store, plan, built, read, sums>>
    BY DEF EngineSeek, EngineNext
  <1>2. it \in Positions
    <2>1. it # NoIterator
      BY DEF EngineSeek, EngineNext, NoIterator
    <2> QED
      BY <2>1 DEF Inv, ReaderOk
  <1>3. it'.key = it.key /\ it'.grid = it.grid
    <2>1. CASE EngineSeek
      <3>1. \E idx, passed : it' = [it EXCEPT !.fill = TRUE, !.idx = idx, !.passed = passed]
        BY <2>1, Zenon DEF EngineSeek
      <3> QED
        BY <1>2, <3>1 DEF Positions
    <2>2. CASE EngineNext
      <3>1. \E idx, passed : it' = [it EXCEPT !.idx = idx, !.passed = passed]
        BY <2>2, Zenon DEF EngineNext
      <3> QED
        BY <1>2, <3>1 DEF Positions
    <2> QED
      BY <2>1, <2>2
  <1>4. \A b, g : Added(b, g)' = Added(b, g)
    <2>1. Labels' = Labels
      BY <1>1, StoreKept
    <2> QED
      BY <1>1, <1>3, <2>1 DEF Added
  <1>5. StoreOnePerTime => EngineOk'
    <2>1. EngineOk => it'.key \notin read
      BY <1>3 DEF EngineOk, ReadOk
    <2> QED
      BY <1>1, <1>4, <2>1, EngineKept DEF GeneralOk
  <1> QED
    BY <1>1, <1>5, EngineStays

LEMMA EvaluateStays == ASSUME Inv, GeneralOk, EngineEvaluate PROVE GeneralOk'
  <1>1. phase = "engine" /\ phase' = "engine" /\ UNCHANGED <<store, plan, built>>
    BY DEF EngineEvaluate
  <1>2. ASSUME StoreOnePerTime PROVE EngineOk'
    <2>1. EngineOk
      BY <1>1, <1>2 DEF GeneralOk
    <2>2. SeriesOnce
      BY <2>1 DEF EngineOk, BuiltAsStored, IsStored, SeriesOnce
    <2>3. SumsOk'
      BY <2>1, <2>2, EvaluateSums DEF EngineOk
    <2>4. 0 \in Grid
      BY PlanNumbers DEF Inv, Grid
    <2>5. ReadOk'
      BY <2>1, <2>4, AddedNext DEF EngineOk
    <2>6. /\ Labels' = Labels
          /\ \A labels, b : BucketSeries(labels, b)' = BucketSeries(labels, b)
          /\ \A labels, b : RowsOfBucket(labels, b)' = RowsOfBucket(labels, b)
      BY <1>1, StoreKept
    <2>7. Complete'
      BY <1>1, <2>1, <2>6 DEF EngineOk, Complete
    <2>8. BuiltAsStored'
      BY <1>1, <2>1, <2>6 DEF EngineOk, BuiltAsStored, IsStored
    <2> QED
      BY <2>3, <2>5, <2>7, <2>8 DEF EngineOk
  <1> QED
    BY <1>1, <1>2, EngineStays

LEMMA DoneStays == ASSUME Inv, GeneralOk, EngineDone PROVE GeneralOk'
  <1>1. /\ phase = "engine" /\ phase' = "done" /\ it.key = <<>> /\ read = DOMAIN built.series
        /\ UNCHANGED <<store, plan, sums>>
    BY DEF EngineDone
  <1>2. StoreOnePerTime' <=> StoreOnePerTime
    BY <1>1, StoreKept
  <1>3. StoreOnePerTime => AnswerIs
    BY <1>1, AllRead DEF GeneralOk
  <1>4. AnswerIs' <=> AnswerIs
    BY <1>1, AnswerKept
  <1> QED
    BY <1>1, <1>2, <1>3, <1>4 DEF GeneralOk, GeneralExact

LEMMA StutterStays == ASSUME GeneralOk, UNCHANGED vars PROVE GeneralOk'
  <1>1. UNCHANGED <<store, plan, phase, path, row, built, it, read, sums>>
    BY DEF vars
  <1>2. /\ StoreOnePerTime' <=> StoreOnePerTime
        /\ \A n, series, temporality :
             Collected(n, series, temporality)' <=> Collected(n, series, temporality)
    BY <1>1, StoreKept
  <1>3. Collected(row, built.series, built.temporality)'
          <=> Collected(row, built.series, built.temporality)
    BY <1>1, <1>2
  <1>4. AnswerIs' <=> AnswerIs
    BY <1>1, AnswerKept
  <1>5. ASSUME EngineOk PROVE EngineOk'
    <2>1. Labels' = Labels
      BY <1>1, StoreKept
    <2>2. \A b : \A g \in Grid : Added(b, g)' = Added(b, g)
      BY <1>1, <2>1 DEF Added
    <2>3. it'.key \notin read
      BY <1>1, <1>5 DEF EngineOk, ReadOk
    <2> QED
      BY <1>1, <1>5, <2>2, <2>3, EngineKept
  <1> QED
    BY <1>1, <1>2, <1>3, <1>4, <1>5 DEF GeneralOk, GeneralExact, NewBuilder, NoIterator

(* The general path answers, for every bucket and step, the sum over the    *)
(* label sets of the function on the points stored in that bucket, whatever *)
(* the rows, the request and the order in which the series are read, as     *)
(* long as a series has one point per timestamp: what addSample collects    *)
(* row by row, with stale markers for the buckets a source no longer has,   *)
(* and finish sorts and accumulates, is what was stored                     *)
(* (posthog_histogram.go:440-560 and 583-628), and the engine adds each     *)
(* series to its bucket once.                                               *)
THEOREM GeneralPathExact == Spec => []GeneralExact
  <1>1. Init => GeneralOk
    <2> SUFFICES ASSUME Init PROVE GeneralOk
      OBVIOUS
    <2>1. /\ store \in Stores /\ row = 0 /\ built = NewBuilder /\ read = {} /\ it = NoIterator
          /\ (phase = "compact" /\ path = "compact") \/ (phase = "build" /\ path = "general")
      BY Zenon DEF Init
    <2>2. Collected(row, built.series, built.temporality)
      BY <2>1, CollectedNone
    <2> QED
      BY <2>1, <2>2 DEF GeneralOk, GeneralExact
  <1>2. Inv /\ GeneralOk /\ [Next]_vars => GeneralOk'
    <2> SUFFICES ASSUME Inv, GeneralOk, [Next]_vars PROVE GeneralOk'
      OBVIOUS
    <2>1. CASE UNCHANGED vars
      BY <2>1, StutterStays
    <2>2. CASE CompactAdd \/ CompactFinish \/ ReadFails
      BY <2>2, CompactStays
    <2>3. CASE BuildAdd
      BY <2>3, BuildStays
    <2>4. CASE BuildFinish
      BY <2>4, FinishStays
    <2>5. CASE OpenIterator
      BY <2>5, OpenStays
    <2>6. CASE EngineSeek \/ EngineNext
      BY <2>6, MoveStays
    <2>7. CASE EngineEvaluate
      BY <2>7, EvaluateStays
    <2>8. CASE EngineDone
      BY <2>8, DoneStays
    <2> QED
      BY <2>1, <2>2, <2>3, <2>4, <2>5, <2>6, <2>7, <2>8 DEF Next
  <1>3. GeneralOk => GeneralExact
    BY DEF GeneralOk
  <1> QED
    BY <1>1, <1>2, <1>3, HistogramInv, PTL DEF Spec
=============================================================================
