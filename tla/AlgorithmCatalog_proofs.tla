---------------------- MODULE AlgorithmCatalog_proofs ----------------------
(***************************************************************************)
(* The exhaustive matrices of AlgorithmCatalog, whatever the tables hold:  *)
(* every index of a matrix reads its keywords inside the tables, and no    *)
(* two indices give the same case.  The index is a number in a mixed base  *)
(* whose digits are the keyword indices, so both rest on two facts about   *)
(* quotient and remainder.                                                 *)
(***************************************************************************)
EXTENDS AlgorithmCatalog, TLAPS

\* A number is its quotient and its remainder by n.
LEMMA DivMod ==
    ASSUME NEW i \in Nat, NEW n \in Nat \ {0}
    PROVE  /\ i \div n \in Nat
           /\ i % n \in 0..(n - 1)
           /\ i = n * (i \div n) + (i % n)
BY Z3

\* Splitting off a digit of base n leaves a number below the other digits' range.
LEMMA DivLess ==
    ASSUME NEW i \in Nat, NEW n \in Nat \ {0}, NEW m \in Nat, i < m * n
    PROVE  i \div n < m
<1>1. i \div n \in Nat /\ i = n * (i \div n) + (i % n) /\ i % n \in 0..(n - 1)
  BY DivMod
<1>2. SUFFICES ASSUME i \div n >= m PROVE FALSE
  BY <1>1
<1> DEFINE q == i \div n
<1>3. q \in Nat /\ q >= m
  BY <1>1, <1>2
<1>4. n * q >= m * n
  <2> HIDE DEF q
  <2> QED  BY <1>3, Z3
<1> QED  BY <1>1, <1>4

\* Numbers that agree in a digit and in the rest are equal.
LEMMA SameDigits ==
    ASSUME NEW i \in Nat, NEW j \in Nat, NEW n \in Nat \ {0},
           i % n = j % n, i \div n = j \div n
    PROVE  i = j
BY DivMod

\* The same when the digits, as indices of a table, are counted from one.
LEMMA Unshift ==
    ASSUME NEW i \in Nat, NEW j \in Nat, NEW n \in Nat \ {0},
           (i % n) + 1 = (j % n) + 1,
           i \div n = j \div n \/ (i \div n) + 1 = (j \div n) + 1
    PROVE  i = j
<1> DEFINE p == i % n
           q == j % n
           r == i \div n
           s == j \div n
<1>1. p \in Nat /\ q \in Nat /\ r \in Nat /\ s \in Nat
  <2>1. p \in 0..(n - 1) /\ q \in 0..(n - 1) /\ r \in Nat /\ s \in Nat
    BY DivMod, Zenon
  <2> HIDE DEF p, q, r, s
  <2> QED  BY ONLY <2>1, n \in Nat
<1>2. p = q /\ r = s
  <2>1. p + 1 = q + 1 /\ (r = s \/ r + 1 = s + 1)
    OBVIOUS
  <2> HIDE DEF p, q, r, s
  <2> QED  BY <1>1, <2>1
<1> QED  BY <1>2, SameDigits

\* The digits of a number of three digits, the last one first, are in range.
LEMMA ThreeDigits ==
    ASSUME NEW a \in Nat \ {0}, NEW b \in Nat \ {0}, NEW c \in Nat \ {0},
           NEW v \in Nat, v < a * b * c
    PROVE  /\ v \div c \in Nat
           /\ v % c \in 0..(c - 1)
           /\ (v \div c) % b \in 0..(b - 1)
           /\ (v \div c) \div b \in 0..(a - 1)
<1>1. v \div c \in Nat /\ v % c \in 0..(c - 1)
  BY DivMod
<1>2. v \div c < a * b
  <2>1. a * b \in Nat
    BY Z3
  <2> QED  BY <2>1, DivLess
<1>3. (v \div c) \div b \in Nat /\ (v \div c) % b \in 0..(b - 1)
  BY <1>1, DivMod
<1>4. (v \div c) \div b < a
  BY <1>1, <1>2, DivLess
<1> QED  BY <1>1, <1>3, <1>4

\* The same for four digits.
LEMMA FourDigits ==
    ASSUME NEW a \in Nat \ {0}, NEW b \in Nat \ {0}, NEW c \in Nat \ {0}, NEW d \in Nat \ {0},
           NEW v \in Nat, v < a * b * c * d
    PROVE  /\ v \div d \in Nat
           /\ v % d \in 0..(d - 1)
           /\ (v \div d) \div c \in Nat
           /\ (v \div d) % c \in 0..(c - 1)
           /\ ((v \div d) \div c) % b \in 0..(b - 1)
           /\ ((v \div d) \div c) \div b \in 0..(a - 1)
<1>1. v \div d \in Nat /\ v % d \in 0..(d - 1)
  BY DivMod
<1>2. v \div d < a * b * c
  <2>1. a * b * c \in Nat
    BY Z3
  <2> QED  BY <2>1, DivLess
<1> QED  BY <1>1, <1>2, ThreeDigits

\* The digits of u and v, counted from one, agree: the last to base c, the one
\* before it to base b, and the rest.
Agree3(u, v, b, c) ==
    /\ (u % c) + 1 = (v % c) + 1
    /\ ((u \div c) % b) + 1 = ((v \div c) % b) + 1
    /\ ((u \div c) \div b) + 1 = ((v \div c) \div b) + 1

Agree4(u, v, b, c, d) == (u % d) + 1 = (v % d) + 1 /\ Agree3(u \div d, v \div d, b, c)

\* Numbers with the same three digits are equal.
LEMMA SameThree ==
    ASSUME NEW u \in Nat, NEW v \in Nat, NEW b \in Nat \ {0}, NEW c \in Nat \ {0},
           Agree3(u, v, b, c)
    PROVE  u = v
<1>1. u \div c \in Nat /\ v \div c \in Nat
  BY DivMod
<1>2. u \div c = v \div c
  BY <1>1, Unshift DEF Agree3
<1> QED  BY <1>2, Unshift DEF Agree3

\* The same for four digits.
LEMMA SameFour ==
    ASSUME NEW u \in Nat, NEW v \in Nat,
           NEW b \in Nat \ {0}, NEW c \in Nat \ {0}, NEW d \in Nat \ {0},
           Agree4(u, v, b, c, d)
    PROVE  u = v
<1>1. u \div d \in Nat /\ v \div d \in Nat
  BY DivMod
<1>2. u \div d = v \div d
  BY <1>1, SameThree DEF Agree4
<1> QED  BY <1>2, Unshift DEF Agree4

\* No table is empty and none names a keyword twice (CatalogAssumption).
LEMMA Tables ==
    /\ \A t \in Keywords :
          /\ Len(t) \in Nat \ {0}
          /\ \A i, j \in 1..Len(t) : t[i] = t[j] => i = j
    /\ PfsCount \in Nat \ {0}
<1>1. ASSUME NEW t \in Keywords PROVE Len(t) \in Nat \ {0}
  BY CatalogAssumption
<1>2. PfsCount \in Nat \ {0}
  BY <1>1 DEF PfsCount, Keywords
<1> QED  BY <1>1, <1>2, CatalogAssumption

\* The sizes of the matrices are natural numbers.
LEMMA Counts ==
    /\ IkeClassicCount \in Nat /\ IkeCount \in Nat
    /\ EspClassicCount \in Nat /\ EspCount \in Nat
<1>1. ASSUME NEW a \in Nat, NEW b \in Nat, NEW c \in Nat, NEW d \in Nat, NEW e \in Nat
      PROVE  a * b * c * d \in Nat /\ a * b * c * d + e * c * d \in Nat
  BY Z3
<1>2. \A t \in Keywords : Len(t) \in Nat
  BY Tables
<1>3. /\ Len(ClassicEncryption) \in Nat /\ Len(Aead) \in Nat /\ Len(IkeIntegrity) \in Nat
      /\ Len(EspIntegrity) \in Nat /\ Len(IkePrf) \in Nat /\ Len(Ke) \in Nat
      /\ Len(EsnModes) \in Nat /\ PfsCount \in Nat
  BY <1>2, Tables DEF Keywords
<1> QED  BY <1>1, <1>3 DEF IkeClassicCount, IkeCount, EspClassicCount, EspCount

-----------------------------------------------------------------------------
(* The IKE matrix                                                          *)

\* A case with integrity: its keywords and their indices in the tables.
LEMMA IkeClassicCase ==
    ASSUME NEW i \in Nat, i < IkeClassicCount
    PROVE  \E e \in 1..Len(ClassicEncryption), g \in 1..Len(IkeIntegrity),
              p \in 1..Len(IkePrf), k \in 1..Len(Ke) :
              /\ GetNativeAppExhaustiveIkeCase(i) =
                    <<ClassicEncryption[e], IkeIntegrity[g], IkePrf[p], Ke[k]>>
              /\ k = (i % Len(Ke)) + 1
              /\ p = ((i \div Len(Ke)) % Len(IkePrf)) + 1
              /\ g = (((i \div Len(Ke)) \div Len(IkePrf)) % Len(IkeIntegrity)) + 1
              /\ e = (((i \div Len(Ke)) \div Len(IkePrf)) \div Len(IkeIntegrity)) + 1
<1> DEFINE a == Len(ClassicEncryption)
           b == Len(IkeIntegrity)
           c == Len(IkePrf)
           d == Len(Ke)
<1>1. a \in Nat \ {0} /\ b \in Nat \ {0} /\ c \in Nat \ {0} /\ d \in Nat \ {0}
  BY Tables DEF Keywords
<1>2. i < a * b * c * d
  BY DEF IkeClassicCount
<1>3. GetNativeAppExhaustiveIkeCase(i) =
         <<ClassicEncryption[(((i \div d) \div c) \div b) + 1],
           IkeIntegrity[(((i \div d) \div c) % b) + 1],
           IkePrf[((i \div d) % c) + 1], Ke[(i % d) + 1]>>
  BY DEF GetNativeAppExhaustiveIkeCase
<1>4. /\ (((i \div d) \div c) \div b) + 1 \in 1..a /\ (((i \div d) \div c) % b) + 1 \in 1..b
      /\ ((i \div d) % c) + 1 \in 1..c /\ (i % d) + 1 \in 1..d
  <2> HIDE DEF a, b, c, d
  <2> QED  BY <1>1, <1>2, FourDigits
<1> QED  BY <1>3, <1>4, Zenon

\* An AEAD case, likewise, by its index behind the cases with integrity.
LEMMA IkeAeadCase ==
    ASSUME NEW i \in Nat, ~(i < IkeClassicCount), i < IkeCount, NEW v, v = i - IkeClassicCount
    PROVE  /\ v \in Nat
           /\ \E e \in 1..Len(Aead), p \in 1..Len(IkePrf), k \in 1..Len(Ke) :
                 /\ GetNativeAppExhaustiveIkeCase(i) = <<Aead[e], IkePrf[p], Ke[k]>>
                 /\ k = (v % Len(Ke)) + 1
                 /\ p = ((v \div Len(Ke)) % Len(IkePrf)) + 1
                 /\ e = ((v \div Len(Ke)) \div Len(IkePrf)) + 1
<1> DEFINE a == Len(Aead)
           c == Len(IkePrf)
           d == Len(Ke)
           n == IkeClassicCount
<1>1. a \in Nat \ {0} /\ c \in Nat \ {0} /\ d \in Nat \ {0} /\ n \in Nat
  BY Tables, Counts DEF Keywords
<1>2. v \in Nat /\ v < a * c * d
  <2>1. ~(i < n) /\ i < n + a * c * d /\ v = i - n
    BY DEF IkeCount
  <2> HIDE DEF a, c, d, n
  <2>2. a * c * d \in Nat
    BY ONLY <1>1, Z3
  <2> QED  BY <1>1, <2>1, <2>2
<1>3. GetNativeAppExhaustiveIkeCase(i) =
         <<Aead[((v \div d) \div c) + 1], IkePrf[((v \div d) % c) + 1], Ke[(v % d) + 1]>>
  BY DEF GetNativeAppExhaustiveIkeCase
<1>4. /\ ((v \div d) \div c) + 1 \in 1..a
      /\ ((v \div d) % c) + 1 \in 1..c /\ (v % d) + 1 \in 1..d
  <2> HIDE DEF a, c, d
  <2> QED  BY <1>1, <1>2, ThreeDigits
<1> QED  BY <1>2, <1>3, <1>4, Zenon

\* A matrix of IKE proposals has no case twice: GetNativeAppExhaustiveIkeCase
\* gives different proposals for different indices, for any tables.
THEOREM IkeCasesDistinct ==
    \A i, j \in 0..(IkeCount - 1) :
        GetNativeAppExhaustiveIkeCase(i) = GetNativeAppExhaustiveIkeCase(j) => i = j
<1> SUFFICES ASSUME NEW i \in Nat, NEW j \in Nat, i < IkeCount, j < IkeCount,
                    GetNativeAppExhaustiveIkeCase(i) = GetNativeAppExhaustiveIkeCase(j)
             PROVE  i = j
  BY Counts
<1> DEFINE F(k) == GetNativeAppExhaustiveIkeCase(k)
           b == Len(IkeIntegrity)
           c == Len(IkePrf)
           d == Len(Ke)
<1>1. b \in Nat \ {0} /\ c \in Nat \ {0} /\ d \in Nat \ {0}
  BY Tables DEF Keywords
<1>t. \A t \in {ClassicEncryption, Aead, IkeIntegrity, IkePrf, Ke} :
         \A k, l \in 1..Len(t) : t[k] = t[l] => k = l
  BY Tables DEF Keywords
<1>2. CASE i < IkeClassicCount /\ j < IkeClassicCount
  <2>1. PICK e \in 1..Len(ClassicEncryption), g \in 1..Len(IkeIntegrity),
             p \in 1..Len(IkePrf), k \in 1..Len(Ke) :
           /\ F(i) = <<ClassicEncryption[e], IkeIntegrity[g], IkePrf[p], Ke[k]>>
           /\ k = (i % d) + 1
           /\ p = ((i \div d) % c) + 1
           /\ g = (((i \div d) \div c) % b) + 1
           /\ e = (((i \div d) \div c) \div b) + 1
    BY <1>2, IkeClassicCase
  <2>2. PICK f \in 1..Len(ClassicEncryption), h \in 1..Len(IkeIntegrity),
             q \in 1..Len(IkePrf), l \in 1..Len(Ke) :
           /\ F(j) = <<ClassicEncryption[f], IkeIntegrity[h], IkePrf[q], Ke[l]>>
           /\ l = (j % d) + 1
           /\ q = ((j \div d) % c) + 1
           /\ h = (((j \div d) \div c) % b) + 1
           /\ f = (((j \div d) \div c) \div b) + 1
    BY <1>2, IkeClassicCase
  <2>3. /\ ClassicEncryption[e] = ClassicEncryption[f] /\ IkeIntegrity[g] = IkeIntegrity[h]
        /\ IkePrf[p] = IkePrf[q] /\ Ke[k] = Ke[l]
    <3>1. <<ClassicEncryption[e], IkeIntegrity[g], IkePrf[p], Ke[k]>> =
          <<ClassicEncryption[f], IkeIntegrity[h], IkePrf[q], Ke[l]>>
      BY <2>1, <2>2, Zenon
    <3> QED  BY ONLY <3>1
  <2>4. e = f /\ g = h /\ p = q /\ k = l
    BY <1>t, <2>3
  <2> HIDE DEF b, c, d
  <2>5. Agree4(i, j, b, c, d)
    BY <2>1, <2>2, <2>4, Zenon DEF Agree3, Agree4
  <2> QED  BY <1>1, <2>5, SameFour
<1>3. CASE ~(i < IkeClassicCount) /\ ~(j < IkeClassicCount)
  <2> DEFINE u == i - IkeClassicCount
             v == j - IkeClassicCount
  <2>0. u \in Nat /\ v \in Nat
    BY <1>3, IkeAeadCase
  <2>1. PICK e \in 1..Len(Aead), p \in 1..Len(IkePrf), k \in 1..Len(Ke) :
           /\ F(i) = <<Aead[e], IkePrf[p], Ke[k]>>
           /\ k = (u % d) + 1
           /\ p = ((u \div d) % c) + 1
           /\ e = ((u \div d) \div c) + 1
    BY <1>3, IkeAeadCase
  <2>2. PICK f \in 1..Len(Aead), q \in 1..Len(IkePrf), l \in 1..Len(Ke) :
           /\ F(j) = <<Aead[f], IkePrf[q], Ke[l]>>
           /\ l = (v % d) + 1
           /\ q = ((v \div d) % c) + 1
           /\ f = ((v \div d) \div c) + 1
    BY <1>3, IkeAeadCase
  <2>3. Aead[e] = Aead[f] /\ IkePrf[p] = IkePrf[q] /\ Ke[k] = Ke[l]
    <3>1. <<Aead[e], IkePrf[p], Ke[k]>> = <<Aead[f], IkePrf[q], Ke[l]>>
      BY <2>1, <2>2, Zenon
    <3> QED  BY ONLY <3>1
  <2>4. e = f /\ p = q /\ k = l
    BY <1>t, <2>3
  <2>5. u = v
    <3> HIDE DEF c, d, u, v
    <3>1. Agree3(u, v, c, d)
      BY <2>1, <2>2, <2>4, Zenon DEF Agree3
    <3> QED  BY <1>1, <2>0, <3>1, SameThree
  <2> QED  BY <2>5, Counts
<1>4. ASSUME NEW k \in Nat, NEW l \in Nat, k < IkeClassicCount,
             ~(l < IkeClassicCount), l < IkeCount
      PROVE  F(k) # F(l)
  <2>1. PICK a1, a2, a3, a4 : F(k) = <<a1, a2, a3, a4>>
    BY <1>4, IkeClassicCase
  <2>2. PICK b1, b2, b3 : F(l) = <<b1, b2, b3>>
    BY <1>4, IkeAeadCase
  <2> QED  BY <2>1, <2>2
<1> QED  BY <1>2, <1>3, <1>4

-----------------------------------------------------------------------------
(* The ESP matrix                                                          *)

\* A case with integrity: its keywords and their indices in the tables, the
\* choice of no key exchange method counting as the first.
LEMMA EspClassicCase ==
    ASSUME NEW i \in Nat, i < EspClassicCount
    PROVE  \E e \in 1..Len(ClassicEncryption), g \in 1..Len(EspIntegrity),
              f \in 1..PfsCount, n \in 1..Len(EsnModes) :
              /\ GetNativeAppExhaustiveEspCase(i) =
                    (IF f = 1 THEN <<ClassicEncryption[e], EspIntegrity[g], EsnModes[n]>>
                     ELSE <<ClassicEncryption[e], EspIntegrity[g], Ke[f - 1], EsnModes[n]>>)
              /\ n = (i % Len(EsnModes)) + 1
              /\ f = ((i \div Len(EsnModes)) % PfsCount) + 1
              /\ g = (((i \div Len(EsnModes)) \div PfsCount) % Len(EspIntegrity)) + 1
              /\ e = (((i \div Len(EsnModes)) \div PfsCount) \div Len(EspIntegrity)) + 1
<1> DEFINE a == Len(ClassicEncryption)
           b == Len(EspIntegrity)
           c == PfsCount
           d == Len(EsnModes)
           n == (i % d) + 1
           f == ((i \div d) % c) + 1
           g == (((i \div d) \div c) % b) + 1
           e == (((i \div d) \div c) \div b) + 1
<1>1. a \in Nat \ {0} /\ b \in Nat \ {0} /\ c \in Nat \ {0} /\ d \in Nat \ {0}
  BY Tables DEF Keywords
<1>2. i < a * b * c * d
  BY DEF EspClassicCount
<1>3. e \in 1..a /\ g \in 1..b /\ f \in 1..c /\ n \in 1..d /\ (i \div d) % c \in Nat
  <2> HIDE DEF a, b, c, d
  <2>1. /\ i % d \in 0..(d - 1) /\ (i \div d) % c \in 0..(c - 1)
        /\ ((i \div d) \div c) % b \in 0..(b - 1) /\ ((i \div d) \div c) \div b \in 0..(a - 1)
    BY <1>1, <1>2, FourDigits
  <2> QED  BY ONLY <1>1, <2>1
<1>4. (f = 1 <=> (i \div d) % c = 0) /\ (i \div d) % c = f - 1
  <2> DEFINE x == (i \div d) % c
  <2>1. x \in Nat /\ f = x + 1
    BY <1>3
  <2>2. (f = 1 <=> x = 0) /\ x = f - 1
    <3> HIDE DEF x, f
    <3> QED  BY <2>1
  <2> QED  BY <2>2
<1>5. GetNativeAppExhaustiveEspCase(i) =
         (IF f = 1 THEN <<ClassicEncryption[e], EspIntegrity[g], EsnModes[n]>>
          ELSE <<ClassicEncryption[e], EspIntegrity[g], Ke[f - 1], EsnModes[n]>>)
  BY <1>4, Zenon DEF GetNativeAppExhaustiveEspCase
<1> QED  BY <1>3, <1>5, Zenon

\* An AEAD case, likewise, by its index behind the cases with integrity.
LEMMA EspAeadCase ==
    ASSUME NEW i \in Nat, ~(i < EspClassicCount), i < EspCount, NEW v, v = i - EspClassicCount
    PROVE  /\ v \in Nat
           /\ \E e \in 1..Len(Aead), f \in 1..PfsCount, n \in 1..Len(EsnModes) :
                 /\ GetNativeAppExhaustiveEspCase(i) =
                       (IF f = 1 THEN <<Aead[e], EsnModes[n]>>
                        ELSE <<Aead[e], Ke[f - 1], EsnModes[n]>>)
                 /\ n = (v % Len(EsnModes)) + 1
                 /\ f = ((v \div Len(EsnModes)) % PfsCount) + 1
                 /\ e = ((v \div Len(EsnModes)) \div PfsCount) + 1
<1> DEFINE a == Len(Aead)
           c == PfsCount
           d == Len(EsnModes)
           z == EspClassicCount
           n == (v % d) + 1
           f == ((v \div d) % c) + 1
           e == ((v \div d) \div c) + 1
<1>1. a \in Nat \ {0} /\ c \in Nat \ {0} /\ d \in Nat \ {0} /\ z \in Nat
  BY Tables, Counts DEF Keywords
<1>2. v \in Nat /\ v < a * c * d
  <2>1. ~(i < z) /\ i < z + a * c * d /\ v = i - z
    BY DEF EspCount
  <2> HIDE DEF a, c, d, z
  <2>2. a * c * d \in Nat
    BY ONLY <1>1, Z3
  <2> QED  BY <1>1, <2>1, <2>2
<1>3. e \in 1..a /\ f \in 1..c /\ n \in 1..d /\ (v \div d) % c \in Nat
  <2> HIDE DEF a, c, d
  <2>1. /\ v % d \in 0..(d - 1) /\ (v \div d) % c \in 0..(c - 1)
        /\ (v \div d) \div c \in 0..(a - 1)
    BY <1>1, <1>2, ThreeDigits
  <2> QED  BY ONLY <1>1, <2>1
<1>4. (f = 1 <=> (v \div d) % c = 0) /\ (v \div d) % c = f - 1
  <2> DEFINE x == (v \div d) % c
  <2>1. x \in Nat /\ f = x + 1
    BY <1>3
  <2>2. (f = 1 <=> x = 0) /\ x = f - 1
    <3> HIDE DEF x, f
    <3> QED  BY <2>1
  <2> QED  BY <2>2
<1>5. GetNativeAppExhaustiveEspCase(i) =
         (IF f = 1 THEN <<Aead[e], EsnModes[n]>> ELSE <<Aead[e], Ke[f - 1], EsnModes[n]>>)
  BY <1>4, Zenon DEF GetNativeAppExhaustiveEspCase
<1> QED  BY <1>2, <1>3, <1>5, Zenon

\* A matrix of ESP proposals has no case twice: GetNativeAppExhaustiveEspCase
\* gives different proposals for different indices, for any tables.
THEOREM EspCasesDistinct ==
    \A i, j \in 0..(EspCount - 1) :
        GetNativeAppExhaustiveEspCase(i) = GetNativeAppExhaustiveEspCase(j) => i = j
<1> SUFFICES ASSUME NEW i \in Nat, NEW j \in Nat, i < EspCount, j < EspCount,
                    GetNativeAppExhaustiveEspCase(i) = GetNativeAppExhaustiveEspCase(j)
             PROVE  i = j
  BY Counts
<1> DEFINE F(k) == GetNativeAppExhaustiveEspCase(k)
           b == Len(EspIntegrity)
           c == PfsCount
           d == Len(EsnModes)
<1>1. b \in Nat \ {0} /\ c \in Nat \ {0} /\ d \in Nat \ {0} /\ Len(Ke) \in Nat
  BY Tables DEF Keywords
<1>t. \A t \in {ClassicEncryption, Aead, EspIntegrity, Ke, EsnModes} :
         \A k, l \in 1..Len(t) : t[k] = t[l] => k = l
  BY Tables DEF Keywords
<1>k. ASSUME NEW f \in 1..c, NEW h \in 1..c, f # 1, h # 1, Ke[f - 1] = Ke[h - 1]
      PROVE  f = h
  <2>1. f - 1 \in 1..Len(Ke) /\ h - 1 \in 1..Len(Ke)
    BY <1>1, <1>k DEF PfsCount
  <2>2. f - 1 = h - 1
    BY <1>t, <1>k, <2>1
  <2> QED  BY <1>1, <2>2
<1>2. CASE i < EspClassicCount /\ j < EspClassicCount
  <2>1. PICK e \in 1..Len(ClassicEncryption), g \in 1..Len(EspIntegrity),
             f \in 1..PfsCount, n \in 1..Len(EsnModes) :
           /\ F(i) = (IF f = 1 THEN <<ClassicEncryption[e], EspIntegrity[g], EsnModes[n]>>
                      ELSE <<ClassicEncryption[e], EspIntegrity[g], Ke[f - 1], EsnModes[n]>>)
           /\ n = (i % d) + 1
           /\ f = ((i \div d) % c) + 1
           /\ g = (((i \div d) \div c) % b) + 1
           /\ e = (((i \div d) \div c) \div b) + 1
    BY <1>2, EspClassicCase
  <2>2. PICK q \in 1..Len(ClassicEncryption), r \in 1..Len(EspIntegrity),
             h \in 1..PfsCount, m \in 1..Len(EsnModes) :
           /\ F(j) = (IF h = 1 THEN <<ClassicEncryption[q], EspIntegrity[r], EsnModes[m]>>
                      ELSE <<ClassicEncryption[q], EspIntegrity[r], Ke[h - 1], EsnModes[m]>>)
           /\ m = (j % d) + 1
           /\ h = ((j \div d) % c) + 1
           /\ r = (((j \div d) \div c) % b) + 1
           /\ q = (((j \div d) \div c) \div b) + 1
    BY <1>2, EspClassicCase
  <2>3. (IF f = 1 THEN <<ClassicEncryption[e], EspIntegrity[g], EsnModes[n]>>
         ELSE <<ClassicEncryption[e], EspIntegrity[g], Ke[f - 1], EsnModes[n]>>) =
        (IF h = 1 THEN <<ClassicEncryption[q], EspIntegrity[r], EsnModes[m]>>
         ELSE <<ClassicEncryption[q], EspIntegrity[r], Ke[h - 1], EsnModes[m]>>)
    BY <2>1, <2>2, Zenon
  <2>4. /\ ClassicEncryption[e] = ClassicEncryption[q] /\ EspIntegrity[g] = EspIntegrity[r]
        /\ EsnModes[n] = EsnModes[m]
        /\ (f = 1 /\ h = 1) \/ (f # 1 /\ h # 1 /\ Ke[f - 1] = Ke[h - 1])
    BY ONLY <2>3
  <2>5. e = q /\ g = r /\ n = m /\ f = h
    BY <1>t, <1>k, <2>4
  <2> HIDE DEF b, c, d
  <2>6. Agree4(i, j, b, c, d)
    BY <2>1, <2>2, <2>5, Zenon DEF Agree3, Agree4
  <2> QED  BY <1>1, <2>6, SameFour
<1>3. CASE ~(i < EspClassicCount) /\ ~(j < EspClassicCount)
  <2> DEFINE u == i - EspClassicCount
             v == j - EspClassicCount
  <2>0. u \in Nat /\ v \in Nat
    BY <1>3, EspAeadCase
  <2>1. PICK e \in 1..Len(Aead), f \in 1..PfsCount, n \in 1..Len(EsnModes) :
           /\ F(i) = (IF f = 1 THEN <<Aead[e], EsnModes[n]>>
                      ELSE <<Aead[e], Ke[f - 1], EsnModes[n]>>)
           /\ n = (u % d) + 1
           /\ f = ((u \div d) % c) + 1
           /\ e = ((u \div d) \div c) + 1
    BY <1>3, EspAeadCase
  <2>2. PICK q \in 1..Len(Aead), h \in 1..PfsCount, m \in 1..Len(EsnModes) :
           /\ F(j) = (IF h = 1 THEN <<Aead[q], EsnModes[m]>>
                      ELSE <<Aead[q], Ke[h - 1], EsnModes[m]>>)
           /\ m = (v % d) + 1
           /\ h = ((v \div d) % c) + 1
           /\ q = ((v \div d) \div c) + 1
    BY <1>3, EspAeadCase
  <2>3. (IF f = 1 THEN <<Aead[e], EsnModes[n]>> ELSE <<Aead[e], Ke[f - 1], EsnModes[n]>>) =
        (IF h = 1 THEN <<Aead[q], EsnModes[m]>> ELSE <<Aead[q], Ke[h - 1], EsnModes[m]>>)
    BY <2>1, <2>2, Zenon
  <2>4. /\ Aead[e] = Aead[q] /\ EsnModes[n] = EsnModes[m]
        /\ (f = 1 /\ h = 1) \/ (f # 1 /\ h # 1 /\ Ke[f - 1] = Ke[h - 1])
    BY ONLY <2>3
  <2>5. e = q /\ n = m /\ f = h
    BY <1>t, <1>k, <2>4
  <2>6. u = v
    <3> HIDE DEF c, d, u, v
    <3>1. Agree3(u, v, c, d)
      BY <2>1, <2>2, <2>5, Zenon DEF Agree3
    <3> QED  BY <1>1, <2>0, <3>1, SameThree
  <2> QED  BY <2>6, Counts
<1>4. ASSUME NEW k \in Nat, NEW l \in Nat, k < EspClassicCount,
             ~(l < EspClassicCount), l < EspCount
      PROVE  F(k) # F(l)
  <2>1. PICK e \in 1..Len(ClassicEncryption) : \E x, y, z :
           F(k) = <<ClassicEncryption[e], x, y>> \/ F(k) = <<ClassicEncryption[e], x, y, z>>
    BY <1>4, EspClassicCase
  <2>2. PICK q \in 1..Len(Aead) : \E x, y :
           F(l) = <<Aead[q], x>> \/ F(l) = <<Aead[q], x, y>>
    BY <1>4, EspAeadCase, SMTT(30)
  <2>3. ClassicEncryption[e] # Aead[q]
    BY CatalogAssumption
  <2>4. F(k)[1] = ClassicEncryption[e]
    BY <2>1
  <2>5. F(l)[1] = Aead[q]
    BY <2>2
  <2> QED  BY <2>3, <2>4, <2>5
<1> QED  BY <1>2, <1>3, <1>4
=============================================================================
