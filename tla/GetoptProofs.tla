---------------------------- MODULE GetoptProofs ----------------------------
(***************************************************************************)
(* Proofs about getopt_long, for every table of options and every command  *)
(* line: what exchange does to argv, the bounds of the cursors, and that   *)
(* each step is one of Scan or changes nothing that Scan sees.  The        *)
(* theorem is that of ProgramProofs, where getopt_long is called.          *)
(***************************************************************************)
EXTENDS Getopt, SequenceTheorems, NaturalsInduction, WellFoundedInduction, TLAPS

LEMMA CutProperties ==
  ASSUME NEW S, NEW a \in Seq(S), NEW i \in 1 .. Len(a) + 1, NEW j \in i - 1 .. Len(a)
  PROVE  /\ SubSeq(a, i, j) \in Seq(S)
         /\ Len(SubSeq(a, i, j)) = j - i + 1
         /\ \A k \in 1 .. j - i + 1 : SubSeq(a, i, j)[k] = a[i + k - 1]
<1>1. Len(a) \in Nat /\ i \in Int /\ j \in Int /\ \A k \in i .. j : a[k] \in S
      OBVIOUS
<1>2. /\ SubSeq(a, i, j) \in Seq(S)
      /\ Len(SubSeq(a, i, j)) = IF i <= j THEN j - i + 1 ELSE 0
      /\ \A k \in 1 .. j - i + 1 : SubSeq(a, i, j)[k] = a[i + k - 1]
      BY <1>1, SubSeqProperties
<1>3. QED BY <1>1, <1>2

LEMMA RotatedProperties ==
  ASSUME NEW S, NEW a \in Seq(S), NEW b \in Nat \ {0}, NEW m \in Nat, NEW t \in Nat,
         b <= m, m <= t, t <= Len(a) + 1
  PROVE  /\ Rotated(a, b, m, t) \in Seq(S)
         /\ Len(Rotated(a, b, m, t)) = Len(a)
         /\ \A i \in 1 .. Len(a) :
               Rotated(a, b, m, t)[i] = IF i < b \/ i >= t THEN a[i]
                                        ELSE IF i < b + (t - m) THEN a[i + (m - b)] ELSE a[i - (t - m)]
<1>1. Len(a) \in Nat /\ DOMAIN a = 1 .. Len(a) /\ \A i \in 1 .. Len(a) : a[i] \in S
      OBVIOUS
<1>2. \A i \in 1 .. Len(a) :
         (IF i < b \/ i >= t THEN a[i]
          ELSE IF i < b + (t - m) THEN a[i + (m - b)] ELSE a[i - (t - m)]) \in S
      BY <1>1
<1>3. Rotated(a, b, m, t) =
         [i \in 1 .. Len(a) |-> IF i < b \/ i >= t THEN a[i]
                                ELSE IF i < b + (t - m) THEN a[i + (m - b)] ELSE a[i - (t - m)]]
      BY <1>1 DEF Rotated
<1>4. QED BY <1>1, <1>2, <1>3

(* A rotation of an empty block is none.                                   *)
LEMMA RotatedEmpty ==
  ASSUME NEW S, NEW a \in Seq(S), NEW b \in Nat \ {0}, NEW m \in Nat, NEW t \in Nat,
         b <= m, m <= t, t <= Len(a) + 1, b = m \/ m = t
  PROVE  Rotated(a, b, m, t) = a
<1>1. /\ Rotated(a, b, m, t) \in Seq(S) /\ Len(Rotated(a, b, m, t)) = Len(a) /\ Len(a) \in Nat
      /\ \A i \in 1 .. Len(a) :
            Rotated(a, b, m, t)[i] = IF i < b \/ i >= t THEN a[i]
                                     ELSE IF i < b + (t - m) THEN a[i + (m - b)] ELSE a[i - (t - m)]
      BY RotatedProperties
<1>2. \A i \in 1 .. Len(a) : Rotated(a, b, m, t)[i] = a[i]
  <2>1. TAKE i \in 1 .. Len(a)
  <2>2. CASE b = m
    <3>1. i + (m - b) = i /\ (~(i < b \/ i >= t) => i < b + (t - m))
          BY <2>2
    <3>2. QED BY <1>1, <2>2, <3>1
  <2>3. CASE m = t
    <3>1. i - (t - m) = i
          BY <2>3
    <3>2. QED BY <1>1, <2>3, <3>1
  <2>4. QED BY <2>2, <2>3
<1>3. QED BY <1>1, <1>2, SeqEqual

(* What a rotation brings to the front, and what behind it.                *)
LEMMA RotatedTaken ==
  ASSUME NEW S, NEW a \in Seq(S), NEW b \in Nat \ {0}, NEW m \in Nat, NEW t \in Nat,
         b <= m, m <= t, t <= Len(a) + 1
  PROVE  SubSeq(Rotated(a, b, m, t), 1, b + (t - m) - 1)
           = SubSeq(a, 1, b - 1) \o SubSeq(a, m, t - 1)
<1> DEFINE r == Rotated(a, b, m, t)
           n == b + (t - m) - 1
           left == SubSeq(r, 1, n)
           front == SubSeq(a, 1, b - 1)
           block == SubSeq(a, m, t - 1)
<1>1. /\ r \in Seq(S) /\ Len(r) = Len(a) /\ Len(a) \in Nat
      /\ \A i \in 1 .. Len(a) : r[i] = IF i < b \/ i >= t THEN a[i]
                                       ELSE IF i < b + (t - m) THEN a[i + (m - b)] ELSE a[i - (t - m)]
      BY RotatedProperties
<1> HIDE DEF r
<1>2. n \in Nat /\ n <= Len(a) /\ b - 1 \in Nat /\ b - 1 <= Len(a) /\ t - m \in Nat
      BY <1>1
<1>3. /\ left \in Seq(S) /\ Len(left) = n /\ \A i \in 1 .. n : left[i] = r[i]
  <2>1. n - 1 + 1 = n /\ \A i \in 1 .. n : 1 + i - 1 = i
        BY <1>2
  <2>2. 1 \in 1 .. Len(r) + 1 /\ n \in 1 - 1 .. Len(r)
        BY <1>1, <1>2
  <2>3. QED BY <1>1, <2>1, <2>2, CutProperties
<1>4. /\ front \in Seq(S) /\ Len(front) = b - 1 /\ \A i \in 1 .. b - 1 : front[i] = a[i]
  <2>1. b - 1 - 1 + 1 = b - 1 /\ \A i \in 1 .. b - 1 : 1 + i - 1 = i
        BY <1>2
  <2>2. 1 \in 1 .. Len(a) + 1 /\ b - 1 \in 1 - 1 .. Len(a)
        BY <1>2
  <2>3. QED BY <2>1, <2>2, CutProperties
<1>5. /\ block \in Seq(S) /\ Len(block) = t - m /\ \A i \in 1 .. t - m : block[i] = a[m + i - 1]
  <2>1. t - 1 - m + 1 = t - m /\ m \in 1 .. Len(a) + 1 /\ t - 1 \in m - 1 .. Len(a)
        BY <1>1
  <2>2. QED BY <2>1, CutProperties
<1> HIDE DEF left, front, block
<1>6. /\ front \o block \in Seq(S) /\ Len(front \o block) = n
      /\ \A i \in 1 .. n : (front \o block)[i] = IF i <= b - 1 THEN front[i] ELSE block[i - (b - 1)]
  <2>1. Len(front) + Len(block) = n
        BY <1>4, <1>5
  <2>2. /\ front \o block \in Seq(S) /\ Len(front \o block) = Len(front) + Len(block)
        /\ \A i \in 1 .. Len(front) + Len(block) :
              (front \o block)[i] = IF i <= Len(front) THEN front[i] ELSE block[i - Len(front)]
        BY <1>4, <1>5, ConcatProperties
  <2> HIDE DEF n
  <2>3. QED BY <1>4, <2>1, <2>2
<1>7. \A i \in 1 .. n : left[i] = (front \o block)[i]
  <2>1. TAKE i \in 1 .. n
  <2>2. i \in 1 .. Len(a) /\ i \in Int
        BY <1>2
  <2>3. CASE i <= b - 1
    <3>1. i \in 1 .. b - 1 /\ i < b
          BY <2>2, <2>3
    <3>2. QED BY <1>1, <1>3, <1>4, <1>6, <2>2, <2>3, <3>1
  <2>4. CASE ~(i <= b - 1)
    <3>1. i - (b - 1) \in 1 .. t - m /\ ~(i < b) /\ i < b + (t - m) /\ ~(i >= t)
          BY <1>2, <2>2, <2>4
    <3>2. block[i - (b - 1)] = a[m + (i - (b - 1)) - 1]
          BY <1>5, <3>1
    <3>3. m + (i - (b - 1)) - 1 = i + (m - b)
          BY <2>2
    <3>4. r[i] = a[i + (m - b)]
          BY <1>1, <2>2, <3>1
    <3>5. (front \o block)[i] = block[i - (b - 1)]
          BY <1>6, <2>4
    <3>6. left[i] = r[i]
          BY <1>3
    <3>7. QED BY <3>2, <3>3, <3>4, <3>5, <3>6
  <2>5. QED BY <2>3, <2>4
<1>8. left = front \o block
      BY <1>3, <1>6, <1>7, SeqEqual
<1>9. QED BY <1>8 DEF left, front, block, r

LEMMA RotatedOperands ==
  ASSUME NEW S, NEW a \in Seq(S), NEW b \in Nat \ {0}, NEW m \in Nat, NEW t \in Nat,
         b <= m, m <= t, t <= Len(a) + 1
  PROVE  /\ SubSeq(Rotated(a, b, m, t), b + (t - m), t - 1) = SubSeq(a, b, m - 1)
         /\ SubSeq(Rotated(a, b, m, t), t, Len(a)) = SubSeq(a, t, Len(a))
<1> DEFINE r == Rotated(a, b, m, t)
           n == b + (t - m)
<1>1. /\ r \in Seq(S) /\ Len(r) = Len(a) /\ Len(a) \in Nat
      /\ \A i \in 1 .. Len(a) : r[i] = IF i < b \/ i >= t THEN a[i]
                                       ELSE IF i < b + (t - m) THEN a[i + (m - b)] ELSE a[i - (t - m)]
      BY RotatedProperties
<1> HIDE DEF r
<1>2. SubSeq(r, n, t - 1) = SubSeq(a, b, m - 1)
  <2>1. n \in 1 .. Len(a) + 1 /\ t - 1 \in n - 1 .. Len(a) /\ t - 1 - n + 1 = m - b
        BY <1>1
  <2>2. b \in 1 .. Len(a) + 1 /\ m - 1 \in b - 1 .. Len(a) /\ m - 1 - b + 1 = m - b
        BY <1>1
  <2>3. /\ SubSeq(r, n, t - 1) \in Seq(S) /\ Len(SubSeq(r, n, t - 1)) = m - b
        /\ \A k \in 1 .. m - b : SubSeq(r, n, t - 1)[k] = r[n + k - 1]
        BY <1>1, <2>1, CutProperties
  <2>4. /\ SubSeq(a, b, m - 1) \in Seq(S) /\ Len(SubSeq(a, b, m - 1)) = m - b
        /\ \A k \in 1 .. m - b : SubSeq(a, b, m - 1)[k] = a[b + k - 1]
        BY <2>2, CutProperties
  <2>5. ASSUME NEW k \in 1 .. m - b
        PROVE  r[n + k - 1] = a[b + k - 1]
    <3>1. /\ n + k - 1 \in 1 .. Len(a)
          /\ ~(n + k - 1 < b \/ n + k - 1 >= t) /\ ~(n + k - 1 < b + (t - m))
          /\ n + k - 1 - (t - m) = b + k - 1
          BY <1>1
    <3>2. QED BY <1>1, <3>1
  <2>6. \A k \in 1 .. m - b : SubSeq(r, n, t - 1)[k] = SubSeq(a, b, m - 1)[k]
        BY <2>3, <2>4, <2>5
  <2>7. QED BY <2>3, <2>4, <2>6, SeqEqual
<1>3. SubSeq(r, t, Len(a)) = SubSeq(a, t, Len(a))
  <2>1. t \in 1 .. Len(a) + 1 /\ Len(a) \in t - 1 .. Len(a)
        BY <1>1
  <2>2. /\ SubSeq(r, t, Len(a)) \in Seq(S) /\ Len(SubSeq(r, t, Len(a))) = Len(a) - t + 1
        /\ \A k \in 1 .. Len(a) - t + 1 : SubSeq(r, t, Len(a))[k] = r[t + k - 1]
        BY <1>1, <2>1, CutProperties
  <2>3. /\ SubSeq(a, t, Len(a)) \in Seq(S) /\ Len(SubSeq(a, t, Len(a))) = Len(a) - t + 1
        /\ \A k \in 1 .. Len(a) - t + 1 : SubSeq(a, t, Len(a))[k] = a[t + k - 1]
        BY <2>1, CutProperties
  <2>4. ASSUME NEW k \in 1 .. Len(a) - t + 1
        PROVE  r[t + k - 1] = a[t + k - 1]
    <3>1. t + k - 1 \in 1 .. Len(a) /\ t + k - 1 >= t
          BY <1>1
    <3>2. QED BY <1>1, <3>1
  <2>5. QED BY <2>2, <2>3, <2>4, SeqEqual
<1>4. QED BY <1>2, <1>3 DEF r

-----------------------------------------------------------------------------
SwappedIn(a, i, j, n) ==
  [k \in DOMAIN a |-> IF k \in i .. i + n - 1 THEN a[k - i + j]
                      ELSE IF k \in j .. j + n - 1 THEN a[k - j + i] ELSE a[k]]

LEMMA SwappedProperties ==
  ASSUME NEW S, NEW a \in Seq(S), NEW i \in Nat \ {0}, NEW j \in Nat, NEW n \in Nat,
         i + n <= j, j + n <= Len(a) + 1
  PROVE  /\ SwappedIn(a, i, j, n) \in Seq(S) /\ Len(SwappedIn(a, i, j, n)) = Len(a)
         /\ \A k \in 1 .. Len(a) :
               /\ k \in i .. i + n - 1 => SwappedIn(a, i, j, n)[k] = a[k - i + j]
               /\ k \in j .. j + n - 1 => SwappedIn(a, i, j, n)[k] = a[k - j + i]
               /\ k \notin i .. i + n - 1 /\ k \notin j .. j + n - 1 => SwappedIn(a, i, j, n)[k] = a[k]
<1> DEFINE e(k) == IF k \in i .. i + n - 1 THEN a[k - i + j]
                   ELSE IF k \in j .. j + n - 1 THEN a[k - j + i] ELSE a[k]
<1>1. Len(a) \in Nat /\ DOMAIN a = 1 .. Len(a) /\ \A k \in 1 .. Len(a) : a[k] \in S
      OBVIOUS
<1>2. \A k \in 1 .. Len(a) : e(k) \in S
  <2>1. TAKE k \in 1 .. Len(a)
  <2>2. k \in i .. i + n - 1 => k - i + j \in 1 .. Len(a)
        BY <1>1
  <2>3. k \in j .. j + n - 1 => k - j + i \in 1 .. Len(a)
        BY <1>1
  <2>4. QED BY <1>1, <2>2, <2>3
<1>3. SwappedIn(a, i, j, n) = [k \in 1 .. Len(a) |-> e(k)]
      BY <1>1 DEF SwappedIn
<1>4. \A k : k \in j .. j + n - 1 => k \notin i .. i + n - 1
      OBVIOUS
<1>5. \A k \in 1 .. Len(a) : SwappedIn(a, i, j, n)[k] = e(k)
      BY <1>3
<1>6. SwappedIn(a, i, j, n) \in Seq(S) /\ Len(SwappedIn(a, i, j, n)) = Len(a)
      BY <1>1, <1>2, <1>3
<1>7. QED BY <1>4, <1>5, <1>6

(* A turn of exchange leaves the same for the turns to come: what they     *)
(* will make of argv does not change.  It keeps argv behind top.           *)
LEMMA ExchangeKeepsRotated ==
  ASSUME NEW S, argv \in Seq(S),
         bottom \in Nat \ {0}, middle \in Nat, top \in Nat, top <= Len(argv) + 1, Exchange
  PROVE  /\ argv' \in Seq(S) /\ Len(argv') = Len(argv)
         /\ bottom' \in Nat \ {0} /\ middle' = middle /\ top' \in Nat
         /\ bottom' <= middle /\ middle <= top' /\ top' <= top
         /\ Rotated(argv', bottom', middle', top') = Rotated(argv, bottom, middle, top)
         /\ \A i \in top .. Len(argv) : argv'[i] = argv[i]
<1> DEFINE below == middle - bottom
           above == top - middle
           old   == Rotated(argv, bottom, middle, top)
           new   == Rotated(argv', bottom', middle', top')
<1>1. /\ bottom < middle /\ middle < top /\ middle' = middle
      /\ below \in Nat \ {0} /\ above \in Nat \ {0} /\ Len(argv) \in Nat
      /\ middle = bottom + below /\ top = bottom + below + above
      BY DEF Exchange
<1>2. /\ old \in Seq(S) /\ Len(old) = Len(argv)
      /\ \A i \in 1 .. Len(argv) :
            old[i] = IF i < bottom \/ i >= top THEN argv[i]
                     ELSE IF i < bottom + (top - middle) THEN argv[i + (middle - bottom)]
                     ELSE argv[i - (top - middle)]
      BY <1>1, RotatedProperties
<1>3. CASE above > below
  <2>1. argv' = SwappedIn(argv, bottom, top - below, below) /\ top' = top - below /\ bottom' = bottom
        BY <1>3 DEF Exchange, Swapped, SwappedIn
  <2>2. /\ argv' \in Seq(S) /\ Len(argv') = Len(argv)
        /\ \A k \in 1 .. Len(argv) :
              /\ k \in bottom .. bottom + below - 1 => argv'[k] = argv[k - bottom + (top - below)]
              /\ k \in top - below .. (top - below) + below - 1 => argv'[k] = argv[k - (top - below) + bottom]
              /\ k \notin bottom .. bottom + below - 1 /\ k \notin top - below .. (top - below) + below - 1
                    => argv'[k] = argv[k]
    <3>1. /\ top - below \in Nat /\ bottom + below <= top - below
          /\ (top - below) + below <= Len(argv) + 1 /\ below \in Nat
          BY <1>1, <1>3
    <3> HIDE DEF old, new, below, above
    <3>2. QED BY <2>1, <3>1, SwappedProperties
  <2>3. /\ top' \in Nat /\ bottom' <= middle /\ middle <= top' /\ top' <= top
        BY <1>1, <1>3, <2>1
  <2>4. /\ new \in Seq(S) /\ Len(new) = Len(argv)
        /\ \A i \in 1 .. Len(argv) :
              new[i] = IF i < bottom' \/ i >= top' THEN argv'[i]
                       ELSE IF i < bottom' + (top' - middle) THEN argv'[i + (middle - bottom')]
                       ELSE argv'[i - (top' - middle)]
    <3>1. /\ argv' \in Seq(S) /\ Len(argv') = Len(argv) /\ middle' = middle /\ middle \in Nat
          /\ bottom' \in Nat \ {0} /\ top' \in Nat /\ bottom' <= middle' /\ middle' <= top'
          /\ top' <= Len(argv') + 1
          BY <1>1, <2>1, <2>2, <2>3
    <3>2. QED BY <3>1, RotatedProperties
  <2> HIDE DEF old, new
  <2>5. ASSUME NEW i \in 1 .. Len(argv)
        PROVE  new[i] = old[i]
    <3>1. CASE i < bottom \/ i >= top
      <4>1. i < bottom' \/ i >= top'
            BY <1>1, <2>1, <3>1
      <4>2. i \notin bottom .. bottom + below - 1 /\ i \notin top - below .. (top - below) + below - 1
            BY <1>1, <3>1
      <4>3. QED BY <1>2, <2>2, <2>4, <3>1, <4>1, <4>2
    <3>2. CASE bottom <= i /\ i < bottom + (above - below)
      <4>1. /\ ~(i < bottom' \/ i >= top') /\ i < bottom' + (top' - middle)
            /\ ~(i < bottom \/ i >= top) /\ i < bottom + (top - middle)
            /\ i + below \in 1 .. Len(argv) /\ i + below \notin bottom .. bottom + below - 1
            /\ i + below \notin top - below .. (top - below) + below - 1
            /\ middle - bottom' = below
            BY <1>1, <1>3, <2>1, <3>2
      <4>2. new[i] = argv'[i + below] /\ old[i] = argv[i + below]
            BY <1>2, <2>4, <4>1
      <4>3. QED BY <2>2, <4>1, <4>2
    <3>3. CASE bottom + (above - below) <= i /\ i < bottom + above
      <4> DEFINE k == i - (top' - middle)
      <4>1. /\ ~(i < bottom' \/ i >= top') /\ ~(i < bottom' + (top' - middle))
            /\ ~(i < bottom \/ i >= top) /\ i < bottom + (top - middle)
            /\ k \in 1 .. Len(argv) /\ k \in bottom .. bottom + below - 1
            /\ k - bottom + (top - below) = i + (middle - bottom)
            BY <1>1, <1>3, <2>1, <3>3
      <4>2. new[i] = argv'[k] /\ old[i] = argv[i + (middle - bottom)]
            BY <1>2, <2>4, <4>1
      <4>3. argv'[k] = argv[k - bottom + (top - below)]
            BY <2>2, <4>1
      <4>4. QED BY <4>1, <4>2, <4>3
    <3>4. CASE bottom + above <= i /\ i < top
      <4>1. /\ i >= top' /\ ~(i < bottom \/ i >= top) /\ ~(i < bottom + (top - middle))
            /\ i \in top - below .. (top - below) + below - 1
            /\ i - (top - below) + bottom = i - (top - middle)
            BY <1>1, <1>3, <2>1, <3>4
      <4>2. new[i] = argv'[i] /\ old[i] = argv[i - (top - middle)]
            BY <1>2, <2>4, <4>1
      <4>3. argv'[i] = argv[i - (top - below) + bottom]
            BY <2>2, <4>1
      <4>4. QED BY <4>1, <4>2, <4>3
    <3>5. \/ i < bottom \/ i >= top
          \/ bottom <= i /\ i < bottom + (above - below)
          \/ bottom + (above - below) <= i /\ i < bottom + above
          \/ bottom + above <= i /\ i < top
          BY <1>1
    <3>6. QED BY <3>1, <3>2, <3>3, <3>4, <3>5
  <2>6. new = old
        BY <1>2, <2>4, <2>5, SeqEqual
  <2>7. ASSUME NEW i \in top .. Len(argv)
        PROVE  argv'[i] = argv[i]
    <3>1. /\ i \in 1 .. Len(argv) /\ i \notin bottom .. bottom + below - 1
          /\ i \notin top - below .. (top - below) + below - 1
          BY <1>1
    <3>2. QED BY <2>2, <3>1
  <2>8. QED BY <1>1, <2>1, <2>2, <2>3, <2>6, <2>7 DEF new, old
<1>4. CASE ~(above > below)
  <2>1. argv' = SwappedIn(argv, bottom, middle, above) /\ top' = top /\ bottom' = bottom + above
        BY <1>4 DEF Exchange, Swapped, SwappedIn
  <2>2. /\ argv' \in Seq(S) /\ Len(argv') = Len(argv)
        /\ \A k \in 1 .. Len(argv) :
              /\ k \in bottom .. bottom + above - 1 => argv'[k] = argv[k - bottom + middle]
              /\ k \in middle .. middle + above - 1 => argv'[k] = argv[k - middle + bottom]
              /\ k \notin bottom .. bottom + above - 1 /\ k \notin middle .. middle + above - 1
                    => argv'[k] = argv[k]
    <3>1. bottom + above <= middle /\ middle + above <= Len(argv) + 1 /\ above \in Nat
          BY <1>1, <1>4
    <3> HIDE DEF old, new, below, above
    <3>2. /\ SwappedIn(argv, bottom, middle, above) \in Seq(S) /\ Len(SwappedIn(argv, bottom, middle, above)) = Len(argv)
          /\ \A k \in 1 .. Len(argv) :
                /\ k \in bottom .. bottom + above - 1 => SwappedIn(argv, bottom, middle, above)[k] = argv[k - bottom + middle]
                /\ k \in middle .. middle + above - 1 => SwappedIn(argv, bottom, middle, above)[k] = argv[k - middle + bottom]
                /\ k \notin bottom .. bottom + above - 1 /\ k \notin middle .. middle + above - 1
                      => SwappedIn(argv, bottom, middle, above)[k] = argv[k]
          BY <3>1, SwappedProperties
    <3>3. argv' = SwappedIn(argv, bottom, middle, above)
          BY <2>1
    <3>4. QED BY <3>2, <3>3
  <2>3. /\ bottom' \in Nat \ {0} /\ top' \in Nat /\ bottom' <= middle /\ middle <= top' /\ top' <= top
        BY <1>1, <1>4, <2>1
  <2>4. /\ new \in Seq(S) /\ Len(new) = Len(argv)
        /\ \A i \in 1 .. Len(argv) :
              new[i] = IF i < bottom' \/ i >= top' THEN argv'[i]
                       ELSE IF i < bottom' + (top' - middle) THEN argv'[i + (middle - bottom')]
                       ELSE argv'[i - (top' - middle)]
    <3>1. /\ argv' \in Seq(S) /\ Len(argv') = Len(argv) /\ middle' = middle /\ middle \in Nat
          /\ bottom' \in Nat \ {0} /\ top' \in Nat /\ bottom' <= middle' /\ middle' <= top'
          /\ top' <= Len(argv') + 1
          BY <1>1, <2>1, <2>2, <2>3
    <3>2. QED BY <3>1, RotatedProperties
  <2> HIDE DEF old, new
  <2>5. ASSUME NEW i \in 1 .. Len(argv)
        PROVE  new[i] = old[i]
    <3>1. CASE i < bottom \/ i >= top
      <4>1. i < bottom' \/ i >= top'
            BY <1>1, <2>1, <3>1
      <4>2. i \notin bottom .. bottom + above - 1 /\ i \notin middle .. middle + above - 1
            BY <1>1, <3>1
      <4>3. QED BY <1>2, <2>2, <2>4, <3>1, <4>1, <4>2
    <3>2. CASE bottom <= i /\ i < bottom + above
      <4>1. /\ i < bottom' /\ ~(i < bottom \/ i >= top) /\ i < bottom + (top - middle)
            /\ i \in bottom .. bottom + above - 1 /\ i - bottom + middle = i + (middle - bottom)
            BY <1>1, <2>1, <3>2
      <4>2. new[i] = argv'[i] /\ old[i] = argv[i + (middle - bottom)]
            BY <1>2, <2>4, <4>1
      <4>3. argv'[i] = argv[i - bottom + middle]
            BY <2>2, <4>1
      <4>4. QED BY <4>1, <4>2, <4>3
    <3>3. CASE bottom + above <= i /\ i < bottom + above + above
      <4> DEFINE k == i + (middle - bottom')
      <4>1. /\ ~(i < bottom \/ i >= top) /\ ~(i < bottom + (top - middle))
            /\ ~(i < bottom' \/ i >= top') /\ i < bottom' + (top' - middle)
            /\ k \in 1 .. Len(argv) /\ k \in middle .. middle + above - 1
            /\ k - middle + bottom = i - (top - middle)
            BY <1>1, <1>4, <2>1, <3>3
      <4>2. new[i] = argv'[k] /\ old[i] = argv[i - (top - middle)]
            BY <1>2, <2>4, <4>1
      <4>3. argv'[k] = argv[k - middle + bottom]
            BY <2>2, <4>1
      <4>4. QED BY <4>1, <4>2, <4>3
    <3>4. CASE bottom + above + above <= i /\ i < top
      <4> DEFINE k == i - (top - middle)
      <4>1. /\ ~(i < bottom \/ i >= top) /\ ~(i < bottom + (top - middle))
            /\ ~(i < bottom' \/ i >= top') /\ ~(i < bottom' + (top' - middle))
            /\ i - (top' - middle) = k
            /\ k \in 1 .. Len(argv) /\ k \notin bottom .. bottom + above - 1
            /\ k \notin middle .. middle + above - 1
            BY <1>1, <1>4, <2>1, <3>4
      <4>2. new[i] = argv'[k] /\ old[i] = argv[k]
            BY <1>2, <2>4, <4>1
      <4>3. QED BY <2>2, <4>1, <4>2
    <3>5. \/ i < bottom \/ i >= top
          \/ bottom <= i /\ i < bottom + above
          \/ bottom + above <= i /\ i < bottom + above + above
          \/ bottom + above + above <= i /\ i < top
          BY <1>1
    <3>6. QED BY <3>1, <3>2, <3>3, <3>4, <3>5
  <2>6. new = old
        BY <1>2, <2>4, <2>5, SeqEqual
  <2>7. ASSUME NEW i \in top .. Len(argv)
        PROVE  argv'[i] = argv[i]
    <3>1. /\ i \in 1 .. Len(argv) /\ i \notin bottom .. bottom + above - 1
          /\ i \notin middle .. middle + above - 1
          BY <1>1
    <3>2. QED BY <2>2, <3>1
  <2>8. QED BY <1>1, <2>1, <2>2, <2>3, <2>6, <2>7 DEF new, old
<1>5. QED BY <1>3, <1>4

-----------------------------------------------------------------------------
Elements == Seq(STRING)

LEMMA SmallestExists ==
  ASSUME NEW T, T \subseteq Nat, T # {}
  PROVE  (CHOOSE i \in T : \A j \in T : i <= j) \in T
<1>1. PICK i \in T : \A j \in T : ~(<<j, i>> \in OpToRel(<, Nat))
      BY NatLessThanWellFounded, WFMin
<1>2. \A j \in T : ~(j < i)
      BY <1>1 DEF OpToRel
<1>3. \A j \in T : i <= j
      BY <1>2
<1>4. QED BY <1>3

(* What a long option returns is in the table, or "?".                     *)
LEMMA LongProperties ==
  ASSUME NEW t \in Table, NEW text \in Seq(STRING), NEW after \in Seq(Elements)
  PROVE  /\ Long(t, text, after).used \in 0 .. Len(after) + 1
         /\ Long(t, text, after).rest = <<>>
         /\ Long(t, text, after).opt \notin Reserved
<1> DEFINE equals == {i \in DOMAIN text : text[i] = "="}
           first  == CHOOSE i \in equals : \A j \in equals : i <= j
           name   == IF equals = {} THEN text ELSE SubSeq(text, 1, first - 1)
           fits   == {i \in DOMAIN t.long : StartsWith(t.long[i].name, name)}
           exact  == {i \in fits : t.long[i].name = name}
           found  == IF exact # {} THEN exact ELSE fits
           place  == CHOOSE i \in found : \A j \in found : i <= j
           option == t.long[place]
<1>1. Long(t, text, after) =
        CASE found = {} \/ (exact = {} /\ \E i, j \in fits : i # j) -> Refused(1, <<>>)
          [] OTHER ->
               IF equals # {}
               THEN IF option.arg THEN Read(1, <<>>, option.val, <<SubSeq(text, first + 1, Len(text))>>)
                                  ELSE Refused(1, <<>>)
               ELSE IF option.arg THEN WithNext(option.val, after)
                                  ELSE Read(1, <<>>, option.val, <<>>)
      BY DEF Long
<1>2. found \subseteq DOMAIN t.long
      OBVIOUS
<1> HIDE DEF equals, first, name, fits, exact, found
<1>3. t.long \in Seq([name : Seq(STRING), arg : BOOLEAN, val : STRING \ Reserved])
      BY DEF Table
<1>4. DOMAIN t.long \subseteq Nat
      BY <1>3
<1>5. found # {} => place \in DOMAIN t.long
      BY <1>2, <1>4, SmallestExists
<1> HIDE DEF place
<1>6. found # {} => option.val \notin Reserved
  <2>1. \A x \in [name : Seq(STRING), arg : BOOLEAN, val : STRING \ Reserved] : x.val \notin Reserved
        OBVIOUS
  <2>2. \A S : t.long \in Seq(S) => (place \in DOMAIN t.long => t.long[place] \in S)
        OBVIOUS
  <2>3. found # {} => option \in [name : Seq(STRING), arg : BOOLEAN, val : STRING \ Reserved]
        BY <1>3, <1>5, <2>2
  <2>4. QED BY <2>1, <2>3
<1> HIDE DEF option
<1>7. Len(after) \in Nat /\ (after # <<>> => Len(after) >= 1) /\ "?" \notin Reserved
      BY DEF Reserved
<1>8. CASE found = {} \/ (exact = {} /\ \E i, j \in fits : i # j)
      BY <1>1, <1>7, <1>8 DEF Refused, Read
<1>9. CASE ~(found = {} \/ (exact = {} /\ \E i, j \in fits : i # j))
  <2>1. Long(t, text, after) \in
           {Read(1, <<>>, option.val, <<SubSeq(text, first + 1, Len(text))>>), Refused(1, <<>>),
            WithNext(option.val, after), Read(1, <<>>, option.val, <<>>)}
        BY <1>1, <1>9
  <2>2. option.val \notin Reserved
        BY <1>6, <1>9
  <2>3. QED BY <1>7, <2>1, <2>2 DEF Refused, Read, WithNext
<1>10. QED BY <1>8, <1>9

LEMMA ShortProperties ==
  ASSUME NEW t \in Table, NEW text \in Seq(STRING), text # <<>>, NEW after \in Seq(Elements)
  PROVE  /\ Short(t, text, after).used \in 0 .. Len(after) + 1
         /\ Short(t, text, after).rest \in Seq(STRING)
         /\ Short(t, text, after).rest # <<>> => Short(t, text, after).used = 0
         /\ Short(t, text, after).opt \notin Reserved
<1>1. /\ Tail(text) \in Seq(STRING) /\ <<>> \in Seq(STRING)
      /\ Len(after) \in Nat /\ (after # <<>> => Len(after) >= 1) /\ "?" \notin Reserved
      BY DEF Reserved
<1>2. /\ Head(text) \in t.needing => Head(text) \notin Reserved
      /\ Head(text) \in t.flags => Head(text) \notin Reserved
      BY DEF Table
<1> DEFINE c == Head(text)
           left == Tail(text)
           used == IF left = <<>> THEN 1 ELSE 0
<1>3. Short(t, text, after) =
        CASE c \in t.needing -> IF left = <<>> THEN WithNext(c, after) ELSE Read(1, <<>>, c, <<left>>)
          [] c \in t.flags   -> Read(used, left, c, <<>>)
          [] OTHER           -> Refused(used, left)
      BY DEF Short
<1>4. used \in {0, 1} /\ (left # <<>> => used = 0)
      OBVIOUS
<1> HIDE DEF c, left, used
<1>5. \/ c \in t.needing /\ Short(t, text, after) = WithNext(c, after)
      \/ c \in t.needing /\ Short(t, text, after) = Read(1, <<>>, c, <<left>>)
      \/ c \in t.flags /\ Short(t, text, after) = Read(used, left, c, <<>>)
      \/ Short(t, text, after) = Refused(used, left)
  <2>1. CASE c \in t.needing
        BY <1>3, <2>1
  <2>2. CASE c \notin t.needing /\ c \in t.flags
        BY <1>3, <2>2
  <2>3. CASE c \notin t.needing /\ c \notin t.flags
        BY <1>3, <2>3
  <2>4. QED BY <2>1, <2>2, <2>3
<1>6. left \in Seq(STRING)
      BY <1>1 DEF left
<1>7. (c \in t.needing \/ c \in t.flags) => c \notin Reserved
      BY <1>2 DEF c
<1>8. CASE c \in t.needing /\ Short(t, text, after) = WithNext(c, after)
      BY <1>1, <1>7, <1>8 DEF WithNext, Refused, Read
<1>9. CASE c \in t.needing /\ Short(t, text, after) = Read(1, <<>>, c, <<left>>)
      BY <1>1, <1>7, <1>9 DEF Read
<1>10. CASE c \in t.flags /\ Short(t, text, after) = Read(used, left, c, <<>>)
  <2>1. used \in 0 .. Len(after) + 1
        BY <1>1, <1>4
  <2>2. QED BY <1>4, <1>6, <1>7, <1>10, <2>1 DEF Read
<1>11. CASE Short(t, text, after) = Refused(used, left)
  <2>1. used \in 0 .. Len(after) + 1
        BY <1>1, <1>4
  <2>2. QED BY <1>1, <1>4, <1>6, <1>11, <2>1 DEF Refused, Read
<1>12. QED BY <1>5, <1>8, <1>9, <1>10, <1>11

(* An option uses up elements that are there, and leaves something of an   *)
(* element only while that is not used up.                                 *)
LEMMA DecodeProperties ==
  ASSUME NEW t \in Table, NEW todo \in Seq(Elements), todo # <<>>, NEW rest \in Seq(STRING),
         rest = <<>> => ~IsWord(Head(todo))
  PROVE  /\ Decode(t, todo, rest).used \in 0 .. Len(todo)
         /\ Decode(t, todo, rest).rest \in Seq(STRING)
         /\ Decode(t, todo, rest).rest # <<>> => Decode(t, todo, rest).used = 0
         /\ Decode(t, todo, rest).opt \notin Reserved
<1> DEFINE e == Head(todo)
<1>1. e \in Seq(STRING) /\ Tail(todo) \in Seq(Elements) /\ Len(Tail(todo)) + 1 = Len(todo)
      BY DEF Elements
<1>2. CASE IsLong(e)
  <2>1. Decode(t, todo, rest) = Long(t, SubSeq(e, 3, Len(e)), Tail(todo))
        BY <1>2 DEF Decode
  <2>2. SubSeq(e, 3, Len(e)) \in Seq(STRING)
    <3>1. \A i \in 3 .. Len(e) : e[i] \in STRING
          BY <1>1
    <3>2. QED BY <1>1, <3>1
  <2>3. <<>> \in Seq(STRING)
        OBVIOUS
  <2>4. QED BY <1>1, <2>1, <2>2, <2>3, LongProperties
<1>3. CASE ~IsLong(e)
  <2> DEFINE text == IF rest = <<>> THEN Tail(e) ELSE rest
  <2>1. Decode(t, todo, rest) = Short(t, text, Tail(todo))
        BY <1>3 DEF Decode
  <2>2. text \in Seq(STRING) /\ text # <<>>
    <3>1. CASE rest = <<>>
      <4>1. Len(e) > 1 /\ Len(e) \in Nat
            BY <1>1, <3>1 DEF IsWord
      <4>2. Tail(e) \in Seq(STRING) /\ Len(Tail(e)) = Len(e) - 1
            BY <1>1, <4>1
      <4> DEFINE tail == Tail(e)
      <4> HIDE DEF tail
      <4>3. tail \in Seq(STRING) /\ Len(tail) >= 1
            BY <4>1, <4>2 DEF tail
      <4>4. tail # <<>>
            BY <4>3
      <4>5. QED BY <3>1, <4>2, <4>4 DEF tail
    <3>2. CASE rest # <<>>
          BY <3>2
    <3>3. QED BY <3>1, <3>2
  <2> HIDE DEF text
  <2>3. QED BY <1>1, <2>1, <2>2, ShortProperties
<1>4. QED BY <1>2, <1>3

-----------------------------------------------------------------------------
(* The inductive invariant: the cursors stay in the command line, and the  *)
(* blocks that exchange is to swap lie side by side in front of optind.    *)
GetoptTypes ==
  /\ table \in Table /\ posixly_correct \in BOOLEAN /\ argv \in Seq(Elements)
  /\ optind \in 1 .. argc /\ nextchar \in Seq(STRING) /\ ending \in BOOLEAN
  /\ first_nonopt \in 0 .. argc /\ last_nonopt \in 0 .. argc
  /\ bottom \in Nat /\ middle \in Nat /\ top \in Nat
  /\ getopt \in {"returned", "advance", "exchange", "skip", "test", "stop"}
  /\ getopt = "returned" <=> result.opt # "pending"

Blocks == first_nonopt <= last_nonopt /\ last_nonopt <= optind

GetoptInv ==
  /\ GetoptTypes
  /\ result.opt = "none" => /\ optind = 1 /\ nextchar = <<>> /\ ~ending /\ ordering = "unset"
                            /\ first_nonopt = 0 /\ last_nonopt = 0
  /\ result.opt # "none" =>
        ordering = (IF posixly_correct THEN "REQUIRE_ORDER" ELSE "PERMUTE") /\ 1 <= first_nonopt
  /\ nextchar # <<>> => optind < argc
  /\ getopt \in {"returned", "advance", "test"} /\ result.opt \notin {"none", "end"} =>
        ~ending /\ Blocks /\ (posixly_correct => first_nonopt = last_nonopt)
  /\ result.opt = "end" => first_nonopt <= last_nonopt /\ nextchar = <<>>
  /\ getopt \in {"advance", "exchange", "skip", "stop"} => nextchar = <<>>
  /\ getopt = "test" /\ nextchar = <<>> /\ ~posixly_correct => last_nonopt = optind
  /\ getopt = "exchange" => /\ ~posixly_correct /\ Blocks
                            /\ 1 <= bottom /\ bottom <= middle /\ middle <= top /\ top <= optind
  /\ getopt = "skip" => ~posixly_correct /\ ~ending /\ first_nonopt <= optind /\ last_nonopt <= optind
  /\ getopt = "stop" => ending /\ last_nonopt <= optind

LEMMA GetoptBegins ==
  ASSUME table \in Table, posixly_correct \in BOOLEAN, argv \in Seq(Elements), StartGetopt
  PROVE  GetoptInv
<1>1. Len(argv) \in Nat /\ result.opt = "none" /\ <<>> \in Seq(STRING)
      BY DEF StartGetopt, Answer
<1>2. GetoptTypes
  <2>1. 1 \in 1 .. argc /\ 0 \in 0 .. argc
        BY <1>1 DEF argc
  <2>2. QED BY <1>1, <2>1 DEF StartGetopt, GetoptTypes
<1>3. QED BY <1>1, <1>2 DEF StartGetopt, GetoptInv

LEMMA CallKeeps ==
  ASSUME GetoptInv, Call
  PROVE  GetoptInv'
<1>1. Len(argv) \in Nat /\ argc \in Nat /\ argc' = argc /\ result'.opt = "pending"
      BY DEF Call, Answer, GetoptInv, GetoptTypes, argc
<1>2. GetoptTypes'
      BY <1>1 DEF Call, GetoptInv, GetoptTypes, callerVars, exchangeVars, nonoptVars
<1>3. CASE result.opt = "none"
      BY <1>1, <1>2, <1>3 DEF Call, GetoptInv, GetoptTypes, Blocks, callerVars, exchangeVars, nonoptVars
<1>4. CASE result.opt # "none"
      BY <1>1, <1>2, <1>4 DEF Call, GetoptInv, GetoptTypes, Blocks, callerVars, exchangeVars, nonoptVars
<1>5. QED BY <1>3, <1>4

(* A step inside a call.                                                   *)
LEMMA GetoptNextKeeps ==
  ASSUME GetoptInv, GetoptNext
  PROVE  GetoptInv'
<1> USE DEF callerVars, exchangeVars, nonoptVars
<1>1. /\ Len(argv) \in Nat /\ argc \in Nat /\ argv \in Seq(Elements) /\ <<>> \in Seq(STRING)
      /\ optind \in Nat /\ first_nonopt \in Nat /\ last_nonopt \in Nat
      BY DEF GetoptInv, GetoptTypes, argc
<1>2. CASE Advance
  <2>1. /\ getopt = "advance" /\ result.opt = "pending" /\ nextchar = <<>> /\ Blocks /\ ~ending
        /\ ordering = (IF posixly_correct THEN "REQUIRE_ORDER" ELSE "PERMUTE")
        /\ posixly_correct \in BOOLEAN
        BY <1>2 DEF Advance, GetoptInv, GetoptTypes
  <2>2. /\ Smaller(last_nonopt, optind) = last_nonopt /\ Smaller(first_nonopt, optind) = first_nonopt
        BY <1>1, <2>1 DEF Smaller, Blocks
  <2>3. /\ last_nonopt' = last_nonopt
        /\ IF ordering = "PERMUTE" /\ first_nonopt # last_nonopt /\ last_nonopt # optind
           THEN first_nonopt' = first_nonopt /\ BeginExchange(first_nonopt, last_nonopt, optind)
           ELSE /\ first_nonopt' = IF ordering = "PERMUTE" /\ last_nonopt # optind THEN optind ELSE first_nonopt
                /\ getopt' = IF ordering = "PERMUTE" THEN "skip" ELSE "test"
                /\ UNCHANGED exchangeVars
        /\ UNCHANGED <<callerVars, argv, optind, nextchar, ordering, ending, result>> /\ argc' = argc
        BY <1>2, <2>2 DEF Advance, argc
  <2>4. CASE ordering = "PERMUTE" /\ first_nonopt # last_nonopt /\ last_nonopt # optind
        BY <1>1, <2>1, <2>3, <2>4 DEF BeginExchange, GetoptInv, GetoptTypes, Blocks
  <2>5. CASE ordering = "PERMUTE" /\ ~(first_nonopt # last_nonopt /\ last_nonopt # optind)
        BY <1>1, <2>1, <2>3, <2>5 DEF GetoptInv, GetoptTypes, Blocks
  <2>6. CASE ordering # "PERMUTE"
        BY <1>1, <2>1, <2>3, <2>6 DEF GetoptInv, GetoptTypes, Blocks
  <2>7. QED BY <2>4, <2>5, <2>6
<1>3. CASE Exchange
  <2>1. /\ bottom \in Nat \ {0} /\ middle \in Nat /\ top \in Nat /\ top <= Len(argv) + 1
        /\ top <= optind /\ getopt = "exchange"
        BY <1>1, <1>3 DEF Exchange, GetoptInv, GetoptTypes, argc
  <2>2. /\ argv' \in Seq(Elements) /\ Len(argv') = Len(argv)
        /\ bottom' \in Nat \ {0} /\ middle' = middle /\ top' \in Nat
        /\ bottom' <= middle /\ middle <= top' /\ top' <= top
        BY <1>1, <1>3, <2>1, ExchangeKeepsRotated
  <2>3. /\ UNCHANGED <<callerVars, optind, nextchar, ordering, nonoptVars, getopt, ending, result>>
        /\ argc' = argc
        BY <1>3, <2>2 DEF Exchange, argc
  <2>4. GetoptTypes'
        BY <1>1, <2>2, <2>3 DEF GetoptInv, GetoptTypes
  <2>5. top' <= optind
        BY <1>1, <2>1, <2>2
  <2>6. QED BY <2>1, <2>2, <2>3, <2>4, <2>5 DEF GetoptInv, Blocks
<1>4. CASE Exchanged
      BY <1>1, <1>4 DEF Exchanged, GetoptInv, GetoptTypes, Blocks, argc
<1>5. CASE Skip
      BY <1>1, <1>5 DEF Skip, AtWord, GetoptInv, GetoptTypes, Blocks, argc
<1>6. CASE Skipped
      BY <1>1, <1>6 DEF Skipped, GetoptInv, GetoptTypes, Blocks, argc
<1>7. CASE EndOfOptions
  <2>1. /\ getopt = "test" /\ result.opt = "pending" /\ nextchar = <<>> /\ Blocks /\ 1 <= first_nonopt
        /\ optind < argc /\ optind' = optind + 1 /\ ending' /\ argc' = argc
        /\ ~posixly_correct => last_nonopt = optind
        /\ posixly_correct => first_nonopt = last_nonopt
        BY <1>1, <1>7 DEF EndOfOptions, GetoptInv, GetoptTypes, argc
  <2>2. CASE first_nonopt # last_nonopt /\ last_nonopt # optind'
        BY <1>1, <1>7, <2>1, <2>2 DEF EndOfOptions, BeginExchange, GetoptInv, GetoptTypes, Blocks
  <2>3. CASE ~(first_nonopt # last_nonopt /\ last_nonopt # optind')
        BY <1>1, <1>7, <2>1, <2>3 DEF EndOfOptions, GetoptInv, GetoptTypes, Blocks
  <2>4. QED BY <2>2, <2>3
<1>8. CASE Stop
  <2>1. result'.opt = "end" /\ getopt' = "returned" /\ argc' = argc
        BY <1>8 DEF Stop, Return, Answer, argc
  <2>2. QED BY <1>1, <1>8, <2>1 DEF Stop, GetoptInv, GetoptTypes, Blocks
<1>9. CASE AllRead
  <2>1. result'.opt = "end" /\ getopt' = "returned" /\ argc' = argc
        BY <1>9 DEF AllRead, Return, Answer, argc
  <2>2. QED BY <1>1, <1>9, <2>1 DEF AllRead, GetoptInv, GetoptTypes, Blocks
<1>10. CASE StopAtWord
  <2>1. result'.opt = "end" /\ getopt' = "returned" /\ argc' = argc
        BY <1>10 DEF StopAtWord, Return, Answer, argc
  <2>2. QED BY <1>1, <1>10, <2>1 DEF StopAtWord, GetoptInv, GetoptTypes, Blocks
<1>11. CASE ReturnOption
  <2> DEFINE todo == SubSeq(argv, optind, Len(argv))
             d    == Decode(table, todo, nextchar)
  <2>1. /\ getopt = "test" /\ optind # argc
        /\ nextchar = <<>> => ~IsWord(argv[optind])
        /\ optind' = optind + d.used /\ nextchar' = d.rest
        /\ result'.opt = d.opt /\ getopt' = "returned" /\ argc' = argc
        /\ UNCHANGED <<callerVars, argv, ordering, nonoptVars, exchangeVars, ending>>
        BY <1>11 DEF ReturnOption, Return, Answer, argc
  <2>2. optind \in 1 .. Len(argv)
        BY <1>1, <2>1 DEF GetoptInv, GetoptTypes, argc
  <2>3. /\ todo \in Seq(Elements) /\ Len(todo) = Len(argv) - optind + 1 /\ todo # <<>>
        /\ Head(todo) = argv[optind]
    <3>1. optind \in 1 .. Len(argv) + 1 /\ Len(argv) \in optind - 1 .. Len(argv)
          BY <1>1, <2>2
    <3>2. todo \in Seq(Elements) /\ Len(todo) = Len(argv) - optind + 1
          BY <1>1, <3>1, CutProperties
    <3>3. Len(todo) >= 1
          BY <1>1, <2>2, <3>2
    <3>4. Len(argv) \in optind .. Len(argv)
          BY <1>1, <2>2
    <3>5. Head(todo) = argv[optind]
          BY <1>1, <2>2, <3>4, HeadTailOfSubSeq
    <3> HIDE DEF todo
    <3>6. QED BY <3>2, <3>3, <3>5
  <2>4. table \in Table /\ nextchar \in Seq(STRING)
        BY DEF GetoptInv, GetoptTypes
  <2> HIDE DEF todo
  <2>5. /\ d.used \in 0 .. Len(todo) /\ d.rest \in Seq(STRING)
        /\ d.rest # <<>> => d.used = 0
        /\ d.opt \notin Reserved
        BY <2>1, <2>3, <2>4, DecodeProperties
  <2> HIDE DEF d
  <2>6. /\ optind' \in 1 .. argc /\ optind' >= optind /\ (nextchar' # <<>> => optind' < argc)
        BY <1>1, <2>1, <2>2, <2>3, <2>5, SMTT(30) DEF argc
  <2>7. result'.opt \notin {"none", "pending", "end"}
        BY <2>1, <2>5 DEF Reserved
  <2>8. result.opt = "pending"
        BY <2>1 DEF GetoptInv, GetoptTypes
  <2>9. GetoptTypes'
        BY <2>1, <2>5, <2>6, <2>7 DEF GetoptInv, GetoptTypes
  <2>10. QED BY <1>1, <2>1, <2>6, <2>7, <2>8, <2>9 DEF GetoptInv, Blocks
<1>12. QED
      BY <1>2, <1>3, <1>4, <1>5, <1>6, <1>7, <1>8, <1>9, <1>10, <1>11 DEF GetoptNext

-----------------------------------------------------------------------------
(* What Scan sees: the three sequences argv is dealt out to.               *)
Taken    == SubSeq(Settled, 1, Dealt)
Operands == SubSeq(Settled, Dealt + 1, IF NoneLeft THEN Len(argv) ELSE optind - 1)
Todo     == IF NoneLeft THEN <<>> ELSE SubSeq(argv, optind, Len(argv))

LEMMA SameDecode ==
  ASSUME NEW t, NEW todo, NEW rest
  PROVE  Abstract!Decode(t, todo, rest) = Decode(t, todo, rest)
BY DEF Decode, IsLong, Long, Short, WithNext, Refused, Read, StartsWith,
       Abstract!Decode, Abstract!IsLong, Abstract!Long, Abstract!Short, Abstract!WithNext,
       Abstract!Refused, Abstract!Read, Abstract!StartsWith

(* The actions of Scan, in terms of the three sequences.                   *)
LEMMA IsStutter ==
  ASSUME Taken' = Taken, Operands' = Operands, Todo' = Todo, UNCHANGED <<callerVars, nextchar, result>>
  PROVE  UNCHANGED Abstract!scanVars
BY DEF Abstract!scanVars, Taken, Operands, Todo, callerVars

LEMMA IsAskNext ==
  ASSUME result.opt # "pending", result.opt # "end", result' = Answer("pending", <<>>),
         Taken' = Taken, Operands' = Operands, Todo' = Todo, UNCHANGED <<callerVars, nextchar>>
  PROVE  Abstract!AskNext
BY DEF Abstract!AskNext, Abstract!Pending, Abstract!Answer, Answer, Taken, Operands, Todo, callerVars

LEMMA IsPassOver ==
  ASSUME result.opt = "pending", nextchar = <<>>, Todo # <<>>, ~posixly_correct, IsWord(Head(Todo)),
         Operands' = Append(Operands, Head(Todo)), Todo' = Tail(Todo), Taken' = Taken,
         UNCHANGED <<callerVars, nextchar, result>>
  PROVE  Abstract!PassOver
BY DEF Abstract!PassOver, Abstract!Pending, Abstract!IsWord, IsWord, Taken, Operands, Todo, callerVars

LEMMA IsEndOptions ==
  ASSUME result.opt = "pending", nextchar = <<>>, Todo # <<>>, Head(Todo) = Dashes,
         Taken' = Append(Taken, Dashes), Operands' = Operands \o Tail(Todo), Todo' = <<>>,
         UNCHANGED <<callerVars, nextchar, result>>
  PROVE  Abstract!EndOptions
BY DEF Abstract!EndOptions, Abstract!Pending, Abstract!Dashes, Dashes, Taken, Operands, Todo, callerVars

LEMMA IsTakeOption ==
  ASSUME result.opt = "pending", Todo # <<>>,
         nextchar = <<>> => ~IsWord(Head(Todo)) /\ Head(Todo) # Dashes,
         NEW d, d = Decode(table, Todo, nextchar),
         Taken' = Taken \o SubSeq(Todo, 1, d.used), Todo' = SubSeq(Todo, d.used + 1, Len(Todo)),
         nextchar' = d.rest, result' = Answer(d.opt, d.arg), Operands' = Operands, UNCHANGED callerVars
  PROVE  Abstract!TakeOption
<1>1. Abstract!Decode(table, Todo, nextchar) = d
      BY SameDecode
<1>2. QED BY <1>1 DEF Abstract!TakeOption, Abstract!Pending, Abstract!IsWord, IsWord, Abstract!Dashes,
                      Dashes, Abstract!Answer, Answer, Taken, Operands, Todo, callerVars

LEMMA IsEndScan ==
  ASSUME result.opt = "pending", nextchar = <<>>, Todo # <<>> => posixly_correct /\ IsWord(Head(Todo)),
         Operands' = Operands \o Todo, Todo' = <<>>, result' = Answer("end", <<>>), Taken' = Taken,
         UNCHANGED <<callerVars, nextchar>>
  PROVE  Abstract!EndScan
BY DEF Abstract!EndScan, Abstract!Pending, Abstract!IsWord, IsWord, Abstract!Answer, Answer,
       Taken, Operands, Todo, callerVars

(* The sequences between two options, and in front of the next one: what   *)
(* was skipped last is still in its old place.                             *)
LEMMA ViewOfBlocks ==
  GetoptInv /\ getopt \in {"returned", "advance", "test"} /\ result.opt \notin {"none", "end"}
  => /\ Taken = SubSeq(argv, 1, first_nonopt - 1) \o SubSeq(argv, last_nonopt, optind - 1)
     /\ Operands = SubSeq(argv, first_nonopt, last_nonopt - 1)
     /\ Todo = SubSeq(argv, optind, Len(argv))
<1> SUFFICES ASSUME GetoptInv, getopt \in {"returned", "advance", "test"},
                    result.opt \notin {"none", "end"}
             PROVE  /\ Taken = SubSeq(argv, 1, first_nonopt - 1) \o SubSeq(argv, last_nonopt, optind - 1)
                    /\ Operands = SubSeq(argv, first_nonopt, last_nonopt - 1)
                    /\ Todo = SubSeq(argv, optind, Len(argv))
    OBVIOUS
<1>1. /\ argv \in Seq(Elements) /\ Len(argv) \in Nat /\ optind \in Nat /\ optind <= Len(argv) + 1
      /\ first_nonopt \in Nat \ {0} /\ last_nonopt \in Nat
      /\ first_nonopt <= last_nonopt /\ last_nonopt <= optind /\ ~ending
      BY DEF GetoptInv, GetoptTypes, Blocks, argc
<1>2. /\ Settled = Rotated(argv, first_nonopt, last_nonopt, optind)
      /\ Dealt = first_nonopt + (optind - last_nonopt) - 1
      BY DEF Settled, Dealt
<1>3. ~NoneLeft
      BY <1>1 DEF NoneLeft
<1>4. /\ Taken = SubSeq(Rotated(argv, first_nonopt, last_nonopt, optind), 1,
                         first_nonopt + (optind - last_nonopt) - 1)
      /\ Operands = SubSeq(Rotated(argv, first_nonopt, last_nonopt, optind),
                           first_nonopt + (optind - last_nonopt) - 1 + 1, optind - 1)
      /\ Todo = SubSeq(argv, optind, Len(argv))
      BY <1>2, <1>3 DEF Taken, Operands, Todo
<1>5. first_nonopt + (optind - last_nonopt) - 1 + 1 = first_nonopt + (optind - last_nonopt)
      BY <1>1
<1>6. SubSeq(Rotated(argv, first_nonopt, last_nonopt, optind), 1,
             first_nonopt + (optind - last_nonopt) - 1)
        = SubSeq(argv, 1, first_nonopt - 1) \o SubSeq(argv, last_nonopt, optind - 1)
      BY <1>1, RotatedTaken
<1>7. SubSeq(Rotated(argv, first_nonopt, last_nonopt, optind),
             first_nonopt + (optind - last_nonopt), optind - 1)
        = SubSeq(argv, first_nonopt, last_nonopt - 1)
      BY <1>1, RotatedOperands
<1>8. QED BY <1>4, <1>5, <1>6, <1>7

LEMMA CutOfCut ==
  ASSUME NEW S, NEW a \in Seq(S), NEW i \in 1 .. Len(a) + 1, NEW u \in 0 .. Len(a) - i + 1
  PROVE  LET t == SubSeq(a, i, Len(a))
         IN  /\ SubSeq(t, 1, u) = SubSeq(a, i, i + u - 1)
             /\ SubSeq(t, u + 1, Len(t)) = SubSeq(a, i + u, Len(a))
<1> DEFINE n == Len(a) - i + 1
           t == SubSeq(a, i, Len(a))
<1>1. Len(a) \in Nat /\ i \in Nat /\ u \in Nat /\ n \in Nat /\ u <= n
      OBVIOUS
<1>2. t \in Seq(S) /\ Len(t) = n /\ \A k \in 1 .. n : t[k] = a[i + k - 1]
  <2>1. Len(a) \in i - 1 .. Len(a)
        BY <1>1
  <2>2. QED BY <2>1, CutProperties
<1> HIDE DEF t
<1>3. SubSeq(t, 1, u) = SubSeq(a, i, i + u - 1)
  <2>1. 1 \in 1 .. Len(t) + 1 /\ u \in 1 - 1 .. Len(t) /\ u - 1 + 1 = u
        BY <1>1, <1>2
  <2>2. /\ SubSeq(t, 1, u) \in Seq(S) /\ Len(SubSeq(t, 1, u)) = u
        /\ \A k \in 1 .. u : SubSeq(t, 1, u)[k] = t[1 + k - 1]
        BY <1>2, <2>1, CutProperties
  <2>3. i + u - 1 \in i - 1 .. Len(a) /\ i + u - 1 - i + 1 = u
        BY <1>1
  <2>4. /\ SubSeq(a, i, i + u - 1) \in Seq(S) /\ Len(SubSeq(a, i, i + u - 1)) = u
        /\ \A k \in 1 .. u : SubSeq(a, i, i + u - 1)[k] = a[i + k - 1]
        BY <2>3, CutProperties, SMTT(30)
  <2>5. \A k \in 1 .. u : k \in 1 .. n /\ 1 + k - 1 = k
        BY <1>1
  <2>6. \A k \in 1 .. u : SubSeq(t, 1, u)[k] = SubSeq(a, i, i + u - 1)[k]
        BY <1>2, <2>2, <2>4, <2>5
  <2>7. QED BY <2>2, <2>4, <2>6, SeqEqual
<1>4. SubSeq(t, u + 1, Len(t)) = SubSeq(a, i + u, Len(a))
  <2>1. u + 1 \in 1 .. Len(t) + 1 /\ Len(t) \in u + 1 - 1 .. Len(t) /\ Len(t) - (u + 1) + 1 = n - u
        BY <1>1, <1>2
  <2>2. /\ SubSeq(t, u + 1, Len(t)) \in Seq(S) /\ Len(SubSeq(t, u + 1, Len(t))) = n - u
        /\ \A k \in 1 .. n - u : SubSeq(t, u + 1, Len(t))[k] = t[u + 1 + k - 1]
        BY <1>2, <2>1, CutProperties
  <2>3. i + u \in 1 .. Len(a) + 1 /\ Len(a) \in i + u - 1 .. Len(a) /\ Len(a) - (i + u) + 1 = n - u
        BY <1>1
  <2>4. /\ SubSeq(a, i + u, Len(a)) \in Seq(S) /\ Len(SubSeq(a, i + u, Len(a))) = n - u
        /\ \A k \in 1 .. n - u : SubSeq(a, i + u, Len(a))[k] = a[i + u + k - 1]
        BY <2>3, CutProperties
  <2>5. \A k \in 1 .. n - u : u + 1 + k - 1 \in 1 .. n /\ i + (u + 1 + k - 1) - 1 = i + u + k - 1
        BY <1>1
  <2>6. \A k \in 1 .. n - u : SubSeq(t, u + 1, Len(t))[k] = SubSeq(a, i + u, Len(a))[k]
        BY <1>2, <2>2, <2>4, <2>5
  <2>7. QED BY <2>2, <2>4, <2>6, SeqEqual
<1>5. QED BY <1>3, <1>4 DEF t

(* The cursors in argv, as numbers.                                        *)
LEMMA Numbers ==
  ASSUME GetoptInv
  PROVE  /\ argv \in Seq(Elements) /\ Len(argv) \in Nat /\ argc = Len(argv) + 1
         /\ optind \in 1 .. Len(argv) + 1 /\ optind \in Nat \ {0}
         /\ first_nonopt \in Nat /\ first_nonopt <= Len(argv) + 1
         /\ last_nonopt \in Nat /\ last_nonopt <= Len(argv) + 1
BY DEF GetoptInv, GetoptTypes, argc

LEMMA CallSimulates ==
  ASSUME GetoptInv, Call
  PROVE  Abstract!AskNext
<1>1. /\ result.opt # "pending" /\ result.opt # "end" /\ result' = Answer("pending", <<>>)
      /\ result'.opt = "pending" /\ ~ending /\ ~ending' /\ getopt = "returned"
      /\ getopt' \in {"advance", "test"}
      /\ UNCHANGED <<callerVars, argv, optind, nextchar>>
  <2>1. getopt = "returned" /\ result.opt # "pending"
        BY DEF Call, GetoptInv, GetoptTypes
  <2>2. ~ending
        BY <2>1 DEF Call, GetoptInv
  <2>3. QED BY <2>1, <2>2 DEF Call, Answer
<1>2. ~NoneLeft /\ ~NoneLeft'
      BY <1>1 DEF NoneLeft
<1>3. Settled' = Settled /\ Dealt' = Dealt
  <2>1. CASE result.opt = "none"
    <3>1. optind = 1 /\ first_nonopt' = 1 /\ last_nonopt' = 1 /\ optind' = 1 /\ argv' = argv
          BY <2>1, <1>1 DEF GetoptInv, Call
    <3>2. Rotated(argv, 1, 1, 1) = argv
      <4>1. 1 <= Len(argv) + 1 /\ argv \in Seq(Elements)
            BY Numbers
      <4>2. QED BY <4>1, RotatedEmpty
    <3>3. Settled = argv /\ Dealt = 0
          BY <1>1, <2>1, <3>1 DEF Settled, Dealt
    <3>4. Settled' = argv /\ Dealt' = 0
          BY <1>1, <3>1, <3>2 DEF Settled, Dealt
    <3>5. QED BY <3>3, <3>4
  <2>2. CASE result.opt # "none"
    <3>1. first_nonopt' = first_nonopt /\ last_nonopt' = last_nonopt
      <4>1. ordering # "unset"
            BY <2>2 DEF GetoptInv
      <4>2. QED BY <4>1 DEF Call, nonoptVars
    <3>2. QED BY <1>1, <2>2, <3>1 DEF Settled, Dealt
  <2>3. QED BY <2>1, <2>2
<1>4. Taken' = Taken /\ Operands' = Operands /\ Todo' = Todo
      BY <1>1, <1>2, <1>3 DEF Taken, Operands, Todo
<1>5. QED BY <1>1, <1>4, IsAskNext

(* Exchanging elements changes nothing that Scan sees.                     *)
LEMMA AdvanceStutters ==
  ASSUME GetoptInv, Advance
  PROVE  UNCHANGED Abstract!scanVars
<1> USE DEF callerVars, exchangeVars, nonoptVars
<1>1. /\ getopt = "advance" /\ result.opt = "pending" /\ nextchar = <<>> /\ ~ending
      /\ first_nonopt <= last_nonopt /\ last_nonopt <= optind /\ 1 <= first_nonopt
      BY DEF Advance, GetoptInv, GetoptTypes, Blocks
<1>2. /\ argv \in Seq(Elements) /\ Len(argv) \in Nat
      /\ optind \in Nat \ {0} /\ optind <= Len(argv) + 1
      /\ first_nonopt \in Nat \ {0} /\ last_nonopt \in Nat
      BY <1>1, Numbers
<1>3. /\ Smaller(last_nonopt, optind) = last_nonopt /\ Smaller(first_nonopt, optind) = first_nonopt
      BY <1>1, <1>2 DEF Smaller
<1>4. /\ last_nonopt' = last_nonopt
      /\ IF ordering = "PERMUTE" /\ first_nonopt # last_nonopt /\ last_nonopt # optind
         THEN first_nonopt' = first_nonopt /\ BeginExchange(first_nonopt, last_nonopt, optind)
         ELSE /\ first_nonopt' = IF ordering = "PERMUTE" /\ last_nonopt # optind THEN optind ELSE first_nonopt
              /\ getopt' = IF ordering = "PERMUTE" THEN "skip" ELSE "test"
              /\ UNCHANGED exchangeVars
      /\ UNCHANGED <<callerVars, argv, optind, nextchar, ordering, ending, result>>
      BY <1>3 DEF Advance
<1>5. /\ Settled = Rotated(argv, first_nonopt, last_nonopt, optind)
      /\ Dealt = first_nonopt + (optind - last_nonopt) - 1
      BY <1>1 DEF Settled, Dealt
<1>6. Settled' = Settled /\ Dealt' = Dealt
  <2>1. CASE ordering = "PERMUTE" /\ first_nonopt # last_nonopt /\ last_nonopt # optind
        BY <1>1, <1>4, <1>5, <2>1 DEF BeginExchange, Settled, Dealt
  <2>2. CASE ordering = "PERMUTE" /\ ~(first_nonopt # last_nonopt /\ last_nonopt # optind)
    <3>1. Rotated(argv, first_nonopt, last_nonopt, optind) = argv
          BY <1>1, <1>2, <2>2, RotatedEmpty
    <3>2. getopt' = "skip" /\ argv' = argv
          BY <1>4, <2>2
    <3>3. first_nonopt' - 1 = first_nonopt + (optind - last_nonopt) - 1
          BY <1>1, <1>2, <1>4, <2>2
    <3>4. Settled' = argv' /\ Dealt' = first_nonopt' - 1
          BY <3>2 DEF Settled, Dealt
    <3>5. QED BY <1>5, <3>1, <3>2, <3>3, <3>4
  <2>3. CASE ordering # "PERMUTE"
        BY <1>1, <1>4, <1>5, <2>3 DEF Settled, Dealt
  <2>4. QED BY <2>1, <2>2, <2>3
<1>7. Taken' = Taken /\ Operands' = Operands /\ Todo' = Todo
      BY <1>4, <1>6 DEF Taken, Operands, Todo, NoneLeft
<1>8. QED BY <1>4, <1>7, IsStutter

LEMMA ExchangeStutters ==
  ASSUME GetoptInv, Exchange
  PROVE  UNCHANGED Abstract!scanVars
<1>1. /\ getopt = "exchange" /\ getopt' = "exchange" /\ result.opt = "pending"
      /\ UNCHANGED <<callerVars, optind, nextchar, nonoptVars, ending, result>>
      BY DEF Exchange, GetoptInv, GetoptTypes
<1>2. /\ bottom \in Nat \ {0} /\ middle \in Nat /\ top \in Nat /\ top <= Len(argv) + 1 /\ top <= optind
      /\ argv \in Seq(Elements) /\ Len(argv) \in Nat /\ optind \in 1 .. Len(argv) + 1
      BY <1>1, Numbers DEF GetoptInv, GetoptTypes
<1>3. /\ argv' \in Seq(Elements) /\ Len(argv') = Len(argv)
      /\ Rotated(argv', bottom', middle', top') = Rotated(argv, bottom, middle, top)
      /\ \A i \in top .. Len(argv) : argv'[i] = argv[i]
      BY <1>2, ExchangeKeepsRotated
<1>4. Settled' = Settled
  <2>1. Settled = Rotated(argv, bottom, middle, top)
        BY <1>1 DEF Settled
  <2>2. Settled' = Rotated(argv', bottom', middle', top')
        BY <1>1 DEF Settled
  <2>3. QED BY <1>3, <2>1, <2>2
<1>5. Dealt' = Dealt
      BY <1>1 DEF Dealt, nonoptVars
<1>6. SubSeq(argv', optind, Len(argv)) = SubSeq(argv, optind, Len(argv))
  <2>1. Len(argv) \in optind - 1 .. Len(argv)
        BY <1>2
  <2>2. /\ SubSeq(argv, optind, Len(argv)) \in Seq(Elements)
        /\ Len(SubSeq(argv, optind, Len(argv))) = Len(argv) - optind + 1
        /\ \A k \in 1 .. Len(argv) - optind + 1 : SubSeq(argv, optind, Len(argv))[k] = argv[optind + k - 1]
        BY <1>2, <2>1, CutProperties
  <2>3. /\ SubSeq(argv', optind, Len(argv)) \in Seq(Elements)
        /\ Len(SubSeq(argv', optind, Len(argv))) = Len(argv) - optind + 1
        /\ \A k \in 1 .. Len(argv) - optind + 1 : SubSeq(argv', optind, Len(argv))[k] = argv'[optind + k - 1]
        BY <1>2, <1>3, <2>1, CutProperties
  <2>4. \A k \in 1 .. Len(argv) - optind + 1 : optind + k - 1 \in top .. Len(argv)
        BY <1>2
  <2>5. \A k \in 1 .. Len(argv) - optind + 1 :
           SubSeq(argv', optind, Len(argv))[k] = SubSeq(argv, optind, Len(argv))[k]
        BY <1>3, <2>2, <2>3, <2>4
  <2>6. QED BY <2>2, <2>3, <2>5, SeqEqual
<1>7. Taken' = Taken
      BY <1>4, <1>5 DEF Taken
<1>8. NoneLeft' = NoneLeft
      BY <1>1 DEF NoneLeft
<1>9. Operands' = Operands
      BY <1>1, <1>3, <1>4, <1>5, <1>8 DEF Operands
<1>10. Todo' = Todo
      BY <1>1, <1>3, <1>6, <1>8 DEF Todo
<1>11. QED BY <1>1, <1>7, <1>9, <1>10, IsStutter

LEMMA ExchangedStutters ==
  ASSUME GetoptInv, Exchanged
  PROVE  UNCHANGED Abstract!scanVars
<1>1. /\ getopt = "exchange" /\ getopt' \in {"stop", "skip"} /\ (bottom = middle \/ middle = top)
      /\ first_nonopt' = first_nonopt + (optind - last_nonopt)
      /\ UNCHANGED <<callerVars, argv, optind, nextchar, ending, result>>
  <2>1. /\ bottom \in Nat /\ middle \in Nat /\ top \in Nat /\ bottom <= middle /\ middle <= top
        BY DEF Exchanged, GetoptInv, GetoptTypes
  <2>2. bottom = middle \/ middle = top
        BY <2>1 DEF Exchanged
  <2>3. QED BY <2>2 DEF Exchanged
<1>2. Rotated(argv, bottom, middle, top) = argv
  <2>1. /\ bottom \in Nat \ {0} /\ middle \in Nat /\ top \in Nat /\ bottom <= middle /\ middle <= top
        /\ top <= Len(argv) + 1 /\ argv \in Seq(Elements)
        BY <1>1, Numbers DEF GetoptInv, GetoptTypes
  <2>2. QED BY <1>1, <2>1, RotatedEmpty
<1>3. Settled' = Settled
      BY <1>1, <1>2 DEF Settled
<1>4. Dealt' = Dealt
  <2>1. Dealt = first_nonopt + (optind - last_nonopt) - 1
    <3>1. result.opt = "pending"
          BY <1>1 DEF GetoptInv, GetoptTypes
    <3>2. QED BY <1>1, <3>1 DEF Dealt
  <2>2. Dealt' = first_nonopt' - 1
        BY <1>1 DEF Dealt
  <2>3. QED BY <1>1, <2>1, <2>2, Numbers
<1>5. Taken' = Taken /\ Operands' = Operands /\ Todo' = Todo
      BY <1>1, <1>3, <1>4 DEF Taken, Operands, Todo, NoneLeft
<1>6. QED BY <1>1, <1>5, IsStutter

LEMMA SkippedStutters ==
  ASSUME GetoptInv, Skipped
  PROVE  UNCHANGED Abstract!scanVars
<1>1. /\ getopt = "skip" /\ getopt' = "test" /\ last_nonopt' = optind /\ result.opt = "pending"
      /\ UNCHANGED <<callerVars, argv, optind, nextchar, first_nonopt, ending, result>>
      BY DEF Skipped, GetoptInv, GetoptTypes
<1>2. /\ argv \in Seq(Elements) /\ first_nonopt \in Nat \ {0} /\ optind \in Nat
      /\ first_nonopt <= optind /\ optind <= Len(argv) + 1
      BY <1>1, Numbers DEF GetoptInv
<1>3. Rotated(argv, first_nonopt, optind, optind) = argv
      BY <1>2, RotatedEmpty
<1>4. Settled = argv /\ Dealt = first_nonopt - 1
      BY <1>1 DEF Settled, Dealt
<1>5. Settled' = argv /\ Dealt' = first_nonopt - 1
  <2>1. Settled' = Rotated(argv, first_nonopt, optind, optind)
        BY <1>1 DEF Settled
  <2>2. Dealt' = first_nonopt + (optind - optind) - 1
        BY <1>1 DEF Dealt
  <2>3. QED BY <1>2, <1>3, <2>1, <2>2
<1>6. Taken' = Taken /\ Operands' = Operands /\ Todo' = Todo
      BY <1>1, <1>4, <1>5 DEF Taken, Operands, Todo, NoneLeft
<1>7. QED BY <1>1, <1>6, IsStutter

(* The elements from optind on: the next one, and those behind it.         *)
LEMMA NextElement ==
  ASSUME NEW S, NEW a \in Seq(S), NEW i \in 1 .. Len(a)
  PROVE  /\ SubSeq(a, i, Len(a)) # <<>> /\ Head(SubSeq(a, i, Len(a))) = a[i]
         /\ Tail(SubSeq(a, i, Len(a))) = SubSeq(a, i + 1, Len(a))
         /\ SubSeq(a, i, i) = <<a[i]>>
<1>1. Len(a) \in Nat /\ i \in Nat /\ Len(a) \in i .. Len(a) /\ i \in i .. Len(a) /\ a[i] \in S
      OBVIOUS
<1>2. Head(SubSeq(a, i, Len(a))) = a[i] /\ Tail(SubSeq(a, i, Len(a))) = SubSeq(a, i + 1, Len(a))
      BY <1>1, HeadTailOfSubSeq
<1>3. SubSeq(a, i, Len(a)) # <<>>
  <2>1. i \in 1 .. Len(a) + 1 /\ Len(a) \in i - 1 .. Len(a)
        BY <1>1
  <2>2. SubSeq(a, i, Len(a)) \in Seq(S) /\ Len(SubSeq(a, i, Len(a))) = Len(a) - i + 1
        BY <2>1, CutProperties
  <2> DEFINE t == SubSeq(a, i, Len(a))
  <2> HIDE DEF t
  <2>3. t \in Seq(S) /\ Len(t) >= 1
        BY <1>1, <2>2 DEF t
  <2>4. t # <<>>
        BY <2>3
  <2>5. QED BY <2>4 DEF t
<1>4. SubSeq(a, i, i) = <<a[i]>>
  <2>1. i \in 1 .. Len(a) + 1 /\ i \in i - 1 .. Len(a) /\ i - i + 1 = 1
        BY <1>1
  <2>2. /\ SubSeq(a, i, i) \in Seq(S) /\ Len(SubSeq(a, i, i)) = 1
        /\ \A k \in 1 .. 1 : SubSeq(a, i, i)[k] = a[i + k - 1]
        BY <2>1, CutProperties
  <2>3. SubSeq(a, i, i)[1] = a[i]
        BY <1>1, <2>2
  <2>4. <<a[i]>> \in Seq(S) /\ Len(<<a[i]>>) = 1 /\ <<a[i]>>[1] = a[i]
        BY <1>1
  <2>5. \A k \in 1 .. 1 : SubSeq(a, i, i)[k] = <<a[i]>>[k]
        BY <2>3, <2>4
  <2>6. QED BY <2>2, <2>4, <2>5, SeqEqual
<1>5. QED BY <1>2, <1>3, <1>4

LEMMA SkipSimulates ==
  ASSUME GetoptInv, Skip
  PROVE  Abstract!PassOver
<1>1. /\ getopt = "skip" /\ getopt' = "skip" /\ result.opt = "pending" /\ nextchar = <<>>
      /\ ~posixly_correct /\ ~ending /\ optind < argc /\ IsWord(argv[optind]) /\ optind' = optind + 1
      /\ first_nonopt <= optind /\ 1 <= first_nonopt
      /\ UNCHANGED <<callerVars, argv, nextchar, first_nonopt, ending, result>>
      BY DEF Skip, AtWord, nonoptVars, GetoptInv, GetoptTypes
<1>2. /\ argv \in Seq(Elements) /\ Len(argv) \in Nat /\ optind \in 1 .. Len(argv) /\ optind \in Nat
      /\ first_nonopt \in 1 .. Len(argv) /\ optind \in first_nonopt .. Len(argv)
      /\ first_nonopt - 1 + 1 = first_nonopt /\ optind + 1 - 1 = optind
      BY <1>1, Numbers
<1>3. ~NoneLeft /\ ~NoneLeft'
      BY <1>1 DEF NoneLeft
<1>4. /\ Settled = argv /\ Settled' = argv /\ Dealt = first_nonopt - 1 /\ Dealt' = first_nonopt - 1
      BY <1>1 DEF Settled, Dealt
<1>5. Taken' = Taken
      BY <1>4 DEF Taken
<1>6. /\ Todo = SubSeq(argv, optind, Len(argv)) /\ Todo' = SubSeq(argv, optind + 1, Len(argv))
      BY <1>1, <1>3 DEF Todo
<1>7. Todo # <<>> /\ Head(Todo) = argv[optind] /\ Todo' = Tail(Todo)
      BY <1>2, <1>6, NextElement
<1>8. Operands' = Append(Operands, argv[optind])
  <2>1. Operands = SubSeq(argv, first_nonopt, optind - 1)
        BY <1>2, <1>3, <1>4 DEF Operands
  <2>2. Operands' = SubSeq(argv, first_nonopt, optind)
        BY <1>1, <1>2, <1>3, <1>4 DEF Operands
  <2>3. SubSeq(argv, first_nonopt, optind) = SubSeq(argv, first_nonopt, optind - 1) \o <<argv[optind]>>
        BY <1>2, SubSeqRecursiveSecond
  <2>4. SubSeq(argv, first_nonopt, optind - 1) \in Seq(Elements) /\ argv[optind] \in Elements
    <3>1. first_nonopt \in 1 .. Len(argv) + 1 /\ optind - 1 \in first_nonopt - 1 .. Len(argv)
          BY <1>2
    <3>2. QED BY <1>2, <3>1, CutProperties
  <2>5. QED BY <2>1, <2>2, <2>3, <2>4, AppendIsConcat
<1>9. QED BY <1>1, <1>5, <1>7, <1>8, IsPassOver

(* In front of an element that is read: what is dealt out so far.          *)
LEMMA EndOfOptionsSimulates ==
  ASSUME GetoptInv, EndOfOptions
  PROVE  Abstract!EndOptions
<1>1. /\ getopt = "test" /\ result.opt = "pending" /\ nextchar = <<>> /\ ~ending /\ ending'
      /\ optind < argc /\ argv[optind] = Dashes /\ optind' = optind + 1
      /\ first_nonopt <= last_nonopt /\ last_nonopt <= optind /\ 1 <= first_nonopt
      /\ ~posixly_correct => last_nonopt = optind
      /\ posixly_correct => first_nonopt = last_nonopt
      /\ UNCHANGED <<callerVars, argv, nextchar, last_nonopt, result>>
      BY Numbers DEF EndOfOptions, GetoptInv, GetoptTypes, Blocks
<1>2. /\ argv \in Seq(Elements) /\ Len(argv) \in Nat /\ optind \in 1 .. Len(argv) /\ optind \in Nat
      /\ first_nonopt \in Nat \ {0} /\ last_nonopt \in Nat
      BY <1>1, Numbers
<1>3. /\ Taken = SubSeq(argv, 1, first_nonopt - 1) \o SubSeq(argv, last_nonopt, optind - 1)
      /\ Operands = SubSeq(argv, first_nonopt, last_nonopt - 1)
      /\ Todo = SubSeq(argv, optind, Len(argv))
      BY <1>1, ViewOfBlocks
<1>4. /\ Todo # <<>> /\ Head(Todo) = Dashes /\ Tail(Todo) = SubSeq(argv, optind + 1, Len(argv))
      /\ SubSeq(argv, optind, optind) = <<Dashes>>
      BY <1>1, <1>2, <1>3, NextElement
<1>5. Todo' = <<>> /\ NoneLeft'
      BY <1>1 DEF Todo, NoneLeft
<1>6. /\ SubSeq(argv, 1, first_nonopt - 1) \in Seq(Elements)
      /\ SubSeq(argv, last_nonopt, optind - 1) \in Seq(Elements)
      /\ SubSeq(argv, optind + 1, Len(argv)) \in Seq(Elements)
      /\ Dashes \in Elements
  <2>1. /\ 1 \in 1 .. Len(argv) + 1 /\ first_nonopt - 1 \in 1 - 1 .. Len(argv)
        /\ last_nonopt \in 1 .. Len(argv) + 1 /\ optind - 1 \in last_nonopt - 1 .. Len(argv)
        /\ optind + 1 \in 1 .. Len(argv) + 1 /\ Len(argv) \in optind + 1 - 1 .. Len(argv)
        BY <1>1, <1>2
  <2>2. argv[optind] \in Elements
        BY <1>2
  <2>3. QED BY <1>1, <1>2, <2>1, <2>2, CutProperties
<1>7. CASE first_nonopt # last_nonopt
  <2>1. last_nonopt = optind /\ first_nonopt < optind
        BY <1>1, <1>2, <1>7 DEF GetoptInv, GetoptTypes
  <2>2. /\ getopt' = "exchange" /\ bottom' = first_nonopt /\ middle' = optind /\ top' = optind + 1
        /\ first_nonopt' = first_nonopt /\ last_nonopt' = optind
        BY <1>1, <1>2, <1>7, <2>1 DEF EndOfOptions, BeginExchange
  <2> DEFINE t == optind + 1
             i == first_nonopt + 1
             r == Rotated(argv, first_nonopt, optind, t)
  <2>3. Settled' = r
        BY <1>1, <2>2 DEF Settled
  <2>4. Dealt' = first_nonopt
    <3>1. Dealt' = first_nonopt' + (optind' - last_nonopt') - 1
          BY <1>1, <2>2 DEF Dealt
    <3>2. QED BY <1>1, <1>2, <2>2, <3>1
  <2>5. /\ first_nonopt <= optind /\ optind <= t /\ t <= Len(argv) + 1 /\ t \in Nat
        /\ first_nonopt + (t - optind) - 1 = first_nonopt
        /\ first_nonopt + (t - optind) = i /\ t - 1 = optind
        /\ i \in 1 .. Len(argv) + 1 /\ optind \in i - 1 .. Len(argv) /\ Len(argv) \in optind .. Len(argv)
        BY <1>2, <2>1
  <2> HIDE DEF t, i
  <2>6. r \in Seq(Elements) /\ Len(r) = Len(argv)
        BY <1>2, <2>5, RotatedProperties
  <2>7. SubSeq(r, 1, first_nonopt) = SubSeq(argv, 1, first_nonopt - 1) \o SubSeq(argv, optind, optind)
    <3>1. first_nonopt <= optind /\ optind <= t /\ t <= Len(argv) + 1 /\ t \in Nat
          BY <2>5
    <3>2. SubSeq(r, 1, first_nonopt + (t - optind) - 1)
            = SubSeq(argv, 1, first_nonopt - 1) \o SubSeq(argv, optind, t - 1)
          BY <1>2, <3>1, RotatedTaken
    <3>3. QED BY <2>5, <3>2
  <2>8. /\ SubSeq(r, i, optind) = SubSeq(argv, first_nonopt, optind - 1)
        /\ SubSeq(r, t, Len(argv)) = SubSeq(argv, t, Len(argv))
    <3>1. first_nonopt <= optind /\ optind <= t /\ t <= Len(argv) + 1 /\ t \in Nat
          BY <2>5
    <3>2. /\ SubSeq(r, first_nonopt + (t - optind), t - 1) = SubSeq(argv, first_nonopt, optind - 1)
          /\ SubSeq(r, t, Len(argv)) = SubSeq(argv, t, Len(argv))
          BY <1>2, <3>1, RotatedOperands
    <3>3. QED BY <2>5, <3>2
  <2> HIDE DEF r
  <2>9. Taken' = Append(Taken, Dashes)
    <3>1. Taken' = SubSeq(argv, 1, first_nonopt - 1) \o <<Dashes>>
          BY <1>4, <2>3, <2>4, <2>7 DEF Taken
    <3>2. SubSeq(argv, last_nonopt, optind - 1) = <<>>
          BY <1>2, <2>1, SubSeqEmpty
    <3>3. Taken = SubSeq(argv, 1, first_nonopt - 1)
          BY <1>3, <1>6, <3>2, ConcatEmptySeq
    <3>4. QED BY <1>6, <3>1, <3>3, AppendIsConcat
  <2>10. Operands' = Operands \o Tail(Todo)
    <3>1. Operands' = SubSeq(r, i, Len(argv))
          BY <1>1, <1>5, <2>3, <2>4 DEF Operands, i
    <3>2. SubSeq(r, i, optind) \o SubSeq(r, optind + 1, Len(argv)) = SubSeq(r, i, Len(argv))
      <4>1. /\ i \in 1 .. Len(r) + 1 /\ optind \in i - 1 .. Len(r) /\ Len(argv) \in optind .. Len(r)
            /\ r \in Seq(Elements)
            BY <2>5, <2>6
      <4>2. QED BY <4>1, ConcatAdjacentSubSeq
    <3>3. SubSeq(r, optind + 1, Len(argv)) = Tail(Todo)
          BY <1>4, <2>8 DEF t
    <3>4. QED BY <1>3, <2>1, <2>8, <3>1, <3>2, <3>3
  <2>11. QED BY <1>1, <1>4, <1>5, <2>9, <2>10, IsEndOptions
<1>8. CASE first_nonopt = last_nonopt
  <2>1. getopt' = "stop" /\ first_nonopt' = optind + 1
        BY <1>1, <1>8 DEF EndOfOptions
  <2>2. Settled' = argv /\ Dealt' = optind
    <3>1. Settled' = argv' /\ Dealt' = first_nonopt' - 1
          BY <1>1, <2>1 DEF Settled, Dealt
    <3>2. QED BY <1>1, <1>2, <2>1, <3>1
  <2>3. Taken' = Append(Taken, Dashes)
    <3>1. Taken = SubSeq(argv, 1, optind - 1)
      <4>1. /\ 1 \in 1 .. Len(argv) + 1 /\ first_nonopt - 1 \in 1 - 1 .. Len(argv)
            /\ optind - 1 \in first_nonopt - 1 .. Len(argv) /\ first_nonopt - 1 + 1 = first_nonopt
            BY <1>1, <1>2, <1>8
      <4>2. SubSeq(argv, 1, first_nonopt - 1) \o SubSeq(argv, first_nonopt - 1 + 1, optind - 1)
              = SubSeq(argv, 1, optind - 1)
            BY <1>2, <4>1, ConcatAdjacentSubSeq
      <4>3. QED BY <1>3, <1>8, <4>1, <4>2
    <3>2. Taken' = SubSeq(argv, 1, optind)
          BY <2>2 DEF Taken
    <3>3. SubSeq(argv, 1, optind) = SubSeq(argv, 1, optind - 1) \o <<argv[optind]>>
      <4>1. 1 \in 1 .. Len(argv) /\ optind \in 1 .. Len(argv)
            BY <1>2
      <4>2. QED BY <1>2, <4>1, SubSeqRecursiveSecond
    <3>4. SubSeq(argv, 1, optind - 1) \in Seq(Elements)
      <4>1. 1 \in 1 .. Len(argv) + 1 /\ optind - 1 \in 1 - 1 .. Len(argv)
            BY <1>2
      <4>2. QED BY <1>2, <4>1, CutProperties
    <3>5. QED BY <1>1, <1>6, <3>1, <3>2, <3>3, <3>4, AppendIsConcat
  <2>4. Operands' = Operands \o Tail(Todo)
    <3>1. Operands' = SubSeq(argv, optind + 1, Len(argv))
          BY <1>1, <1>5, <2>2 DEF Operands
    <3>2. Operands = <<>>
          BY <1>2, <1>3, <1>8, SubSeqEmpty
    <3>3. QED BY <1>4, <1>6, <3>1, <3>2, ConcatEmptySeq
  <2>5. QED BY <1>1, <1>4, <1>5, <2>3, <2>4, IsEndOptions
<1>9. QED BY <1>7, <1>8

LEMMA StopSimulates ==
  ASSUME GetoptInv, Stop
  PROVE  Abstract!EndScan
<1>1. /\ getopt = "stop" /\ result.opt = "pending" /\ nextchar = <<>> /\ ending /\ ending'
      /\ getopt' = "returned" /\ result' = Answer("end", <<>>) /\ result'.opt = "end"
      /\ UNCHANGED <<callerVars, argv, nextchar, first_nonopt>>
      BY DEF Stop, Return, Answer, GetoptInv, GetoptTypes
<1>2. optind' = first_nonopt
      BY DEF Stop
<1>3. /\ Settled = argv /\ Settled' = argv /\ Dealt = first_nonopt - 1 /\ Dealt' = first_nonopt - 1
      /\ NoneLeft /\ NoneLeft'
      BY <1>1, <1>2 DEF Settled, Dealt, NoneLeft
<1>4. /\ Taken' = Taken /\ Operands' = Operands /\ Todo = <<>> /\ Todo' = <<>>
      BY <1>1, <1>3 DEF Taken, Operands, Todo
<1>5. Operands \in Seq(Elements)
  <2>1. Operands = SubSeq(argv, first_nonopt, Len(argv))
    <3>1. first_nonopt - 1 + 1 = first_nonopt
          BY Numbers
    <3>2. QED BY <1>3, <3>1 DEF Operands
  <2>2. first_nonopt \in 1 .. Len(argv) + 1 /\ Len(argv) \in first_nonopt - 1 .. Len(argv)
    <3>1. 1 <= first_nonopt
          BY <1>1 DEF GetoptInv
    <3>2. QED BY <3>1, Numbers
  <2>3. QED BY <2>1, <2>2, Numbers, CutProperties
<1>6. Operands' = Operands \o Todo
      BY <1>4, <1>5, ConcatEmptySeq
<1>7. QED BY <1>1, <1>4, <1>6, IsEndScan

(* Where nothing was skipped, what was taken are the elements so far.      *)
LEMMA TakenInOrder ==
  ASSUME NEW S, NEW a \in Seq(S), NEW f \in Nat \ {0}, NEW i \in Nat, f <= i, i <= Len(a) + 1
  PROVE  SubSeq(a, 1, f - 1) \o SubSeq(a, f, i - 1) = SubSeq(a, 1, i - 1)
<1>1. /\ 1 \in 1 .. Len(a) + 1 /\ f - 1 \in 1 - 1 .. Len(a) /\ i - 1 \in f - 1 .. Len(a)
      /\ f - 1 + 1 = f
      OBVIOUS
<1>2. SubSeq(a, 1, f - 1) \o SubSeq(a, f - 1 + 1, i - 1) = SubSeq(a, 1, i - 1)
      BY <1>1, ConcatAdjacentSubSeq
<1>3. QED BY <1>1, <1>2

(* The end of the command line, or of the options in front of an operand.  *)
LEMMA AllReadSimulates ==
  ASSUME GetoptInv, AllRead
  PROVE  Abstract!EndScan
<1>1. /\ getopt = "test" /\ result.opt = "pending" /\ nextchar = <<>> /\ ~ending /\ optind = argc
      /\ first_nonopt <= last_nonopt /\ last_nonopt <= optind /\ 1 <= first_nonopt
      /\ getopt' = "returned" /\ result' = Answer("end", <<>>) /\ result'.opt = "end"
      /\ optind' = IF first_nonopt # last_nonopt THEN first_nonopt ELSE optind
      /\ last_nonopt = optind \/ first_nonopt = last_nonopt
      /\ UNCHANGED <<callerVars, argv, nextchar>>
  <2>1. posixly_correct \in BOOLEAN
        BY DEF GetoptInv, GetoptTypes
  <2>2. QED BY <2>1 DEF AllRead, Return, Answer, GetoptInv, GetoptTypes, Blocks
<1>2. /\ argv \in Seq(Elements) /\ Len(argv) \in Nat /\ optind \in Nat /\ optind = Len(argv) + 1
      /\ first_nonopt \in Nat \ {0} /\ last_nonopt \in Nat
      BY <1>1, Numbers
<1>3. /\ Taken = SubSeq(argv, 1, first_nonopt - 1) \o SubSeq(argv, last_nonopt, optind - 1)
      /\ Operands = SubSeq(argv, first_nonopt, last_nonopt - 1)
      /\ Todo = SubSeq(argv, optind, Len(argv))
      BY <1>1, ViewOfBlocks
<1>4. Todo = <<>> /\ Todo' = <<>> /\ NoneLeft'
  <2>1. SubSeq(argv, optind, Len(argv)) = <<>>
        BY <1>2, SubSeqEmpty
  <2>2. NoneLeft'
        BY <1>1 DEF NoneLeft
  <2>3. QED BY <1>3, <2>1, <2>2 DEF Todo
<1>5. Settled' = argv /\ Dealt' = optind' - 1
      BY <1>1 DEF Settled, Dealt
<1>6. /\ SubSeq(argv, 1, first_nonopt - 1) \in Seq(Elements)
      /\ SubSeq(argv, first_nonopt, Len(argv)) \in Seq(Elements)
  <2>1. /\ 1 \in 1 .. Len(argv) + 1 /\ first_nonopt - 1 \in 1 - 1 .. Len(argv)
        /\ first_nonopt \in 1 .. Len(argv) + 1 /\ Len(argv) \in first_nonopt - 1 .. Len(argv)
        BY <1>1, <1>2
  <2>2. QED BY <1>2, <2>1, CutProperties
<1>7. Taken' = Taken /\ Operands' = Operands
  <2>1. CASE first_nonopt # last_nonopt
    <3>1. optind' = first_nonopt /\ last_nonopt = optind /\ first_nonopt - 1 + 1 = first_nonopt
          BY <1>1, <1>2, <2>1
    <3>2. /\ Taken' = SubSeq(argv, 1, first_nonopt - 1) /\ Operands' = SubSeq(argv, first_nonopt, Len(argv))
          BY <1>1, <1>4, <1>5, <3>1 DEF Taken, Operands
    <3>3. SubSeq(argv, last_nonopt, optind - 1) = <<>>
          BY <1>2, <3>1, SubSeqEmpty
    <3>4. optind - 1 = Len(argv)
          BY <1>2
    <3>5. Taken = SubSeq(argv, 1, first_nonopt - 1)
          BY <1>3, <1>6, <3>3, ConcatEmptySeq
    <3>6. QED BY <1>3, <3>1, <3>2, <3>4, <3>5
  <2>2. CASE first_nonopt = last_nonopt
    <3>1. optind' = optind /\ optind - 1 + 1 = optind /\ optind - 1 = Len(argv)
          BY <1>1, <1>2, <2>2
    <3>2. /\ Taken' = SubSeq(argv, 1, optind - 1) /\ Operands' = SubSeq(argv, optind, Len(argv))
          BY <1>1, <1>4, <1>5, <3>1 DEF Taken, Operands
    <3>3. SubSeq(argv, optind, Len(argv)) = <<>> /\ SubSeq(argv, first_nonopt, last_nonopt - 1) = <<>>
          BY <1>2, <2>2, SubSeqEmpty
    <3>4. Taken = SubSeq(argv, 1, optind - 1)
      <4>1. first_nonopt <= optind /\ optind <= Len(argv) + 1
            BY <1>1, <1>2, <2>2
      <4>2. QED BY <1>2, <1>3, <2>2, <4>1, TakenInOrder
    <3>5. QED BY <1>3, <3>2, <3>3, <3>4
  <2>3. QED BY <2>1, <2>2
<1>8. Operands' = Operands \o Todo
  <2>1. Operands \in Seq(Elements)
    <3>1. /\ first_nonopt \in 1 .. Len(argv) + 1 /\ last_nonopt - 1 \in first_nonopt - 1 .. Len(argv)
          BY <1>1, <1>2
    <3>2. QED BY <1>2, <1>3, <3>1, CutProperties
  <2>2. QED BY <1>4, <1>7, <2>1, ConcatEmptySeq
<1>9. QED BY <1>1, <1>4, <1>7, <1>8, IsEndScan

LEMMA StopAtWordSimulates ==
  ASSUME GetoptInv, StopAtWord
  PROVE  Abstract!EndScan
<1>1. /\ getopt = "test" /\ result.opt = "pending" /\ nextchar = <<>> /\ ~ending /\ posixly_correct
      /\ optind < argc /\ IsWord(argv[optind]) /\ first_nonopt = last_nonopt
      /\ last_nonopt <= optind /\ 1 <= first_nonopt
      /\ getopt' = "returned" /\ result' = Answer("end", <<>>) /\ result'.opt = "end"
      /\ UNCHANGED <<callerVars, argv, nextchar, optind>>
  <2>1. posixly_correct \in BOOLEAN
        BY DEF GetoptInv, GetoptTypes
  <2>2. QED BY <2>1 DEF StopAtWord, AtWord, Return, Answer, GetoptInv, GetoptTypes, Blocks
<1>2. /\ argv \in Seq(Elements) /\ Len(argv) \in Nat /\ optind \in 1 .. Len(argv) /\ optind \in Nat
      /\ first_nonopt \in Nat \ {0} /\ last_nonopt \in Nat /\ optind <= Len(argv) + 1
      BY <1>1, Numbers
<1>3. /\ Taken = SubSeq(argv, 1, first_nonopt - 1) \o SubSeq(argv, last_nonopt, optind - 1)
      /\ Operands = SubSeq(argv, first_nonopt, last_nonopt - 1)
      /\ Todo = SubSeq(argv, optind, Len(argv))
      BY <1>1, ViewOfBlocks
<1>4. Taken = SubSeq(argv, 1, optind - 1)
      BY <1>1, <1>2, <1>3, TakenInOrder
<1>5. Operands = <<>>
      BY <1>1, <1>2, <1>3, SubSeqEmpty
<1>6. Todo' = <<>> /\ NoneLeft'
      BY <1>1 DEF Todo, NoneLeft
<1>7. Settled' = argv /\ Dealt' = optind - 1 /\ optind - 1 + 1 = optind
      BY <1>1, <1>2 DEF Settled, Dealt
<1>8. Taken' = Taken /\ Operands' = Todo
      BY <1>1, <1>3, <1>4, <1>6, <1>7 DEF Taken, Operands
<1>9. Todo \in Seq(Elements)
  <2>1. optind \in 1 .. Len(argv) + 1 /\ Len(argv) \in optind - 1 .. Len(argv)
        BY <1>2
  <2>2. QED BY <1>2, <1>3, <2>1, CutProperties
<1>10. Operands' = Operands \o Todo
      BY <1>5, <1>8, <1>9, ConcatEmptySeq
<1>11. Todo # <<>> => IsWord(Head(Todo))
      BY <1>1, <1>2, <1>3, NextElement
<1>12. QED BY <1>1, <1>6, <1>8, <1>10, <1>11, IsEndScan

LEMMA ReturnOptionSimulates ==
  ASSUME GetoptInv, GetoptInv', ReturnOption
  PROVE  Abstract!TakeOption
<1>1. /\ getopt = "test" /\ result.opt = "pending" /\ ~ending /\ optind < argc
      /\ nextchar = <<>> => ~IsWord(argv[optind]) /\ argv[optind] # Dashes
      /\ first_nonopt <= last_nonopt /\ last_nonopt <= optind /\ 1 <= first_nonopt
      /\ getopt' = "returned"
      /\ UNCHANGED <<callerVars, argv, first_nonopt, last_nonopt, ending>>
  <2>1. getopt = "test" /\ optind # argc
        BY DEF ReturnOption
  <2>2. optind < argc
        BY <2>1, Numbers
  <2>3. QED BY <2>1, <2>2 DEF ReturnOption, Return, nonoptVars, GetoptInv, GetoptTypes, Blocks
<1>2. /\ argv \in Seq(Elements) /\ Len(argv) \in Nat /\ optind \in 1 .. Len(argv) /\ optind \in Nat
      /\ first_nonopt \in Nat \ {0} /\ last_nonopt \in Nat
      /\ table \in Table /\ nextchar \in Seq(STRING)
      BY <1>1, Numbers DEF GetoptInv, GetoptTypes
<1>3. /\ Taken = SubSeq(argv, 1, first_nonopt - 1) \o SubSeq(argv, last_nonopt, optind - 1)
      /\ Operands = SubSeq(argv, first_nonopt, last_nonopt - 1)
      /\ Todo = SubSeq(argv, optind, Len(argv))
      BY <1>1, ViewOfBlocks
<1>4. Todo # <<>> /\ Head(Todo) = argv[optind]
      BY <1>2, <1>3, NextElement
<1>5. PICK d : d = Decode(table, Todo, nextchar)
      OBVIOUS
<1>6. optind' = optind + d.used /\ nextchar' = d.rest /\ result' = Answer(d.opt, d.arg)
      BY <1>3, <1>5 DEF ReturnOption, Return
<1>7. Todo \in Seq(Elements) /\ Len(Todo) = Len(argv) - optind + 1
  <2>1. optind \in 1 .. Len(argv) + 1 /\ Len(argv) \in optind - 1 .. Len(argv)
        BY <1>2
  <2>2. QED BY <1>2, <1>3, <2>1, CutProperties
<1>8. d.used \in 0 .. Len(Todo) /\ d.opt \notin Reserved
      BY <1>1, <1>2, <1>4, <1>5, <1>7, DecodeProperties
<1>9. result'.opt \notin {"none", "end"}
      BY <1>6, <1>8 DEF Answer, Reserved
<1>10. /\ Taken' = SubSeq(argv, 1, first_nonopt - 1) \o SubSeq(argv, last_nonopt, optind' - 1)
       /\ Operands' = Operands
       /\ Todo' = SubSeq(argv, optind', Len(argv))
  <2>1. (GetoptInv /\ getopt \in {"returned", "advance", "test"} /\ result.opt \notin {"none", "end"}
         => /\ Taken = SubSeq(argv, 1, first_nonopt - 1) \o SubSeq(argv, last_nonopt, optind - 1)
            /\ Operands = SubSeq(argv, first_nonopt, last_nonopt - 1)
            /\ Todo = SubSeq(argv, optind, Len(argv)))'
        BY ViewOfBlocks, PTL
  <2>2. QED BY <1>1, <1>3, <1>9, <2>1
<1> DEFINE u == d.used
           k == optind + u - 1
<1>11. /\ u \in 0 .. Len(argv) - optind + 1 /\ k \in Nat /\ k \in optind - 1 .. Len(argv)
       /\ optind' = optind + u /\ optind' - 1 = k
       BY <1>2, <1>6, <1>7, <1>8, SMTT(30)
<1> HIDE DEF u
<1>12. /\ SubSeq(Todo, 1, u) = SubSeq(argv, optind, k)
       /\ SubSeq(Todo, u + 1, Len(Todo)) = SubSeq(argv, optind + u, Len(argv))
  <2>1. optind \in 1 .. Len(argv) + 1
        BY <1>2
  <2>2. QED BY <1>2, <1>3, <1>11, <2>1, CutOfCut
<1> HIDE DEF k
<1>13. Taken' = Taken \o SubSeq(Todo, 1, u)
  <2>1. /\ last_nonopt \in 1 .. Len(argv) + 1 /\ optind - 1 \in last_nonopt - 1 .. Len(argv)
        /\ k \in optind - 1 .. Len(argv) /\ optind - 1 + 1 = optind
        /\ 1 \in 1 .. Len(argv) + 1 /\ first_nonopt - 1 \in 1 - 1 .. Len(argv)
        /\ optind \in 1 .. Len(argv) + 1
        BY <1>1, <1>2, <1>11
  <2>2. SubSeq(argv, last_nonopt, optind - 1) \o SubSeq(argv, optind - 1 + 1, k)
          = SubSeq(argv, last_nonopt, k)
        BY <1>2, <2>1, ConcatAdjacentSubSeq
  <2>3. /\ SubSeq(argv, 1, first_nonopt - 1) \in Seq(Elements)
        /\ SubSeq(argv, last_nonopt, optind - 1) \in Seq(Elements)
        /\ SubSeq(argv, optind, k) \in Seq(Elements)
        BY <1>2, <2>1, CutProperties
  <2> DEFINE front == SubSeq(argv, 1, first_nonopt - 1)
             block == SubSeq(argv, last_nonopt, optind - 1)
             now   == SubSeq(argv, optind, k)
  <2>4. Taken' = front \o (block \o now) /\ Taken = front \o block /\ SubSeq(Todo, 1, u) = now
        BY <1>3, <1>10, <1>11, <1>12, <2>1, <2>2
  <2>5. front \in Seq(Elements) /\ block \in Seq(Elements) /\ now \in Seq(Elements)
        BY <2>3
  <2> HIDE DEF front, block, now
  <2>6. (front \o block) \o now = front \o (block \o now)
        BY <2>5, ConcatAssociative
  <2>7. QED BY <2>4, <2>6
<1>14. Todo' = SubSeq(Todo, u + 1, Len(Todo))
      BY <1>10, <1>11, <1>12
<1>15. QED
  BY <1>1, <1>4, <1>5, <1>6, <1>10, <1>13, <1>14, IsTakeOption DEF u

(* A step inside a call is one of Scan, or Scan sees nothing of it.        *)
LEMMA GetoptNextSimulates ==
  ASSUME GetoptInv, GetoptNext
  PROVE  Abstract!ScanNext \/ UNCHANGED Abstract!scanVars
<1>1. GetoptInv'
      BY GetoptNextKeeps
<1>2. QED
  BY <1>1, AdvanceStutters, ExchangeStutters, ExchangedStutters, SkippedStutters, SkipSimulates,
     EndOfOptionsSimulates, StopSimulates, AllReadSimulates, StopAtWordSimulates, ReturnOptionSimulates
  DEF GetoptNext, Abstract!ScanNext
=============================================================================
