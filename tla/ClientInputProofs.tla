-------------------------- MODULE ClientInputProofs -------------------------
(***************************************************************************)
(* Proofs about ClientInput, for all sessions, message sizes, buffer sizes *)
(* and limits.                                                             *)
(***************************************************************************)
EXTENDS ClientInput, SequenceTheorems, TLAPS

(* The i-th unit of those that wait in b and behind them in q. *)
At(b, q, i) == IF i <= Len(b) THEN b[i] ELSE q[i - Len(b)]

LEMMA Sizes ==
  \A m \in Messages : /\ HeaderSize(m) \in {1, 2} /\ MessageSize(m) \in Nat
                      /\ MessageSize(m) = HeaderSize(m) + m.len /\ MessageSize(m) >= 1
                      /\ m.len \in Nat
                      /\ m.type = "pointer" => m.len \in {0, 1}
                      /\ Needed(m) \in Nat /\ Needed(m) >= 1
BY ClientInputConstants DEF Messages, HeaderSize, MessageSize, Needed

LEMMA LeastOfTwo ==
  ASSUME NEW a \in Int, NEW b \in Int
  PROVE  Min({a, b}) \in {a, b} /\ Min({a, b}) <= a /\ Min({a, b}) <= b
<1>1. \E x \in {a, b} : \A y \in {a, b} : x <= y
  BY DEF Min
<1> QED BY <1>1 DEF Min

(* What taking units away from the front of b, or from q if b is empty, and *)
(* reading units from q into b do to the units that wait.                   *)
LEMMA Taken ==
  ASSUME NEW b \in Seq(Units), NEW q \in Seq(Units), NEW n \in 0..Len(b)
  PROVE  /\ SubSeq(b, n + 1, Len(b)) \in Seq(Units)
         /\ Len(SubSeq(b, n + 1, Len(b))) = Len(b) - n
         /\ \A i \in 1..(Len(b) - n + Len(q)) :
              At(SubSeq(b, n + 1, Len(b)), q, i) = At(b, q, i + n)
<1> DEFINE c == SubSeq(b, n + 1, Len(b))
<1>1. c \in Seq(Units) /\ Len(c) = Len(b) - n /\ \A i \in 1..Len(c) : c[i] = b[i + n]
  <2>1. Len(b) \in Nat /\ n + 1 \in Int /\ Len(b) \in Int /\ n >= 0
    OBVIOUS
  <2>2. \A i \in (n + 1)..Len(b) : b[i] \in Units
    BY <2>1
  <2>3. /\ c \in Seq(Units)
        /\ Len(c) = IF n + 1 <= Len(b) THEN Len(b) - (n + 1) + 1 ELSE 0
        /\ \A i \in 1..(Len(b) - (n + 1) + 1) : c[i] = b[(n + 1) + i - 1]
    BY <2>1, <2>2, SubSeqProperties
  <2> HIDE DEF c
  <2>4. Len(c) = Len(b) - n /\ Len(b) - (n + 1) + 1 = Len(b) - n
    BY <2>1, <2>3
  <2>5. ASSUME NEW i \in 1..Len(c)
        PROVE  c[i] = b[i + n]
    <3>1. (n + 1) + i - 1 = i + n
      BY <2>1, <2>4
    <3> QED BY <2>3, <2>4, <3>1
  <2> QED BY <2>3, <2>4, <2>5
<1> HIDE DEF c
<1>2. ASSUME NEW i \in 1..(Len(b) - n + Len(q))
      PROVE  At(c, q, i) = At(b, q, i + n)
  <2>1. CASE i <= Len(c)
    BY <1>1, <2>1 DEF At
  <2>2. CASE i > Len(c)
    <3>1. i - Len(c) = (i + n) - Len(b)
      BY <1>1
    <3> QED BY <1>1, <2>2, <3>1 DEF At
  <2> QED BY <1>1, <2>1, <2>2
<1> QED BY <1>1, <1>2 DEF c

LEMMA Collected ==
  ASSUME NEW q \in Seq(Units), NEW n \in 0..Len(q)
  PROVE  /\ SubSeq(q, n + 1, Len(q)) \in Seq(Units)
         /\ Len(SubSeq(q, n + 1, Len(q))) = Len(q) - n
         /\ \A i \in 1..(Len(q) - n) :
              At(<< >>, SubSeq(q, n + 1, Len(q)), i) = At(<< >>, q, i + n)
BY DEF At

LEMMA Moved ==
  ASSUME NEW b \in Seq(Units), NEW q \in Seq(Units), NEW n \in 0..Len(q)
  PROVE  LET c == b \o SubSeq(q, 1, n)
             r == SubSeq(q, n + 1, Len(q)) IN
         /\ c \in Seq(Units) /\ r \in Seq(Units)
         /\ Len(c) = Len(b) + n /\ Len(r) = Len(q) - n
         /\ \A i \in 1..(Len(b) + Len(q)) : At(c, r, i) = At(b, q, i)
<1> DEFINE f == SubSeq(q, 1, n)
           r == SubSeq(q, n + 1, Len(q))
<1>1. f \in Seq(Units) /\ Len(f) = n /\ \A i \in 1..n : f[i] = q[i]
  OBVIOUS
<1>2. r \in Seq(Units) /\ Len(r) = Len(q) - n /\ \A i \in 1..Len(r) : r[i] = q[i + n]
  OBVIOUS
<1> HIDE DEF f, r
<1>3. /\ b \o f \in Seq(Units) /\ Len(b \o f) = Len(b) + n
      /\ \A i \in 1..(Len(b) + n) : (b \o f)[i] = IF i <= Len(b) THEN b[i] ELSE f[i - Len(b)]
  BY <1>1, ConcatProperties
<1>4. ASSUME NEW i \in 1..(Len(b) + Len(q))
      PROVE  At(b \o f, r, i) = At(b, q, i)
  <2>1. CASE i <= Len(b)
    BY <1>3, <2>1 DEF At
  <2>2. CASE i > Len(b) /\ i <= Len(b) + n
    <3>1. i - Len(b) \in 1..n
      BY <2>2
    <3>2. (b \o f)[i] = q[i - Len(b)]
      BY <1>1, <1>3, <2>2, <3>1
    <3> QED BY <1>3, <2>2, <3>2 DEF At
  <2>3. CASE i > Len(b) + n
    <3>1. i - Len(b \o f) \in 1..Len(r) /\ (i - Len(b \o f)) + n = i - Len(b)
      BY <1>2, <1>3, <2>3
    <3>2. At(b \o f, r, i) = r[i - Len(b \o f)]
      BY <1>3, <2>3 DEF At
    <3>3. r[i - Len(b \o f)] = q[i - Len(b)]
      BY <1>2, <3>1
    <3>4. At(b, q, i) = q[i - Len(b)]
      BY <2>3 DEF At
    <3> QED BY <3>2, <3>3, <3>4
  <2> QED BY <2>1, <2>2, <2>3
<1> QED BY <1>2, <1>3, <1>4 DEF f, r

-----------------------------------------------------------------------------
(* Where the messages lie. *)

(* start[k] is where the first unit of the k-th message of s lies among     *)
(* those that wait in b and q, h messages having been handled; o is that of *)
(* the next one, less than 1 if some of it is gone already.                 *)
Maps(start, s, b, q, h, o) ==
  /\ start \in [1..(Len(s) + 1) -> Int]
  /\ h <= Len(s)
  /\ start[h + 1] = o
  /\ start[Len(s) + 1] = Len(b) + Len(q) + 1
  /\ \A k \in (h + 1)..Len(s) : start[k + 1] = start[k] + MessageSize(s[k])
  /\ \A k \in (h + 1)..(Len(s) + 1) : start[k] <= Len(b) + Len(q) + 1
  /\ \A k \in (h + 1)..Len(s), m \in Nat :
       /\ m \in 1..MessageSize(s[k])
       /\ start[k] + m - 1 >= 1
       => At(b, q, start[k] + m - 1) = <<k, m>>

(* The message at the front. *)
LEMMA NextMessage ==
  ASSUME NEW s \in Seq(Messages), NEW b \in Seq(Units), NEW q \in Seq(Units),
         NEW h \in Nat, NEW start, Maps(start, s, b, q, h, 1), b # << >>
  PROVE  /\ h + 1 \in 1..Len(s) /\ b[1] = <<h + 1, 1>>
         /\ MessageSize(s[h + 1]) <= Len(b) + Len(q)
<1>1. Len(b) >= 1 /\ Len(b) \in Nat /\ Len(q) \in Nat /\ Len(s) \in Nat
  OBVIOUS
<1>2. h <= Len(s) /\ start[h + 1] = 1 /\ start[Len(s) + 1] = Len(b) + Len(q) + 1
  BY DEF Maps
<1>3. h # Len(s)
  <2>1. Len(b) + Len(q) + 1 # 1
    BY <1>1
  <2>2. start[h + 1] # start[Len(s) + 1]
    BY <1>2, <2>1
  <2> QED BY <2>2
<1>4. h + 1 \in (h + 1)..Len(s) /\ h + 1 \in 1..Len(s) /\ s[h + 1] \in Messages
  BY <1>1, <1>2, <1>3
<1>5. MessageSize(s[h + 1]) \in Nat /\ MessageSize(s[h + 1]) >= 1
  BY <1>4, Sizes
<1>6. At(b, q, start[h + 1] + 1 - 1) = <<h + 1, 1>>
  BY <1>2, <1>4, <1>5 DEF Maps
<1>7. b[1] = <<h + 1, 1>>
  BY <1>1, <1>2, <1>6 DEF At
<1>8. start[h + 2] = 1 + MessageSize(s[h + 1]) /\ start[h + 2] <= Len(b) + Len(q) + 1
  <2>1. start[(h + 1) + 1] = start[h + 1] + MessageSize(s[h + 1])
    BY <1>4 DEF Maps
  <2>2. h + 2 \in (h + 1)..(Len(s) + 1) /\ (h + 1) + 1 = h + 2
    BY <1>1, <1>4
  <2> QED BY <1>2, <2>1, <2>2 DEF Maps
<1> QED BY <1>1, <1>4, <1>5, <1>7, <1>8

(* c and r are what is left of b and q without their first n units. *)
Drops(b, q, c, r, n) ==
  /\ b \in Seq(Units) /\ q \in Seq(Units) /\ c \in Seq(Units) /\ r \in Seq(Units)
  /\ n \in Nat /\ Len(c) + Len(r) = Len(b) + Len(q) - n
  /\ \A i \in 1..(Len(c) + Len(r)) : At(c, r, i) = At(b, q, i + n)

(* After n units, g messages are handled and the next one starts at p.      *)
Advances(s, n, h, o, g, p) ==
  /\ h \in Nat /\ g \in Nat /\ o \in Int /\ p \in Int
  /\ \/ g = h /\ p = o - n
     \/ g = h + 1 /\ g <= Len(s) /\ p = o + MessageSize(s[g]) - n

(* n units go, and with them the next message if they end it. *)
LEMMA Shifted ==
  ASSUME NEW s, s \in Seq(Messages), NEW b, NEW q, NEW c, NEW r, NEW n, NEW h, NEW o,
         NEW g, NEW p, NEW start,
         Drops(b, q, c, r, n), Advances(s, n, h, o, g, p), Maps(start, s, b, q, h, o)
  PROVE  \E st : Maps(st, s, c, r, g, p)
<1>a. /\ b \in Seq(Units) /\ q \in Seq(Units) /\ c \in Seq(Units) /\ r \in Seq(Units)
      /\ n \in Nat /\ Len(c) + Len(r) = Len(b) + Len(q) - n
  BY DEF Drops
<1>b. \A i \in 1..(Len(c) + Len(r)) : At(c, r, i) = At(b, q, i + n)
  BY DEF Drops
<1>c. /\ h \in Nat /\ g \in Nat /\ o \in Int /\ p \in Int
      /\ \/ g = h /\ p = o - n
         \/ g = h + 1 /\ g <= Len(s) /\ p = o + MessageSize(s[g]) - n
  BY DEF Advances
<1> USE <1>a, <1>c
<1> DEFINE st == [k \in 1..(Len(s) + 1) |-> start[k] - n]
<1>1. Len(s) \in Nat /\ Len(b) \in Nat /\ Len(q) \in Nat /\ Len(c) \in Nat /\ Len(r) \in Nat
  OBVIOUS
<1>2. /\ \A k \in 1..(Len(s) + 1) : start[k] \in Int
      /\ h <= Len(s) /\ start[h + 1] = o
      /\ start[Len(s) + 1] = Len(b) + Len(q) + 1
      /\ \A k \in (h + 1)..Len(s) : start[k + 1] = start[k] + MessageSize(s[k])
      /\ \A k \in (h + 1)..(Len(s) + 1) : start[k] <= Len(b) + Len(q) + 1
      /\ \A k \in (h + 1)..Len(s), m \in Nat :
           m \in 1..MessageSize(s[k]) /\ start[k] + m - 1 >= 1
             => At(b, q, start[k] + m - 1) = <<k, m>>
  BY DEF Maps
<1>3. \A k \in 1..Len(s) : MessageSize(s[k]) \in Nat
  <2> TAKE k \in 1..Len(s)
  <2>1. s[k] \in Messages
    OBVIOUS
  <2> QED BY <2>1, Sizes
<1>4. /\ st \in [1..(Len(s) + 1) -> Int]
      /\ \A k \in 1..(Len(s) + 1) : st[k] = start[k] - n
  <2>1. ASSUME NEW k \in 1..(Len(s) + 1)
        PROVE  start[k] - n \in Int
    <3>1. PICK u \in Int : u = start[k]
      BY <1>2
    <3>2. u - n \in Int
      OBVIOUS
    <3> QED BY <3>1, <3>2, Zenon
  <2> QED BY <2>1, Zenon
<1> HIDE DEF st
<1>5. g <= Len(s) /\ g >= h
  BY <1>1, <1>2
<1>6. st[g + 1] = p
  <2>1. g + 1 \in 1..(Len(s) + 1) /\ h + 1 \in 1..(Len(s) + 1)
    BY <1>1, <1>2, <1>5
  <2>2. CASE g = h /\ p = o - n
    BY <1>2, <1>4, <2>1, <2>2
  <2>3. CASE g = h + 1 /\ g <= Len(s) /\ p = o + MessageSize(s[g]) - n
    <3>1. g \in (h + 1)..Len(s) /\ g \in 1..Len(s)
      BY <1>1, <2>3
    <3>2. start[g + 1] = start[g] + MessageSize(s[g])
      BY <1>2, <3>1
    <3>3. start[g] = o
      BY <1>2, <2>3
    <3>4. st[g + 1] = start[g + 1] - n
      BY <1>4, <2>1
    <3>5. PICK z \in Nat : z = MessageSize(s[g])
      BY <1>3, <3>1
    <3>6. p = o + z - n /\ st[g + 1] = (o + z) - n
      BY <2>3, <3>2, <3>3, <3>4, <3>5
    <3> QED BY <3>5, <3>6
  <2> QED BY <2>2, <2>3
<1>7. st[Len(s) + 1] = Len(c) + Len(r) + 1
  <2>1. Len(s) + 1 \in 1..(Len(s) + 1)
    BY <1>1
  <2>2. st[Len(s) + 1] = start[Len(s) + 1] - n
    BY <1>4, <2>1
  <2>3. st[Len(s) + 1] = (Len(b) + Len(q) + 1) - n
    BY <1>2, <2>2
  <2>4. (Len(b) + Len(q) + 1) - n = (Len(b) + Len(q) - n) + 1
    BY <1>1
  <2>5. (Len(b) + Len(q) + 1) - n = Len(c) + Len(r) + 1
    BY <1>1, <2>4
  <2> QED BY <2>3, <2>5
<1>8. ASSUME NEW k \in (g + 1)..Len(s)
      PROVE  st[k + 1] = st[k] + MessageSize(s[k])
  <2>1. k \in (h + 1)..Len(s) /\ k \in 1..Len(s)
    BY <1>1, <1>5
  <2>2. k \in 1..(Len(s) + 1) /\ k + 1 \in 1..(Len(s) + 1)
    BY <1>1, <2>1
  <2>3. start[k + 1] = start[k] + MessageSize(s[k])
    BY <1>2, <2>1
  <2>4. PICK z \in Nat : z = MessageSize(s[k])
    BY <1>3, <2>1
  <2>5. PICK u \in Int : u = start[k]
    BY <1>2, <2>2
  <2>6. st[k] = u - n /\ st[k + 1] = (u + z) - n
    BY <1>4, <2>2, <2>3, <2>4, <2>5
  <2> QED BY <2>4, <2>6
<1>9. ASSUME NEW k \in (g + 1)..(Len(s) + 1)
      PROVE  st[k] <= Len(c) + Len(r) + 1
  <2>1. k \in (h + 1)..(Len(s) + 1) /\ k \in 1..(Len(s) + 1)
    BY <1>1, <1>5
  <2>2. start[k] <= Len(b) + Len(q) + 1 /\ start[k] \in Int
    BY <1>2, <2>1
  <2>3. PICK u \in Int : u = start[k]
    BY <2>2
  <2>4. PICK v \in Int : v = Len(b) + Len(q)
    BY <1>1
  <2>5. v - n + 1 = Len(c) + Len(r) + 1 /\ u <= v + 1
    <3>1. v - n = Len(c) + Len(r)
      BY <2>4
    <3>2. (v - n) + 1 = Len(c) + Len(r) + 1
      BY <1>1, <3>1
    <3>3. u <= v + 1
      BY <2>2, <2>3, <2>4
    <3> QED BY <3>2, <3>3
  <2>6. u - n <= v - n + 1
    BY <2>5
  <2>7. st[k] = u - n
    BY <1>4, <2>1, <2>3
  <2> QED BY <2>5, <2>6, <2>7
<1>10. ASSUME NEW k \in (g + 1)..Len(s), NEW m \in Nat, m \in 1..MessageSize(s[k]),
              st[k] + m - 1 >= 1
       PROVE  At(c, r, st[k] + m - 1) = <<k, m>>
  <2>1. k \in (h + 1)..Len(s) /\ k \in 1..Len(s)
    BY <1>1, <1>5
  <2>2. k \in 1..(Len(s) + 1) /\ k + 1 \in (g + 1)..(Len(s) + 1)
    BY <1>1, <1>5, <2>1
  <2>3. PICK z \in Nat : z = MessageSize(s[k])
    BY <1>3, <2>1
  <2>4. PICK u \in Int : u = start[k]
    BY <1>2, <2>2
  <2>5. st[k] = u - n
    BY <1>4, <2>2, <2>4
  <2>6. m \in 1..z /\ u - n + m - 1 >= 1
    BY <1>10, <2>3, <2>5
  <2>7. start[k] + m - 1 >= 1 /\ start[k] + m - 1 = (st[k] + m - 1) + n
    <3>1. u + m - 1 >= 1 /\ u + m - 1 = ((u - n) + m - 1) + n
      BY <2>6
    <3> QED BY <2>4, <2>5, <3>1
  <2>8. At(b, q, start[k] + m - 1) = <<k, m>>
    BY <1>2, <1>10, <2>1, <2>7
  <2>9. st[k + 1] = (u - n) + z /\ st[k + 1] <= Len(c) + Len(r) + 1
    BY <1>8, <1>9, <2>2, <2>3, <2>5
  <2>10. st[k] + m - 1 \in 1..(Len(c) + Len(r))
    BY <1>1, <2>5, <2>6, <2>9
  <2> QED BY <1>b, <2>7, <2>8, <2>10
<1>11. Maps(st, s, c, r, g, p)
  BY <1>4, <1>5, <1>6, <1>7, <1>8, <1>9, <1>10 DEF Maps
<1> QED BY <1>11

(* A message m arrives behind the others. *)
LEMMA Extended ==
  ASSUME NEW s \in Seq(Messages), NEW b \in Seq(Units), NEW q \in Seq(Units),
         NEW h \in Nat, NEW o \in Int, NEW start, Maps(start, s, b, q, h, o),
         NEW m \in Messages
  PROVE  LET r == q \o [i \in 1..MessageSize(m) |-> <<Len(s) + 1, i>>] IN
         /\ r \in Seq(Units)
         /\ \E st : Maps(st, Append(s, m), b, r, h, o)
<1>1. PICK z \in Nat : z = MessageSize(m)
  BY Sizes
<1> DEFINE n == Len(s)
           t == Append(s, m)
           e == [i \in 1..z |-> <<n + 1, i>>]
           r == q \o e
           st == [k \in 1..(n + 2) |-> IF k <= n + 1 THEN start[k] ELSE start[n + 1] + z]
<1>2. n \in Nat /\ Len(b) \in Nat /\ Len(q) \in Nat
  OBVIOUS
<1>3. /\ t \in Seq(Messages) /\ Len(t) = n + 1 /\ t[n + 1] = m
      /\ \A k \in 1..n : t[k] = s[k]
  OBVIOUS
<1>4. e \in Seq(Units) /\ Len(e) = z /\ \A i \in 1..z : e[i] = <<n + 1, i>>
  BY <1>2 DEF Units
<1> HIDE DEF t, e
<1>5. /\ r \in Seq(Units) /\ Len(r) = Len(q) + z
      /\ \A i \in 1..(Len(q) + z) : r[i] = IF i <= Len(q) THEN q[i] ELSE e[i - Len(q)]
  BY <1>4, ConcatProperties
<1> HIDE DEF r
<1>6. /\ \A k \in 1..(n + 1) : start[k] \in Int
      /\ h <= n /\ start[h + 1] = o
      /\ start[n + 1] = Len(b) + Len(q) + 1
      /\ \A k \in (h + 1)..n : start[k + 1] = start[k] + MessageSize(s[k])
      /\ \A k \in (h + 1)..(n + 1) : start[k] <= Len(b) + Len(q) + 1
      /\ \A k \in (h + 1)..n, j \in Nat :
           j \in 1..MessageSize(s[k]) /\ start[k] + j - 1 >= 1
             => At(b, q, start[k] + j - 1) = <<k, j>>
  BY DEF Maps
<1>7. n + 1 \in 1..(n + 1) /\ start[n + 1] \in Int
  BY <1>2, <1>6
<1>8. /\ st \in [1..(n + 2) -> Int]
      /\ \A k \in 1..(n + 1) : st[k] = start[k]
      /\ st[n + 2] = (Len(b) + Len(q) + 1) + z
  BY <1>2, <1>6, <1>7
<1> HIDE DEF st
<1>9. (Len(b) + Len(q) + 1) + z = Len(b) + Len(r) + 1
  BY <1>2, <1>5
<1>10. ASSUME NEW k \in (h + 1)..(n + 1)
       PROVE  st[k + 1] = st[k] + MessageSize(t[k])
  <2>1. CASE k = n + 1
    <3>1. st[k + 1] = (Len(b) + Len(q) + 1) + z /\ st[k] = Len(b) + Len(q) + 1
      BY <1>2, <1>6, <1>7, <1>8, <2>1
    <3> QED BY <1>1, <1>3, <2>1, <3>1
  <2>2. CASE k # n + 1
    <3>1. k \in (h + 1)..n /\ k \in 1..n /\ k \in 1..(n + 1) /\ k + 1 \in 1..(n + 1)
      BY <1>2, <2>2
    <3> QED BY <1>3, <1>6, <1>8, <3>1
  <2> QED BY <2>1, <2>2
<1>11. ASSUME NEW k \in (h + 1)..(n + 2)
       PROVE  st[k] <= Len(b) + Len(r) + 1
  <2>1. CASE k = n + 2
    BY <1>2, <1>5, <1>8, <1>9, <2>1
  <2>2. CASE k # n + 2
    <3>1. k \in (h + 1)..(n + 1) /\ k \in 1..(n + 1)
      BY <1>2, <2>2
    <3>2. st[k] <= Len(b) + Len(q) + 1 /\ st[k] \in Int
      BY <1>6, <1>8, <3>1
    <3> QED BY <1>2, <1>5, <3>2
  <2> QED BY <2>1, <2>2
<1>12. ASSUME NEW i \in 1..(Len(b) + Len(q))
       PROVE  At(b, r, i) = At(b, q, i)
  <2>1. CASE i <= Len(b)
    BY <2>1 DEF At
  <2>2. CASE i > Len(b)
    <3>1. i - Len(b) \in 1..(Len(q) + z) /\ i - Len(b) <= Len(q)
      BY <1>2, <2>2
    <3>2. r[i - Len(b)] = q[i - Len(b)]
      BY <1>5, <3>1
    <3> QED BY <2>2, <3>2 DEF At
  <2> QED BY <1>2, <2>1, <2>2
<1>13. ASSUME NEW k \in (h + 1)..(n + 1), NEW j \in Nat, j \in 1..MessageSize(t[k]),
              st[k] + j - 1 >= 1
       PROVE  At(b, r, st[k] + j - 1) = <<k, j>>
  <2>1. CASE k = n + 1
    <3>1. st[k] = Len(b) + Len(q) + 1 /\ j \in 1..z
      BY <1>1, <1>3, <1>6, <1>7, <1>8, <1>13, <2>1
    <3>2. st[k] + j - 1 = Len(b) + Len(q) + j
      BY <1>2, <3>1
    <3>3. Len(b) + Len(q) + j > Len(b) /\ (Len(b) + Len(q) + j) - Len(b) = Len(q) + j
      BY <1>2, <3>1
    <3>4. At(b, r, Len(b) + Len(q) + j) = r[Len(q) + j]
      BY <1>2, <3>3 DEF At
    <3>5. Len(q) + j \in 1..(Len(q) + z) /\ ~(Len(q) + j <= Len(q)) /\ (Len(q) + j) - Len(q) = j
      BY <1>2, <3>1
    <3>6. r[Len(q) + j] = e[j]
      BY <1>5, <3>5
    <3> QED BY <1>4, <2>1, <3>1, <3>2, <3>4, <3>6
  <2>2. CASE k # n + 1
    <3>1. k \in (h + 1)..n /\ k \in 1..n /\ k \in 1..(n + 1) /\ k + 1 \in (h + 1)..(n + 1)
      BY <1>2, <2>2
    <3>2. st[k] = start[k] /\ t[k] = s[k] /\ start[k] \in Int
      BY <1>3, <1>6, <1>8, <3>1
    <3>3. At(b, q, st[k] + j - 1) = <<k, j>>
      BY <1>6, <1>13, <3>1, <3>2
    <3>4. s[k] \in Messages
      BY <3>1
    <3>5. PICK y \in Nat : y = MessageSize(s[k])
      BY <3>4, Sizes
    <3>6. start[k + 1] = start[k] + y /\ start[k + 1] <= Len(b) + Len(q) + 1
      BY <1>6, <3>1, <3>5
    <3>7. st[k] \in Int /\ st[k] + y <= Len(b) + Len(q) + 1 /\ j \in 1..y
      BY <1>13, <3>2, <3>5, <3>6
    <3>8. st[k] + j - 1 \in 1..(Len(b) + Len(q))
      <4>1. PICK u \in Int : u = st[k]
        BY <3>7
      <4>2. u + j - 1 >= 1 /\ u + y <= Len(b) + Len(q) + 1 /\ j <= y
        BY <1>13, <3>7, <4>1
      <4>3. u + j - 1 <= Len(b) + Len(q)
        BY <1>2, <4>2
      <4> QED BY <1>2, <4>1, <4>2, <4>3
    <3> QED BY <1>12, <3>3, <3>8
  <2> QED BY <2>1, <2>2
<1>14. st[h + 1] = o
  <2>1. h + 1 \in 1..(n + 1)
    BY <1>2, <1>6
  <2> QED BY <1>6, <1>8, <2>1
<1>15. /\ Len(t) = n + 1 /\ (n + 1) + 1 = n + 2 /\ h <= n + 1
       /\ st[n + 2] = Len(b) + Len(r) + 1
  BY <1>2, <1>3, <1>6, <1>8, <1>9
<1>16. Maps(st, t, b, r, h, o)
  BY <1>8, <1>10, <1>11, <1>13, <1>14, <1>15 DEF Maps
<1> QED BY <1>1, <1>5, <1>16 DEF t, e, r

-----------------------------------------------------------------------------
(* The inductive invariant.                                                 *)

(* The units that wait are those of the messages that were not handled, in  *)
(* order and without a gap.                                                 *)
Origin == IF cut = NoCut THEN 1 ELSE -cut.index

Laid == \E start : Maps(start, sent, buf, sock, Len(handled), Origin)

(* A text that is being collected is that of the next message. *)
CutKept ==
  cut # NoCut =>
    /\ buf = << >>
    /\ cut.msg = Len(handled) + 1 /\ cut.msg <= Len(sent)
    /\ HeaderSize(sent[cut.msg]) = 1 /\ sent[cut.msg].len = cut.length
    /\ cut.index < cut.length

HandledIs == \A k \in 1..Len(handled) : handled[k] = <<k, 1>>

LongPointers ==
  \A k \in 1..Len(sent) : sent[k].type = "pointer" /\ sent[k].len = 1 => extMouse

InOrder == Laid /\ CutKept /\ HandledIs /\ LongPointers

FlagsOK ==
  /\ alive \in BOOLEAN /\ hung \in BOOLEAN /\ processing \in BOOLEAN
  /\ fence \in BOOLEAN /\ blocked \in BOOLEAN /\ blockNext \in BOOLEAN /\ extMouse \in BOOLEAN

UnitsOK ==
  /\ sent \in Seq(Messages) /\ sock \in Seq(Units) /\ handled \in Seq(Units)
  /\ buf \in Seq(Units) /\ Len(buf) <= MsgBufferSize
  /\ cut \in [length : Nat, index : Nat, msg : Nat]

RestOK ==
  /\ session \in Sessions /\ update \in {"no", "encoding", "sending"}
  /\ provide \in Texts \cup {NoText} /\ appText \in Texts /\ copies \in Nat
  /\ out \in Seq(Replies)

LEMMA TypeParts == TypeOK <=> FlagsOK /\ UnitsOK /\ RestOK
BY Zenon DEF TypeOK, FlagsOK, UnitsOK, RestOK

Inv == FlagsOK /\ UnitsOK /\ RestOK /\ InOrder

LEMMA InitInv == Init => Inv
<1> SUFFICES ASSUME Init PROVE Inv
  OBVIOUS
<1>1. FlagsOK
  BY DEF Init, FlagsOK
<1>2. UnitsOK
  BY ClientInputConstants DEF Init, UnitsOK, NoCut
<1>3. RestOK
  BY ClientInputConstants DEF Init, RestOK
<1>4. Laid
  <2> DEFINE start == [k \in 1..1 |-> 1]
  <2>1. Maps(start, sent, buf, sock, Len(handled), Origin)
    BY DEF Init, Maps, Origin, At
  <2> QED BY <2>1 DEF Laid
<1>5. CutKept /\ HandledIs /\ LongPointers
  BY DEF Init, CutKept, HandledIs, LongPointers
<1> QED BY <1>1, <1>2, <1>3, <1>4, <1>5 DEF Inv, InOrder

(* With something in msg_buffer, the front of it is the next message. *)
LEMMA InFront ==
  ASSUME UnitsOK, InOrder, buf # << >>
  PROVE  /\ cut = NoCut /\ Origin = 1
         /\ Len(handled) + 1 \in 1..Len(sent)
         /\ buf[1] = <<Len(handled) + 1, 1>> /\ buf[1][1] = Len(handled) + 1
         /\ Msg = sent[Len(handled) + 1] /\ Msg \in Messages
<1>1. cut = NoCut /\ Origin = 1
  BY DEF InOrder, CutKept, Origin
<1>2. PICK start : Maps(start, sent, buf, sock, Len(handled), 1)
  BY <1>1 DEF InOrder, Laid
<1>3. Len(handled) + 1 \in 1..Len(sent) /\ buf[1] = <<Len(handled) + 1, 1>>
  BY <1>2, NextMessage DEF UnitsOK
<1>4. buf[1][1] = Len(handled) + 1
  BY <1>3
<1>5. Msg = sent[Len(handled) + 1]
  BY <1>4 DEF Msg
<1>6. Msg \in Messages
  BY <1>3, <1>5 DEF UnitsOK
<1> QED BY <1>1, <1>3, <1>4, <1>5, <1>6

(* A turn of the loop that handles the message at the front. *)
LEMMA HandlesNext ==
  ASSUME UnitsOK, InOrder, buf # << >>, MessageSize(Msg) <= Len(buf),
         Handle, Consume(MessageSize(Msg)), UNCHANGED <<sent, sock, cut, extMouse>>
  PROVE  UnitsOK' /\ InOrder'
<1>1. /\ cut = NoCut /\ Origin = 1
      /\ Len(handled) + 1 \in 1..Len(sent)
      /\ buf[1] = <<Len(handled) + 1, 1>>
      /\ Msg = sent[Len(handled) + 1] /\ Msg \in Messages
  BY InFront
<1>2. PICK z \in Nat : z = MessageSize(Msg)
  BY <1>1, Sizes
<1>3. /\ sent \in Seq(Messages) /\ sock \in Seq(Units) /\ handled \in Seq(Units)
      /\ buf \in Seq(Units) /\ Len(buf) <= MsgBufferSize
      /\ cut \in [length : Nat, index : Nat, msg : Nat]
  BY DEF UnitsOK
<1>4. z \in 0..Len(buf) /\ buf' = SubSeq(buf, z + 1, Len(buf))
  BY <1>2, <1>3 DEF Consume
<1>5. /\ buf' \in Seq(Units) /\ Len(buf') = Len(buf) - z
      /\ \A i \in 1..(Len(buf) - z + Len(sock)) : At(buf', sock, i) = At(buf, sock, i + z)
  BY <1>3, <1>4, Taken
<1>6. handled' = Append(handled, <<Len(handled) + 1, 1>>)
  BY <1>1 DEF Handle
<1>7. <<Len(handled) + 1, 1>> \in Units
  BY <1>3 DEF Units
<1>8. /\ handled' \in Seq(Units) /\ Len(handled') = Len(handled) + 1
      /\ \A k \in 1..Len(handled) : handled'[k] = handled[k]
      /\ handled'[Len(handled) + 1] = <<Len(handled) + 1, 1>>
  BY <1>3, <1>6, <1>7
<1>9. UnitsOK'
  BY <1>3, <1>4, <1>5, <1>8, ClientInputConstants DEF UnitsOK
<1>10. HandledIs'
  <2>1. ASSUME NEW k \in 1..(Len(handled) + 1)
        PROVE  handled'[k] = <<k, 1>>
    <3>1. CASE k = Len(handled) + 1
      BY <1>8, <3>1
    <3>2. CASE k # Len(handled) + 1
      <4>1. k \in 1..Len(handled)
        BY <1>3, <3>2
      <4> QED BY <1>8, <4>1 DEF InOrder, HandledIs
    <3> QED BY <3>1, <3>2
  <2> QED BY <1>8, <2>1 DEF HandledIs
<1>11. CutKept' /\ LongPointers'
  BY <1>1 DEF CutKept, LongPointers, InOrder, NoCut
<1>12. Laid'
  <2>1. PICK start : Maps(start, sent, buf, sock, Len(handled), 1)
    BY <1>1 DEF InOrder, Laid
  <2>2. Len(buf') + Len(sock) = Len(buf) + Len(sock) - z
    BY <1>3, <1>5
  <2>3. Drops(buf, sock, buf', sock, z)
    BY <1>3, <1>5, <2>2 DEF Drops
  <2>4. Advances(sent, z, Len(handled), 1, Len(handled) + 1, 1)
    BY <1>1, <1>2, <1>3 DEF Advances
  <2>5. \E st : Maps(st, sent, buf', sock, Len(handled) + 1, 1)
    BY <1>3, <2>1, <2>3, <2>4, Shifted
  <2>6. Origin' = 1 /\ sent' = sent /\ sock' = sock
    BY <1>1 DEF Origin
  <2> QED BY <1>8, <2>5, <2>6 DEF Laid
<1> QED BY <1>9, <1>10, <1>11, <1>12 DEF InOrder

(* The parts of the state that InOrder speaks of are left alone. *)
LEMMA Unread ==
  ASSUME UnitsOK, InOrder, UNCHANGED <<sent, sock, buf, cut, handled>>,
         extMouse => extMouse'
  PROVE  UnitsOK' /\ InOrder'
<1>1. UnitsOK' /\ Laid' /\ CutKept' /\ HandledIs'
  BY DEF UnitsOK, InOrder, Laid, CutKept, HandledIs, Origin
<1>2. LongPointers'
  BY DEF InOrder, LongPointers
<1> QED BY <1>1, <1>2 DEF InOrder

LEMMA ClientSendInv ==
  ASSUME Inv, NEW m \in session.menu, ClientSend(m)
  PROVE  Inv'
<1>1. m \in Messages
  BY DEF Inv, RestOK, Messages
<1>2. FlagsOK' /\ RestOK'
  BY Zenon DEF Inv, FlagsOK, RestOK, ClientSend, clipVars
<1>3. /\ sent \in Seq(Messages) /\ sock \in Seq(Units) /\ handled \in Seq(Units)
      /\ buf \in Seq(Units)
      /\ cut \in [length : Nat, index : Nat, msg : Nat]
  BY DEF Inv, UnitsOK
<1>4. PICK start : Maps(start, sent, buf, sock, Len(handled), Origin)
  BY DEF Inv, InOrder, Laid
<1>5. Origin \in Int /\ Len(handled) \in Nat
  BY <1>3 DEF Origin
<1>6. /\ sent' = Append(sent, m) /\ UNCHANGED <<buf, cut, handled, extMouse>>
      /\ sock' = sock \o [i \in 1..MessageSize(m) |-> <<Len(sent) + 1, i>>]
  BY DEF ClientSend
<1>7. sock' \in Seq(Units) /\ \E st : Maps(st, sent', buf, sock', Len(handled), Origin)
  BY <1>1, <1>3, <1>4, <1>5, <1>6, Extended
<1>8. /\ sent' \in Seq(Messages) /\ Len(sent') = Len(sent) + 1 /\ sent'[Len(sent) + 1] = m
      /\ \A k \in 1..Len(sent) : sent'[k] = sent[k]
  BY <1>1, <1>3, <1>6
<1>9. UnitsOK'
  BY <1>6, <1>7, <1>8 DEF Inv, UnitsOK
<1>10. Laid' /\ HandledIs'
  BY <1>6, <1>7 DEF Inv, InOrder, Laid, HandledIs, Origin
<1>11. CutKept'
  BY <1>3, <1>6, <1>8 DEF Inv, InOrder, CutKept
<1>12. LongPointers'
  <2>1. ASSUME NEW k \in 1..(Len(sent) + 1), sent'[k].type = "pointer", sent'[k].len = 1
        PROVE  extMouse
    <3>1. CASE k = Len(sent) + 1
      BY <1>8, <2>1, <3>1 DEF ClientSend, MayClientSend
    <3>2. CASE k # Len(sent) + 1
      <4>1. k \in 1..Len(sent)
        BY <1>3, <3>2
      <4> QED BY <1>8, <2>1, <4>1 DEF Inv, InOrder, LongPointers
    <3> QED BY <3>1, <3>2
  <2> QED BY <1>6, <1>8, <2>1 DEF LongPointers
<1> QED BY <1>2, <1>9, <1>10, <1>11, <1>12 DEF Inv, InOrder

LEMMA ReadyWhole ==
  ASSUME UnitsOK, InOrder, NEW type, type \notin {"cut_text", "clipboard"}, Ready(type)
  PROVE  buf # << >> /\ MessageSize(Msg) <= Len(buf)
<1>1. buf # << >> /\ Msg.type = type /\ Len(buf) >= Needed(Msg)
  BY DEF Ready
<1>2. Msg \in Messages
  BY <1>1, InFront
<1>3. Needed(Msg) = MessageSize(Msg)
  BY <1>1 DEF Needed
<1>4. MessageSize(Msg) \in Nat /\ Len(buf) \in Nat
  BY <1>2, Sizes DEF UnitsOK
<1> QED BY <1>1, <1>3, <1>4

(* A message to the client is put behind the others. *)
LEMMA Replied ==
  ASSUME NEW o \in Seq(Replies),
         NEW kind \in {"ntp", "caps", "latin1", "provide", "notify", "request"},
         NEW text \in Texts \cup {NoText}
  PROVE  /\ Append(o, [kind |-> kind, text |-> text]) \in Seq(Replies)
         /\ Last(Append(o, [kind |-> kind, text |-> text])).kind = kind
         /\ Last(Append(o, [kind |-> kind, text |-> text])).text = text
<1>1. [kind |-> kind, text |-> text] \in Replies
  BY DEF Replies
<1>2. /\ Append(o, [kind |-> kind, text |-> text]) \in Seq(Replies)
      /\ Last(Append(o, [kind |-> kind, text |-> text])) = [kind |-> kind, text |-> text]
  BY <1>1, AppendProperties DEF Last
<1> QED BY <1>2

LEMMA HandleMsgInv ==
  ASSUME UnitsOK, InOrder, buf # << >>, MessageSize(Msg) <= Len(buf), HandleMsg,
         UNCHANGED extMouse
  PROVE  UnitsOK' /\ InOrder'
BY HandlesNext DEF HandleMsg

LEMMA OnFixedInv == ASSUME Inv, OnFixed PROVE Inv'
<1>1. UnitsOK' /\ InOrder'
  BY ReadyWhole, HandleMsgInv DEF Inv, OnFixed
<1>2. FlagsOK' /\ RestOK'
  BY Zenon DEF Inv, FlagsOK, RestOK, OnFixed, HandleMsg, EndTurn, clipVars
<1> QED BY <1>1, <1>2 DEF Inv

LEMMA OnBadMessageInv == ASSUME Inv, OnBadMessage PROVE Inv'
<1>1. UnitsOK' /\ InOrder'
  BY Unread DEF Inv, OnBadMessage, inputVars
<1>2. FlagsOK' /\ RestOK'
  BY Zenon DEF Inv, FlagsOK, RestOK, OnBadMessage, inputVars, clipVars
<1> QED BY <1>1, <1>2 DEF Inv

LEMMA OnNtpInv == ASSUME Inv, OnNtp PROVE Inv'
<1>1. UnitsOK' /\ InOrder'
  BY ReadyWhole, HandleMsgInv DEF Inv, OnNtp
<1>2. FlagsOK'
  BY Zenon DEF Inv, FlagsOK, OnNtp, HandleMsg, EndTurn
<1>3. out' \in Seq(Replies)
  BY Replied DEF Inv, RestOK, OnNtp
<1>4. RestOK'
  BY <1>3, Zenon DEF Inv, RestOK, OnNtp, HandleMsg
<1> QED BY <1>1, <1>2, <1>4 DEF Inv

LEMMA OnPointerInv == ASSUME Inv, OnPointer PROVE Inv'
<1>1. buf # << >> /\ MessageSize(Msg) <= Len(buf)
  BY ReadyWhole DEF Inv, OnPointer
<1>2. Consume(MessageSize(Msg))
  <2>1. /\ Len(handled) + 1 \in 1..Len(sent)
        /\ Msg = sent[Len(handled) + 1] /\ Msg \in Messages
    BY <1>1, InFront DEF Inv
  <2>2. Msg.type = "pointer" /\ Msg.len \in {0, 1}
    BY <2>1, Sizes DEF OnPointer, Ready
  <2>3. MessageSize(Msg) = 2 + Msg.len
    BY <2>2 DEF MessageSize, HeaderSize
  <2>4. CASE Msg.len = 1
    <3>1. extMouse
      BY <2>1, <2>2, <2>4 DEF Inv, InOrder, LongPointers
    <3> QED BY <2>3, <2>4, <3>1 DEF OnPointer
  <2>5. CASE Msg.len = 0
    BY <2>3, <2>5 DEF OnPointer
  <2> QED BY <2>2, <2>4, <2>5
<1>3. UnitsOK' /\ InOrder'
  BY <1>1, <1>2, HandlesNext DEF Inv, OnPointer
<1>4. FlagsOK' /\ RestOK'
  BY Zenon DEF Inv, FlagsOK, RestOK, OnPointer, EndTurn, clipVars
<1> QED BY <1>3, <1>4 DEF Inv

LEMMA OnSetEncodingsInv == ASSUME Inv, OnSetEncodings PROVE Inv'
<1>1. UnitsOK' /\ InOrder'
  BY ReadyWhole, HandleMsgInv DEF Inv, OnSetEncodings
<1>2. FlagsOK'
  BY Zenon DEF Inv, FlagsOK, OnSetEncodings, HandleMsg, EndTurn
<1>3. out' \in Seq(Replies)
  BY Replied DEF Inv, RestOK, OnSetEncodings
<1>4. RestOK'
  BY <1>3, Zenon DEF Inv, RestOK, OnSetEncodings, HandleMsg
<1> QED BY <1>1, <1>2, <1>4 DEF Inv

LEMMA OnSetDesktopSizeInv == ASSUME Inv, OnSetDesktopSize PROVE Inv'
<1>1. CASE HandleMsg
  <2>1. UnitsOK' /\ InOrder'
    BY <1>1, ReadyWhole, HandleMsgInv DEF Inv, OnSetDesktopSize
  <2>2. FlagsOK' /\ RestOK'
    BY <1>1, Zenon DEF Inv, FlagsOK, RestOK, OnSetDesktopSize, HandleMsg, EndTurn, clipVars
  <2> QED BY <2>1, <2>2 DEF Inv
<1>2. CASE hung' = TRUE /\ UNCHANGED <<session, alive, sent, update, fence, inputVars>>
  <2>1. UnitsOK' /\ InOrder'
    BY <1>2, Unread DEF Inv, OnSetDesktopSize, inputVars
  <2>2. FlagsOK' /\ RestOK'
    BY <1>2, Zenon DEF Inv, FlagsOK, RestOK, OnSetDesktopSize, inputVars, clipVars
  <2> QED BY <2>1, <2>2 DEF Inv
<1> QED BY <1>1, <1>2, Zenon DEF OnSetDesktopSize

LEMMA OnFenceInv == ASSUME Inv, OnFence PROVE Inv'
<1>1. UnitsOK' /\ InOrder'
  BY ReadyWhole, HandlesNext DEF Inv, OnFence
<1>2. RestOK'
  BY Zenon DEF Inv, RestOK, OnFence, clipVars
<1>3. FlagsOK'
  BY Zenon DEF Inv, FlagsOK, OnFence
<1> QED BY <1>1, <1>2, <1>3 DEF Inv

LEMMA LeaveLoopInv == ASSUME Inv, LeaveLoop PROVE Inv'
<1>1. UnitsOK' /\ InOrder'
  BY Unread DEF Inv, LeaveLoop
<1>2. FlagsOK' /\ RestOK'
  BY Zenon DEF Inv, FlagsOK, RestOK, LeaveLoop, EndTurn, clipVars
<1> QED BY <1>1, <1>2 DEF Inv

(* Cut text: handled at once, or the rest of it is collected. *)
LEMMA TakesCutText ==
  ASSUME UnitsOK, InOrder, NEW type \in {"cut_text", "clipboard"}, Ready(type), TakeCutText,
         UNCHANGED <<sent, sock, extMouse>>
  PROVE  UnitsOK' /\ InOrder'
<1>1. buf # << >> /\ Msg.type = type
  BY DEF Ready
<1>2. CASE alive' = FALSE /\ UNCHANGED <<buf, cut, handled, blocked, blockNext>>
  BY <1>2, Unread
<1>3. CASE /\ MessageSize(Msg) <= Len(buf) /\ Handle /\ Consume(MessageSize(Msg))
           /\ UNCHANGED <<alive, cut>>
  BY <1>1, <1>3, HandlesNext
<1>4. CASE /\ MessageSize(Msg) > Len(buf)
           /\ cut' = [length |-> Msg.len, index |-> Len(buf) - 1, msg |-> buf[1][1]]
           /\ Consume(Len(buf)) /\ UNCHANGED <<alive, handled>>
  <2>1. /\ cut = NoCut /\ Origin = 1
        /\ Len(handled) + 1 \in 1..Len(sent)
        /\ buf[1][1] = Len(handled) + 1
        /\ Msg = sent[Len(handled) + 1] /\ Msg \in Messages
    BY <1>1, InFront
  <2>2. /\ sent \in Seq(Messages) /\ sock \in Seq(Units) /\ handled \in Seq(Units)
        /\ buf \in Seq(Units) /\ Len(buf) <= MsgBufferSize
    BY DEF UnitsOK
  <2>3. Len(buf) \in Nat /\ Len(buf) >= 1
    BY <1>1, <2>2
  <2>4. HeaderSize(Msg) = 1 /\ Msg.len \in Nat /\ MessageSize(Msg) = 1 + Msg.len
    BY <1>1, <2>1, Sizes DEF HeaderSize
  <2>5. cut' = [length |-> Msg.len, index |-> Len(buf) - 1, msg |-> Len(handled) + 1]
    BY <1>4, <2>1
  <2>6. /\ cut'.length = Msg.len /\ cut'.index = Len(buf) - 1 /\ cut'.msg = Len(handled) + 1
        /\ cut' \in [length : Nat, index : Nat, msg : Nat]
    BY <2>2, <2>3, <2>4, <2>5
  <2>7. cut' # NoCut
    BY <2>2, <2>6 DEF NoCut
  <2>8. Len(buf) \in 0..Len(buf) /\ buf' = SubSeq(buf, Len(buf) + 1, Len(buf))
    BY <1>4, <2>3 DEF Consume
  <2>9. /\ buf' \in Seq(Units) /\ Len(buf') = Len(buf) - Len(buf)
        /\ \A i \in 1..(Len(buf) - Len(buf) + Len(sock)) :
             At(buf', sock, i) = At(buf, sock, i + Len(buf))
    BY <2>2, <2>8, Taken
  <2>10. buf' = << >>
    BY <2>3, <2>9
  <2>11. UnitsOK'
    BY <1>4, <2>2, <2>6, <2>10, ClientInputConstants DEF UnitsOK
  <2>12. CutKept'
    BY <1>4, <2>1, <2>2, <2>3, <2>4, <2>6, <2>10 DEF CutKept
  <2>13. HandledIs' /\ LongPointers'
    BY <1>4 DEF InOrder, HandledIs, LongPointers
  <2>14. Laid'
    <3>1. PICK start : Maps(start, sent, buf, sock, Len(handled), 1)
      BY <2>1 DEF InOrder, Laid
    <3>2. Drops(buf, sock, buf', sock, Len(buf))
      <4>1. Len(buf') + Len(sock) = Len(buf) + Len(sock) - Len(buf)
        BY <2>2, <2>9
      <4> QED BY <2>2, <2>3, <2>9, <4>1 DEF Drops
    <3>3. Advances(sent, Len(buf), Len(handled), 1, Len(handled), 1 - Len(buf))
      BY <2>2, <2>3 DEF Advances
    <3>4. \E st : Maps(st, sent, buf', sock, Len(handled), 1 - Len(buf))
      BY <2>2, <3>1, <3>2, <3>3, Shifted
    <3>5. Origin' = 1 - Len(buf)
      BY <2>3, <2>6, <2>7 DEF Origin
    <3> QED BY <1>4, <3>4, <3>5 DEF Laid
  <2> QED BY <2>11, <2>12, <2>13, <2>14 DEF InOrder
<1> QED BY <1>2, <1>3, <1>4, Zenon DEF TakeCutText

LEMMA OnCutTextInv == ASSUME Inv, OnCutText PROVE Inv'
<1>1. UnitsOK' /\ InOrder'
  BY TakesCutText DEF Inv, OnCutText
<1>2. FlagsOK' /\ RestOK'
  BY Zenon DEF Inv, FlagsOK, RestOK, OnCutText, TakeCutText, EndTurn, clipVars
<1> QED BY <1>1, <1>2 DEF Inv

LEMMA AnswerIs ==
  ASSUME out \in Seq(Replies), provide \in Texts \cup {NoText}, NEW m
  PROVE  \/ Answer(m) = out
         \/ provide # NoText /\ Answer(m) = ToClient("provide", provide)
         \/ Answer(m) = ToClient("notify", provide)
         \/ Answer(m) = ToClient("request", NoText)
BY DEF Answer

LEMMA OnExtClipboardInv == ASSUME Inv, OnExtClipboard PROVE Inv'
<1>1. UnitsOK' /\ InOrder'
  BY TakesCutText DEF Inv, OnExtClipboard
<1>2. FlagsOK'
  BY Zenon DEF Inv, FlagsOK, OnExtClipboard, TakeCutText, EndTurn
<1>3. out \in Seq(Replies) /\ provide \in Texts \cup {NoText}
  BY DEF Inv, RestOK
<1>4. Answer(Msg) \in Seq(Replies)
  BY <1>3, AnswerIs, Replied DEF ToClient
<1>5. out' \in Seq(Replies)
  BY <1>3, <1>4 DEF OnExtClipboard
<1>6. RestOK'
  BY <1>5, Zenon DEF Inv, RestOK, OnExtClipboard
<1> QED BY <1>1, <1>2, <1>6 DEF Inv

LEMMA OnReadableInv == ASSUME Inv, OnReadable PROVE Inv'
<1>1. FlagsOK' /\ RestOK'
  BY Zenon DEF Inv, FlagsOK, RestOK, OnReadable, clipVars
<1>2. CASE alive' = FALSE /\ UNCHANGED <<sock, buf, processing>>
  BY <1>1, <1>2, Unread DEF Inv, OnReadable
<1>3. CASE \E n \in 1..Min({MsgBufferSize - Len(buf), Len(sock)}) :
             /\ buf' = buf \o SubSeq(sock, 1, n)
             /\ sock' = SubSeq(sock, n + 1, Len(sock))
  <2>1. PICK n \in 1..Min({MsgBufferSize - Len(buf), Len(sock)}) :
          /\ buf' = buf \o SubSeq(sock, 1, n)
          /\ sock' = SubSeq(sock, n + 1, Len(sock))
    BY <1>3
  <2>2. /\ buf \in Seq(Units) /\ sock \in Seq(Units) /\ handled \in Seq(Units)
        /\ sent \in Seq(Messages)
        /\ Len(buf) <= MsgBufferSize /\ MsgBufferSize \in Nat
    BY ClientInputConstants DEF Inv, UnitsOK
  <2>3. MsgBufferSize - Len(buf) \in Int /\ Len(sock) \in Int
    BY <2>2
  <2>4. PICK least \in Int : /\ least = Min({MsgBufferSize - Len(buf), Len(sock)})
                             /\ least <= MsgBufferSize - Len(buf) /\ least <= Len(sock)
    <3>1. PICK room \in Int : room = MsgBufferSize - Len(buf)
      BY <2>3
    <3>2. PICK size \in Int : size = Len(sock)
      BY <2>3
    <3>3. /\ Min({room, size}) \in {room, size}
          /\ Min({room, size}) <= room /\ Min({room, size}) <= size
      BY LeastOfTwo
    <3> QED BY <3>1, <3>2, <3>3
  <2>5. n \in 0..Len(sock) /\ n <= MsgBufferSize - Len(buf)
    BY <2>1, <2>2, <2>4
  <2>6. /\ buf' \in Seq(Units) /\ sock' \in Seq(Units)
        /\ Len(buf') = Len(buf) + n /\ Len(sock') = Len(sock) - n
        /\ \A i \in 1..(Len(buf) + Len(sock)) : At(buf', sock', i) = At(buf, sock, i)
    BY <2>1, <2>2, <2>5, Moved
  <2>7. UNCHANGED <<sent, cut, handled, extMouse>>
    BY DEF OnReadable
  <2>8. UnitsOK'
    BY <2>2, <2>5, <2>6, <2>7 DEF Inv, UnitsOK
  <2>9. CutKept'
    BY <2>7 DEF OnReadable, CutKept
  <2>10. HandledIs' /\ LongPointers'
    BY <2>7 DEF Inv, InOrder, HandledIs, LongPointers
  <2>11. Laid'
    <3>1. PICK start : Maps(start, sent, buf, sock, Len(handled), 1)
      BY DEF Inv, InOrder, Laid, OnReadable, Origin
    <3>2. Drops(buf, sock, buf', sock', 0)
      <4>1. Len(buf') + Len(sock') = Len(buf) + Len(sock)
        BY <2>2, <2>5, <2>6
      <4>2. ASSUME NEW i \in 1..(Len(buf') + Len(sock'))
            PROVE  At(buf', sock', i) = At(buf, sock, i + 0)
        BY <2>2, <2>6, <4>1
      <4>3. Len(buf') + Len(sock') = Len(buf) + Len(sock) - 0
        BY <2>2, <4>1
      <4> QED BY <2>2, <2>6, <4>2, <4>3 DEF Drops
    <3>3. Advances(sent, 0, Len(handled), 1, Len(handled), 1)
      BY <2>2 DEF Advances
    <3>4. \E st : Maps(st, sent, buf', sock', Len(handled), 1)
      BY <2>2, <3>1, <3>2, <3>3, Shifted
    <3>5. Origin' = 1
      BY <2>7 DEF OnReadable, Origin
    <3> QED BY <2>7, <3>4, <3>5 DEF Laid
  <2> QED BY <1>1, <2>8, <2>9, <2>10, <2>11 DEF Inv, InOrder
<1> QED BY <1>2, <1>3, Zenon DEF OnReadable

LEMMA OnReadableCutTextInv == ASSUME Inv, OnReadableCutText PROVE Inv'
<1>1. FlagsOK' /\ RestOK'
  BY Zenon DEF Inv, FlagsOK, RestOK, OnReadableCutText, clipVars
<1>2. /\ buf \in Seq(Units) /\ sock \in Seq(Units) /\ handled \in Seq(Units)
      /\ sent \in Seq(Messages) /\ MsgBufferSize \in Nat
      /\ cut \in [length : Nat, index : Nat, msg : Nat]
  BY ClientInputConstants DEF Inv, UnitsOK
<1>3. /\ cut # NoCut /\ buf = << >> /\ Origin = -cut.index
      /\ cut.msg = Len(handled) + 1 /\ cut.msg <= Len(sent)
      /\ HeaderSize(sent[cut.msg]) = 1 /\ sent[cut.msg].len = cut.length
      /\ cut.index < cut.length /\ cut.index \in Nat /\ cut.length \in Nat
  BY <1>2 DEF Inv, InOrder, CutKept, OnReadableCutText, Origin
<1>4. UNCHANGED <<sent, buf, extMouse>>
  BY DEF OnReadableCutText
<1> DEFINE h == Len(handled)
           right(n) == \A i \in 1..n : sock[i] = <<cut.msg, cut.index + i + 1>>
<1>5. PICK n \in 1..Min({CutSpace, Len(sock)}) :
        /\ sock' = SubSeq(sock, n + 1, Len(sock))
        /\ cut' = IF cut.index + n = cut.length THEN NoCut
                  ELSE [cut EXCEPT !.index = cut.index + n]
        /\ handled' = IF ~right(n) THEN Append(handled, Garbage)
                      ELSE IF cut.index + n = cut.length THEN Append(handled, <<cut.msg, 1>>)
                      ELSE handled
  BY DEF OnReadableCutText
<1>6. PICK x \in Nat : x = cut.index
  BY <1>3
<1>7. PICK y \in Nat : y = cut.length
  BY <1>3
<1>8. n \in Nat /\ n >= 1 /\ n \in 0..Len(sock) /\ x + n <= y
  <2>1. PICK rest \in Int : rest = y - x
    OBVIOUS
  <2>2. PICK size \in Int : size = Len(sock)
    BY <1>2
  <2>3. PICK space \in Int : space = CutSpace /\ space <= rest
    <3>1. MsgBufferSize \in Int /\ CutSpace = Min({rest, MsgBufferSize})
      BY <1>2, <1>6, <1>7, <2>1 DEF CutSpace
    <3>2. CutSpace \in {rest, MsgBufferSize} /\ CutSpace <= rest
      BY <3>1, LeastOfTwo
    <3> QED BY <3>1, <3>2
  <2>4. PICK least \in Int : /\ least = Min({CutSpace, Len(sock)})
                             /\ least <= space /\ least <= size
    <3>1. Min({space, size}) \in {space, size} /\ Min({space, size}) <= space
          /\ Min({space, size}) <= size
      BY LeastOfTwo
    <3> QED BY <2>2, <2>3, <3>1
  <2>5. n \in 1..least
    BY <1>5, <2>4
  <2> QED BY <1>2, <2>1, <2>2, <2>3, <2>4, <2>5
<1>9. /\ h \in Nat /\ h + 1 \in 1..Len(sent) /\ sent[h + 1] \in Messages
      /\ MessageSize(sent[h + 1]) = 1 + cut.length
  BY <1>2, <1>3 DEF MessageSize
<1>10. PICK start : Maps(start, sent, buf, sock, h, -cut.index)
  BY <1>3 DEF Inv, InOrder, Laid
<1>11. right(n)
  <2> SUFFICES ASSUME NEW i \in 1..n
               PROVE  sock[i] = <<cut.msg, cut.index + i + 1>>
    OBVIOUS
  <2>1. /\ cut.index + i + 1 \in 1..(1 + cut.length) /\ cut.index + i + 1 \in Nat
        /\ -cut.index + (cut.index + i + 1) - 1 = i
    <3>1. /\ x + i + 1 \in 1..(1 + y) /\ x + i + 1 \in Nat
          /\ -x + (x + i + 1) - 1 = i
      BY <1>8
    <3> QED BY <1>6, <1>7, <3>1
  <2>2. start[h + 1] = -cut.index /\ h + 1 \in (h + 1)..Len(sent)
    BY <1>9, <1>10 DEF Maps
  <2>3. At(buf, sock, start[h + 1] + (cut.index + i + 1) - 1) = <<h + 1, cut.index + i + 1>>
    <3>1. \A k \in (h + 1)..Len(sent), m \in Nat :
            m \in 1..MessageSize(sent[k]) /\ start[k] + m - 1 >= 1
              => At(buf, sock, start[k] + m - 1) = <<k, m>>
      BY <1>10 DEF Maps
    <3>2. start[h + 1] + (cut.index + i + 1) - 1 >= 1
      BY <2>1, <2>2
    <3>3. cut.index + i + 1 \in 1..MessageSize(sent[h + 1])
      BY <1>9, <2>1
    <3> QED BY <2>1, <2>2, <3>1, <3>2, <3>3
  <2>4. At(buf, sock, i) = <<h + 1, cut.index + i + 1>>
    BY <2>1, <2>2, <2>3
  <2>5. At(buf, sock, i) = sock[i]
    BY <1>3 DEF At
  <2> QED BY <1>3, <2>4, <2>5
<1>12. /\ sock' \in Seq(Units) /\ Len(sock') = Len(sock) - n
       /\ \A i \in 1..(Len(sock) - n) : At(<< >>, sock', i) = At(<< >>, sock, i + n)
  BY <1>2, <1>5, <1>8, Collected
<1>13. Drops(buf, sock, buf', sock', n)
  <2>1. Len(buf') + Len(sock') = Len(buf) + Len(sock) - n
    BY <1>2, <1>3, <1>4, <1>8, <1>12
  <2>2. ASSUME NEW i \in 1..(Len(buf') + Len(sock'))
        PROVE  At(buf', sock', i) = At(buf, sock, i + n)
    <3>1. i \in 1..(Len(sock) - n)
      BY <1>2, <1>3, <1>4, <1>8, <1>12
    <3> QED BY <1>3, <1>4, <1>12, <3>1
  <2> QED BY <1>2, <1>4, <1>8, <1>12, <2>1, <2>2 DEF Drops
<1>14. LongPointers'
  BY <1>4 DEF Inv, InOrder, LongPointers
<1>15. CASE cut.index + n = cut.length
  <2>1. cut' = NoCut /\ handled' = Append(handled, <<h + 1, 1>>)
    BY <1>3, <1>5, <1>11, <1>15
  <2>2. <<h + 1, 1>> \in Units
    BY <1>9 DEF Units
  <2>3. /\ handled' \in Seq(Units) /\ Len(handled') = h + 1
        /\ \A k \in 1..h : handled'[k] = handled[k]
        /\ handled'[h + 1] = <<h + 1, 1>>
    BY <1>2, <2>1, <2>2
  <2>4. UnitsOK'
    BY <1>2, <1>3, <1>4, <1>12, <2>1, <2>3 DEF UnitsOK, NoCut
  <2>5. HandledIs'
    <3>1. ASSUME NEW k \in 1..(h + 1)
          PROVE  handled'[k] = <<k, 1>>
      <4>1. CASE k = h + 1
        BY <2>3, <4>1
      <4>2. CASE k # h + 1
        <5>1. k \in 1..h
          BY <1>9, <4>2
        <5> QED BY <2>3, <5>1 DEF Inv, InOrder, HandledIs
      <4> QED BY <4>1, <4>2
    <3> QED BY <2>3, <3>1 DEF HandledIs
  <2>6. CutKept'
    BY <2>1 DEF CutKept, NoCut
  <2>7. Advances(sent, n, h, -cut.index, h + 1, 1)
    <3>1. -x \in Int /\ 1 = -x + (1 + y) - n
      BY <1>6, <1>7, <1>8, <1>15
    <3>2. 1 = -cut.index + MessageSize(sent[h + 1]) - n /\ h + 1 <= Len(sent)
      BY <1>2, <1>6, <1>7, <1>9, <3>1
    <3> QED BY <1>6, <1>9, <3>1, <3>2 DEF Advances
  <2>8. \E st : Maps(st, sent, buf', sock', h + 1, 1)
    BY <1>2, <1>10, <1>13, <2>7, Shifted
  <2>9. Origin' = 1
    BY <2>1 DEF Origin, NoCut
  <2>10. Laid'
    BY <1>4, <2>3, <2>8, <2>9 DEF Laid
  <2> QED BY <1>1, <1>14, <2>4, <2>5, <2>6, <2>10 DEF Inv, InOrder
<1>16. CASE cut.index + n # cut.length
  <2>1. cut' = [cut EXCEPT !.index = cut.index + n] /\ handled' = handled
    BY <1>5, <1>11, <1>16
  <2>2. /\ cut' \in [length : Nat, index : Nat, msg : Nat]
        /\ cut'.length = cut.length /\ cut'.index = cut.index + n /\ cut'.msg = cut.msg
    <3>1. cut.index + n \in Nat
      BY <1>3, <1>8
    <3> QED BY <1>2, <2>1, <3>1
  <2>3. cut' # NoCut
    BY <1>3, <1>9, <2>2 DEF NoCut
  <2>4. UnitsOK'
    BY <1>2, <1>4, <1>12, <2>1, <2>2 DEF Inv, UnitsOK
  <2>5. HandledIs'
    BY <2>1 DEF Inv, InOrder, HandledIs
  <2>6. CutKept'
    BY <1>3, <1>4, <1>6, <1>7, <1>8, <1>16, <2>1, <2>2 DEF CutKept
  <2>7. Advances(sent, n, h, -cut.index, h, -cut.index - n)
    BY <1>3, <1>8, <1>9 DEF Advances
  <2>8. \E st : Maps(st, sent, buf', sock', h, -cut.index - n)
    BY <1>2, <1>10, <1>13, <2>7, Shifted
  <2>9. Origin' = -cut.index - n
    BY <1>3, <1>8, <2>2, <2>3 DEF Origin
  <2>10. Laid'
    BY <1>4, <2>1, <2>8, <2>9 DEF Laid
  <2> QED BY <1>1, <1>14, <2>4, <2>5, <2>6, <2>10 DEF Inv, InOrder
<1> QED BY <1>15, <1>16

LEMMA UpdatesInv ==
  ASSUME Inv, SendExtSupport \/ UpdateStarts \/ FinishUpdate \/ UpdateSent
  PROVE  Inv'
<1>1. UnitsOK' /\ InOrder'
  BY Unread DEF Inv, SendExtSupport, UpdateStarts, FinishUpdate, UpdateSent, inputVars
<1>2. FlagsOK'
  BY Zenon DEF Inv, FlagsOK, SendExtSupport, UpdateStarts, FinishUpdate, UpdateSent, inputVars
<1>3. RestOK'
  BY DEF Inv, RestOK, SendExtSupport, UpdateStarts, FinishUpdate, UpdateSent, clipVars
<1> QED BY <1>1, <1>2, <1>3 DEF Inv

(* What the application's text makes of provide and out. *)
LEMMA SendCutTextIs ==
  ASSUME RestOK, NEW text \in Texts, NEW others, SendCutText(text, others)
  PROVE  /\ provide' \in {text, NoText}
         /\ \/ out' = out
            \/ out' = ToClient("latin1", text)
            \/ provide' # NoText /\ out' = ToClient("provide", provide')
            \/ out' = ToClient("notify", provide')
<1>1. provide' \in {text, NoText}
  BY DEF SendCutText, Saved
<1>2. \/ out' = out
      \/ out' = ToClient("latin1", text)
      \/ provide' # NoText /\ out' = ToClient("provide", provide')
      \/ out' = ToClient("notify", provide')
  BY DEF SendCutText
<1> QED BY <1>1, <1>2

LEMMA SendCutTextInv ==
  ASSUME Inv, NEW text \in Texts, NEW others \in BOOLEAN, SendCutText(text, others)
  PROVE  Inv'
<1>1. UnitsOK' /\ InOrder'
  BY Unread DEF Inv, SendCutText, inputVars
<1>2. FlagsOK'
  BY Zenon DEF Inv, FlagsOK, SendCutText, inputVars
<1>3. provide' \in Texts \cup {NoText} /\ out' \in Seq(Replies)
  <2>1. /\ provide' \in {text, NoText}
        /\ \/ out' = out
           \/ out' = ToClient("latin1", text)
           \/ out' = ToClient("provide", provide')
           \/ out' = ToClient("notify", provide')
    BY SendCutTextIs DEF Inv
  <2>2. provide' \in Texts \cup {NoText} /\ text \in Texts \cup {NoText}
    BY <2>1
  <2>3. out \in Seq(Replies)
    BY DEF Inv, RestOK
  <2>4. /\ ToClient("latin1", text) \in Seq(Replies)
        /\ ToClient("provide", provide') \in Seq(Replies)
        /\ ToClient("notify", provide') \in Seq(Replies)
    BY <2>2, <2>3, Replied DEF ToClient
  <2> QED BY <2>1, <2>2, <2>3, <2>4
<1>4. appText' \in Texts /\ copies' \in Nat /\ UNCHANGED <<session, update>>
  BY DEF Inv, RestOK, SendCutText
<1>5. RestOK'
  BY <1>3, <1>4 DEF Inv, RestOK
<1> QED BY <1>1, <1>2, <1>5 DEF Inv

LEMMA NextInv == Inv /\ [Next]_vars => Inv'
<1> SUFFICES ASSUME Inv, [Next]_vars PROVE Inv'
  OBVIOUS
<1>1. CASE \E m \in session.menu : ClientSend(m)
  BY <1>1, ClientSendInv
<1>2. CASE LoopStep
  BY <1>2, LeaveLoopInv, OnFixedInv, OnNtpInv, OnPointerInv, OnSetEncodingsInv,
     OnSetDesktopSizeInv, OnFenceInv, OnBadMessageInv, OnCutTextInv, OnExtClipboardInv DEF LoopStep
<1>3. CASE OnReadable \/ OnReadableCutText
  BY <1>3, OnReadableInv, OnReadableCutTextInv
<1>4. CASE SendExtSupport \/ UpdateStarts \/ FinishUpdate \/ UpdateSent
  BY <1>4, UpdatesInv
<1>5. CASE \E text \in Texts, others \in BOOLEAN : SendCutText(text, others)
  BY <1>5, SendCutTextInv
<1>6. CASE UNCHANGED vars
  <2>1. UnitsOK' /\ InOrder'
    BY <1>6, Unread DEF Inv, vars, inputVars
  <2>2. FlagsOK' /\ RestOK'
    BY <1>6, Zenon DEF Inv, FlagsOK, RestOK, vars, inputVars, clipVars
  <2> QED BY <2>1, <2>2 DEF Inv
<1> QED BY <1>1, <1>2, <1>3, <1>4, <1>5, <1>6, Zenon DEF Next

(* The state has the types that TypeOK gives: of the message loop,          *)
(* msg_buffer never holds more than MSG_BUFFER_SIZE.                        *)
THEOREM TypeCorrect == Spec => []TypeOK
<1>1. Inv => TypeOK
  BY TypeParts DEF Inv
<1> QED BY <1>1, InitInv, NextInv, PTL DEF Spec

-----------------------------------------------------------------------------
(* Messages are handled once and in order.                                  *)

LEMMA PrefixOf ==
  ASSUME NEW s \in Seq(Units), NEW t \in Seq(Units), Len(s) <= Len(t),
         \A k \in 1..Len(s) : s[k] = <<k, 1>>, \A k \in 1..Len(t) : t[k] = <<k, 1>>
  PROVE  Handled!IsPrefix(s, t)
<1>1. ASSUME NEW k \in 1..Len(s)
      PROVE  k \in 1..Len(t) /\ s[k] = t[k]
  <2>1. Len(s) \in Nat /\ Len(t) \in Nat
    OBVIOUS
  <2>2. k \in 1..Len(t)
    BY <2>1
  <2>3. s[k] = <<k, 1>>
    OBVIOUS
  <2>4. t[k] = <<k, 1>>
    BY <2>2
  <2> QED BY <2>2, <2>3, <2>4
<1>2. SubSeq(s, 1, Len(s)) = SubSeq(t, 1, Len(s))
  BY <1>1
<1> QED BY <1>2 DEF Handled!IsPrefix

(* The first units of the messages of s. *)
LEMMA FirstUnits ==
  ASSUME NEW s \in Seq(Messages)
  PROVE  /\ [k \in DOMAIN s |-> <<k, 1>>] \in Seq(Units)
         /\ Len([k \in DOMAIN s |-> <<k, 1>>]) = Len(s)
         /\ \A k \in 1..Len(s) : [i \in DOMAIN s |-> <<i, 1>>][k] = <<k, 1>>
<1>1. DOMAIN s = 1..Len(s) /\ Len(s) \in Nat
  OBVIOUS
<1>2. \A k \in 1..Len(s) : <<k, 1>> \in Units
  BY <1>1 DEF Units
<1> QED BY <1>1, <1>2

(* What a step may do to the messages that were sent and handled. *)
Grows ==
  /\ Len(sent) <= Len(sent') /\ Len(handled) <= Len(handled')
  /\ alive' => alive
  /\ ~alive => UNCHANGED <<sent, handled>>

LEMMA Appended ==
  ASSUME NEW S, NEW s \in Seq(S), NEW x
  PROVE  Len(Append(s, x)) = Len(s) + 1
OBVIOUS

LEMMA StepGrows == ASSUME Inv, Next PROVE Grows
<1>1. /\ sent \in Seq(Messages) /\ handled \in Seq(Units)
      /\ Len(sent) \in Nat /\ Len(handled) \in Nat
  BY DEF Inv, UnitsOK
<1>2. CASE \E m \in session.menu : ClientSend(m)
  <2>1. PICK m : ClientSend(m)
    BY <1>2
  <2>2. sent' = Append(sent, m) /\ handled' = handled
    BY <2>1 DEF ClientSend
  <2>3. Len(sent') = Len(sent) + 1
    BY <1>1, <2>2, Appended
  <2>4. alive /\ alive' = alive
    BY <2>1 DEF ClientSend
  <2> QED BY <1>1, <2>2, <2>3, <2>4 DEF Grows
<1>3. ASSUME alive, sent' = sent, handled' = handled
      PROVE  Grows
  BY <1>1, <1>3 DEF Grows
<1>4. ASSUME alive, sent' = sent, NEW u, handled' = Append(handled, u)
      PROVE  Grows
  <2>1. Len(handled') = Len(handled) + 1
    BY <1>1, <1>4, Appended
  <2> QED BY <1>1, <1>4, <2>1 DEF Grows
<1>5. CASE LoopStep
  <2>1. alive /\ sent' = sent /\ (handled' = handled \/ handled' = Append(handled, buf[1]))
    <3>1. CASE LeaveLoop
      BY <3>1 DEF LeaveLoop
    <3>2. CASE OnFixed \/ OnNtp \/ OnSetEncodings
      BY <3>2 DEF OnFixed, OnNtp, OnSetEncodings, HandleMsg, Handle, Ready, Turn
    <3>3. CASE OnPointer
      BY <3>3 DEF OnPointer, Handle, Ready, Turn
    <3>4. CASE OnFence
      BY <3>4 DEF OnFence, Handle, Ready, Turn
    <3>5. CASE OnSetDesktopSize
      BY <3>5, Zenon DEF OnSetDesktopSize, HandleMsg, Handle, Ready, Turn, inputVars
    <3>6. CASE OnCutText
      BY <3>6, Zenon DEF OnCutText, TakeCutText, Handle, Ready, Turn
    <3>7. CASE OnExtClipboard
      BY <3>7, Zenon DEF OnExtClipboard, TakeCutText, Handle, Ready, Turn
    <3>8. CASE OnBadMessage
      BY <3>8, Zenon DEF OnBadMessage, Ready, Turn, inputVars
    <3> QED BY <1>5, <3>1, <3>2, <3>3, <3>4, <3>5, <3>6, <3>7, <3>8 DEF LoopStep
  <2> QED BY <1>3, <1>4, <2>1
<1>6. CASE OnReadable
  BY <1>3, <1>6, Zenon DEF OnReadable
<1>7. CASE OnReadableCutText
  <2>1. alive /\ sent' = sent
    BY <1>7 DEF OnReadableCutText
  <2>2. handled' = handled \/ \E u : handled' = Append(handled, u)
    BY <1>7 DEF OnReadableCutText
  <2> QED BY <1>3, <1>4, <2>1, <2>2
<1>8. CASE SendExtSupport \/ UpdateStarts \/ FinishUpdate \/ UpdateSent
  BY <1>3, <1>8, Zenon DEF SendExtSupport, UpdateStarts, FinishUpdate, UpdateSent, inputVars
<1>9. CASE \E text \in Texts, others \in BOOLEAN : SendCutText(text, others)
  BY <1>3, <1>9, Zenon DEF SendCutText, inputVars
<1> QED BY <1>2, <1>5, <1>6, <1>7, <1>8, <1>9, Zenon DEF Next

LEMMA StepHandles == Inv /\ Inv' /\ [Next]_vars => [Handled!BSNext]_(Handled!bsVars)
<1> SUFFICES ASSUME Inv, Inv', [Next]_vars PROVE [Handled!BSNext]_(Handled!bsVars)
  OBVIOUS
<1> DEFINE a == [k \in DOMAIN sent |-> <<k, 1>>]
           t == [m \in {} |-> "none"]
<1>1. CASE UNCHANGED vars
  BY <1>1 DEF vars, inputVars, Handled!bsVars
<1>2. CASE Next
  <2>1. /\ sent \in Seq(Messages) /\ handled \in Seq(Units)
        /\ sent' \in Seq(Messages) /\ handled' \in Seq(Units)
    BY DEF Inv, UnitsOK
  <2>2. Len(sent) \in Nat /\ Len(sent') \in Nat /\ Len(handled) \in Nat /\ Len(handled') \in Nat
    BY <2>1
  <2>3. /\ Len(sent) <= Len(sent') /\ Len(handled) <= Len(handled')
        /\ alive' => alive
        /\ ~alive => UNCHANGED <<sent, handled>>
    BY <1>2, StepGrows DEF Grows
  <2>4. /\ a \in Seq(Units) /\ Len(a) = Len(sent)
        /\ \A k \in 1..Len(sent) : a[k] = <<k, 1>>
    BY <2>1, FirstUnits
  <2>5. /\ a' \in Seq(Units) /\ Len(a') = Len(sent')
        /\ \A k \in 1..Len(sent') : a'[k] = <<k, 1>>
    BY <2>1, FirstUnits
  <2>6. /\ \A k \in 1..Len(handled) : handled[k] = <<k, 1>>
        /\ \A k \in 1..Len(handled') : handled'[k] = <<k, 1>>
    BY DEF Inv, InOrder, HandledIs
  <2>7. Len(handled') <= Len(sent')
    BY DEF Inv, InOrder, Laid, Maps
  <2>8. Handled!IsPrefix(a, a')
    <3>1. Len(a) <= Len(a')
      BY <2>3, <2>4, <2>5
    <3>2. /\ \A k \in 1..Len(a) : a[k] = <<k, 1>>
          /\ \A k \in 1..Len(a') : a'[k] = <<k, 1>>
      BY <2>4, <2>5
    <3> HIDE DEF a
    <3> QED BY <2>4, <2>5, <3>1, <3>2, PrefixOf
  <2>9. Handled!IsPrefix(handled, handled')
    BY <2>1, <2>3, <2>6, PrefixOf
  <2>10. Handled!IsPrefix(handled', a')
    <3>1. Len(handled') <= Len(a') /\ \A k \in 1..Len(a') : a'[k] = <<k, 1>>
      BY <2>5, <2>7
    <3> HIDE DEF a
    <3> QED BY <2>1, <2>5, <2>6, <3>1, PrefixOf
  <2>11. ~alive => a' = a /\ handled' = handled
    BY <2>3
  <2>12. DOMAIN t = {} /\ DOMAIN t' = {}
    OBVIOUS
  <2>13. Handled!BSNext
    <3>1. DOMAIN t' = DOMAIN t /\ \A m \in DOMAIN t : FALSE
      BY <2>12
    <3> HIDE DEF a
    <3>2. /\ Handled!IsPrefix(a, a') /\ Handled!IsPrefix(handled, handled')
          /\ Handled!IsPrefix(handled', a')
          /\ alive' => alive
          /\ ~alive => UNCHANGED <<a, handled>>
      BY <2>3, <2>8, <2>9, <2>10, <2>11
    <3> HIDE DEF t
    <3> QED BY <3>1, <3>2, Zenon DEF Handled!BSNext, a, t
  <2> QED BY <2>13
<1> QED BY <1>1, <1>2

(* Whatever is sent, however it is cut into reads and wherever a fence or a *)
(* long cut text interrupts the loop of process_client_messages, messages   *)
(* are handled once each and in the order in which they were sent, and none *)
(* is handled once the client was closed.                                   *)
THEOREM MessagesInOrder == Spec => HandledInOrder
<1>1. Init => Handled!BSInit
  <2> SUFFICES ASSUME Init PROVE Handled!BSInit
    OBVIOUS
  <2>1. [k \in DOMAIN sent |-> <<k, 1>>] = << >>
    BY DEF Init
  <2> QED BY <2>1 DEF Init, Handled!BSInit
<1> QED
  BY <1>1, InitInv, NextInv, StepHandles, PTL DEF Spec, HandledInOrder, Handled!BSSpec

-----------------------------------------------------------------------------
(* The clipboard.                                                           *)

(* A text that is kept for requests is the application's latest one. *)
KeptIsLatest == provide # NoText => provide = appText

ProvideRight ==
  out' # out /\ Last(out').kind = "provide" => Last(out').text = appText'

LEMMA StepProvides ==
  ASSUME Inv, KeptIsLatest, [Next]_vars
  PROVE  KeptIsLatest' /\ ProvideRight
<1>1. out \in Seq(Replies) /\ provide \in Texts \cup {NoText}
  BY DEF Inv, RestOK
<1>2. ASSUME UNCHANGED <<provide, appText, out>>
      PROVE  KeptIsLatest' /\ ProvideRight
  BY <1>2 DEF KeptIsLatest, ProvideRight
<1>3. CASE OnNtp \/ OnSetEncodings
  <2>1. UNCHANGED <<provide, appText>>
    BY <1>3 DEF OnNtp, OnSetEncodings
  <2>2. \/ out' = out
        \/ out' = Append(out, [kind |-> "ntp", text |-> NoText])
        \/ out' = Append(out, [kind |-> "caps", text |-> NoText])
    BY <1>3 DEF OnNtp, OnSetEncodings
  <2>3. /\ Last(Append(out, [kind |-> "ntp", text |-> NoText])).kind # "provide"
        /\ Last(Append(out, [kind |-> "caps", text |-> NoText])).kind # "provide"
    BY <1>1, Replied
  <2>4. out' = out \/ Last(out').kind # "provide"
    BY <2>2, <2>3, Zenon
  <2> QED BY <2>1, <2>4 DEF KeptIsLatest, ProvideRight
<1>4. CASE OnExtClipboard
  <2>1. UNCHANGED <<provide, appText>>
    BY <1>4 DEF OnExtClipboard
  <2>2. out' = out \/ out' = Answer(Msg)
    BY <1>4 DEF OnExtClipboard
  <2>3. \/ out' = out
        \/ provide # NoText /\ out' = Append(out, [kind |-> "provide", text |-> provide])
        \/ out' = Append(out, [kind |-> "notify", text |-> provide])
        \/ out' = Append(out, [kind |-> "request", text |-> NoText])
    BY <1>1, <2>2, AnswerIs DEF ToClient
  <2>4. /\ Last(Append(out, [kind |-> "provide", text |-> provide])).text = provide
        /\ Last(Append(out, [kind |-> "notify", text |-> provide])).kind # "provide"
        /\ Last(Append(out, [kind |-> "request", text |-> NoText])).kind # "provide"
    BY <1>1, Replied
  <2>5. out' = out \/ Last(out').kind # "provide" \/ (provide # NoText /\ Last(out').text = provide)
    BY <2>3, <2>4, Zenon
  <2> QED BY <2>1, <2>5 DEF KeptIsLatest, ProvideRight
<1>5. CASE \E text \in Texts, others \in BOOLEAN : SendCutText(text, others)
  <2>1. PICK text \in Texts, others \in BOOLEAN : SendCutText(text, others)
    BY <1>5
  <2>2. /\ provide' \in {text, NoText}
        /\ \/ out' = out
           \/ out' = Append(out, [kind |-> "latin1", text |-> text])
           \/ provide' # NoText /\ out' = Append(out, [kind |-> "provide", text |-> provide'])
           \/ out' = Append(out, [kind |-> "notify", text |-> provide'])
    BY <2>1, SendCutTextIs DEF ToClient, Inv
  <2>3. appText' = text
    BY <2>1 DEF SendCutText
  <2>4. provide' \in Texts \cup {NoText} /\ text \in Texts \cup {NoText}
    BY <2>2
  <2>5. /\ Last(Append(out, [kind |-> "latin1", text |-> text])).kind # "provide"
        /\ Last(Append(out, [kind |-> "provide", text |-> provide'])).text = provide'
        /\ Last(Append(out, [kind |-> "notify", text |-> provide'])).kind # "provide"
    BY <1>1, <2>4, Replied
  <2>6. out' = out \/ Last(out').kind # "provide"
          \/ (provide' # NoText /\ Last(out').text = provide')
    BY <2>2, <2>5, Zenon
  <2> QED BY <2>2, <2>3, <2>6 DEF KeptIsLatest, ProvideRight
<1>6. CASE \E m \in session.menu : ClientSend(m)
  BY <1>2, <1>6, Zenon DEF ClientSend, clipVars
<1>7. CASE \/ LeaveLoop \/ OnFixed \/ OnPointer \/ OnSetDesktopSize \/ OnFence
           \/ OnBadMessage \/ OnCutText
  BY <1>2, <1>7, Zenon DEF LeaveLoop, OnFixed, OnPointer, OnSetDesktopSize, OnFence, OnBadMessage,
     OnCutText, clipVars
<1>8. CASE OnReadable \/ OnReadableCutText
  BY <1>2, <1>8, Zenon DEF OnReadable, OnReadableCutText, clipVars
<1>9. CASE SendExtSupport \/ UpdateStarts \/ FinishUpdate \/ UpdateSent
  BY <1>2, <1>9, Zenon DEF SendExtSupport, UpdateStarts, FinishUpdate, UpdateSent, clipVars
<1>10. CASE UNCHANGED vars
  BY <1>2, <1>10, Zenon DEF vars, clipVars
<1> QED
  BY <1>3, <1>4, <1>5, <1>6, <1>7, <1>8, <1>9, <1>10, Zenon DEF Next, LoopStep

(* A text that is provided, by nvnc_send_cut_text or when the client asks   *)
(* for it later, is the one that the application set last.                  *)
THEOREM LatestProvided == Spec => ProvidesLatest
<1>1. Init => KeptIsLatest
  BY DEF Init, KeptIsLatest
<1>2. Inv /\ KeptIsLatest /\ [Next]_vars => KeptIsLatest'
  BY StepProvides
<1>3. Inv /\ KeptIsLatest /\ [Next]_vars
        => [out' # out /\ Last(out').kind = "provide" => Last(out').text = appText']_vars
  BY StepProvides DEF ProvideRight
<1> QED BY <1>1, <1>2, <1>3, InitInv, NextInv, PTL DEF Spec, ProvidesLatest

-----------------------------------------------------------------------------
(* When the server drops a client.                                          *)

(* What a handler needs of a message fits in msg_buffer. *)
Fits == \A m \in Messages : Needed(m) <= MsgBufferSize

(* Once the loop has stopped, msg_buffer has no message that is complete,   *)
(* unless a fence stopped the loop.                                         *)
Waits ==
  alive /\ ~hung /\ ~processing /\ ~blocked => buf = << >> \/ Len(buf) < Needed(Msg)

DropRight ==
  alive /\ ~alive' =>
    \/ blocked
    \/ buf # << >> /\ \/ Msg.type = "bad"
                      \/ Msg.type \in {"cut_text", "clipboard"}
                           /\ Msg.len > MaxCutText

LEMMA StepDrops ==
  ASSUME Fits, Inv, Waits, [Next]_vars
  PROVE  Waits' /\ DropRight
<1>1. ASSUME UNCHANGED <<sent, buf>>
      PROVE  Msg' = Msg
  BY <1>1 DEF Msg
<1>2. ASSUME UNCHANGED <<alive, hung, processing, blocked, sent, buf>>
      PROVE  Waits' /\ DropRight
  BY <1>1, <1>2, Zenon DEF Waits, DropRight
<1>3. ASSUME processing', alive' = alive
      PROVE  Waits' /\ DropRight
  BY <1>3, Zenon DEF Waits, DropRight
<1>4. CASE \E m \in session.menu : ClientSend(m)
  <2>1. PICK m \in session.menu : ClientSend(m)
    BY <1>4
  <2>2. m \in Messages /\ sent \in Seq(Messages)
    BY DEF Inv, RestOK, UnitsOK, Messages
  <2>3. UNCHANGED <<alive, hung, processing, blocked, buf>> /\ sent' = Append(sent, m)
    BY <2>1 DEF ClientSend
  <2>4. ASSUME buf # << >>
        PROVE  Msg' = Msg
    <3>1. buf[1][1] \in 1..Len(sent)
      BY <2>4, InFront DEF Inv
    <3>2. sent'[buf[1][1]] = sent[buf[1][1]]
      BY <2>2, <2>3, <3>1
    <3> QED BY <2>3, <2>4, <3>2 DEF Msg
  <2> QED BY <2>3, <2>4, Zenon DEF Waits, DropRight
<1>5. CASE LeaveLoop
  <2>1. UNCHANGED <<alive, hung, sent, buf>>
    BY <1>5 DEF LeaveLoop
  <2>2. ASSUME ~blocked' PROVE buf = << >> \/ Len(buf) < Needed(Msg)
    <3>1. (blocked /\ blocked' = blocked) \/ buf = << >> \/ Len(buf) < Needed(Msg)
      BY <1>5, Zenon DEF LeaveLoop
    <3> QED BY <2>2, <3>1
  <2> QED BY <1>1, <2>1, <2>2, Zenon DEF Waits, DropRight
<1>6. CASE OnFixed \/ OnNtp \/ OnSetEncodings
  <2>1. processing' = processing /\ alive' = alive /\ processing
    BY <1>6, Zenon DEF OnFixed, OnNtp, OnSetEncodings, HandleMsg, Ready, Turn
  <2> QED BY <1>3, <2>1
<1>7. CASE OnPointer \/ OnFence
  <2>1. processing' = processing /\ alive' = alive /\ processing
    BY <1>7, Zenon DEF OnPointer, OnFence, Ready, Turn
  <2> QED BY <1>3, <2>1
<1>8. CASE OnSetDesktopSize
  <2>1. processing' = processing /\ alive' = alive /\ processing
    BY <1>8, Zenon DEF OnSetDesktopSize, HandleMsg, Ready, Turn, inputVars
  <2> QED BY <1>3, <2>1
<1>9. CASE OnCutText \/ OnExtClipboard
  <2>1. /\ processing' = processing /\ processing /\ TakeCutText
        /\ buf # << >> /\ Msg.type \in {"cut_text", "clipboard"}
    BY <1>9 DEF OnCutText, OnExtClipboard, Ready, Turn
  <2>2. alive' = alive \/ Msg.len > MaxCutText
    BY <2>1, Zenon DEF TakeCutText
  <2>3. Waits'
    <3>1. processing'
      BY <2>1
    <3> QED BY <3>1, Zenon DEF Waits
  <2>4. DropRight
    <3>1. ASSUME alive, ~alive' PROVE Msg.len > MaxCutText
      BY <2>2, <3>1
    <3> QED BY <2>1, <3>1, Zenon DEF DropRight
  <2> QED BY <2>3, <2>4
<1>10. CASE OnReadable
  <2>1. CASE processing' /\ alive' = alive
    BY <1>3, <2>1
  <2>2. CASE Len(buf) = MsgBufferSize /\ alive' = FALSE
    <3>1. Waits'
      BY <2>2, Zenon DEF Waits
    <3>2. ASSUME ~blocked PROVE FALSE
      <4>1. buf = << >> \/ Len(buf) < Needed(Msg)
        BY <1>10, <3>2, Zenon DEF Waits, OnReadable
      <4>2. buf # << >>
        BY <2>2, ClientInputConstants
      <4>3. Msg \in Messages
        BY <4>2, InFront DEF Inv
      <4>4. Needed(Msg) <= MsgBufferSize /\ Needed(Msg) \in Nat
        BY <4>3, Sizes DEF Fits
      <4> QED BY <2>2, <4>1, <4>2, <4>4, ClientInputConstants
    <3> QED BY <3>1, <3>2 DEF DropRight
  <2> QED BY <1>10, <2>1, <2>2, Zenon DEF OnReadable
<1>11. CASE OnReadableCutText
  BY <1>2, <1>11, Zenon DEF OnReadableCutText
<1>12. CASE SendExtSupport \/ UpdateStarts \/ UpdateSent
  BY <1>2, <1>12, Zenon DEF SendExtSupport, UpdateStarts, UpdateSent, inputVars
<1>13. CASE FinishUpdate
  <2>1. CASE fence
    BY <1>3, <1>13, <2>1, Zenon DEF FinishUpdate
  <2>2. CASE ~fence
    BY <1>2, <1>13, <2>2, Zenon DEF FinishUpdate
  <2> QED BY <2>1, <2>2
<1>14. CASE \E text \in Texts, others \in BOOLEAN : SendCutText(text, others)
  BY <1>2, <1>14, Zenon DEF SendCutText, inputVars
<1>15. CASE UNCHANGED vars
  BY <1>2, <1>15, Zenon DEF vars, inputVars
<1>16. CASE OnBadMessage
  <2>1. processing' /\ buf # << >> /\ Msg.type = "bad"
    BY <1>16, Zenon DEF OnBadMessage, Ready, Turn, inputVars
  <2> QED BY <2>1, Zenon DEF Waits, DropRight
<1> QED
  BY <1>4, <1>5, <1>6, <1>7, <1>8, <1>9, <1>10, <1>11, <1>12, <1>13, <1>14, <1>15, <1>16, Zenon
  DEF Next, LoopStep

(* If msg_buffer is large enough for what a handler waits for, the read of  *)
(* 0 bytes into a full msg_buffer, which on_client_event takes for the end  *)
(* of the connection, happens only to a client that a fence blocks; the     *)
(* only other reasons to drop a client are a message that the server does   *)
(* not know and a cut text over the limit.                                  *)
THEOREM DropsOnlyBlocked == Fits => (Spec => DroppedOnlyBlocked)
<1> SUFFICES ASSUME Fits PROVE Spec => DroppedOnlyBlocked
  OBVIOUS
<1>1. Init => Waits
  BY DEF Init, Waits
<1>2. Inv /\ Waits /\ [Next]_vars => Waits'
  BY StepDrops
<1>3. Inv /\ Waits /\ [Next]_vars
        => [alive /\ ~alive' =>
              \/ blocked
              \/ buf # << >> /\ \/ Msg.type = "bad"
                                \/ Msg.type \in {"cut_text", "clipboard"}
                                     /\ Msg.len > MaxCutText]_vars
  BY StepDrops DEF DropRight
<1> QED BY <1>1, <1>2, <1>3, InitInv, NextInv, PTL DEF Spec, DroppedOnlyBlocked

=============================================================================
