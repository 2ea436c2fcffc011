----------------------- MODULE ParallelDeflateProofs -----------------------
(***************************************************************************)
(* Proofs about ParallelDeflate, for every block size and every width of   *)
(* the sequence numbers that is enough for one rectangle.                  *)
(***************************************************************************)
EXTENDS ParallelDeflate, TLAPS

Outstanding == jobs \cup chunks

(* The pieces that are outstanding are numbered taken..issued-1, each once, *)
(* and fit into the window that the sequence numbers can tell apart.        *)
Window ==
  /\ issued <= taken + SeqMod
  /\ phase = "feed" /\ fed > Produced => issued + 2 <= taken + MaxPieces
  /\ phase = "feed" /\ fed <= Produced => issued = taken

Numbered ==
  /\ \A p \in Outstanding : taken <= p.n /\ p.n < issued
  /\ \A p, q \in Outstanding : p.n = q.n => p = q
  /\ \A p \in jobs : p \notin chunks

(* They cover the bytes between the output and the input, end to end. *)
Chained ==
  /\ \A p, q \in Outstanding : q.n = p.n + 1 => q.from = p.to
  /\ \A p \in Outstanding : p.n = taken => p.from = Produced
  /\ \A p \in Outstanding : p.n = issued - 1 => p.to = cut
  /\ taken = issued => Produced = cut

(* Only a flush has an end chunk, and it is the last piece of all. *)
Ending ==
  /\ \A p \in Outstanding :
       IsEnd(p) => p.n = issued - 1 /\ phase \in {"scan", "wait", "woken"}
  /\ phase # "feed" => cut = fed /\ synced = fed
  /\ phase = "feed" => synced = Produced
  /\ haveEnd => phase = "scan" /\ taken = issued
  /\ phase = "freed" => taken = issued
  /\ closing => phase # "feed" /\ Produced = fed
  /\ closing => \A p \in Outstanding : IsEnd(p)

Header ==
  /\ isAtStart => out = << >>
  /\ ~closing /\ out = << >> => isAtStart

IInv ==
  TypeOK /\ OutputInOrder /\ Window /\ Numbered /\ Chained /\ Ending /\ Header

-----------------------------------------------------------------------------
(* Two numbers less than M apart with the same remainder are the same. *)
LEMMA ModUnique ==
  ASSUME NEW M \in Nat \ {0}, NEW a \in Nat, NEW b \in Nat,
         a % M = b % M, a <= b, b < a + M
  PROVE  a = b
<1> DEFINE qa == a \div M
           qb == b \div M
<1>1. qa \in Int /\ qb \in Int
  OBVIOUS
<1>2. a = M * qa + (a % M) /\ b = M * qb + (b % M)
  OBVIOUS
<1> HIDE DEF qa, qb
<1>3. b - a = M * (qb - qa)
  BY <1>1, <1>2
<1>4. qb - qa < 1
  <2>1. SUFFICES ASSUME qb - qa >= 1 PROVE FALSE
    BY <1>1
  <2>2. ASSUME NEW k \in Int, k >= 1 PROVE M * k >= M
    BY <2>2
  <2> QED BY <1>1, <1>3, <2>1, <2>2
<1>5. qb - qa > -1
  <2>1. SUFFICES ASSUME qb - qa <= -1 PROVE FALSE
    BY <1>1
  <2>2. ASSUME NEW k \in Int, k <= -1 PROVE M * k < 0
    BY <2>2
  <2> QED BY <1>1, <1>3, <2>1, <2>2
<1>6. qa = qb
  BY <1>1, <1>4, <1>5
<1> QED BY <1>1, <1>2, <1>6

(* The full blocks of x bytes are no more than x bytes. *)
LEMMA DivBound ==
  ASSUME NEW B \in Nat \ {0}, NEW x \in Nat
  PROVE  x \div B \in Nat /\ (x \div B) * B <= x
  OBVIOUS

(* Within the window the sequence numbers tell the pieces apart. *)
LEMMA SeqUnique ==
  ASSUME IInv, NEW p \in Outstanding, NEW q \in Outstanding,
         Seq32(p.n) = Seq32(q.n)
  PROVE  p = q
<1>1. p.n \in Nat /\ q.n \in Nat
  BY DEF IInv, TypeOK, Outstanding, Pieces
<1>2. /\ taken <= p.n /\ p.n < issued
      /\ taken <= q.n /\ q.n < issued
      /\ issued <= taken + SeqMod
      /\ taken \in Nat /\ issued \in Nat
  BY DEF IInv, TypeOK, Numbered, Window
<1>3. CASE p.n <= q.n
  <2>1. q.n < p.n + SeqMod
    BY <1>1, <1>2, ParallelDeflateConstants
  <2>2. p.n = q.n
    BY <1>1, <1>3, <2>1, ModUnique, ParallelDeflateConstants DEF Seq32
  <2> QED BY <2>2 DEF IInv, Numbered
<1>4. CASE q.n <= p.n
  <2>1. p.n < q.n + SeqMod
    BY <1>1, <1>2, ParallelDeflateConstants
  <2>2. q.n = p.n
    BY <1>1, <1>4, <2>1, ModUnique, ParallelDeflateConstants DEF Seq32
  <2> QED BY <2>2 DEF IInv, Numbered
<1> QED BY <1>1, <1>3, <1>4

(* The chunk that the consolidation takes is the next piece of all. *)
LEMMA DueIsNext ==
  ASSUME IInv, NEW c \in chunks, IsDue(c)
  PROVE  c.n = taken
<1>1. c.n \in Nat /\ taken \in Nat /\ issued \in Nat
  BY DEF IInv, TypeOK, Pieces
<1>2. taken <= c.n /\ c.n < issued /\ issued <= taken + SeqMod
  BY DEF IInv, Numbered, Window, Outstanding
<1>3. c.n < taken + SeqMod
  BY <1>1, <1>2, ParallelDeflateConstants
<1> QED
  BY <1>1, <1>2, <1>3, ModUnique, ParallelDeflateConstants DEF IsDue, Seq32

-----------------------------------------------------------------------------
LEMMA InitInv == Init => IInv
<1> SUFFICES ASSUME Init PROVE IInv
  OBVIOUS
<1> USE DEF Init
<1>1. TypeOK
  <2>1. out \in Seq(Output)
    OBVIOUS
  <2>2. /\ fed \in Nat /\ cut \in Nat /\ issued \in Nat /\ taken \in Nat
        /\ cut <= fed /\ taken <= issued
        /\ jobs \subseteq Pieces /\ chunks \subseteq Pieces
    OBVIOUS
  <2>3. isAtStart \in BOOLEAN /\ haveEnd \in BOOLEAN /\ closing \in BOOLEAN
    OBVIOUS
  <2>4. phase \in Phases
    BY DEF Phases
  <2> QED BY <2>1, <2>2, <2>3, <2>4 DEF TypeOK
<1>2. OutputInOrder /\ Header
  BY DEF OutputInOrder, Header
<1>3. Window
  BY ParallelDeflateConstants DEF Window, Produced
<1>4. Numbered /\ Chained /\ Ending
  BY DEF Numbered, Chained, Ending, Outstanding, Produced
<1> QED BY <1>1, <1>2, <1>3, <1>4 DEF IInv

LEMMA LastInSeq ==
  ASSUME NEW S, NEW s \in Seq(S), s # << >>
  PROVE  Len(s) \in 1..Len(s) /\ s[Len(s)] \in S
  OBVIOUS

(* What an action that leaves the output alone preserves of it. *)
LEMMA OutputUnchanged ==
  ASSUME IInv, UNCHANGED out
  PROVE  OutputInOrder' /\ Produced' = Produced /\ Produced \in Nat
<1>1. OutputInOrder' /\ Produced' = Produced
  BY DEF IInv, OutputInOrder, Produced
<1>2. Produced \in Nat
  <2>1. out \in Seq(Output)
    BY DEF IInv, TypeOK
  <2>2. CASE out = << >>
    BY <2>2 DEF Produced
  <2>3. CASE out # << >>
    <3>1. out[Len(out)] \in Output
      BY <2>1, <2>3, LastInSeq
    <3> QED BY <2>3, <3>1 DEF Produced, Output
  <2> QED BY <2>2, <2>3
<1> QED BY <1>1, <1>2

LEMMA DoWorkInv == ASSUME IInv, DoWork PROVE IInv'
<1> PICK p \in jobs : jobs' = jobs \ {p} /\ chunks' = chunks \cup {p}
  BY DEF DoWork
<1>1. UNCHANGED <<fed, synced, cut, issued, taken, isAtStart, haveEnd, closing, out>>
  BY DEF DoWork
<1>2. OutputInOrder' /\ Produced' = Produced
  BY <1>1, OutputUnchanged
<1>3. Outstanding' = Outstanding
  BY DEF Outstanding
<1>4. phase' = phase \/ (phase = "wait" /\ phase' = "woken")
  BY DEF DoWork, Signal
<1>5. TypeOK'
  BY <1>1, <1>4 DEF IInv, TypeOK, Phases
<1>6. Window' /\ Header'
  BY <1>1, <1>2, <1>4 DEF IInv, Window, Header
<1>7. Numbered'
  BY <1>1, <1>3 DEF IInv, Numbered
<1>8. Chained'
  BY <1>1, <1>2, <1>3 DEF IInv, Chained
<1>9. Ending'
  BY <1>1, <1>2, <1>3, <1>4 DEF IInv, Ending, IsEnd, DoWork
<1> QED BY <1>2, <1>5, <1>6, <1>7, <1>8, <1>9 DEF IInv

LEMMA WakeUpInv == ASSUME IInv, WakeUp \/ SpuriousWakeUp PROVE IInv'
<1>1. UNCHANGED <<fed, synced, cut, issued, taken, isAtStart, jobs, chunks, haveEnd,
                  closing, out>>
  BY DEF WakeUp, SpuriousWakeUp
<1>2. phase \in {"wait", "woken"} /\ phase' = "scan"
  BY DEF WakeUp, SpuriousWakeUp
<1>3. OutputInOrder' /\ Produced' = Produced /\ Outstanding' = Outstanding
  BY <1>1, OutputUnchanged DEF Outstanding
<1>4. TypeOK'
  BY <1>1, <1>2 DEF IInv, TypeOK, Phases
<1>5. Window' /\ Header' /\ Numbered' /\ Chained'
  BY <1>1, <1>2, <1>3 DEF IInv, Window, Header, Numbered, Chained
<1>6. Ending'
  BY <1>1, <1>2, <1>3 DEF IInv, Ending, IsEnd
<1> QED BY <1>3, <1>4, <1>5, <1>6 DEF IInv

LEMMA ScanEndsInv == ASSUME IInv, ScanEnds PROVE IInv'
<1>1. UNCHANGED <<fed, synced, cut, issued, taken, isAtStart, jobs, chunks, closing,
                  out>>
  BY DEF ScanEnds
<1>2. phase = "scan" /\ haveEnd' = FALSE
  BY DEF ScanEnds
<1>3. \/ phase' = "wait"
      \/ haveEnd /\ closing /\ phase' = "freed"
      \/ haveEnd /\ ~closing /\ phase' = "feed"
  BY DEF ScanEnds, FlushIsOver
<1>4. OutputInOrder' /\ Produced' = Produced /\ Outstanding' = Outstanding
  BY <1>1, OutputUnchanged DEF Outstanding
<1>5. haveEnd => taken = issued /\ Produced = fed
  BY <1>2 DEF IInv, Ending, Chained
<1>6. haveEnd => \A p \in Outstanding : FALSE
  BY <1>5 DEF IInv, Numbered, TypeOK, Outstanding, Pieces
<1>7. TypeOK'
  BY <1>1, <1>2, <1>3 DEF IInv, TypeOK, Phases
<1>8. Window'
  <2>1. Produced \in Nat /\ fed \in Nat
    BY <1>1, OutputUnchanged DEF IInv, TypeOK
  <2> QED BY <1>1, <1>3, <1>4, <1>5, <2>1 DEF IInv, Window
<1>9. Header' /\ Numbered' /\ Chained'
  BY <1>1, <1>4 DEF IInv, Header, Numbered, Chained
<1>10. Ending'
  BY <1>1, <1>2, <1>3, <1>4, <1>5, <1>6 DEF IInv, Ending, IsEnd
<1> QED BY <1>4, <1>7, <1>8, <1>9, <1>10 DEF IInv

LEMMA DestroyInv == ASSUME IInv, Destroy PROVE IInv'
<1> DEFINE e == Piece(issued, cut, cut)
<1>1. UNCHANGED <<fed, synced, cut, taken, isAtStart, jobs, haveEnd, out>>
  BY DEF Destroy
<1>2. /\ phase = "feed" /\ phase' = "scan" /\ closing' = TRUE
      /\ issued' = issued + 1 /\ fed = synced /\ fed = Produced
      /\ chunks' = chunks \cup {e}
  BY DEF Destroy, IInv, Ending
<1>3. OutputInOrder' /\ Produced' = Produced /\ Produced \in Nat
  BY <1>1, OutputUnchanged
<1>4. issued = taken /\ cut = fed
  BY <1>2, <1>3 DEF IInv, Window, Chained
<1>5. Outstanding = {}
  BY <1>4 DEF IInv, Numbered, TypeOK, Outstanding, Pieces
<1>6. Outstanding' = {e} /\ jobs' = {} /\ e \in Pieces
  BY <1>1, <1>2, <1>5 DEF Outstanding, Piece, Pieces, IInv, TypeOK
<1>7. e.n = issued /\ e.from = cut /\ e.to = cut
  BY DEF Piece
<1> HIDE DEF e
<1>8. TypeOK'
  BY <1>1, <1>2, <1>6 DEF IInv, TypeOK, Phases
<1>9. Window' /\ Header'
  BY <1>1, <1>2, <1>3, <1>4, ParallelDeflateConstants
  DEF IInv, TypeOK, Window, Header
<1>10. Numbered'
  BY <1>1, <1>2, <1>4, <1>6, <1>7 DEF IInv, TypeOK, Numbered
<1>11. Chained'
  BY <1>1, <1>2, <1>3, <1>4, <1>6, <1>7 DEF IInv, TypeOK, Chained
<1>12. Ending'
  BY <1>1, <1>2, <1>3, <1>4, <1>6, <1>7 DEF IInv, TypeOK, Ending, IsEnd
<1> QED BY <1>3, <1>8, <1>9, <1>10, <1>11, <1>12 DEF IInv

LEMMA TakeChunkInv == ASSUME IInv, TakeChunk PROVE IInv'
<1> PICK c \in chunks :
      /\ IsDue(c)
      /\ chunks' = chunks \ {c}
      /\ haveEnd' = (haveEnd \/ IsEnd(c))
      /\ out' = IF closing THEN out
                ELSE Append(out, [from |-> c.from, to |-> c.to,
                                  head |-> isAtStart])
  BY DEF TakeChunk
<1>1. /\ UNCHANGED <<fed, synced, cut, issued, jobs, phase, closing>>
      /\ phase = "scan" /\ taken' = taken + 1 /\ isAtStart' = FALSE
  BY DEF TakeChunk
<1>2. c.n = taken /\ c \in Outstanding
  BY DueIsNext DEF Outstanding
<1>3. /\ c.n \in Nat /\ c.from \in Nat /\ c.to \in Nat
      /\ issued \in Nat /\ taken \in Nat /\ taken < issued
  BY <1>2 DEF IInv, TypeOK, Numbered, Outstanding, Pieces
<1>4. Outstanding' = Outstanding \ {c}
  BY <1>1 DEF Outstanding, IInv, Numbered
<1>5. c.from = Produced
  BY <1>2 DEF IInv, Chained
<1>6. c.to = cut \/ taken + 1 < issued
  BY <1>2, <1>3 DEF IInv, Chained
<1>7. closing => c.to = Produced /\ UNCHANGED out /\ taken + 1 = issued
  BY <1>2, <1>3, <1>5 DEF IInv, Ending, IsEnd
<1>8. ~closing => out' = Append(out, [from |-> c.from, to |-> c.to,
                                      head |-> isAtStart])
  OBVIOUS
<1>9. out \in Seq(Output) /\ [from |-> c.from, to |-> c.to, head |-> isAtStart] \in Output
  BY <1>3 DEF IInv, TypeOK, Output
<1>10. out' \in Seq(Output)
  BY <1>7, <1>8, <1>9
<1>11. Produced' = c.to
  <2>1. CASE closing
    BY <2>1, <1>7 DEF Produced
  <2>2. CASE ~closing
    BY <2>2, <1>8, <1>9 DEF Produced
  <2> QED BY <2>1, <2>2
<1>12. OutputInOrder'
  <2>1. CASE closing
    BY <2>1, <1>7 DEF IInv, OutputInOrder
  <2>2. CASE ~closing
    <3>1. isAtStart <=> (Len(out) = 0)
      BY <2>2, <1>9 DEF IInv, Header, TypeOK
    <3>2. /\ Len(out') = Len(out) + 1
          /\ \A i \in 1..Len(out) : out'[i] = out[i]
          /\ out'[Len(out) + 1].from = c.from
          /\ out'[Len(out) + 1].head = isAtStart
      BY <2>2, <1>8, <1>9
    <3>3. Produced = IF Len(out) = 0 THEN 0 ELSE out[Len(out)].to
      BY <1>9 DEF Produced
    <3>4. \A i \in 1..Len(out) :
            /\ out[i].from = (IF i = 1 THEN 0 ELSE out[i - 1].to)
            /\ out[i].head = (i = 1)
      BY <1>9 DEF IInv, OutputInOrder
    <3>5. SUFFICES ASSUME NEW i \in 1..(Len(out) + 1)
                   PROVE  /\ out'[i].from = (IF i = 1 THEN 0 ELSE out'[i - 1].to)
                          /\ out'[i].head = (i = 1)
      BY <3>2, <1>10 DEF OutputInOrder
    <3>6. CASE i \in 1..Len(out)
      BY <1>9, <3>2, <3>4, <3>6
    <3>7. CASE i = Len(out) + 1
      BY <1>5, <1>9, <3>1, <3>2, <3>3, <3>7 DEF IInv, TypeOK
    <3> QED BY <1>9, <3>6, <3>7
  <2> QED BY <2>1, <2>2
<1>13. TypeOK'
  <2>1. haveEnd' \in BOOLEAN /\ isAtStart' \in BOOLEAN
    BY <1>1
  <2>2. taken' \in Nat /\ issued' \in Nat /\ taken' <= issued'
    BY <1>1, <1>3
  <2>3. chunks' \subseteq Pieces /\ jobs' \subseteq Pieces
    BY <1>1 DEF IInv, TypeOK
  <2> QED BY <1>1, <1>10, <2>1, <2>2, <2>3 DEF IInv, TypeOK
<1>14. Window'
  BY <1>1, <1>3, ParallelDeflateConstants DEF IInv, Window
<1>15. Numbered'
  BY <1>1, <1>2, <1>3, <1>4 DEF IInv, Numbered, TypeOK, Outstanding, Pieces
<1>16. Chained'
  <2>1. \A p \in Outstanding' : p.n = taken' => p.from = Produced'
    BY <1>1, <1>2, <1>4, <1>11 DEF IInv, Chained
  <2>2. taken' = issued' => Produced' = cut'
    BY <1>1, <1>3, <1>6, <1>11 DEF IInv, TypeOK
  <2>3. \A p, q \in Outstanding' : q.n = p.n + 1 => q.from = p.to
    BY <1>4 DEF IInv, Chained
  <2>4. \A p \in Outstanding' : p.n = issued' - 1 => p.to = cut'
    BY <1>1, <1>4 DEF IInv, Chained
  <2> QED BY <2>1, <2>2, <2>3, <2>4 DEF Chained
<1>17. Ending'
  <2>1. haveEnd' => taken' = issued'
    <3>1. ~haveEnd
      BY <1>3 DEF IInv, Ending
    <3>2. IsEnd(c) => taken + 1 = issued
      BY <1>2, <1>3 DEF IInv, Ending
    <3> QED BY <1>1, <3>1, <3>2
  <2>2. closing' => phase' # "feed" /\ Produced' = fed'
    BY <1>1, <1>7, <1>11 DEF IInv, Ending
  <2> QED BY <1>1, <1>4, <2>1, <2>2 DEF IInv, Ending, IsEnd
<1>18. Header'
  <2>1. ~closing => out' # << >>
    BY <1>8, <1>9
  <2> QED BY <1>1, <2>1 DEF Header
<1> QED BY <1>12, <1>13, <1>14, <1>15, <1>16, <1>17, <1>18 DEF IInv

LEMMA SyncInv == ASSUME IInv, Sync PROVE IInv'
<1> DEFINE r == Piece(issued, cut, fed)
           e == Piece(issued' - 1, fed, fed)
<1>1. /\ UNCHANGED <<fed, taken, isAtStart, haveEnd, closing, out>>
      /\ phase = "feed" /\ phase' = "scan" /\ fed > Produced /\ synced' = fed
      /\ cut' = fed /\ chunks' = chunks \cup {e}
  BY DEF Sync, ScheduleRest, IInv, Ending
<1>2. /\ jobs' = jobs \cup (IF fed > cut THEN {r} ELSE {})
      /\ issued' = issued + (IF fed > cut THEN 2 ELSE 1)
  BY DEF Sync, ScheduleRest
<1>3. OutputInOrder' /\ Produced' = Produced /\ Produced \in Nat
  BY <1>1, OutputUnchanged
<1>4. /\ fed \in Nat /\ cut \in Nat /\ issued \in Nat /\ taken \in Nat
      /\ cut <= fed /\ taken <= issued /\ issued' \in Nat /\ issued' >= 1
  BY <1>2 DEF IInv, TypeOK
<1>5. /\ r.n = issued /\ r.from = cut /\ r.to = fed
      /\ e.n = issued' - 1 /\ e.from = fed /\ e.to = fed
      /\ r \in Pieces /\ e \in Pieces
  <2>1. issued' - 1 \in Nat
    <3>1. issued' = issued + 2 \/ issued' = issued + 1
      BY <1>2
    <3>2. (issued + 2) - 1 \in Nat /\ (issued + 1) - 1 \in Nat
      BY <1>4
    <3> QED BY <3>1, <3>2
  <2>2. r \in Pieces /\ e \in Pieces
    BY <1>4, <2>1 DEF Piece, Pieces
  <2> QED BY <2>2 DEF Piece
<1>6. issued + 2 <= taken + MaxPieces
  BY <1>1 DEF IInv, Window
<1>7. \A p \in Outstanding : /\ taken <= p.n /\ p.n < issued /\ ~IsEnd(p)
                            /\ p.n \in Nat
  BY <1>1 DEF IInv, Numbered, Ending, TypeOK, Outstanding, Pieces
<1>8. haveEnd = FALSE /\ closing = FALSE
  BY <1>1 DEF IInv, Ending, TypeOK
<1> HIDE DEF r, e
<1>9. TypeOK'
  BY <1>1, <1>2, <1>4, <1>5 DEF IInv, TypeOK, Phases
<1>10. Window' /\ Header'
  BY <1>1, <1>2, <1>3, <1>4, <1>6, ParallelDeflateConstants
  DEF IInv, Window, Header
<1>11. CASE fed > cut
  <2>1. issued' = issued + 2 /\ jobs' = jobs \cup {r}
    BY <1>2, <1>11
  <2>2. Outstanding' = Outstanding \cup {r, e}
    BY <1>1, <2>1 DEF Outstanding
  <2>3. e.n = issued + 1
    BY <1>4, <1>5, <2>1
  <2>4. Numbered'
    BY <1>1, <1>4, <1>5, <1>7, <2>1, <2>2, <2>3
    DEF IInv, Numbered, Outstanding
  <2>5. Chained'
    <3>1. \A p, q \in Outstanding' : q.n = p.n + 1 => q.from = p.to
      BY <1>4, <1>5, <1>7, <2>2, <2>3 DEF IInv, Chained
    <3>2. \A p \in Outstanding' : p.n = taken => p.from = Produced
      BY <1>4, <1>5, <1>7, <2>2, <2>3 DEF IInv, Chained
    <3>3. \A p \in Outstanding' : p.n = issued' - 1 => p.to = fed
      BY <1>4, <1>5, <1>7, <2>1, <2>2, <2>3
    <3> QED BY <1>1, <1>3, <1>4, <2>1, <3>1, <3>2, <3>3 DEF Chained
  <2>6. Ending'
    BY <1>1, <1>4, <1>5, <1>7, <1>8, <1>11, <2>2 DEF Ending, IsEnd
  <2> QED BY <1>3, <1>9, <1>10, <2>4, <2>5, <2>6 DEF IInv
<1>12. CASE ~(fed > cut)
  <2>1. issued' = issued + 1 /\ jobs' = jobs /\ cut = fed
    BY <1>2, <1>4, <1>12
  <2>2. Outstanding' = Outstanding \cup {e}
    BY <1>1, <2>1 DEF Outstanding
  <2>3. e.n = issued
    BY <1>4, <1>5, <2>1
  <2>4. Numbered'
    BY <1>1, <1>4, <1>5, <1>7, <2>1, <2>2, <2>3
    DEF IInv, Numbered, Outstanding
  <2>5. Chained'
    <3>1. \A p, q \in Outstanding' : q.n = p.n + 1 => q.from = p.to
      BY <1>4, <1>5, <1>7, <2>1, <2>2, <2>3 DEF IInv, Chained
    <3>2. \A p \in Outstanding' : p.n = taken => p.from = Produced
      BY <1>4, <1>5, <1>7, <2>1, <2>2, <2>3 DEF IInv, Chained
    <3>3. \A p \in Outstanding' : p.n = issued' - 1 => p.to = fed
      BY <1>4, <1>5, <1>7, <2>1, <2>2, <2>3
    <3> QED BY <1>1, <1>3, <1>4, <2>1, <3>1, <3>2, <3>3 DEF Chained
  <2>6. Ending'
    BY <1>1, <1>4, <1>5, <1>7, <1>8, <2>2 DEF Ending, IsEnd
  <2> QED BY <1>3, <1>9, <1>10, <2>4, <2>5, <2>6 DEF IInv
<1> QED BY <1>11, <1>12

LEMMA FeedInv == ASSUME IInv, NEW n \in 1..MaxFeed, Feed(n) PROVE IInv'
<1> DEFINE b == Blocks(n)
           new == {Piece(issued + i, cut + i * BlockSize,
                         cut + (i + 1) * BlockSize) : i \in 0..(b - 1)}
<1>1. /\ UNCHANGED <<synced, taken, isAtStart, chunks, phase, haveEnd, closing, out>>
      /\ phase = "feed"
      /\ issued + b + 2 <= taken + MaxPieces
      /\ jobs' = jobs \cup new
      /\ issued' = issued + b
      /\ cut' = cut + b * BlockSize
      /\ fed' = fed + n
  BY DEF Feed
<1>2. OutputInOrder' /\ Produced' = Produced /\ Produced \in Nat
  BY <1>1, OutputUnchanged
<1>3. /\ fed \in Nat /\ cut \in Nat /\ issued \in Nat /\ taken \in Nat
      /\ cut <= fed /\ taken <= issued /\ n \in Nat /\ n > 0
  BY ParallelDeflateConstants DEF IInv, TypeOK
<1>4. b \in Nat /\ b * BlockSize <= fed + n - cut /\ b * BlockSize \in Nat
  <2>1. fed + n - cut \in Nat
    BY <1>3
  <2> QED BY <2>1, DivBound, ParallelDeflateConstants DEF Blocks
<1> HIDE DEF b
<1>5. \A i \in Nat : /\ i * BlockSize \in Nat
                    /\ (i + 1) * BlockSize = i * BlockSize + BlockSize
  BY ParallelDeflateConstants
<1>6. 0 * BlockSize = 0
  BY ParallelDeflateConstants
<1>7. ASSUME NEW p \in new
      PROVE  /\ p \in Pieces
             /\ issued <= p.n /\ p.n < issued + b /\ p.n \in Nat
             /\ p.from = cut + (p.n - issued) * BlockSize
             /\ p.to = cut + (p.n - issued + 1) * BlockSize
             /\ ~IsEnd(p)
  <2> PICK i \in 0..(b - 1) :
        p = Piece(issued + i, cut + i * BlockSize, cut + (i + 1) * BlockSize)
    BY <1>7
  <2>1. i \in Nat /\ i < b /\ i + 1 \in Nat
    BY <1>4
  <2>2. /\ i * BlockSize \in Nat
        /\ (i + 1) * BlockSize = i * BlockSize + BlockSize
    BY <1>5, <2>1
  <2>3. p.n = issued + i /\ p.from = cut + i * BlockSize
        /\ p.to = cut + (i + 1) * BlockSize
    BY DEF Piece
  <2>4. p.n - issued = i
    BY <1>3, <2>1, <2>3
  <2>5. p \in Pieces
    <3>1. /\ issued + i \in Nat /\ cut + i * BlockSize \in Nat
          /\ cut + (i + 1) * BlockSize \in Nat
      BY <1>3, <2>1, <2>2, ParallelDeflateConstants
    <3> QED BY <3>1 DEF Piece, Pieces
  <2>6. p.from # p.to
    <3>1. \A x \in Nat : cut + x # cut + (x + BlockSize)
      BY <1>3, ParallelDeflateConstants
    <3> QED BY <2>2, <2>3, <3>1
  <2>7. issued <= p.n /\ p.n < issued + b /\ p.n \in Nat
    BY <1>3, <1>4, <2>1, <2>3
  <2>8. /\ p.from = cut + (p.n - issued) * BlockSize
        /\ p.to = cut + (p.n - issued + 1) * BlockSize
    BY <2>3, <2>4
  <2> QED BY <2>5, <2>6, <2>7, <2>8 DEF IsEnd
<1>8. \A p, q \in new : p.n = q.n => p = q
  <2> SUFFICES ASSUME NEW p \in new, NEW q \in new, p.n = q.n PROVE p = q
    OBVIOUS
  <2>1. PICK i \in 0..(b - 1) :
        p = Piece(issued + i, cut + i * BlockSize, cut + (i + 1) * BlockSize)
    OBVIOUS
  <2>2. PICK k \in 0..(b - 1) :
        q = Piece(issued + k, cut + k * BlockSize, cut + (k + 1) * BlockSize)
    OBVIOUS
  <2>3. i = k
    BY <1>3, <1>4, <2>1, <2>2 DEF Piece
  <2> QED BY <2>1, <2>2, <2>3
<1> HIDE DEF new
<1>9. Outstanding' = Outstanding \cup new
  BY <1>1 DEF Outstanding
<1>10. \A p \in Outstanding : /\ taken <= p.n /\ p.n < issued /\ p.n \in Nat
                             /\ ~IsEnd(p)
  BY <1>1 DEF IInv, Numbered, Ending, TypeOK, Outstanding, Pieces
<1>11. haveEnd = FALSE /\ closing = FALSE
  BY <1>1 DEF IInv, Ending, TypeOK
<1>12. TypeOK'
  <2>1. jobs' \subseteq Pieces
    BY <1>1, <1>7 DEF IInv, TypeOK
  <2>2. /\ fed' \in Nat /\ cut' \in Nat /\ issued' \in Nat
        /\ cut' <= fed' /\ taken' <= issued'
    BY <1>1, <1>3, <1>4
  <2> QED BY <1>1, <2>1, <2>2 DEF IInv, TypeOK
<1>13. Window'
  <2>1. fed >= Produced
    BY <1>1, <1>2, <1>3 DEF IInv, Window, Chained
  <2> QED BY <1>1, <1>2, <1>3, <1>4, <2>1, ParallelDeflateConstants DEF Window
<1>14. Numbered'
  <2>1. \A p \in Outstanding' : taken' <= p.n /\ p.n < issued'
    BY <1>1, <1>3, <1>4, <1>7, <1>9, <1>10
  <2>2. \A p, q \in Outstanding' : p.n = q.n => p = q
    BY <1>3, <1>7, <1>8, <1>9, <1>10 DEF IInv, Numbered
  <2>3. \A p \in jobs' : p \notin chunks'
    BY <1>1, <1>3, <1>7, <1>10 DEF IInv, Numbered, Outstanding
  <2> QED BY <2>1, <2>2, <2>3 DEF Numbered
<1>15. Chained'
  <2>1. ASSUME NEW p \in Outstanding', NEW q \in Outstanding', q.n = p.n + 1
        PROVE  q.from = p.to
    <3>1. CASE p \in Outstanding /\ q \in Outstanding
      BY <2>1, <3>1 DEF IInv, Chained
    <3>2. CASE p \in Outstanding /\ q \in new
      <4>1. p.n = issued - 1 /\ q.n - issued = 0
        BY <1>3, <1>7, <1>10, <2>1, <3>2
      <4>2. p.to = cut
        BY <3>2, <4>1 DEF IInv, Chained
      <4>3. q.from = cut + 0 * BlockSize
        BY <1>7, <3>2, <4>1
      <4> QED BY <1>3, <1>6, <4>2, <4>3
    <3>3. CASE p \in new /\ q \in Outstanding
      BY <1>3, <1>7, <1>10, <2>1, <3>3
    <3>4. CASE p \in new /\ q \in new
      <4>1. q.n - issued = p.n - issued + 1
        BY <1>3, <1>7, <2>1, <3>4
      <4> QED BY <1>7, <3>4, <4>1
    <3> QED BY <1>9, <3>1, <3>2, <3>3, <3>4
  <2>2. ASSUME NEW p \in Outstanding', p.n = taken PROVE p.from = Produced
    <3>1. CASE p \in Outstanding
      BY <2>2, <3>1 DEF IInv, Chained
    <3>2. CASE p \in new
      <4>1. taken = issued /\ p.n - issued = 0
        BY <1>3, <1>7, <2>2, <3>2
      <4>2. p.from = cut + 0 * BlockSize
        BY <1>7, <3>2, <4>1
      <4> QED BY <1>3, <1>6, <4>1, <4>2 DEF IInv, Chained
    <3> QED BY <1>9, <3>1, <3>2
  <2>3. ASSUME NEW p \in Outstanding', p.n = issued' - 1 PROVE p.to = cut'
    <3>1. CASE p \in Outstanding
      <4>1. b = 0
        BY <1>1, <1>3, <1>4, <1>10, <2>3, <3>1
      <4> QED BY <1>1, <1>3, <1>6, <2>3, <3>1, <4>1 DEF IInv, Chained
    <3>2. CASE p \in new
      <4>1. p.n - issued + 1 = b
        BY <1>1, <1>3, <1>4, <1>7, <2>3, <3>2
      <4> QED BY <1>1, <1>7, <3>2, <4>1
    <3> QED BY <1>9, <3>1, <3>2
  <2>4. ASSUME taken' = issued' PROVE Produced' = cut'
    <3>1. b = 0 /\ taken = issued
      BY <1>1, <1>3, <1>4, <2>4
    <3> QED BY <1>1, <1>2, <1>3, <1>6, <3>1 DEF IInv, Chained
  <2> QED BY <1>1, <1>2, <2>1, <2>2, <2>3, <2>4 DEF Chained
<1>16. Ending'
  BY <1>1, <1>2, <1>7, <1>9, <1>10, <1>11 DEF IInv, Ending, IsEnd
<1>17. Header'
  BY <1>1 DEF IInv, Header
<1> QED BY <1>2, <1>12, <1>13, <1>14, <1>15, <1>16, <1>17 DEF IInv

LEMMA StutterInv == ASSUME IInv, UNCHANGED vars PROVE IInv'
  BY DEF IInv, TypeOK, OutputInOrder, Window, Numbered, Chained, Ending,
         Header, Outstanding, Produced, vars

LEMMA NextInv == ASSUME IInv, [Next]_vars PROVE IInv'
<1>1. CASE \E n \in 1..MaxFeed : Feed(n)
  BY <1>1, FeedInv
<1>2. CASE Sync
  BY <1>2, SyncInv
<1>3. CASE Destroy
  BY <1>3, DestroyInv
<1>4. CASE DoWork
  BY <1>4, DoWorkInv
<1>5. CASE WakeUp \/ SpuriousWakeUp
  BY <1>5, WakeUpInv
<1>6. CASE TakeChunk
  BY <1>6, TakeChunkInv
<1>7. CASE ScanEnds
  BY <1>7, ScanEndsInv
<1>8. CASE UNCHANGED vars
  BY <1>8, StutterInv
<1> QED BY <1>1, <1>2, <1>3, <1>4, <1>5, <1>6, <1>7, <1>8 DEF Next

LEMMA Invariant == Spec => []IInv
<1>1. Init => IInv
  BY InitInv
<1>2. IInv /\ [Next]_vars => IInv'
  BY NextInv
<1> QED BY <1>1, <1>2, PTL DEF Spec

-----------------------------------------------------------------------------
(* The variables have their types, the input never holds less than nothing, *)
(* and start_seq does not overtake seq.                                     *)
THEOREM TypeCorrect == Spec => []TypeOK
<1>1. IInv => TypeOK
  BY DEF IInv
<1> QED BY <1>1, Invariant, PTL

(* What consolidate_complete_chunk_segments puts out is what was fed, in    *)
(* order, for every block size, any number of workers and any order in      *)
(* which their jobs end, and across the overflow of the sequence numbers.   *)
THEOREM OrderedOutput == Spec => []OutputInOrder
<1>1. IInv => OutputInOrder
  BY DEF IInv
<1> QED BY <1>1, Invariant, PTL

(* The assertion of insert_output_chunk holds. *)
THEOREM DistinctSeqs == Spec => []NoSeqClash
<1>1. IInv => NoSeqClash
  BY SeqUnique DEF NoSeqClash, Outstanding
<1> QED BY <1>1, Invariant, PTL

(* parallel_deflate_destroy leaves no job behind that would insert its      *)
(* chunk into freed memory.                                                 *)
THEOREM SafeDestroy == Spec => []NoUseAfterFree
<1>1. IInv => NoUseAfterFree
  <2> SUFFICES ASSUME IInv, phase = "freed" PROVE jobs = {} /\ chunks = {}
    BY DEF NoUseAfterFree
  <2>1. taken = issued
    BY DEF IInv, Ending
  <2>2. \A p \in Outstanding : FALSE
    BY <2>1 DEF IInv, Numbered, TypeOK, Outstanding, Pieces
  <2> QED BY <2>2 DEF Outstanding
<1> QED BY <1>1, Invariant, PTL

(* When parallel_deflate_sync returns, all that was fed is in the output. *)
THEOREM CompleteSync == Spec => SyncFlushes
<1>1. IInv /\ [Next]_vars =>
        [phase = "scan" /\ phase' = "feed" => Produced = fed]_phase
  <2> SUFFICES ASSUME IInv, [Next]_vars, phase = "scan", phase' = "feed"
               PROVE  Produced = fed
    OBVIOUS
  <2>1. ScanEnds
    BY DEF Next, Feed, Sync, Destroy, DoWork, Signal, WakeUp, SpuriousWakeUp,
           TakeChunk, vars
  <2>2. haveEnd
    BY <2>1 DEF ScanEnds, FlushIsOver
  <2> QED BY <2>2 DEF IInv, Ending, Chained
<1> QED BY <1>1, Invariant, PTL DEF Spec, SyncFlushes

=============================================================================
