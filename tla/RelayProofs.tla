----------------------------- MODULE RelayProofs -----------------------------
(***************************************************************************)
(* What the operators of StreamRelay.tla do to any stream, however it is   *)
(* cut into chunks.                                                        *)
(***************************************************************************)
EXTENDS StreamRelay, LeastElement, SequenceTheorems, TLAPS

\* A text made of whole lines.
WholeLines(s) == s = <<>> \/ s[Len(s)] = "lf"

\* What has gone out of a relay is the rewriting of the whole lines received;
\* the rest, which is less than a line, is held back.
LinesSettled(relay) ==
    /\ relay \in Relays
    /\ \A i \in DOMAIN relay.remainder : relay.remainder[i] # "lf"
    /\ \E done \in Seq(Pieces) :
          /\ WholeLines(done)
          /\ relay.received = done \o relay.remainder
          /\ relay.delivered = Rewrite(done)

\* All has gone out.
AllSettled(relay) ==
    /\ relay \in Relays
    /\ relay.remainder = <<>>
    /\ relay.delivered = Rewrite(relay.received)

\* A text can be cut after its last line feed.
LEMMA CutProperties ==
  ASSUME NEW s \in Seq(Pieces)
  PROVE  /\ Cut(s) \in 0 .. Len(s)
         /\ Cut(s) = 0 \/ s[Cut(s)] = "lf"
         /\ \A i \in Cut(s) + 1 .. Len(s) : s[i] # "lf"
<1> DEFINE Rests == {n \in 0 .. Len(s) : Len(s) - n = 0 \/ s[Len(s) - n] = "lf"}
<1>1. Len(s) \in Nat
  BY LenProperties
<1>2. Rests \subseteq Nat /\ Len(s) \in Rests
  BY <1>1
<1>3. PICK m \in Rests : \A n \in Rests : m <= n
  BY <1>2, LeastNat
<1> HIDE DEF Rests
<1>4. m \in 0 .. Len(s) /\ (Len(s) - m = 0 \/ s[Len(s) - m] = "lf")
  BY DEF Rests
<1>5. ASSUME NEW i \in Len(s) - m + 1 .. Len(s), s[i] = "lf" PROVE FALSE
  <2>1. Len(s) - i \in 0 .. Len(s) /\ Len(s) - (Len(s) - i) = i
    BY <1>1, <1>4
  <2>2. Len(s) - i \in Rests
    BY <1>5, <2>1 DEF Rests
  <2>3. Len(s) - i < m
    BY <1>1, <1>4
  <2> QED
    BY <1>1, <1>3, <1>4, <2>1, <2>2, <2>3
<1>6. \E c \in 0 .. Len(s) : /\ c = 0 \/ s[c] = "lf"
                             /\ \A i \in c + 1 .. Len(s) : s[i] # "lf"
  <2>1. Len(s) - m \in 0 .. Len(s)
    BY <1>1, <1>4
  <2> QED
    BY <1>4, <1>5, <2>1
<1> QED
  BY <1>6 DEF Cut

\* Rewriting changes no line's end and no length.
LEMMA RewriteProperties ==
  ASSUME NEW s \in Seq(Pieces)
  PROVE  /\ Rewrite(s) \in Seq(Pieces)
         /\ Len(Rewrite(s)) = Len(s)
         /\ \A i \in 1 .. Len(s) : Rewrite(s)[i] = IF EventAt(s, i) THEN "ours" ELSE s[i]
<1>1. Len(s) \in Nat /\ \A i \in 1 .. Len(s) : s[i] \in Pieces
  BY LenProperties, ElementOfSeq
<1>2. \A i \in 1 .. Len(s) : (IF EventAt(s, i) THEN "ours" ELSE s[i]) \in Pieces
  BY <1>1 DEF Pieces
<1>3. Rewrite(s) \in [1 .. Len(s) -> Pieces]
  BY <1>2 DEF Rewrite
<1>4. Rewrite(s) \in Seq(Pieces)
  BY <1>1, <1>3
<1>5. Len(Rewrite(s)) = Len(s)
  BY <1>1, <1>3, <1>4, LenProperties
<1> QED
  BY <1>4, <1>5 DEF Rewrite

\* Whole lines may be rewritten ahead of what follows them.
LEMMA RewriteConcat ==
  ASSUME NEW a \in Seq(Pieces), NEW b \in Seq(Pieces), WholeLines(a)
  PROVE  Rewrite(a \o b) = Rewrite(a) \o Rewrite(b)
<1> DEFINE ab == a \o b
<1>1. /\ Len(a) \in Nat /\ Len(b) \in Nat /\ ab \in Seq(Pieces)
      /\ Len(ab) = Len(a) + Len(b)
      /\ DOMAIN a = 1 .. Len(a) /\ DOMAIN b = 1 .. Len(b) /\ DOMAIN ab = 1 .. Len(ab)
  BY ConcatProperties, LenProperties
<1>2. \A i \in 1 .. Len(a) : ab[i] = a[i]
  BY <1>1, ConcatProperties
<1>3. \A i \in 1 .. Len(b) : ab[Len(a) + i] = b[i]
  BY <1>1, ConcatProperties
<1>4. Len(a) = 0 \/ a[Len(a)] = "lf"
  BY <1>1 DEF WholeLines
<1> HIDE DEF ab
<1>5. ASSUME NEW i \in 1 .. Len(a) PROVE EventAt(ab, i) <=> EventAt(a, i)
  <2>1. CASE i + 2 <= Len(a)
    BY <1>1, <1>2, <2>1 DEF EventAt
  <2>2. CASE i + 1 = Len(a)
    BY <1>1, <1>2, <1>4, <2>2 DEF EventAt
  <2>3. CASE i = Len(a)
    BY <1>1, <1>2, <1>4, <2>3 DEF EventAt
  <2>4. i + 2 <= Len(a) \/ i + 1 = Len(a) \/ i = Len(a)
    <3> DEFINE n == Len(a)
    <3>1. n \in Nat /\ i \in 1 .. n
      BY <1>1
    <3> HIDE DEF n
    <3>2. i + 2 <= n \/ i + 1 = n \/ i = n
      BY <3>1
    <3> QED
      BY <3>2 DEF n
  <2> QED
    BY <2>1, <2>2, <2>3, <2>4
<1>6. ASSUME NEW i \in 1 .. Len(b) PROVE EventAt(ab, Len(a) + i) <=> EventAt(b, i)
  <2>1. CASE i = 1
    <3>1. Len(a) + i - 1 \in DOMAIN ab => ab[Len(a) + i - 1] \in LineEnds
      BY <1>1, <1>2, <1>4, <2>1 DEF LineEnds
    <3>2. i - 1 \notin DOMAIN b
      BY <1>1, <2>1
    <3>3. Len(a) + i + 1 = Len(a) + (i + 1) /\ Len(a) + i + 2 = Len(a) + (i + 2)
      BY <1>1
    <3> QED
      BY <1>1, <1>3, <3>1, <3>2, <3>3 DEF EventAt
  <2>2. CASE i > 1
    <3>1. i - 1 \in DOMAIN b /\ Len(a) + i - 1 \in DOMAIN ab /\ ab[Len(a) + i - 1] = b[i - 1]
      <4>1. i - 1 \in 1 .. Len(b) /\ Len(a) + i - 1 = Len(a) + (i - 1)
        BY <1>1, <2>2
      <4> QED
        BY <1>1, <1>3, <4>1
    <3>2. ASSUME NEW n \in {1, 2}
          PROVE  /\ Len(a) + i + n \in DOMAIN ab <=> i + n \in DOMAIN b
                 /\ i + n \in DOMAIN b => ab[Len(a) + i + n] = b[i + n]
      <4>1. Len(a) + i + n = Len(a) + (i + n)
        BY <1>1
      <4> QED
        BY <1>1, <1>3, <4>1
    <3>3. ab[Len(a) + i] = b[i]
      BY <1>3
    <3> QED
      BY <3>1, <3>2, <3>3 DEF EventAt
  <2>3. i = 1 \/ i > 1
    BY <1>1
  <2> QED
    BY <2>1, <2>2, <2>3
<1>7. /\ Rewrite(a) \in Seq(Pieces) /\ Rewrite(b) \in Seq(Pieces) /\ Rewrite(ab) \in Seq(Pieces)
      /\ Len(Rewrite(a)) = Len(a) /\ Len(Rewrite(b)) = Len(b) /\ Len(Rewrite(ab)) = Len(ab)
  BY <1>1, RewriteProperties
<1>8. /\ Rewrite(a) \o Rewrite(b) \in Seq(Pieces)
      /\ Len(Rewrite(a) \o Rewrite(b)) = Len(a) + Len(b)
      /\ \A i \in 1 .. Len(a) + Len(b) : (Rewrite(a) \o Rewrite(b))[i] =
            IF i <= Len(a) THEN Rewrite(a)[i] ELSE Rewrite(b)[i - Len(a)]
  <2> DEFINE u == Rewrite(a)
             v == Rewrite(b)
  <2>1. u \in Seq(Pieces) /\ v \in Seq(Pieces) /\ Len(u) = Len(a) /\ Len(v) = Len(b)
    BY <1>7
  <2> HIDE DEF u, v
  <2>2. /\ u \o v \in Seq(Pieces)
        /\ Len(u \o v) = Len(u) + Len(v)
        /\ \A i \in 1 .. Len(u) + Len(v) : (u \o v)[i] =
              IF i <= Len(u) THEN u[i] ELSE v[i - Len(u)]
    BY <2>1, ConcatProperties
  <2>3. /\ u \o v \in Seq(Pieces)
        /\ Len(u \o v) = Len(a) + Len(b)
        /\ \A i \in 1 .. Len(a) + Len(b) : (u \o v)[i] =
              IF i <= Len(a) THEN u[i] ELSE v[i - Len(a)]
    BY <2>1, <2>2
  <2> QED
    BY <2>3 DEF u, v
<1>9. ASSUME NEW i \in 1 .. Len(ab) PROVE Rewrite(ab)[i] = (Rewrite(a) \o Rewrite(b))[i]
  <2>1. CASE i <= Len(a)
    <3>1. i \in 1 .. Len(a)
      BY <1>1, <2>1
    <3>2. Rewrite(ab)[i] = Rewrite(a)[i]
      BY <1>1, <1>2, <1>5, <3>1, RewriteProperties
    <3> QED
      BY <1>1, <1>8, <2>1, <3>2
  <2>2. CASE ~(i <= Len(a))
    <3>1. i - Len(a) \in 1 .. Len(b) /\ Len(a) + (i - Len(a)) = i
      BY <1>1, <2>2
    <3>2. Rewrite(b)[i - Len(a)] = IF EventAt(b, i - Len(a)) THEN "ours" ELSE b[i - Len(a)]
      BY <3>1, RewriteProperties
    <3>3. Rewrite(ab)[i] = IF EventAt(ab, i) THEN "ours" ELSE ab[i]
      BY <1>1, RewriteProperties
    <3>4. Rewrite(ab)[i] = Rewrite(b)[i - Len(a)]
      BY <1>3, <1>6, <3>1, <3>2, <3>3
    <3> QED
      BY <1>1, <1>8, <2>2, <3>4
  <2> QED
    BY <2>1, <2>2
<1>10. Rewrite(ab) = Rewrite(a) \o Rewrite(b)
  BY <1>1, <1>7, <1>8, <1>9, SeqEqual
<1> QED
  BY <1>10 DEF ab

\* No event that names the upstream's model is left.
LEMMA RewriteHides ==
  ASSUME NEW s \in Seq(Pieces), NEW i \in DOMAIN Rewrite(s)
  PROVE  ~EventAt(Rewrite(s), i)
<1> DEFINE t == Rewrite(s)
<1>1. /\ Len(s) \in Nat /\ DOMAIN s = 1 .. Len(s) /\ DOMAIN t = 1 .. Len(s)
      /\ \A j \in 1 .. Len(s) : t[j] = IF EventAt(s, j) THEN "ours" ELSE s[j]
  BY LenProperties, RewriteProperties
<1> HIDE DEF t
<1>2. \A j \in 1 .. Len(s) : t[j] # "ours" => t[j] = s[j]
  BY <1>1
<1>3. ASSUME EventAt(t, i) PROVE EventAt(s, i)
  BY <1>1, <1>2, <1>3 DEF EventAt, LineEnds
<1>4. ASSUME EventAt(t, i) PROVE t[i] = "ours"
  BY <1>1, <1>3, <1>4 DEF t
<1>5. ASSUME EventAt(t, i) PROVE FALSE
  BY <1>4, <1>5 DEF EventAt
<1> QED
  BY <1>5 DEF t

\* Pieces of sequences are sequences.
LEMMA SubSeqTyped ==
  ASSUME NEW s \in Seq(Pieces), NEW c \in 0 .. Len(s)
  PROVE  /\ SubSeq(s, 1, c) \in Seq(Pieces) /\ Len(SubSeq(s, 1, c)) = c
         /\ \A i \in 1 .. c : SubSeq(s, 1, c)[i] = s[i]
         /\ SubSeq(s, c + 1, Len(s)) \in Seq(Pieces)
         /\ \A i \in DOMAIN SubSeq(s, c + 1, Len(s)) :
                c + i \in c + 1 .. Len(s) /\ SubSeq(s, c + 1, Len(s))[i] = s[c + i]
         /\ SubSeq(s, 1, c) \o SubSeq(s, c + 1, Len(s)) = s
<1>1. Len(s) \in Nat /\ c \in Nat /\ \A i \in 1 .. Len(s) : s[i] \in Pieces
  BY LenProperties, ElementOfSeq
<1>2. /\ SubSeq(s, 1, c) \in Seq(Pieces) /\ Len(SubSeq(s, 1, c)) = c
      /\ \A i \in 1 .. c : SubSeq(s, 1, c)[i] = s[i]
  BY <1>1, SubSeqProperties
<1>3. /\ SubSeq(s, c + 1, Len(s)) \in Seq(Pieces)
      /\ \A i \in DOMAIN SubSeq(s, c + 1, Len(s)) :
             c + i \in c + 1 .. Len(s) /\ SubSeq(s, c + 1, Len(s))[i] = s[c + i]
  <2> DEFINE t == SubSeq(s, c + 1, Len(s))
  <2>1. t \in Seq(Pieces)
    BY <1>1, SubSeqProperties
  <2>2. /\ Len(t) = IF c + 1 <= Len(s) THEN Len(s) - (c + 1) + 1 ELSE 0
        /\ \A i \in 1 .. Len(s) - (c + 1) + 1 : t[i] = s[c + 1 + i - 1]
    BY <1>1, SubSeqProperties
  <2>3. DOMAIN t = 1 .. Len(t)
    BY <2>1, LenProperties
  <2> HIDE DEF t
  <2>4. \A i \in DOMAIN t : c + i \in c + 1 .. Len(s) /\ t[i] = s[c + i]
    BY <1>1, <2>2, <2>3
  <2> QED
    BY <2>1, <2>4 DEF t
<1>4. SubSeq(s, 1, c) \o SubSeq(s, c + 1, Len(s)) = SubSeq(s, 1, Len(s))
  <2>1. 1 \in 1 .. Len(s) + 1 /\ c \in 1 - 1 .. Len(s) /\ Len(s) \in c .. Len(s)
    BY <1>1
  <2> QED
    BY <2>1, ConcatAdjacentSubSeq
<1> QED
  BY <1>2, <1>3, <1>4, SubSeqFull

\* Concatenation is associative.
LEMMA Regroup ==
  ASSUME NEW x \in Seq(Pieces), NEW y \in Seq(Pieces), NEW z \in Seq(Pieces)
  PROVE  (x \o y) \o z = x \o (y \o z)
  BY ConcatAssociative

\* A relay starts out settled.
LEMMA EmptySettled == LinesSettled(EmptyRelay)
<1>1. <<>> \in Seq(Pieces) /\ Len(<<>>) = 0
  BY EmptySeq
<1>2. Rewrite(<<>>) = <<>>
  BY <1>1, RewriteProperties, EmptySeq
<1>3. DOMAIN <<>> = {}
  BY <1>1, LenProperties
<1> QED
  BY <1>1, <1>2, <1>3, ConcatEmptySeq DEF LinesSettled, EmptyRelay, Relays, WholeLines

\* A chunk, wherever it has been cut off, leaves it settled,
LEMMA FeedSettles ==
  ASSUME NEW relay, LinesSettled(relay), NEW chunk \in Seq(Pieces)
  PROVE  LinesSettled(Feed(relay, chunk))
<1> DEFINE rem    == relay.remainder
           buffer == rem \o chunk
           c      == Cut(buffer)
           lines  == SubSeq(buffer, 1, c)
           rest   == SubSeq(buffer, c + 1, Len(buffer))
<1>1. /\ rem \in Seq(Pieces) /\ relay.received \in Seq(Pieces) /\ relay.delivered \in Seq(Pieces)
  BY DEF LinesSettled, Relays
<1>2. PICK done \in Seq(Pieces) : /\ WholeLines(done)
                                  /\ relay.received = done \o rem
                                  /\ relay.delivered = Rewrite(done)
  BY DEF LinesSettled
<1>3. buffer \in Seq(Pieces)
  BY <1>1, ConcatProperties
<1>4. /\ c \in 0 .. Len(buffer) /\ (c = 0 \/ buffer[c] = "lf")
      /\ \A i \in c + 1 .. Len(buffer) : buffer[i] # "lf"
  BY <1>3, CutProperties
<1>5. Feed(relay, chunk) = [received |-> relay.received \o chunk, remainder |-> rest,
                            delivered |-> relay.delivered \o Rewrite(lines)]
  BY DEF Feed
<1> HIDE DEF rem, buffer, c
<1>6. /\ lines \in Seq(Pieces) /\ Len(lines) = c /\ \A i \in 1 .. c : lines[i] = buffer[i]
      /\ rest \in Seq(Pieces) /\ lines \o rest = buffer
      /\ \A i \in DOMAIN rest : c + i \in c + 1 .. Len(buffer) /\ rest[i] = buffer[c + i]
  BY <1>3, <1>4, SubSeqTyped
<1> HIDE DEF lines, rest
<1>6a. \A i \in DOMAIN rest : rest[i] # "lf"
  BY <1>4, <1>6
<1>7. c \in Nat
  BY <1>4, <1>3, LenProperties
<1>8. WholeLines(lines)
  <2>1. CASE c = 0
    BY <1>6, <2>1, EmptySeq DEF WholeLines
  <2>2. CASE c # 0
    BY <1>4, <1>6, <1>7, <2>2 DEF WholeLines
  <2> QED
    BY <2>1, <2>2
<1>9. done \o lines \in Seq(Pieces) /\ WholeLines(done \o lines)
  <2>1. CASE lines = <<>>
    BY <1>2, <2>1, ConcatEmptySeq
  <2>2. CASE lines # <<>>
    <3>1. /\ done \o lines \in Seq(Pieces) /\ Len(done \o lines) = Len(done) + Len(lines)
          /\ \A i \in 1 .. Len(done) + Len(lines) : (done \o lines)[i] =
                IF i <= Len(done) THEN done[i] ELSE lines[i - Len(done)]
      BY <1>2, <1>6, ConcatProperties
    <3>2. Len(done) \in Nat /\ Len(lines) \in Nat \ {0}
      BY <1>2, <1>6, <2>2, LenProperties, EmptySeq
    <3>3. (done \o lines)[Len(done) + Len(lines)] = lines[Len(lines)]
      BY <3>1, <3>2
    <3> QED
      BY <1>8, <2>2, <3>1, <3>3 DEF WholeLines
  <2> QED
    BY <2>1, <2>2
<1>10. relay.received \o chunk = (done \o lines) \o rest
  <2>1. relay.received \o chunk = done \o buffer
    <3>1. (done \o rem) \o chunk = done \o (rem \o chunk)
      BY <1>1, <1>2, Regroup
    <3> QED
      BY <1>2, <3>1 DEF buffer
  <2>2. done \o (lines \o rest) = (done \o lines) \o rest
    BY <1>2, <1>6, Regroup
  <2> QED
    BY <1>6, <2>1, <2>2
<1>11. relay.delivered \o Rewrite(lines) = Rewrite(done \o lines)
  BY <1>2, <1>6, RewriteConcat
<1>12. /\ relay.received \o chunk \in Seq(Pieces)
       /\ relay.delivered \o Rewrite(lines) \in Seq(Pieces)
  <2>1. Rewrite(lines) \in Seq(Pieces)
    BY <1>6, RewriteProperties
  <2> QED
    BY <1>1, <2>1, ConcatProperties
<1>13. Feed(relay, chunk) \in Relays
  BY <1>5, <1>6, <1>12 DEF Relays
<1>14. /\ Feed(relay, chunk).received = (done \o lines) \o Feed(relay, chunk).remainder
       /\ Feed(relay, chunk).delivered = Rewrite(done \o lines)
  BY <1>5, <1>10, <1>11
<1>15. \A i \in DOMAIN Feed(relay, chunk).remainder : Feed(relay, chunk).remainder[i] # "lf"
  BY <1>6a, <1>5
<1> QED
  BY <1>9, <1>13, <1>14, <1>15 DEF LinesSettled

\* and at the upstream's end everything goes out.
LEMMA FlushSettles ==
  ASSUME NEW relay, LinesSettled(relay)
  PROVE  AllSettled(Flush(relay)) /\ Flush(relay).received = relay.received
<1>1. /\ relay \in Relays /\ relay.remainder \in Seq(Pieces) /\ relay.received \in Seq(Pieces)
      /\ relay.delivered \in Seq(Pieces)
  BY DEF LinesSettled, Relays
<1>2. PICK done \in Seq(Pieces) : /\ WholeLines(done)
                                  /\ relay.received = done \o relay.remainder
                                  /\ relay.delivered = Rewrite(done)
  BY DEF LinesSettled
<1>3. relay.delivered \o Rewrite(relay.remainder) = Rewrite(relay.received)
  BY <1>1, <1>2, RewriteConcat
<1>4. /\ Rewrite(relay.received) \in Seq(Pieces) /\ <<>> \in Seq(Pieces)
  BY <1>1, RewriteProperties, EmptySeq
<1>5. Flush(relay) = [received |-> relay.received, remainder |-> <<>>,
                      delivered |-> Rewrite(relay.received)]
  BY <1>3 DEF Flush
<1> QED
  BY <1>1, <1>4, <1>5 DEF AllSettled, Relays

\* What a settled relay has delivered and what it holds back make up what it has
\* received, and no event in it names the upstream's model.
LEMMA SettledFaithful ==
  ASSUME NEW relay, LinesSettled(relay) \/ AllSettled(relay)
  PROVE  /\ relay \in Relays
         /\ relay.delivered \o Rewrite(relay.remainder) = Rewrite(relay.received)
         /\ \A i \in DOMAIN relay.delivered : ~EventAt(relay.delivered, i)
<1>1. /\ relay \in Relays /\ relay.remainder \in Seq(Pieces) /\ relay.received \in Seq(Pieces)
  BY DEF LinesSettled, AllSettled, Relays
<1>2. CASE LinesSettled(relay)
  <2>1. PICK done \in Seq(Pieces) : /\ WholeLines(done)
                                    /\ relay.received = done \o relay.remainder
                                    /\ relay.delivered = Rewrite(done)
    BY <1>2 DEF LinesSettled
  <2> QED
    BY <1>1, <2>1, RewriteConcat, RewriteHides
<1>3. CASE AllSettled(relay)
  <2>1. <<>> \in Seq(Pieces) /\ Rewrite(<<>>) = <<>>
    BY RewriteProperties, EmptySeq
  <2>2. relay.delivered = Rewrite(relay.received) /\ relay.remainder = <<>>
    BY <1>3 DEF AllSettled
  <2>3. Rewrite(relay.received) \in Seq(Pieces)
    BY <1>1, RewriteProperties
  <2> QED
    BY <1>1, <2>1, <2>2, <2>3, ConcatEmptySeq, RewriteHides
<1> QED
  BY <1>2, <1>3

\* Before the upstream's end, a relay has delivered as much as has come up to the
\* last line feed.
LEMMA SettledPrompt ==
  ASSUME NEW relay, LinesSettled(relay)
  PROVE  LET n == Len(relay.delivered) IN
           /\ n # 0 => relay.received[n] = "lf"
           /\ \A i \in n + 1 .. Len(relay.received) : relay.received[i] # "lf"
<1> DEFINE rest == relay.remainder
<1>1. PICK done \in Seq(Pieces) : /\ WholeLines(done)
                                 /\ relay.received = done \o rest
                                 /\ relay.delivered = Rewrite(done)
  BY DEF LinesSettled
<1>2. rest \in Seq(Pieces) /\ \A i \in DOMAIN rest : rest[i] # "lf"
  BY DEF LinesSettled, Relays
<1> HIDE DEF rest
<1>3. /\ Len(done) \in Nat /\ Len(rest) \in Nat /\ DOMAIN rest = 1 .. Len(rest)
      /\ Len(relay.delivered) = Len(done)
  BY <1>1, <1>2, LenProperties, RewriteProperties
<1>4. /\ Len(relay.received) = Len(done) + Len(rest)
      /\ \A i \in 1 .. Len(done) + Len(rest) :
             relay.received[i] = IF i <= Len(done) THEN done[i] ELSE rest[i - Len(done)]
  BY <1>1, <1>2, ConcatProperties
<1>5. Len(done) # 0 => relay.received[Len(done)] = "lf"
  <2> SUFFICES ASSUME Len(done) # 0 PROVE relay.received[Len(done)] = "lf"
    OBVIOUS
  <2>1. done[Len(done)] = "lf"
    BY <1>1, EmptySeq DEF WholeLines
  <2> QED
    BY <1>3, <1>4, <2>1
<1>6. \A i \in Len(done) + 1 .. Len(relay.received) : relay.received[i] # "lf"
  <2> SUFFICES ASSUME NEW i \in Len(done) + 1 .. Len(relay.received)
               PROVE  relay.received[i] # "lf"
    OBVIOUS
  <2>1. i - Len(done) \in DOMAIN rest /\ relay.received[i] = rest[i - Len(done)]
    BY <1>3, <1>4
  <2> QED
    BY <1>2, <2>1
<1> QED
  BY <1>3, <1>5, <1>6
-----------------------------------------------------------------------------
\* Where a text divides into whole lines and a rest does not depend on how it got
\* there.
LEMMA LinesEndOnce ==
  ASSUME NEW a \in Seq(Pieces), NEW x \in Seq(Pieces), NEW b \in Seq(Pieces), NEW y \in Seq(Pieces),
         a \o x = b \o y, WholeLines(b), \A i \in DOMAIN x : x[i] # "lf"
  PROVE  Len(b) <= Len(a)
<1> SUFFICES ASSUME Len(a) < Len(b) PROVE FALSE
  BY LenProperties
<1>1. /\ Len(a) \in Nat /\ Len(b) \in Nat /\ Len(x) \in Nat /\ Len(y) \in Nat
      /\ DOMAIN x = 1 .. Len(x)
  BY LenProperties
<1>2. /\ Len(a \o x) = Len(a) + Len(x)
      /\ \A i \in 1 .. Len(a) + Len(x) : (a \o x)[i] = IF i <= Len(a) THEN a[i] ELSE x[i - Len(a)]
  BY ConcatProperties
<1>3. /\ Len(b \o y) = Len(b) + Len(y)
      /\ \A i \in 1 .. Len(b) + Len(y) : (b \o y)[i] = IF i <= Len(b) THEN b[i] ELSE y[i - Len(b)]
  BY ConcatProperties
<1>4. Len(b) \in 1 .. Len(a) + Len(x) /\ Len(b) - Len(a) \in DOMAIN x
  BY <1>1, <1>2, <1>3
<1>5. b[Len(b)] = x[Len(b) - Len(a)]
  BY <1>1, <1>2, <1>3, <1>4
<1>6. b[Len(b)] = "lf"
  BY <1>1, EmptySeq DEF WholeLines
<1> QED
  BY <1>4, <1>5, <1>6

\* What a relay has delivered and what it holds back is a function of what it has
\* received: two relays of the same text, cut into chunks in any two ways, agree.
THEOREM ChunksDoNotMatter ==
  ASSUME NEW r, NEW s, LinesSettled(r), LinesSettled(s), r.received = s.received
  PROVE  r = s
<1>1. /\ r \in Relays /\ s \in Relays
      /\ r.remainder \in Seq(Pieces) /\ s.remainder \in Seq(Pieces)
      /\ \A i \in DOMAIN r.remainder : r.remainder[i] # "lf"
      /\ \A i \in DOMAIN s.remainder : s.remainder[i] # "lf"
  BY DEF LinesSettled, Relays
<1>2. PICK a \in Seq(Pieces) : /\ WholeLines(a)
                               /\ r.received = a \o r.remainder
                               /\ r.delivered = Rewrite(a)
  BY DEF LinesSettled
<1>3. PICK b \in Seq(Pieces) : /\ WholeLines(b)
                               /\ s.received = b \o s.remainder
                               /\ s.delivered = Rewrite(b)
  BY DEF LinesSettled
<1>4. a \o r.remainder = b \o s.remainder
  BY <1>2, <1>3
<1>5. Len(a) = Len(b)
  <2>1. Len(a) <= Len(b) /\ Len(b) <= Len(a)
    BY <1>1, <1>2, <1>3, <1>4, LinesEndOnce
  <2> QED
    BY <2>1, LenProperties
<1>6. a = b
  <2>1. \A i \in 1 .. Len(a) : a[i] = (a \o r.remainder)[i]
    BY <1>1, ConcatProperties, LenProperties
  <2>2. \A i \in 1 .. Len(b) : b[i] = (b \o s.remainder)[i]
    BY <1>1, ConcatProperties, LenProperties
  <2> QED
    BY <1>4, <1>5, <2>1, <2>2, SeqEqual
<1>7. r.remainder = s.remainder
  BY <1>1, <1>4, <1>6, ConcatSimplifications
<1>8. /\ r = [received |-> r.received, remainder |-> r.remainder, delivered |-> r.delivered]
      /\ s = [received |-> s.received, remainder |-> s.remainder, delivered |-> s.delivered]
  BY <1>1 DEF Relays
<1>9. r.delivered = s.delivered
  BY <1>2, <1>3, <1>6
<1> QED
  BY <1>7, <1>8, <1>9
=============================================================================
