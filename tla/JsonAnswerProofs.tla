--------------------------- MODULE JsonAnswerProofs ---------------------------
(***************************************************************************)
(* What of a JSON request and its answer is proved: that the parser stays  *)
(* in the text, whatever the text, and that an answer fits its buffer,     *)
(* whatever its length.                                                    *)
(*                                                                         *)
(* The parser: each function leaves it in the text (Fits) when the         *)
(* functions it calls do, and so does the loop over the elements with      *)
(* however many allocations (ElementsFit).  A string is scanned and then   *)
(* decoded; Covered relates the two loops, which need not stop at the same *)
(* bytes: what is written is covered by what the scan has counted.         *)
(*                                                                         *)
(* The serialisers: what is left of the buffer covers the parts that are   *)
(* still to be written, which TotalSize establishes and each write keeps.  *)
(***************************************************************************)
EXTENDS JsonBody, ResponseBuffer, TurnTheorems

\* The parser stands in the text or at its end, and has not read or written
\* outside a block.
Fits(p, content) ==
  p \in Parsing /\ p.content = content /\ p.offset \in 0..Len(content) /\ ~p.outside

\* The offset may be moved within the text.
LEMMA MoveFits ==
  ASSUME NEW content \in Seq(Bytes), NEW p, Fits(p, content), NEW n \in Int,
         p.offset + n \in 0..Len(content)
  PROVE  /\ Fits(Move(p, n), content)
         /\ Move(p, n).offset = p.offset + n /\ Move(p, n).depth = p.depth
BY DEF Fits, Parsing, Move

\* Nothing else in a parse_buffer touches the offset.
LEMMA AllocateFits ==
  ASSUME NEW content \in Seq(Bytes), NEW p, Fits(p, content), p.fuel # 0
  PROVE  /\ Fits(Allocate(p), content)
         /\ Allocate(p).offset = p.offset /\ Allocate(p).depth = p.depth
<1>1. p \in Parsing /\ p.fuel \in Nat /\ p.fuel - 1 \in Nat /\ p.blocks + 1 \in Nat
  BY DEF Fits, Parsing
<1>2. Allocate(p) \in Parsing
  BY <1>1 DEF Parsing, Allocate
<1>3. /\ Allocate(p).content = p.content /\ Allocate(p).offset = p.offset
      /\ Allocate(p).outside = p.outside /\ Allocate(p).depth = p.depth
  BY <1>1 DEF Parsing, Allocate
<1> QED BY <1>2, <1>3 DEF Fits

\* Span stops at the first byte that is not in S, or at the end.
LEMMA SpanFacts ==
  ASSUME NEW content \in Seq(Bytes), NEW p, Fits(p, content), NEW i \in Nat, NEW S,
         p.offset + i <= Len(content)
  PROVE  Span(p, i, S) \in Nat /\ p.offset + i + Span(p, i, S) <= Len(content)
<1> DEFINE N == Len(content)
           Stays(n) == CanAccess(p, i + n) /\ At(p, i + n) \in S
           T == {n \in 0..N : ~Stays(n)}
           first == CHOOSE n \in 0..N : ~Stays(n) /\ \A m \in 0..(n - 1) : Stays(m)
<1>1. p.content = content /\ p.offset \in Nat /\ N \in Nat
  BY DEF Fits
<1>2. N - p.offset - i \in T
  BY <1>1 DEF CanAccess
<1>3. \E n \in 0..N : ~Stays(n) /\ \A m \in 0..(n - 1) : Stays(m)
  <2>1. T \in SUBSET Nat
    BY <1>1
  <2>2. PICK n \in T : \A m \in T : n <= m
    BY <1>2, <2>1, LeastNatural
  <2>3. \A m \in 0..(n - 1) : m \in 0..N /\ ~(n <= m)
    BY <1>1, <2>2
  <2> QED BY <2>2, <2>3
<1>4. first \in 0..N /\ ~Stays(first) /\ \A m \in 0..(first - 1) : Stays(m)
  <2> HIDE DEF Stays
  <2> QED BY <1>3
<1>5. first <= N - p.offset - i
  <2>1. ~(N - p.offset - i < first)
    <3>1. SUFFICES ASSUME N - p.offset - i < first PROVE FALSE
      OBVIOUS
    <3>2. N - p.offset - i \in 0..(first - 1)
      BY <1>1, <1>4, <3>1
    <3>3. Stays(N - p.offset - i)
      BY <1>4, <3>2
    <3> QED BY <1>2, <3>3
  <2> QED BY <1>1, <1>4, <2>1
<1>6. Span(p, i, S) = first
  BY <1>1 DEF Span
<1> HIDE DEF first, N
<1> QED BY <1>1, <1>4, <1>5, <1>6 DEF N

\* Skipping whitespace goes on, but not off the end of a text that has bytes left.
LEMMA SkipFits ==
  ASSUME NEW content \in Seq(Bytes), NEW p, Fits(p, content)
  PROVE  /\ Fits(SkipWhitespace(p), content)
         /\ SkipWhitespace(p).offset >= p.offset /\ SkipWhitespace(p).depth = p.depth
         /\ CanAccess(p, 0) => CanAccess(SkipWhitespace(p), 0)
<1> DEFINE n == Span(p, 0, Whitespace)
           k == IF n > 0 /\ p.offset + n = Len(content) THEN n - 1 ELSE n
<1>1. p.content = content /\ p.offset \in Nat /\ p.offset <= Len(content) /\ Len(content) \in Nat
  BY DEF Fits
<1>2. n \in Nat /\ p.offset + n <= Len(content)
  <2>1. 0 \in Nat /\ p.offset + 0 <= Len(content)
    BY <1>1
  <2>2. n \in Nat /\ p.offset + 0 + n <= Len(content)
    BY <2>1, SpanFacts
  <2> QED BY <1>1, <2>2
<1>3. SkipWhitespace(p) = Move(p, k)
  BY <1>1 DEF SkipWhitespace
<1> HIDE DEF n
<1>4. k \in Int /\ p.offset + k \in 0..Len(content) /\ k >= 0
  BY <1>1, <1>2
<1>5. Fits(Move(p, k), content) /\ Move(p, k).offset = p.offset + k /\ Move(p, k).depth = p.depth
  BY <1>4, MoveFits
<1>6. p.offset < Len(content) => p.offset + k < Len(content)
  BY <1>1, <1>2
<1> HIDE DEF k
<1>7. Move(p, k).content = content
  BY <1>5 DEF Fits
<1>8. p.offset + 0 = p.offset /\ (p.offset + k) + 0 = p.offset + k
  BY <1>1, <1>4
<1> QED BY <1>1, <1>3, <1>4, <1>5, <1>6, <1>7, <1>8 DEF CanAccess

\* A byte order mark is inside the text.
LEMMA BomFits ==
  ASSUME NEW content \in Seq(Bytes), NEW p, Fits(p, content), p.offset = 0
  PROVE  Fits(SkipBom(p), content) /\ SkipBom(p).depth = p.depth
<1>1. p.content = content /\ Len(content) \in Nat
  BY DEF Fits
<1>2. CASE CanAccess(p, 4) /\ SubSeq(p.content, 1, 3) = Bom
  <2>1. 3 \in Int /\ p.offset + 3 \in 0..Len(content)
    BY <1>1, <1>2 DEF CanAccess
  <2>2. SkipBom(p) = Move(p, 3)
    BY <1>2 DEF SkipBom
  <2> QED BY <2>1, <2>2, MoveFits
<1>3. CASE ~(CanAccess(p, 4) /\ SubSeq(p.content, 1, 3) = Bom)
  BY <1>3 DEF SkipBom
<1> QED BY <1>2, <1>3

\* The digits read are inside the text.
LEMMA NumberFits ==
  ASSUME NEW content \in Seq(Bytes), NEW p, Fits(p, content), CanAccess(p, 0), NEW item
  PROVE  LET r == ParseNumber(p, item) IN Fits(r.p, content) /\ r.p.depth = p.depth
<1> DEFINE copy == SubSeq(p.content, p.offset + 1, p.offset + Span(p, 0, NumberBytes))
           sign == IF copy[1] = "-" THEN 1 ELSE 0
           read == sign + Span(p, sign, {"1"})
<1>1. p.content = content /\ p.offset \in Nat /\ p.offset < Len(content) /\ Len(content) \in Nat
  BY DEF Fits, CanAccess
<1> HIDE DEF copy
<1>2. sign \in Nat /\ p.offset + sign <= Len(content)
  BY <1>1
<1> HIDE DEF sign
<1>3. read \in Int /\ p.offset + read \in 0..Len(content)
  <2>1. Span(p, sign, {"1"}) \in Nat /\ p.offset + sign + Span(p, sign, {"1"}) <= Len(content)
    BY <1>2, SpanFacts
  <2> QED BY <1>1, <1>2, <2>1
<1> HIDE DEF read
<1>4. Fits(Move(p, read), content) /\ Move(p, read).depth = p.depth
  BY <1>3, MoveFits
<1>5. CASE p.fuel = 0
  BY <1>5 DEF ParseNumber, Result
<1>6. CASE p.fuel # 0 /\ read = sign
  <2>1. Fits([p EXCEPT !.fuel = @ - 1], content) /\ [p EXCEPT !.fuel = @ - 1].depth = p.depth
    BY <1>6 DEF Fits, Parsing
  <2> QED BY <1>6, <2>1 DEF ParseNumber, Result, read, sign, copy
<1>7. CASE p.fuel # 0 /\ read # sign
  <2>1. /\ Fits([Move(p, read) EXCEPT !.fuel = @ - 1], content)
        /\ [Move(p, read) EXCEPT !.fuel = @ - 1].depth = p.depth
    <3> DEFINE q == Move(p, read)
    <3>1. q.fuel = p.fuel
      BY DEF Move, Fits, Parsing
    <3> HIDE DEF q
    <3>2. q \in Parsing /\ q.fuel \in Nat /\ q.fuel - 1 \in Nat
      BY <1>4, <1>7, <3>1 DEF Fits, Parsing, q
    <3> QED BY <1>4, <3>2 DEF Fits, Parsing, q
  <2>2. ParseNumber(p, item).p = [Move(p, read) EXCEPT !.fuel = @ - 1]
    BY <1>7 DEF ParseNumber, Result, read, sign, copy
  <2> QED BY <2>1, <2>2
<1> QED BY <1>5, <1>6, <1>7
-----------------------------------------------------------------------------
(* Scanning a string.                                                       *)

\* Where the scan for the closing quote may be.
Scans == [at : Nat, skipped : Nat]

\* The scan is a loop over ScanByte.
LEMMA ScanLoop ==
  ASSUME NEW content \in Seq(Bytes), NEW p, Fits(p, content)
  PROVE  /\ Scan(p) \in [Nat -> Scans]
         /\ Scan(p)[0] = [at |-> 1, skipped |-> 0]
         /\ \A n \in Nat : Scan(p)[n + 1] = ScanByte(p, Scan(p)[n])
<1> DEFINE D == Scans
           start == [at |-> 1, skipped |-> 0]
           step == [s \in D |-> ScanByte(p, s)]
<1>1. start \in D
  BY DEF Scans
<1>2. step \in [D -> D]
  BY DEF Scans, ScanByte
<1> HIDE DEF step, start, D
<1>3. PICK f \in [Nat -> D] : f[0] = start /\ \A n \in Nat : n # 0 => f[n] = step[f[n - 1]]
  <2>1. \E f \in [Nat -> D] : f[0] = start /\ \A n \in Nat : n # 0 => f[n] = step[f[n - 1]]
    BY <1>1, <1>2, Loop, SMTT(60)
  <2> QED BY <2>1
<1>4. ASSUME NEW n \in Nat, n # 0
      PROVE  f[n] = ScanByte(p, f[n - 1])
  <2>1. n - 1 \in Nat /\ f[n - 1] \in D
    BY <1>3, <1>4
  <2> QED BY <1>3, <1>4, <2>1 DEF step
<1> DEFINE Is(w) == w = [n \in Nat |-> IF n = 0 THEN [at |-> 1, skipped |-> 0] ELSE ScanByte(p, w[n - 1])]
           scan == CHOOSE w : Is(w)
<1>5. Is(f)
  BY <1>3, <1>4 DEF start
<1>6. Is(scan)
  BY <1>5
<1>7. Scan(p) = scan
  BY DEF Scan
<1> HIDE DEF scan
<1>8. scan[0] = start /\ \A n \in Nat : scan[n + 1] = ScanByte(p, scan[n])
  <2>1. scan[0] = start
    BY <1>6 DEF start
  <2>2. ASSUME NEW n \in Nat PROVE scan[n + 1] = ScanByte(p, scan[n])
    <3>1. n + 1 \in Nat /\ n + 1 # 0 /\ (n + 1) - 1 = n
      OBVIOUS
    <3> QED BY <1>6, <3>1
  <2> QED BY <2>1, <2>2
<1> DEFINE T == {n \in Nat : scan[n] \in D}
<1>9. T = Nat
  <2>1. 0 \in T
    BY <1>1, <1>8
  <2>2. ASSUME NEW n \in T PROVE n + 1 \in T
    <3>1. n \in Nat /\ scan[n] \in D /\ n + 1 \in Nat
      OBVIOUS
    <3>2. step[scan[n]] = scan[n + 1]
      BY <1>8, <3>1 DEF step
    <3> QED BY <1>2, <3>1, <3>2
  <2>3. T \in SUBSET Nat
    OBVIOUS
  <2> HIDE DEF T
  <2> QED BY <2>1, <2>2, <2>3, EveryTurn
<1>10. scan = [n \in Nat |-> scan[n]]
  <2>1. DOMAIN scan = Nat /\ scan = [n \in DOMAIN scan |-> scan[n]]
    BY <1>6
  <2> QED BY <2>1
<1>11. scan \in [Nat -> Scans]
  BY <1>9, <1>10 DEF D
<1> QED BY <1>7, <1>8, <1>11 DEF start

\* The scan comes to a stop where the text ends or a quote stands, after as many
\* turns as the text has bytes at most; it goes on until then, never back.
LEMMA ScanFacts ==
  ASSUME NEW content \in Seq(Bytes), NEW p, Fits(p, content)
  PROVE  LET end == Scan(p)[Len(content)]
         IN /\ end \in Scans /\ end.at >= 1
            /\ \A n \in Nat :
                 /\ Scan(p)[n] \in Scans /\ Scan(p)[n].at >= 1
                 /\ Scan(p)[n].at <= end.at
                 /\ ScanByte(p, Scan(p)[n]) = Scan(p)[n + 1]
                 /\ ScanByte(p, Scan(p)[n]) = Scan(p)[n] => Scan(p)[n] = end
                 /\ Scan(p)[n].at = end.at => Scan(p)[n] = end
<1> DEFINE scan == Scan(p)
           N == Len(content)
           end == scan[N]
           Stopped(s) == ScanByte(p, s) = s
<1>1. /\ scan \in [Nat -> Scans] /\ scan[0] = [at |-> 1, skipped |-> 0]
      /\ \A n \in Nat : scan[n + 1] = ScanByte(p, scan[n])
  BY ScanLoop
<1>2. N \in Nat /\ p.content = content /\ p.offset \in Nat
  BY DEF Fits
<1> HIDE DEF scan
<1>3. ASSUME NEW s \in Scans
      PROVE  /\ Stopped(s) <=> ~CanAccess(p, s.at) \/ At(p, s.at) = Quote
             /\ ~Stopped(s) => ScanByte(p, s).at > s.at
             /\ ScanByte(p, s).at >= s.at
  <2>1. s.at \in Nat /\ s.skipped \in Nat
    BY DEF Scans
  <2>2. CASE ~CanAccess(p, s.at) \/ At(p, s.at) = Quote
    BY <2>1, <2>2 DEF ScanByte
  <2>3. CASE CanAccess(p, s.at) /\ At(p, s.at) # Quote
    <3>1. ScanByte(p, s).at > s.at
      BY <2>1, <2>3 DEF ScanByte, Scans
    <3>2. ~Stopped(s)
      BY <2>1, <3>1
    <3>3. ~(~CanAccess(p, s.at) \/ At(p, s.at) = Quote)
      BY <2>3
    <3>4. ScanByte(p, s).at >= s.at
      <4>1. ScanByte(p, s).at \in Nat
        BY <2>1, <2>3 DEF ScanByte, Scans
      <4> QED BY <2>1, <3>1, <4>1
    <3> HIDE DEF Stopped
    <3> QED BY <3>1, <3>2, <3>3, <3>4
  <2> QED BY <2>2, <2>3
<1>4. ASSUME NEW n \in Nat, Stopped(scan[n])
      PROVE  \A k \in Nat : scan[n + k] = scan[n]
  <2> DEFINE T == {k \in Nat : scan[n + k] = scan[n]}
  <2>1. 0 \in T
    <3>1. n + 0 = n
      OBVIOUS
    <3> QED BY <3>1
  <2>2. ASSUME NEW k \in T PROVE k + 1 \in T
    <3>1. n + k \in Nat /\ (n + k) + 1 = n + (k + 1) /\ k + 1 \in Nat /\ scan[n + k] = scan[n]
      OBVIOUS
    <3>2. scan[(n + k) + 1] = ScanByte(p, scan[n + k])
      BY <1>1, <3>1
    <3> QED BY <1>4, <3>1, <3>2
  <2>3. T = Nat
    <3>1. T \in SUBSET Nat
      OBVIOUS
    <3> HIDE DEF T
    <3> QED BY <2>1, <2>2, <3>1, EveryTurn
  <2> QED BY <2>3
<1>5. ASSUME NEW n \in Nat
      PROVE  \A k \in Nat : scan[n].at <= scan[n + k].at
  <2> DEFINE T == {k \in Nat : scan[n].at <= scan[n + k].at}
  <2>1. 0 \in T
    <3>1. n + 0 = n /\ scan[n] \in Scans
      BY <1>1
    <3>2. scan[n].at \in Nat
      BY <3>1 DEF Scans
    <3> QED BY <3>1, <3>2
  <2>2. ASSUME NEW k \in T PROVE k + 1 \in T
    <3>1. n + k \in Nat /\ (n + k) + 1 = n + (k + 1) /\ k + 1 \in Nat
      OBVIOUS
    <3>2. scan[(n + k) + 1] = ScanByte(p, scan[n + k]) /\ scan[n + k] \in Scans
          /\ scan[n] \in Scans /\ scan[(n + k) + 1] \in Scans
      BY <1>1, <3>1
    <3>3. scan[(n + k) + 1].at >= scan[n + k].at
      BY <1>3, <3>2
    <3>4. scan[n].at \in Nat /\ scan[n + k].at \in Nat /\ scan[(n + k) + 1].at \in Nat
      BY <3>2 DEF Scans
    <3>5. scan[n].at <= scan[n + k].at
      OBVIOUS
    <3>6. scan[n].at <= scan[(n + k) + 1].at
      BY <3>3, <3>4, <3>5
    <3> QED BY <3>1, <3>6
  <2>3. T = Nat
    <3>1. T \in SUBSET Nat
      OBVIOUS
    <3> HIDE DEF T
    <3> QED BY <2>1, <2>2, <3>1, EveryTurn
  <2> QED BY <2>3
<1>6. Stopped(end)
  <2> DEFINE T == {n \in Nat : scan[n].at >= n + 1 \/ Stopped(scan[n])}
  <2>1. 0 \in T
    BY <1>1
  <2>2. ASSUME NEW n \in T PROVE n + 1 \in T
    <3>1. n \in Nat /\ n + 1 \in Nat /\ scan[n] \in Scans /\ scan[n + 1] \in Scans
          /\ scan[n + 1] = ScanByte(p, scan[n])
      BY <1>1
    <3>2. CASE Stopped(scan[n])
      <4>1. scan[n + 1] = scan[n]
        BY <3>1, <3>2
      <4> QED BY <3>1, <3>2, <4>1
    <3>3. CASE ~Stopped(scan[n])
      <4>1. scan[n + 1].at > scan[n].at /\ scan[n].at >= n + 1
        BY <1>3, <3>1, <3>3
      <4>2. scan[n].at \in Nat /\ scan[n + 1].at \in Nat
        BY <3>1 DEF Scans
      <4>3. scan[n + 1].at >= (n + 1) + 1
        BY <3>1, <4>1, <4>2
      <4> QED BY <3>1, <4>3
    <3> QED BY <3>2, <3>3
  <2>3. T = Nat
    <3>1. T \in SUBSET Nat
      OBVIOUS
    <3> HIDE DEF T
    <3> QED BY <2>1, <2>2, <3>1, EveryTurn
  <2>4. end.at >= N + 1 \/ Stopped(end)
    BY <1>2, <2>3
  <2>5. end \in Scans /\ end.at \in Nat
    BY <1>1, <1>2 DEF Scans
  <2>6. end.at >= N + 1 => ~CanAccess(p, end.at)
    BY <1>2, <2>5 DEF CanAccess
  <2> QED BY <1>3, <2>4, <2>5, <2>6
<1>7. ASSUME NEW n \in Nat
      PROVE  /\ scan[n] \in Scans /\ scan[n].at >= 1
             /\ scan[n].at <= end.at
             /\ Stopped(scan[n]) => scan[n] = end
             /\ scan[n].at = end.at => scan[n] = end
  <2>1. scan[n] \in Scans /\ end \in Scans /\ scan[0].at = 1
    BY <1>1, <1>2
  <2>2. scan[n].at \in Nat /\ end.at \in Nat
    BY <2>1 DEF Scans
  <2>3. scan[n].at >= 1
    <3>1. 0 + n = n
      OBVIOUS
    <3>2. scan[0].at <= scan[0 + n].at
      BY <1>5
    <3> QED BY <2>1, <2>2, <3>1, <3>2
  <2>4. CASE n >= N
    <3>1. n - N \in Nat /\ N + (n - N) = n
      BY <1>2, <2>4
    <3>2. scan[N + (n - N)] = scan[N]
      BY <1>2, <1>4, <1>6, <3>1
    <3>3. scan[n] = end
      BY <3>1, <3>2
    <3> QED BY <2>1, <2>2, <2>3, <3>3
  <2>5. CASE ~(n >= N)
    <3>1. N - n \in Nat /\ n + (N - n) = N
      BY <1>2, <2>5
    <3>2. scan[n].at <= scan[n + (N - n)].at
      BY <1>5, <3>1
    <3>3. Stopped(scan[n]) => scan[n + (N - n)] = scan[n]
      BY <1>4, <3>1
    <3>4. scan[n].at = end.at => Stopped(scan[n])
      BY <1>3, <1>6, <2>1
    <3> QED BY <2>1, <2>3, <3>1, <3>2, <3>3, <3>4
  <2> QED BY <2>4, <2>5
<1>8. end \in Scans /\ end.at >= 1
  BY <1>2, <1>7
<1> QED BY <1>1, <1>7, <1>8 DEF scan

\* Where the loops through a string may be.
Ends(p) == Scan(p)[Len(p.content)]
Stops(p) == {Scan(p)[n] : n \in Nat}

\* What strings are decoded to.
Output == Bytes \cup {"nul", "newline", "+"} \cup {Lead(n) : n \in Nat}

\* A code point is at most four bytes, and three when four digits give it.
LEMMA Utf8Fits ==
  ASSUME NEW code \in Nat
  PROVE  /\ Utf8(code) \in Seq(Output)
         /\ Len(Utf8(code)) <= 4
         /\ code < 65536 => Len(Utf8(code)) <= 3
<1> DEFINE more == IF code < 128 THEN 0 ELSE IF code < 2048 THEN 1 ELSE IF code < 65536 THEN 2 ELSE 3
           first == IF code = 0 THEN "nul" ELSE Lead(code)
           rest == [k \in 1..more |-> "+"]
<1>1. more \in Nat /\ more <= 3 /\ (code < 65536 => more <= 2)
  OBVIOUS
<1>2. first \in Output /\ "+" \in Output
  BY DEF Output
<1>3. Utf8(code) = <<first>> \o rest
  BY DEF Utf8
<1> HIDE DEF more, first
<1>4. rest \in Seq(Output) /\ Len(rest) = more
  BY <1>1, <1>2
<1>5. <<first>> \in Seq(Output) /\ Len(<<first>>) = 1
  BY <1>2
<1> HIDE DEF rest
<1>6. <<first>> \o rest \in Seq(Output) /\ Len(<<first>> \o rest) = 1 + more
  BY <1>1, <1>4, <1>5
<1> QED BY <1>1, <1>3, <1>6

\* Four digits.
LEMMA Hex4Fits ==
  ASSUME NEW p, NEW i
  PROVE  Hex4(p, i) \in Nat /\ Hex4(p, i) < 65536
<1> DEFINE Digit(k) == HexDigits[At(p, i + k)]
           two == 16 * Digit(0) + Digit(1)
           three == 16 * two + Digit(2)
           four == 16 * three + Digit(3)
           Read == \A k \in 0..3 : At(p, i + k) \in DOMAIN HexDigits
<1>1. CASE ~Read
  <2>1. Hex4(p, i) = 0
    BY <1>1, Zenon DEF Hex4
  <2> QED BY <2>1
<1>2. CASE Read
  <2>1. \A c \in DOMAIN HexDigits : HexDigits[c] \in 0..15
    BY DEF HexDigits
  <2>2. Digit(0) \in 0..15 /\ Digit(1) \in 0..15 /\ Digit(2) \in 0..15 /\ Digit(3) \in 0..15
    BY <1>2, <2>1
  <2>3. Hex4(p, i) = four
    BY <1>2, Zenon DEF Hex4
  <2> HIDE DEF Digit
  <2>4. two \in Nat /\ two < 256
    BY <2>2
  <2> HIDE DEF two
  <2>5. three \in Nat /\ three < 4096
    BY <2>2, <2>4
  <2> HIDE DEF three
  <2>6. four \in Nat /\ four < 65536
    BY <2>2, <2>5
  <2> QED BY <2>3, <2>6
<1> HIDE DEF Read
<1> QED BY <1>1, <1>2

\* A sequence is read when all of it is in front of the closing quote, and it
\* writes no more than half as many bytes as it reads.
LEMMA Utf16Fits ==
  ASSUME NEW p, NEW i \in Nat, NEW end \in Nat
  PROVE  LET u == Utf16(p, i, end)
         IN \/ u.read = 0
            \/ /\ u.read \in {6, 12} /\ u.bytes \in Seq(Output)
               /\ i + u.read <= end /\ 2 * Len(u.bytes) <= u.read /\ Len(u.bytes) <= 4
<1> DEFINE first == Hex4(p, i + 2)
           second == Hex4(p, i + 8)
           both == 65536 + 1024 * (first % 1024) + (second % 1024)
           one == [read |-> 6, bytes |-> Utf8(first)]
           two == [read |-> 12, bytes |-> Utf8(both)]
           none == [read |-> 0, bytes |-> <<>>]
           u == Utf16(p, i, end)
<1>1. u = none \/ (u = one /\ end - i >= 6) \/ (u = two /\ end - i >= 12)
  BY DEF Utf16
<1>2. first \in Nat /\ first < 65536 /\ second \in Nat
  BY Hex4Fits
<1> HIDE DEF first, second
<1>3. both \in Nat
  BY <1>2
<1> HIDE DEF both
<1>4. Utf8(first) \in Seq(Output) /\ Len(Utf8(first)) <= 3 /\ Len(Utf8(first)) \in Nat
  BY <1>2, Utf8Fits
<1>5. Utf8(both) \in Seq(Output) /\ Len(Utf8(both)) <= 4 /\ Len(Utf8(both)) \in Nat
  BY <1>3, Utf8Fits
<1> HIDE DEF u
<1>6. CASE u = none
  BY <1>6 DEF u
<1>7. CASE u = one /\ end - i >= 6
  <2>1. u.read = 6 /\ u.bytes = Utf8(first)
    BY <1>7
  <2>2. i + u.read <= end /\ 2 * Len(u.bytes) <= u.read /\ Len(u.bytes) <= 4
    BY <1>4, <1>7, <2>1
  <2> QED BY <1>4, <2>1, <2>2 DEF u
<1>8. CASE u = two /\ end - i >= 12
  <2>1. u.read = 12 /\ u.bytes = Utf8(both)
    BY <1>8
  <2>2. i + u.read <= end /\ 2 * Len(u.bytes) <= u.read /\ Len(u.bytes) <= 4
    BY <1>5, <1>8, <2>1
  <2> QED BY <1>5, <2>1, <2>2 DEF u
<1> QED BY <1>1, <1>6, <1>7, <1>8

\* What one turn of the scan does.
LEMMA ScanStep ==
  ASSUME NEW content \in Seq(Bytes), NEW p, Fits(p, content), NEW s \in Stops(p)
  PROVE  /\ s.at \in Nat /\ s.skipped \in Nat /\ s.at >= 1 /\ s.at <= Ends(p).at
         /\ s.at = Ends(p).at => s = Ends(p)
         /\ s.at < Ends(p).at =>
              \E t \in Stops(p) :
                IF At(p, s.at) = Backslash THEN t.at = s.at + 2 /\ t.skipped = s.skipped + 1
                ELSE t.at = s.at + 1 /\ t.skipped = s.skipped
<1>1. p.content = content
  BY DEF Fits
<1>2. PICK n \in Nat : s = Scan(p)[n]
  BY DEF Stops
<1>3. /\ s \in Scans /\ s.at >= 1 /\ s.at <= Ends(p).at
      /\ ScanByte(p, s) = Scan(p)[n + 1]
      /\ ScanByte(p, s) = s => s = Ends(p)
      /\ s.at = Ends(p).at => s = Ends(p)
  BY <1>1, <1>2, ScanFacts DEF Ends
<1>4. s.at \in Nat /\ s.skipped \in Nat
  BY <1>3 DEF Scans
<1>5. ASSUME s.at < Ends(p).at
      PROVE  \E t \in Stops(p) :
                IF At(p, s.at) = Backslash THEN t.at = s.at + 2 /\ t.skipped = s.skipped + 1
                ELSE t.at = s.at + 1 /\ t.skipped = s.skipped
  <2>1. ScanByte(p, s) # s
    BY <1>3, <1>4, <1>5
  <2>2. ScanByte(p, s) \in Stops(p)
    <3>1. n + 1 \in Nat
      OBVIOUS
    <3> QED BY <1>3, <3>1 DEF Stops
  <2>3. IF At(p, s.at) = Backslash THEN ScanByte(p, s) = [at |-> s.at + 2, skipped |-> s.skipped + 1]
        ELSE ScanByte(p, s) = [s EXCEPT !.at = @ + 1]
    BY <2>1 DEF ScanByte
  <2>4. [s EXCEPT !.at = @ + 1].at = s.at + 1 /\ [s EXCEPT !.at = @ + 1].skipped = s.skipped
    BY <1>3 DEF Scans
  <2> DEFINE t == ScanByte(p, s)
  <2>5. IF At(p, s.at) = Backslash THEN t.at = s.at + 2 /\ t.skipped = s.skipped + 1
        ELSE t.at = s.at + 1 /\ t.skipped = s.skipped
    <3>1. CASE At(p, s.at) = Backslash
      <4>1. t = [at |-> s.at + 2, skipped |-> s.skipped + 1]
        BY <2>3, <3>1
      <4> HIDE DEF t
      <4> QED BY <3>1, <4>1
    <3>2. CASE At(p, s.at) # Backslash
      <4>1. t = [s EXCEPT !.at = @ + 1]
        BY <2>3, <3>2
      <4> HIDE DEF t
      <4> QED BY <2>4, <3>2, <4>1
    <3> HIDE DEF t
    <3> QED BY <3>1, <3>2
  <2> HIDE DEF t
  <2>6. t \in Stops(p)
    BY <2>2 DEF t
  <2> QED BY <2>5, <2>6
<1> QED BY <1>3, <1>4, <1>5

\* A backslash that is skipped comes with a byte that is not.
LEMMA HalfSkipped ==
  ASSUME NEW a \in Nat, NEW b \in Nat, NEW c \in Nat, NEW d \in Nat, 2 * (b - d) <= a - c
  PROVE  2 * ((b + 1) - d) <= (a + 2) - c /\ 2 * (b - d) <= (a + 1) - c
OBVIOUS

\* The scan stops at or behind any byte there is up to the quote, and of what
\* it passed no more than half were backslashes that it skipped.
LEMMA ScanReaches ==
  ASSUME NEW content \in Seq(Bytes), NEW p, Fits(p, content), NEW s \in Stops(p),
         NEW b \in Nat, s.at <= b, b <= Ends(p).at
  PROVE  \E t \in Stops(p) : t.at \in {b, b + 1} /\ 2 * (t.skipped - s.skipped) <= t.at - s.at
<1> DEFINE Reached(k, t) == /\ t.at \in {s.at + k, s.at + k + 1}
                            /\ 2 * (t.skipped - s.skipped) <= t.at - s.at
           T == {k \in Nat : s.at + k <= Ends(p).at => \E t \in Stops(p) : Reached(k, t)}
<1>1. s.at \in Nat /\ s.skipped \in Nat
  BY ScanStep
<1>2. Ends(p).at \in Nat
  BY ScanFacts DEF Ends, Fits, Scans
<1>3. 0 \in T
  BY <1>1
<1>4. ASSUME NEW k \in T
      PROVE  k + 1 \in T
  <2>1. k \in Nat /\ k + 1 \in Nat
    OBVIOUS
  <2>2. ASSUME s.at + (k + 1) <= Ends(p).at
        PROVE  \E t \in Stops(p) : Reached(k + 1, t)
    <3>1. s.at + k <= Ends(p).at
      BY <1>1, <1>2, <2>1, <2>2
    <3>2. PICK t \in Stops(p) : Reached(k, t)
      BY <3>1
    <3>3. t.at \in Nat /\ t.skipped \in Nat
      BY ScanStep
    <3>4. CASE t.at = s.at + k + 1
      <4>1. Reached(k + 1, t)
        BY <1>1, <2>1, <3>2, <3>3, <3>4
      <4> QED BY <4>1
    <3>5. CASE t.at = s.at + k
      <4>1. t.at < Ends(p).at
        BY <1>1, <1>2, <2>1, <2>2, <3>5
      <4>2. PICK u \in Stops(p) : IF At(p, t.at) = Backslash THEN u.at = t.at + 2 /\ u.skipped = t.skipped + 1
                                  ELSE u.at = t.at + 1 /\ u.skipped = t.skipped
        BY <4>1, ScanStep
      <4>3. u.at \in Nat /\ u.skipped \in Nat
        BY ScanStep
      <4>4. (u.at = t.at + 2 /\ u.skipped = t.skipped + 1) \/ (u.at = t.at + 1 /\ u.skipped = t.skipped)
        BY <4>2
      <4>5. 2 * (t.skipped - s.skipped) <= t.at - s.at
        BY <3>2
      <4>6. 2 * (u.skipped - s.skipped) <= u.at - s.at
        <5>1. CASE u.at = t.at + 2 /\ u.skipped = t.skipped + 1
          BY <1>1, <3>3, <4>5, <5>1, HalfSkipped
        <5>2. CASE u.at = t.at + 1 /\ u.skipped = t.skipped
          BY <1>1, <3>3, <4>5, <5>2, HalfSkipped
        <5> QED BY <4>4, <5>1, <5>2
      <4>7. u.at \in {s.at + (k + 1), s.at + (k + 1) + 1}
        BY <1>1, <2>1, <3>5, <4>4
      <4> QED BY <4>6, <4>7
    <3> QED BY <3>2, <3>4, <3>5
  <2> QED BY <2>1, <2>2
<1>5. T = Nat
  <2>1. T \in SUBSET Nat
    OBVIOUS
  <2> HIDE DEF T
  <2> QED BY <1>3, <1>4, <2>1, EveryTurn
<1>6. b - s.at \in Nat /\ s.at + (b - s.at) = b
  BY <1>1
<1>7. PICK t \in Stops(p) : Reached(b - s.at, t)
  BY <1>5, <1>6
<1> QED BY <1>6, <1>7
-----------------------------------------------------------------------------
(* Decoding it.                                                             *)

Decodings == [at : Nat, bytes : Seq(Output), outside : BOOLEAN]

\* What is written is covered by the estimate: a byte for each one read, less
\* the backslashes that the scan skipped up to there.  The loop may stand
\* between the two bytes of what the scan took for an escape, and it may end
\* one byte behind the closing quote.
Covered(p, at, length) ==
  \/ \E s \in Stops(p) : s.at \in {at, at + 1} /\ length + s.skipped <= at - 1
  \/ at = Ends(p).at + 1 /\ length + Ends(p).skipped <= Ends(p).at

Decodes(p, d) == d \in Decodings /\ d.at >= 1 /\ ~d.outside /\ Covered(p, d.at, Len(d.bytes))

\* Where the scan ends is one of its stops.
LEMMA EndFacts ==
  ASSUME NEW content \in Seq(Bytes), NEW p, Fits(p, content)
  PROVE  /\ Ends(p) \in Stops(p) /\ Ends(p).at \in Nat /\ Ends(p).skipped \in Nat
         /\ p.offset \in Nat /\ Len(content) \in Nat /\ p.content = content
<1>1. p.offset \in Nat /\ Len(content) \in Nat /\ p.content = content
  BY DEF Fits
<1>2. Ends(p) \in Stops(p)
  BY <1>1 DEF Ends, Stops
<1> QED BY <1>1, <1>2, ScanStep

\* A plain byte.
LEMMA ByteCovered ==
  ASSUME NEW content \in Seq(Bytes), NEW p, Fits(p, content), NEW at \in Nat, NEW length \in Nat,
         Covered(p, at, length), at < Ends(p).at, At(p, at) # Backslash
  PROVE  Covered(p, at + 1, length + 1)
<1>1. Ends(p).at \in Nat
  BY EndFacts
<1>2. PICK s \in Stops(p) : s.at \in {at, at + 1} /\ length + s.skipped <= at - 1
  BY <1>1 DEF Covered
<1>3. s.at \in Nat /\ s.skipped \in Nat
  BY ScanStep
<1>4. CASE s.at = at
  <2>1. PICK t \in Stops(p) : t.at = s.at + 1 /\ t.skipped = s.skipped
    BY <1>4, ScanStep
  <2>2. t.at \in {at + 1, (at + 1) + 1} /\ (length + 1) + t.skipped <= (at + 1) - 1
    BY <1>2, <1>3, <1>4, <2>1
  <2> QED BY <2>2 DEF Covered
<1>5. CASE s.at = at + 1
  <2>1. s.at \in {at + 1, (at + 1) + 1} /\ (length + 1) + s.skipped <= (at + 1) - 1
    BY <1>2, <1>3, <1>5
  <2> QED BY <2>1 DEF Covered
<1> QED BY <1>2, <1>4, <1>5

\* A backslash and the byte it escapes.
LEMMA EscapeCovered ==
  ASSUME NEW content \in Seq(Bytes), NEW p, Fits(p, content), NEW at \in Nat, NEW length \in Nat,
         Covered(p, at, length), at < Ends(p).at, At(p, at) = Backslash
  PROVE  Covered(p, at + 2, length + 1) /\ at + 2 <= Ends(p).at + 1
<1>1. Ends(p).at \in Nat /\ Ends(p).skipped \in Nat
  BY EndFacts
<1>2. PICK s \in Stops(p) : s.at \in {at, at + 1} /\ length + s.skipped <= at - 1
  BY <1>1 DEF Covered
<1>3. s.at \in Nat /\ s.skipped \in Nat /\ s.at <= Ends(p).at /\ (s.at = Ends(p).at => s = Ends(p))
  BY ScanStep
<1>4. CASE s.at = at
  <2>1. PICK t \in Stops(p) : t.at = s.at + 2 /\ t.skipped = s.skipped + 1
    BY <1>4, ScanStep
  <2>2. t.at \in {at + 2, (at + 2) + 1} /\ (length + 1) + t.skipped <= (at + 2) - 1
    BY <1>2, <1>3, <1>4, <2>1
  <2> QED BY <1>1, <2>2 DEF Covered
<1>5. CASE s.at = at + 1 /\ s.at = Ends(p).at
  <2>1. s = Ends(p)
    BY <1>3, <1>5
  <2>2. at + 2 = Ends(p).at + 1 /\ (length + 1) + Ends(p).skipped <= Ends(p).at
    BY <1>1, <1>2, <1>5, <2>1
  <2> QED BY <1>1, <2>2 DEF Covered
<1>6. CASE s.at = at + 1 /\ s.at # Ends(p).at
  <2>1. at + 2 \in Nat /\ s.at <= at + 2 /\ at + 2 <= Ends(p).at
    BY <1>1, <1>3, <1>6
  <2>2. PICK t \in Stops(p) : /\ t.at \in {at + 2, (at + 2) + 1}
                              /\ 2 * (t.skipped - s.skipped) <= t.at - s.at
    BY <2>1, ScanReaches
  <2>3. t.at \in Nat /\ t.skipped \in Nat
    BY ScanStep
  <2>4. 2 * (t.skipped - s.skipped) <= 2
    BY <1>3, <1>6, <2>2, <2>3
  <2>5. t.skipped <= s.skipped + 1
    BY <1>3, <2>3, <2>4
  <2>6. (length + 1) + t.skipped <= (at + 2) - 1
    BY <1>2, <1>3, <2>3, <2>5
  <2> QED BY <1>1, <2>1, <2>2, <2>6 DEF Covered
<1> QED BY <1>2, <1>4, <1>5, <1>6

\* A sequence of six or twelve bytes that writes half of them at most.
LEMMA SequenceCovered ==
  ASSUME NEW content \in Seq(Bytes), NEW p, Fits(p, content), NEW at \in Nat, NEW length \in Nat,
         Covered(p, at, length), NEW n \in {6, 12}, NEW more \in Nat, 2 * more <= n,
         at + n <= Ends(p).at
  PROVE  Covered(p, at + n, length + more)
<1>1. Ends(p).at \in Nat
  BY EndFacts
<1>2. PICK s \in Stops(p) : s.at \in {at, at + 1} /\ length + s.skipped <= at - 1
  BY <1>1 DEF Covered
<1>3. s.at \in Nat /\ s.skipped \in Nat
  BY ScanStep
<1>4. at + n \in Nat /\ s.at <= at + n
  BY <1>2
<1>5. PICK t \in Stops(p) : /\ t.at \in {at + n, (at + n) + 1}
                            /\ 2 * (t.skipped - s.skipped) <= t.at - s.at
  BY <1>4, ScanReaches
<1>6. t.at \in Nat /\ t.skipped \in Nat
  BY ScanStep
<1>7. 2 * (t.skipped - s.skipped) <= n + 1
  <2>1. t.at <= at + n + 1 /\ s.at >= at
    BY <1>2, <1>5
  <2>2. t.at - s.at <= n + 1
    BY <1>3, <1>6, <2>1
  <2> DEFINE d == t.skipped - s.skipped
             g == t.at - s.at
  <2>3. d \in Int /\ g \in Int
    BY <1>3, <1>6
  <2>4. 2 * d <= g /\ g <= n + 1
    BY <1>5, <2>2
  <2> HIDE DEF d, g
  <2>5. 2 * d <= n + 1
    BY <2>3, <2>4
  <2> QED BY <2>5 DEF d
<1>8. more + (t.skipped - s.skipped) <= n
  <2> DEFINE d == t.skipped - s.skipped
  <2>1. d \in Int /\ 2 * d <= n + 1
    BY <1>3, <1>6, <1>7
  <2> HIDE DEF d
  <2>2. more + d <= n
    BY <2>1
  <2> QED BY <2>2 DEF d
<1>9. (length + more) + t.skipped <= (at + n) - 1
  BY <1>2, <1>3, <1>6, <1>8
<1> QED BY <1>5, <1>9 DEF Covered

\* Every turn of the loop keeps it.
LEMMA DecodesNext ==
  ASSUME NEW content \in Seq(Bytes), NEW p, Fits(p, content), CanAccess(p, Ends(p).at),
         NEW d, Decodes(p, d)
  PROVE  Decodes(p, DecodeSequence(p, Ends(p).at, d))
<1> DEFINE e == Ends(p).at
           c == At(p, d.at + 1)
           code == Utf16(p, d.at, e)
           Takes(n, bytes) == [at |-> d.at + n, bytes |-> d.bytes \o bytes,
                               outside |-> d.outside \/ ~CanAccess(p, d.at + n - 1)]
           next == DecodeSequence(p, e, d)
<1>1. /\ e \in Nat /\ p.offset \in Nat /\ p.content = content /\ Len(content) \in Nat
      /\ p.offset + e < Len(content)
  BY EndFacts DEF CanAccess
<1>2. /\ d.at \in Nat /\ d.at >= 1 /\ d.bytes \in Seq(Output) /\ ~d.outside
      /\ Len(d.bytes) \in Nat /\ Covered(p, d.at, Len(d.bytes))
  BY DEF Decodes, Decodings
<1>3. ASSUME NEW n \in Nat, n >= 1, NEW bytes \in Seq(Output), d.at + n <= e + 1,
             Covered(p, d.at + n, Len(d.bytes) + Len(bytes))
      PROVE  Decodes(p, Takes(n, bytes))
  <2>1. CanAccess(p, d.at + n - 1)
    BY <1>1, <1>2, <1>3 DEF CanAccess
  <2>2. d.bytes \o bytes \in Seq(Output) /\ Len(d.bytes \o bytes) = Len(d.bytes) + Len(bytes)
    BY <1>2, <1>3
  <2>3. d.at + n \in Nat /\ d.at + n >= 1
    BY <1>2, <1>3
  <2>4. (d.outside \/ ~CanAccess(p, d.at + n - 1)) = FALSE
    BY <1>2, <2>1
  <2>5. Takes(n, bytes) = [at |-> d.at + n, bytes |-> d.bytes \o bytes, outside |-> FALSE]
    BY <2>4
  <2> QED BY <1>3, <2>2, <2>3, <2>5 DEF Decodes, Decodings
<1>4. CASE d.at >= e
  <2>1. next = d
    BY <1>4 DEF DecodeSequence
  <2> QED BY <2>1
<1>5. CASE d.at < e /\ At(p, d.at) # Backslash
  <2> DEFINE byte == At(p, d.at)
  <2>1. next = Takes(1, <<byte>>)
    BY <1>1, <1>2, <1>5 DEF DecodeSequence
  <2>2. byte \in Output
    BY <1>1, <1>2, <1>5 DEF At, Output
  <2> HIDE DEF byte
  <2>3. <<byte>> \in Seq(Output) /\ Len(<<byte>>) = 1
    BY <2>2
  <2>4. Covered(p, d.at + 1, Len(d.bytes) + Len(<<byte>>))
    BY <1>2, <1>5, <2>3, ByteCovered
  <2> HIDE DEF next, Takes, e
  <2>5. d.at + 1 <= e + 1 /\ 1 \in Nat /\ 1 >= 1
    BY <1>1, <1>2, <1>5
  <2>6. Decodes(p, Takes(1, <<byte>>))
    BY <1>3, <2>3, <2>4, <2>5, Zenon
  <2> QED BY <2>1, <2>6 DEF next, e
<1>6. CASE d.at < e /\ At(p, d.at) = Backslash
  <2>1. ASSUME NEW byte \in Output
        PROVE  Decodes(p, Takes(2, <<byte>>))
    <3>1. <<byte>> \in Seq(Output) /\ Len(<<byte>>) = 1
      OBVIOUS
    <3>2. Covered(p, d.at + 2, Len(d.bytes) + Len(<<byte>>)) /\ d.at + 2 <= e + 1
      BY <1>2, <1>6, <3>1, EscapeCovered
    <3>3. 2 \in Nat /\ 2 >= 1
      OBVIOUS
    <3> HIDE DEF Takes, e
    <3> QED BY <1>3, <3>1, <3>2, <3>3, Zenon
  <2>2. ASSUME code.read > 0
        PROVE  Decodes(p, Takes(code.read, code.bytes))
    <3>1. /\ code.read \in {6, 12} /\ code.bytes \in Seq(Output)
          /\ d.at + code.read <= e /\ 2 * Len(code.bytes) <= code.read
      <4> HIDE DEF e
      <4>1. code.read # 0
        BY <2>2
      <4> QED BY <1>1, <1>2, <4>1, Utf16Fits
    <3> HIDE DEF code, e
    <3>2. Len(code.bytes) \in Nat
      BY <3>1
    <3>3. Covered(p, d.at + code.read, Len(d.bytes) + Len(code.bytes))
      BY <1>2, <3>1, <3>2, SequenceCovered DEF e
    <3>4. code.read \in Nat /\ code.read >= 1 /\ d.at + code.read <= e + 1
      BY <1>1, <1>2, <3>1
    <3> HIDE DEF Takes
    <3> QED BY <1>3, <3>1, <3>3, <3>4, Zenon
  <2>3. c \in Output /\ "newline" \in Output
    BY <1>1, <1>2, <1>6 DEF At, Output
  <2>4. next = d \/ next = Takes(2, <<c>>) \/ next = Takes(2, <<"newline">>)
        \/ (code.read > 0 /\ next = Takes(code.read, code.bytes))
    BY <1>6 DEF DecodeSequence
  <2> HIDE DEF next, Takes, code, c
  <2> QED BY <2>1, <2>2, <2>3, <2>4 DEF next
<1> QED BY <1>1, <1>2, <1>4, <1>5, <1>6

\* The loop ends in or at the end of the literal, with no more bytes than the
\* estimate.
LEMMA DecodeFits ==
  ASSUME NEW content \in Seq(Bytes), NEW p, Fits(p, content), CanAccess(p, Ends(p).at)
  PROVE  LET done == Decode(p, Ends(p).at)[Ends(p).at]
         IN /\ done.at \in Nat /\ done.bytes \in Seq(Output) /\ ~done.outside
            /\ Len(done.bytes) <= Ends(p).at - Ends(p).skipped
<1> DEFINE e == Ends(p).at
           D == {d \in Decodings : Decodes(p, d)}
           start == [at |-> 1, bytes |-> <<>>, outside |-> FALSE]
           step == [d \in D |-> DecodeSequence(p, e, d)]
<1>1. e \in Nat /\ Ends(p).skipped \in Nat /\ Ends(p) \in Stops(p)
  BY EndFacts
<1>2. start \in D
  <2>1. Scan(p)[0] = [at |-> 1, skipped |-> 0]
    BY ScanLoop
  <2>2. Scan(p)[0] \in Stops(p)
    BY DEF Stops
  <2>3. Covered(p, 1, 0)
    BY <2>1, <2>2 DEF Covered
  <2>4. <<>> \in Seq(Output) /\ Len(<<>>) = 0
    OBVIOUS
  <2>5. start \in Decodings /\ start.at = 1 /\ start.bytes = <<>> /\ start.outside = FALSE
    BY <2>4 DEF Decodings
  <2> QED BY <2>3, <2>4, <2>5 DEF Decodes
<1>3. step \in [D -> D]
  <2>1. ASSUME NEW d \in D
        PROVE  DecodeSequence(p, e, d) \in D
    BY DecodesNext DEF Decodes
  <2> QED BY <2>1
<1> HIDE DEF D, start, step
<1>4. PICK f \in [Nat -> D] : f[0] = start /\ \A n \in Nat : n # 0 => f[n] = step[f[n - 1]]
  <2>1. \E f \in [Nat -> D] : f[0] = start /\ \A n \in Nat : n # 0 => f[n] = step[f[n - 1]]
    BY <1>2, <1>3, Loop, SMTT(60)
  <2> QED BY <2>1
<1>5. ASSUME NEW n \in Nat, n # 0
      PROVE  f[n] = DecodeSequence(p, e, f[n - 1])
  <2>1. n - 1 \in Nat /\ f[n - 1] \in D
    BY <1>4, <1>5
  <2> QED BY <1>4, <1>5, <2>1 DEF step
<1> DEFINE Is(w) == w = [n \in Nat |->
                          IF n = 0 THEN [at |-> 1, bytes |-> <<>>, outside |-> FALSE]
                          ELSE DecodeSequence(p, e, w[n - 1])]
           decode == CHOOSE w : Is(w)
<1> HIDE DEF e
<1>6. Is(f)
  BY <1>4, <1>5 DEF start
<1>7. Is(decode)
  BY <1>6
<1>8. Decode(p, e) = decode
  BY DEF Decode
<1> HIDE DEF decode
<1>9. decode[0] = start /\ \A n \in Nat : decode[n + 1] = DecodeSequence(p, e, decode[n])
  <2>1. decode[0] = start
    BY <1>7 DEF start
  <2>2. ASSUME NEW n \in Nat PROVE decode[n + 1] = DecodeSequence(p, e, decode[n])
    <3>1. n + 1 \in Nat /\ n + 1 # 0 /\ (n + 1) - 1 = n
      OBVIOUS
    <3> QED BY <1>7, <3>1
  <2> QED BY <2>1, <2>2
<1> DEFINE T == {n \in Nat : decode[n] \in D}
<1>10. T = Nat
  <2>1. 0 \in T
    BY <1>2, <1>9
  <2>2. ASSUME NEW n \in T PROVE n + 1 \in T
    <3>1. n \in Nat /\ decode[n] \in D /\ n + 1 \in Nat
      OBVIOUS
    <3>2. step[decode[n]] = decode[n + 1]
      BY <1>9, <3>1 DEF step
    <3> QED BY <1>3, <3>1, <3>2
  <2>3. T \in SUBSET Nat
    OBVIOUS
  <2> HIDE DEF T
  <2> QED BY <2>1, <2>2, <2>3, EveryTurn
<1> DEFINE done == decode[e]
<1>11. Decodes(p, done)
  BY <1>1, <1>10 DEF D, e
<1> HIDE DEF done
<1>12. /\ done.at \in Nat /\ done.at >= 1 /\ done.bytes \in Seq(Output) /\ ~done.outside /\ Len(done.bytes) \in Nat
       /\ Covered(p, done.at, Len(done.bytes))
  BY <1>11 DEF Decodes, Decodings
<1>13. Len(done.bytes) <= e - Ends(p).skipped
  <2>1. CASE done.at = e + 1 /\ Len(done.bytes) + Ends(p).skipped <= e
    BY <1>1, <1>12, <2>1
  <2>2. ASSUME NEW s \in Stops(p), s.at \in {done.at, done.at + 1},
               Len(done.bytes) + s.skipped <= done.at - 1
        PROVE  Len(done.bytes) <= e - Ends(p).skipped
    <3>1. s.at \in Nat /\ s.skipped \in Nat /\ s.at <= e
      BY ScanStep DEF e
    <3>2. PICK t \in Stops(p) : t.at \in {e, e + 1} /\ 2 * (t.skipped - s.skipped) <= t.at - s.at
      <4>1. e \in Nat /\ s.at <= e /\ e <= Ends(p).at
        BY <1>1, <3>1 DEF e
      <4> QED BY <4>1, ScanReaches
    <3>3. t = Ends(p)
      <4>1. t.at \in Nat /\ t.at <= e /\ (t.at = e => t = Ends(p))
        BY ScanStep DEF e
      <4> QED BY <1>1, <3>2, <4>1
    <3> DEFINE k == Ends(p).skipped - s.skipped
    <3>4. k \in Int /\ 2 * k <= e - s.at
      BY <1>1, <3>1, <3>2, <3>3 DEF e
    <3>5. e - done.at \in Nat /\ s.at >= done.at
      BY <1>1, <1>12, <2>2, <3>1
    <3>6. Ends(p).skipped = s.skipped + k
      BY <1>1, <3>1
    <3> HIDE DEF k
    <3>7. k <= e - done.at
      BY <1>1, <1>12, <3>1, <3>4, <3>5
    <3>8. done.at - 1 - s.skipped \in Int /\ Len(done.bytes) <= done.at - 1 - s.skipped
      BY <1>12, <2>2, <3>1
    <3>9. e - Ends(p).skipped >= done.at - s.skipped
      BY <1>1, <1>12, <3>1, <3>4, <3>6, <3>7
    <3> QED BY <1>1, <1>12, <3>1, <3>8, <3>9
  <2> QED BY <1>12, <2>1, <2>2 DEF Covered, e
<1> QED BY <1>8, <1>12, <1>13 DEF done, e
-----------------------------------------------------------------------------
(* Strings, keys, lists and values.                                         *)

\* A string ends behind its closing quote, or fails in front of it.
LEMMA StringFits ==
  ASSUME NEW content \in Seq(Bytes), NEW p, Fits(p, content), CanAccess(p, 0), NEW item
  PROVE  LET r == ParseString(p, item) IN Fits(r.p, content) /\ r.p.depth = p.depth
<1> DEFINE scan == Ends(p)
           done == Decode(p, scan.at)[scan.at]
           q == [p EXCEPT !.fuel = @ - 1,
                          !.outside = @ \/ done.outside \/ Len(done.bytes) > scan.at - scan.skipped]
           r == ParseString(p, item)
<1>1. /\ p \in Parsing /\ p.content = content /\ p.offset \in Nat /\ Len(content) \in Nat
      /\ p.offset < Len(content) /\ ~p.outside
  BY DEF Fits, CanAccess
<1>2. scan.at \in Nat /\ scan.skipped \in Nat
  BY EndFacts
<1>3. r = Scanned(p, item, scan)
  BY <1>1 DEF ParseString, Ends
<1> HIDE DEF scan, r
<1>4. CASE At(p, 0) # Quote \/ ~CanAccess(p, scan.at) \/ p.fuel = 0
  <2>1. r.p = Move(p, 1)
    BY <1>3, <1>4 DEF Scanned, Result
  <2>2. 1 \in Int /\ p.offset + 1 \in 0..Len(content)
    BY <1>1
  <2>3. Fits(Move(p, 1), content) /\ Move(p, 1).depth = p.depth
    BY <2>2, MoveFits
  <2> QED BY <2>1, <2>3 DEF r
<1>5. CASE CanAccess(p, scan.at) /\ p.fuel # 0 /\ ~(At(p, 0) # Quote \/ ~CanAccess(p, scan.at) \/ p.fuel = 0)
  <2>1. done.at \in Nat /\ ~done.outside /\ Len(done.bytes) <= scan.at - scan.skipped
    BY <1>5, DecodeFits DEF scan
  <2>2. r = Decoded(p, item, scan, done)
    BY <1>3, <1>5 DEF Scanned
  <2>3. p.offset + scan.at < Len(content)
    BY <1>1, <1>5 DEF CanAccess
  <2>4. q = [p EXCEPT !.fuel = @ - 1, !.outside = FALSE]
    <3> DEFINE over == Len(done.bytes) > scan.at - scan.skipped
    <3>1. ~over
      <4>1. done.bytes \in Seq(Output) /\ scan.at - scan.skipped \in Int
        BY <1>2, <1>5, DecodeFits DEF scan
      <4>2. Len(done.bytes) \in Nat
        BY <4>1
      <4> HIDE DEF done
      <4> QED BY <2>1, <4>1, <4>2
    <3> HIDE DEF over, done
    <3>2. (p.outside \/ done.outside \/ over) = FALSE
      BY <1>1, <2>1, <3>1
    <3> QED BY <3>2 DEF over
  <2>5. Fits(q, content) /\ q.offset = p.offset /\ q.depth = p.depth
    <3>1. p.fuel - 1 \in Nat
      BY <1>1, <1>5 DEF Parsing
    <3> HIDE DEF q
    <3> QED BY <1>1, <2>4, <3>1 DEF Fits, Parsing
  <2>6. IF done.at < scan.at THEN r.p = Move(q, done.at)
        ELSE r.p = [Move(q, scan.at + 1) EXCEPT !.blocks = @ + 1]
    <3> HIDE DEF done
    <3> QED BY <2>2 DEF Decoded, Result
  <2> HIDE DEF q, done
  <2>7. CASE done.at < scan.at
    <3>1. done.at \in Int /\ q.offset + done.at \in 0..Len(content)
      BY <1>1, <1>2, <2>1, <2>3, <2>5, <2>7
    <3> QED BY <2>5, <2>6, <2>7, <3>1, MoveFits DEF r
  <2>8. CASE ~(done.at < scan.at)
    <3> DEFINE t == Move(q, scan.at + 1)
    <3>1. scan.at + 1 \in Int /\ q.offset + (scan.at + 1) \in 0..Len(content)
      BY <1>1, <1>2, <2>3, <2>5
    <3>2. Fits(t, content) /\ t.depth = p.depth
      BY <2>5, <3>1, MoveFits
    <3> HIDE DEF t
    <3>3. Fits([t EXCEPT !.blocks = @ + 1], content) /\ [t EXCEPT !.blocks = @ + 1].depth = p.depth
      BY <3>2 DEF Fits, Parsing
    <3> QED BY <2>6, <2>8, <3>3 DEF t, r
  <2> QED BY <2>7, <2>8
<1> QED BY <1>4, <1>5

\* After a key comes the colon.
LEMMA KeyFits ==
  ASSUME NEW content \in Seq(Bytes), NEW p, Fits(p, content)
  PROVE  LET r == ParseKey(p)
         IN Fits(r.p, content) /\ r.p.depth = p.depth /\ (r.ok => CanAccess(r.p, 0))
<1> DEFINE inner == SkipWhitespace(Move(p, 1))
           name == ParseString(inner, Item("none"))
           q == SkipWhitespace(name.p)
           r == ParseKey(p)
<1>1. p.content = content /\ p.offset \in Nat /\ Len(content) \in Nat
  BY DEF Fits
<1>2. CASE ~CanAccess(p, 1)
  BY <1>2 DEF ParseKey, Result
<1>3. CASE CanAccess(p, 1)
  <2>1. 1 \in Int /\ p.offset + 1 \in 0..Len(content) /\ p.offset + 1 < Len(content)
    BY <1>1, <1>3 DEF CanAccess
  <2>2. Fits(Move(p, 1), content) /\ Move(p, 1).offset = p.offset + 1 /\ Move(p, 1).depth = p.depth
    BY <2>1, MoveFits
  <2>3. CanAccess(Move(p, 1), 0)
    <3>1. Move(p, 1).content = content
      BY <2>2 DEF Fits
    <3> QED BY <1>1, <2>1, <2>2, <3>1 DEF CanAccess
  <2>4. Fits(inner, content) /\ CanAccess(inner, 0) /\ inner.depth = p.depth
    BY <2>2, <2>3, SkipFits
  <2> HIDE DEF inner
  <2>5. Fits(name.p, content) /\ name.p.depth = p.depth
    BY <2>4, StringFits
  <2>6. IF name.ok THEN r.p = q /\ r.ok = Sees(q, ":") ELSE r = name
    BY <1>3 DEF ParseKey, Named, Result, inner
  <2> HIDE DEF name, r
  <2>7. Fits(q, content) /\ q.depth = p.depth
    BY <2>5, SkipFits
  <2> HIDE DEF q
  <2>8. CASE name.ok
    BY <2>6, <2>7, <2>8 DEF Sees, r
  <2>9. CASE ~name.ok
    BY <2>5, <2>6, <2>9 DEF r
  <2> QED BY <2>8, <2>9
<1> QED BY <1>2, <1>3

\* What the loop over the elements does from a byte in the text on.
Safe(elements, content) ==
  \A c \in Loops : Fits(c.p, content) /\ CanAccess(c.p, 0) =>
    /\ Fits(elements[c].p, content)
    /\ elements[c].ok => CanAccess(elements[c].p, 0) /\ elements[c].p.depth = c.p.depth

\* Closing a list takes one byte.
LEMMA ClosedFits ==
  ASSUME NEW content \in Seq(Bytes), NEW p, Fits(p, content), CanAccess(p, 0),
         NEW item, NEW kind, NEW kids
  PROVE  LET r == Closed(p, item, kind, kids) IN Fits(r.p, content) /\ r.p.depth = p.depth - 1
<1> DEFINE q == Move(p, 1)
<1>1. 1 \in Int /\ p.offset + 1 \in 0..Len(content)
  BY DEF Fits, CanAccess
<1>2. Fits(q, content) /\ q.depth = p.depth
  BY <1>1, MoveFits
<1>3. Closed(p, item, kind, kids).p = [q EXCEPT !.depth = @ - 1]
  BY DEF Closed, Result
<1> HIDE DEF q
<1>4. Fits([q EXCEPT !.depth = @ - 1], content) /\ [q EXCEPT !.depth = @ - 1].depth = p.depth - 1
  BY <1>2 DEF Fits, Parsing
<1> QED BY <1>3, <1>4

\* A list stays in the text when its elements do.
LEMMA ListFits ==
  ASSUME NEW content \in Seq(Bytes), NEW p, Fits(p, content), CanAccess(p, 0), NEW item,
         NEW kind \in {"array", "object"}, NEW elements, Safe(elements, content)
  PROVE  LET r == ParseList(elements, p, item, kind)
         IN Fits(r.p, content) /\ (r.ok => r.p.depth = p.depth)
<1> DEFINE t == Move(p, 1)
           q == [t EXCEPT !.depth = @ + 1]
           inner == SkipWhitespace(q)
           c == [p |-> Move(inner, -1), kind |-> kind]
           list == elements[c]
           r == ParseList(elements, p, item, kind)
<1>1. /\ p.content = content /\ p.offset \in Nat /\ Len(content) \in Nat /\ p.offset < Len(content)
      /\ p.depth \in Int /\ (p.depth + 1) - 1 = p.depth
  BY DEF Fits, CanAccess, Parsing
<1>2. Fits(t, content) /\ t.offset = p.offset + 1 /\ t.depth = p.depth
  <2>1. 1 \in Int /\ p.offset + 1 \in 0..Len(content)
    BY <1>1
  <2> QED BY <2>1, MoveFits
<1> HIDE DEF t
<1>3. Fits(q, content) /\ q.offset = p.offset + 1 /\ q.depth = p.depth + 1
  BY <1>2 DEF Fits, Parsing
<1> HIDE DEF q
<1>4. Fits(inner, content) /\ inner.offset >= p.offset + 1 /\ inner.depth = p.depth + 1
  BY <1>3, SkipFits
<1>5. \/ r.p = p /\ ~r.ok
      \/ Sees(inner, Close(kind)) /\ r = Closed(inner, item, kind, <<>>)
      \/ r.p = Move(inner, -1) /\ ~r.ok
      \/ CanAccess(inner, 0) /\ list.ok /\ r = Closed(list.p, item, kind, list.kids)
      \/ CanAccess(inner, 0) /\ ~list.ok /\ ~r.ok /\ r.p = list.p
  BY DEF ParseList, Failed, Result, q, t
<1> HIDE DEF inner, r
<1>6. /\ Fits(Move(inner, -1), content) /\ Move(inner, -1).offset = inner.offset - 1
      /\ Move(inner, -1).depth = p.depth + 1
  <2>1. inner.offset \in 0..Len(content)
    BY <1>4 DEF Fits
  <2>2. -1 \in Int /\ inner.offset + (-1) \in 0..Len(content) /\ inner.offset + (-1) = inner.offset - 1
    BY <1>1, <1>4, <2>1
  <2> QED BY <1>4, <2>2, MoveFits
<1>7. CASE r.p = p /\ ~r.ok
  BY <1>7 DEF r
<1>8. CASE Sees(inner, Close(kind)) /\ r = Closed(inner, item, kind, <<>>)
  BY <1>1, <1>4, <1>8, ClosedFits DEF r, Sees
<1>9. CASE r.p = Move(inner, -1) /\ ~r.ok
  BY <1>6, <1>9 DEF r
<1>10. c \in Loops /\ c.p = Move(inner, -1)
  BY <1>6 DEF Loops, Fits
<1>11. ASSUME CanAccess(inner, 0)
       PROVE  /\ Fits(list.p, content)
              /\ list.ok => CanAccess(list.p, 0) /\ list.p.depth = p.depth + 1
  <2>1. CanAccess(c.p, 0)
    <3>1. inner.content = content /\ inner.offset \in Nat /\ inner.offset < Len(content)
      BY <1>4, <1>11 DEF Fits, CanAccess
    <3>2. Move(inner, -1).content = content
      BY <1>6 DEF Fits
    <3>3. (inner.offset - 1) + 0 < Len(content)
      BY <1>1, <3>1
    <3> QED BY <1>6, <1>10, <3>2, <3>3 DEF CanAccess
  <2> HIDE DEF c
  <2> QED BY <1>6, <1>10, <2>1 DEF Safe
<1> HIDE DEF list
<1>12. CASE CanAccess(inner, 0) /\ list.ok /\ r = Closed(list.p, item, kind, list.kids)
  BY <1>1, <1>11, <1>12, ClosedFits DEF r
<1>13. CASE CanAccess(inner, 0) /\ ~list.ok /\ ~r.ok /\ r.p = list.p
  BY <1>11, <1>13 DEF r
<1> QED BY <1>5, <1>7, <1>8, <1>9, <1>12, <1>13

\* A value stays in the text, whatever it is.
LEMMA ValueFits ==
  ASSUME NEW content \in Seq(Bytes), NEW p, Fits(p, content), NEW item,
         NEW elements, Safe(elements, content)
  PROVE  LET r == ParseValue(elements, p, item)
         IN Fits(r.p, content) /\ (r.ok => r.p.depth = p.depth)
<1> DEFINE r == ParseValue(elements, p, item)
<1>1. \/ CanAccess(p, 3) /\ r.p = Move(p, 4)
      \/ CanAccess(p, 0) /\ r = ParseString(p, item)
      \/ CanAccess(p, 0) /\ r = ParseNumber(p, item)
      \/ CanAccess(p, 0) /\ r = ParseList(elements, p, item, "array")
      \/ CanAccess(p, 0) /\ r = ParseList(elements, p, item, "object")
      \/ r.p = p
  BY DEF ParseValue, Result, Sees
<1> HIDE DEF r
<1>2. CASE CanAccess(p, 3) /\ r.p = Move(p, 4)
  <2>1. 4 \in Int /\ p.offset + 4 \in 0..Len(content)
    BY <1>2 DEF Fits, CanAccess
  <2> QED BY <1>2, <2>1, MoveFits DEF r
<1>3. CASE CanAccess(p, 0) /\ r = ParseString(p, item)
  BY <1>3, StringFits DEF r
<1>4. CASE CanAccess(p, 0) /\ r = ParseNumber(p, item)
  BY <1>4, NumberFits DEF r
<1>5. CASE CanAccess(p, 0) /\ r = ParseList(elements, p, item, "array")
  BY <1>5, ListFits DEF r
<1>6. CASE CanAccess(p, 0) /\ r = ParseList(elements, p, item, "object")
  BY <1>6, ListFits DEF r
<1>7. CASE r.p = p
  BY <1>7 DEF r
<1> QED BY <1>1, <1>2, <1>3, <1>4, <1>5, <1>6, <1>7

\* One turn of the loop keeps what the turns after it keep.
LEMMA ElementFits ==
  ASSUME NEW content \in Seq(Bytes), NEW elements, Safe(elements, content),
         NEW c \in Loops, Fits(c.p, content), CanAccess(c.p, 0)
  PROVE  LET r == ParseElements(elements, c)
         IN Fits(r.p, content) /\ (r.ok => CanAccess(r.p, 0) /\ r.p.depth = c.p.depth)
<1> DEFINE name == IF c.kind = "object" THEN ParseKey(Allocate(c.p))
                   ELSE Result(TRUE, Allocate(c.p), Item("none"))
           value == ParseValue(elements, SkipWhitespace(Move(name.p, 1)), name.item)
           after == SkipWhitespace(value.p)
           d == [p |-> after, kind |-> c.kind]
           rest == elements[d]
           r == ParseElements(elements, c)
<1>1. \/ r.p = c.p /\ r.ok = FALSE
      \/ c.p.fuel # 0 /\ ~name.ok /\ r.p = name.p /\ r.ok = FALSE
      \/ c.p.fuel # 0 /\ name.ok /\ ~value.ok /\ r.p = value.p /\ r.ok = FALSE
      \/ c.p.fuel # 0 /\ name.ok /\ value.ok /\ Sees(after, ",") /\ r.p = rest.p /\ r.ok = rest.ok
      \/ c.p.fuel # 0 /\ name.ok /\ value.ok /\ r.p = after /\ r.ok = Sees(after, Close(c.kind))
  BY DEF ParseElements, List
<1> HIDE DEF r
<1>2. CASE r.p = c.p /\ r.ok = FALSE
  BY <1>2 DEF r
<1>3. ASSUME c.p.fuel # 0
      PROVE  /\ Fits(name.p, content) /\ name.p.depth = c.p.depth
             /\ name.ok => CanAccess(name.p, 0)
  <2> DEFINE q == Allocate(c.p)
  <2>1. Fits(q, content) /\ q.offset = c.p.offset /\ q.depth = c.p.depth
    BY <1>3, AllocateFits
  <2>2. CanAccess(q, 0)
    BY <2>1 DEF CanAccess, Fits
  <2> HIDE DEF q
  <2>3. CASE c.kind = "object"
    <3>1. name = ParseKey(q)
      BY <2>3 DEF q
    <3> QED BY <2>1, <3>1, KeyFits
  <2>4. CASE c.kind # "object"
    <3>1. name.p = q
      BY <2>4 DEF q, Result
    <3> QED BY <2>1, <2>2, <3>1
  <2> QED BY <2>3, <2>4
<1> HIDE DEF name
<1>4. ASSUME c.p.fuel # 0, name.ok
      PROVE  Fits(value.p, content) /\ (value.ok => value.p.depth = c.p.depth)
  <2>1. 1 \in Int /\ name.p.offset + 1 \in 0..Len(content)
    BY <1>3, <1>4 DEF Fits, CanAccess
  <2>2. Fits(Move(name.p, 1), content) /\ Move(name.p, 1).depth = c.p.depth
    BY <1>3, <1>4, <2>1, MoveFits
  <2>3. /\ Fits(SkipWhitespace(Move(name.p, 1)), content)
        /\ SkipWhitespace(Move(name.p, 1)).depth = c.p.depth
    BY <2>2, SkipFits
  <2> QED BY <2>3, ValueFits
<1> HIDE DEF value
<1>5. ASSUME c.p.fuel # 0, name.ok
      PROVE  Fits(after, content) /\ (value.ok => after.depth = c.p.depth)
  BY <1>4, <1>5, SkipFits
<1> HIDE DEF after
<1>6. ASSUME c.p.fuel # 0, name.ok, CanAccess(after, 0)
      PROVE  Fits(rest.p, content) /\ (rest.ok => CanAccess(rest.p, 0) /\ rest.p.depth = after.depth)
  <2>1. d \in Loops /\ d.p = after
    BY <1>5, <1>6 DEF Loops, Fits
  <2> HIDE DEF d
  <2> QED BY <1>5, <1>6, <2>1 DEF Safe
<1> HIDE DEF rest
<1>7. CASE c.p.fuel # 0 /\ ~name.ok /\ r.p = name.p /\ r.ok = FALSE
  BY <1>3, <1>7 DEF r
<1>8. CASE c.p.fuel # 0 /\ name.ok /\ ~value.ok /\ r.p = value.p /\ r.ok = FALSE
  BY <1>4, <1>8 DEF r
<1>9. CASE c.p.fuel # 0 /\ name.ok /\ value.ok /\ Sees(after, ",") /\ r.p = rest.p /\ r.ok = rest.ok
  BY <1>5, <1>6, <1>9 DEF r, Sees
<1>10. CASE c.p.fuel # 0 /\ name.ok /\ value.ok /\ r.p = after /\ r.ok = Sees(after, Close(c.kind))
  BY <1>5, <1>10 DEF r, Sees
<1> QED BY <1>1, <1>2, <1>7, <1>8, <1>9, <1>10
-----------------------------------------------------------------------------
(* Recursion, and the whole parse.                                          *)

\* With no allocation left, and with one more.
FirstElements == [c \in Loops |-> List(FALSE, c.p, <<>>, <<>>)]
MoreElements(elements) == [c \in Loops |-> ParseElements(elements, c)]

\* g is Elements for at most n allocations.
UpTo(g, n) ==
  /\ DOMAIN g = 0..n /\ g[0] = FirstElements
  /\ \A i \in 0..n : i # 0 => g[i] = MoreElements(g[i - 1])

\* There is one for any number of them.
LEMMA UpToExists == \A n \in Nat : \E g : UpTo(g, n)
<1> DEFINE T == {n \in Nat : \E g : UpTo(g, n)}
<1>1. 0 \in T
  <2>1. UpTo([i \in 0..0 |-> FirstElements], 0)
    BY DEF UpTo
  <2> QED BY <2>1
<1>2. ASSUME NEW n \in T
      PROVE  n + 1 \in T
  <2>1. PICK g : UpTo(g, n)
    OBVIOUS
  <2> DEFINE h == [i \in 0..(n + 1) |-> IF i = n + 1 THEN MoreElements(g[n]) ELSE g[i]]
  <2>2. UpTo(h, n + 1)
    BY <2>1 DEF UpTo
  <2> QED BY <2>2
<1>3. T = Nat
  <2>1. T \in SUBSET Nat
    OBVIOUS
  <2> HIDE DEF T
  <2> QED BY <1>1, <1>2, <2>1, EveryTurn
<1> QED BY <1>3

\* With more allocations it begins with the same.
LEMMA UpToAgree ==
  ASSUME NEW n \in Nat, NEW m \in Nat, n <= m, NEW g, NEW h, UpTo(g, n), UpTo(h, m)
  PROVE  \A i \in 0..n : g[i] = h[i]
<1> DEFINE T == {i \in 0..n : g[i] # h[i]}
<1> SUFFICES ASSUME T # {} PROVE FALSE
  OBVIOUS
<1>1. PICK i \in T : \A j \in T : i <= j
  <2>1. T \in SUBSET Nat
    OBVIOUS
  <2> QED BY <2>1, LeastNatural
<1>2. i \in 0..n /\ g[i] # h[i] /\ i # 0
  BY <1>1 DEF UpTo
<1>3. i - 1 \in 0..n /\ i - 1 \notin T /\ i \in 0..m
  BY <1>1, <1>2
<1>4. g[i - 1] = h[i - 1]
  BY <1>3
<1> QED BY <1>2, <1>3, <1>4 DEF UpTo

\* Elements takes one turn more with each allocation.
LEMMA ElementsTurns ==
  /\ Elements[0] = FirstElements
  /\ \A n \in Nat : Elements[n + 1] = MoreElements(Elements[n])
<1> DEFINE part(n) == CHOOSE g : UpTo(g, n)
           f == [n \in Nat |-> part(n)[n]]
           Is(w) == w = [n \in Nat |->
                          IF n = 0 THEN [c \in Loops |-> List(FALSE, c.p, <<>>, <<>>)]
                          ELSE [c \in Loops |-> ParseElements(w[n - 1], c)]]
           elements == CHOOSE w : Is(w)
<1>1. \A n \in Nat : UpTo(part(n), n)
  BY UpToExists
<1> HIDE DEF part
<1>2. f[0] = FirstElements
  BY <1>1 DEF UpTo
<1>3. ASSUME NEW n \in Nat, n # 0
      PROVE  f[n] = MoreElements(f[n - 1])
  <2>1. n - 1 \in Nat /\ n - 1 <= n
    BY <1>3
  <2>2. part(n)[n - 1] = part(n - 1)[n - 1]
    BY <2>1, <1>1, UpToAgree
  <2>3. part(n)[n] = MoreElements(part(n)[n - 1])
    BY <1>1, <1>3, n \in 0..n DEF UpTo
  <2> QED BY <2>1, <2>2, <2>3
<1>4. Is(f)
  BY <1>2, <1>3 DEF FirstElements, MoreElements
<1> HIDE DEF f
<1>5. Is(elements)
  BY <1>4
<1>6. Elements = elements
  BY DEF Elements
<1> HIDE DEF elements
<1>7. elements[0] = FirstElements
  BY <1>5 DEF FirstElements
<1>8. ASSUME NEW n \in Nat
      PROVE  elements[n + 1] = MoreElements(elements[n])
  <2>1. n + 1 \in Nat /\ n + 1 # 0 /\ (n + 1) - 1 = n
    OBVIOUS
  <2> QED BY <1>5, <2>1 DEF MoreElements
<1> QED BY <1>6, <1>7, <1>8

\* However many elements a list has.
LEMMA ElementsFit ==
  ASSUME NEW content \in Seq(Bytes)
  PROVE  \A n \in Nat : Safe(Elements[n], content)
<1> DEFINE T == {n \in Nat : Safe(Elements[n], content)}
<1>1. 0 \in T
  <2>1. \A c \in Loops : Elements[0][c].p = c.p /\ Elements[0][c].ok = FALSE
    BY ElementsTurns DEF FirstElements, List
  <2>2. Safe(Elements[0], content)
    BY <2>1 DEF Safe
  <2> QED BY <2>2
<1>2. ASSUME NEW n \in T
      PROVE  n + 1 \in T
  <2>1. n \in Nat /\ n + 1 \in Nat /\ Safe(Elements[n], content)
    OBVIOUS
  <2>2. \A c \in Loops : Elements[n + 1][c] = ParseElements(Elements[n], c)
    BY <2>1, ElementsTurns DEF MoreElements
  <2>3. Safe(Elements[n + 1], content)
    BY <2>1, <2>2, ElementFits DEF Safe
  <2> QED BY <2>1, <2>3
<1>3. T = Nat
  <2>1. T \in SUBSET Nat
    OBVIOUS
  <2> HIDE DEF T
  <2> QED BY <1>1, <1>2, <2>1, EveryTurn
<1> QED BY <1>3

\* Whatever bytes the text is made of, however long and deep it is and
\* whichever allocation fails, cJSON_ParseWithLengthOpts reads nothing behind
\* it and writes nothing behind the block of a string, and has counted the depth
\* down again as often as up when it succeeds (parse_array, parse_object).
THEOREM ParseCorrect ==
  ASSUME NEW content \in Seq(Bytes), NEW strict \in BOOLEAN, NEW fuel \in Nat
  PROVE  LET r == Parse(content, strict, fuel)
         IN Inside(r, content) /\ (r.ok => r.p.depth = 0)
<1> DEFINE start == [content |-> content, offset |-> 0, depth |-> 0, fuel |-> fuel, blocks |-> 0,
                     outside |-> FALSE]
           first == Allocate(start)
           bom == SkipBom(first)
           value == ParseValue(Elements[fuel], SkipWhitespace(bom), Item("none"))
           r == Parse(content, strict, fuel)
<1>1. Fits(start, content) /\ start.offset = 0 /\ start.fuel = fuel /\ start.depth = 0
  BY DEF Fits, Parsing
<1> HIDE DEF start
<1>2. \/ r.p = start
      \/ /\ fuel # 0 /\ (r.p = value.p \/ r.p = SkipWhitespace(value.p))
         /\ r.ok => value.ok
  BY DEF Parse, Result, start
<1> HIDE DEF r
<1>3. ASSUME fuel # 0
      PROVE  Fits(value.p, content) /\ (value.ok => value.p.depth = 0)
  <2>1. Fits(first, content) /\ first.offset = 0 /\ first.depth = 0
    BY <1>1, <1>3, AllocateFits
  <2> HIDE DEF first
  <2>2. Fits(bom, content) /\ bom.depth = 0
    BY <2>1, BomFits
  <2> HIDE DEF bom
  <2>3. Fits(SkipWhitespace(bom), content) /\ SkipWhitespace(bom).depth = 0
    BY <2>2, SkipFits
  <2> QED BY <2>3, ElementsFit, ValueFits
<1> HIDE DEF value
<1>4. Fits(r.p, content) /\ (r.ok => r.p.depth = 0)
  BY <1>1, <1>2, <1>3, SkipFits
<1> QED BY <1>4 DEF Fits, Inside, r

\* A body of any length that came in any pieces: the parser reads and writes
\* only what it may (httpc_parse_json).
THEOREM ParsesInside == BodySpec => []ReadsInside
<1> USE ParserAssumption, WordsAssumption
<1> DEFINE Text == input \in Seq(Bytes)
<1>1. BodyInit => Text
  BY DEF BodyInit
<1>2. Text /\ [BodyNext]_input => Text'
  <2> SUFFICES ASSUME Text, [BodyNext]_input
               PROVE  Text'
    OBVIOUS
  <2>1. ASSUME NEW word \in Words \cup Starts, Arrive(word)
        PROVE  Text'
    <3>1. word \in Seq(Bytes)
      OBVIOUS
    <3> QED BY <2>1, <3>1 DEF Arrive
  <2>2. CASE Taken
    BY <2>2 DEF Taken
  <2>3. CASE UNCHANGED input
    BY <2>3
  <2> QED BY <2>1, <2>2, <2>3 DEF BodyNext
<1>3. Text => ReadsInside
  <2> SUFFICES ASSUME Text PROVE ReadsInside
    OBVIOUS
  <2>1. Terminated(input) \in Seq(Bytes)
    BY DEF Terminated
  <2>2. Plenty \in Nat
    BY DEF Plenty
  <2> QED BY <2>1, <2>2, ParseCorrect DEF ReadsInside, Contents
<1> QED BY <1>1, <1>2, <1>3, PTL DEF BodySpec
-----------------------------------------------------------------------------
(* The serialisers.                                                         *)

USE TextsAssumption

\* A length is a number, and what is left to write is this part and the rest.
LEMMA RestOfParts ==
  ASSUME NEW r \in Responses, NEW program \in Programs, NEW part \in 1..8
  PROVE  /\ Closing(r) \in Nat
         /\ Length(r, program, part) \in Nat
         /\ Rest(r, program, part + 1) \in Nat
         /\ Rest(r, program, part) = Length(r, program, part) + Rest(r, program, part + 1)
         /\ part <= 4 => Rest(r, program, part + 1) >= 2
<1>1. r.status \in Nat /\ r.type \in Nat /\ r.digits \in Nat /\ r.connection \in Nat
        /\ r.headers \in Nat /\ r.body \in Nat /\ r.newline \in BOOLEAN
  BY DEF Responses
<1>2. Closing(r) \in Nat
  BY <1>1 DEF Closing
<1> QED BY <1>1, <1>2 DEF Length, Rest

\* The computed size is that of all parts and the unused bytes.
LEMMA TotalIsRest ==
  ASSUME NEW r \in Responses, NEW program \in Programs
  PROVE  /\ TotalSize(r, program) \in Nat
         /\ TotalSize(r, program) = Rest(r, program, 1) + Unused(program)
<1>1. r.status \in Nat /\ r.type \in Nat /\ r.digits \in Nat /\ r.connection \in Nat
        /\ r.headers \in Nat /\ r.body \in Nat /\ r.newline \in BOOLEAN
  BY DEF Responses
<1>2. Closing(r) \in Nat
  BY <1>1 DEF Closing
<1> QED BY <1>1, <1>2 DEF TotalSize, Rest, Unused, Programs

Outs == [program : Programs \cup {"none", "gave up", "whole"}, part : 0..9,
         total : Nat, remaining : Nat, at : Nat]

\* The invariant holds at first.
LEMMA InitBuffer == BufferInit => BufferInvariant
<1> SUFFICES ASSUME BufferInit
             PROVE  BufferInvariant
  OBVIOUS
<1>1. response \in Responses /\ response.headers = 0 /\ out = Idle
  BY DEF BufferInit
<1>2. BufferTypeOK
  BY <1>1 DEF BufferTypeOK, Idle, Programs
<1>3. out.program = "none" /\ out.part = 0
  BY <1>1 DEF Idle
<1> QED BY <1>1, <1>2, <1>3
         DEF BufferInvariant, SizesAgree, WritesInside, WorkAhead, WholeText, Programs

\* Each action keeps the invariant.
LEMMA NextBuffer == BufferInvariant /\ [BufferNext]_bufferVars => BufferInvariant'
<1> SUFFICES ASSUME BufferInvariant, [BufferNext]_bufferVars
             PROVE  BufferInvariant'
  OBVIOUS
<1>t. /\ response \in Responses /\ out \in Outs
      /\ out.part \in 0..9 /\ out.total \in Nat /\ out.remaining \in Nat /\ out.at \in Nat
  BY DEF BufferInvariant, BufferTypeOK, Outs
<1>r. /\ response.headers \in Nat /\ response.room \in Nat /\ response.body \in Nat
      /\ Closing(response) \in Nat
  BY <1>t DEF Responses, Closing
<1>1. CASE NewResponse
  <2>1. out' = out /\ out.program = "none" /\ response' \in Responses
    BY <1>1 DEF NewResponse
  <2> QED BY <1>1, <2>1 DEF NewResponse, BufferInvariant, BufferTypeOK, SizesAgree, WritesInside,
                            WorkAhead, WholeText, Programs
<1>2. ASSUME NEW key \in Texts, NEW value \in Texts, SetHeader(key, value)
      PROVE  BufferInvariant'
  <2>1. key \in Nat /\ value \in Nat
    OBVIOUS
  <2> DEFINE longer == response.headers + key + value + 4
  <2>2. longer \in Nat /\ longer < longer + 1
    BY <1>r, <2>1
  <2> HIDE DEF longer
  <2>3. response' = [response EXCEPT !.headers = longer, !.newline = TRUE, !.room = longer + 1]
    BY <1>2 DEF SetHeader, longer
  <2>4. response' \in Responses
    <3>1. [response EXCEPT !.headers = longer] \in Responses
      BY <1>t, <2>2 DEF Responses
    <3>2. ASSUME NEW r \in Responses
          PROVE  [r EXCEPT !.newline = TRUE] \in Responses
      BY Zenon DEF Responses
    <3>3. ASSUME NEW r \in Responses
          PROVE  [r EXCEPT !.room = longer + 1] \in Responses
      <4>1. longer + 1 \in Nat
        BY <2>2
      <4> QED BY <4>1 DEF Responses
    <3> QED BY <2>3, <3>1, <3>2, <3>3
  <2>5. response'.headers = longer /\ response'.room = longer + 1
    BY <1>t, <2>3 DEF Responses
  <2>6. out' = out /\ out.program = "none"
    BY <1>2 DEF SetHeader
  <2> QED BY <2>2, <2>4, <2>5, <2>6 DEF BufferInvariant, BufferTypeOK, SizesAgree, WritesInside,
                                       WorkAhead, WholeText, Programs
<1>3. ASSUME NEW program \in Programs, Begin(program)
      PROVE  BufferInvariant'
  <2> DEFINE total == TotalSize(response, program)
  <2>1. total \in Nat /\ total = Rest(response, program, 1) + Unused(program)
    BY <1>t, TotalIsRest
  <2>2. response' = response
        /\ out' = [program |-> program, part |-> 1, total |-> total, remaining |-> total, at |-> 0]
    BY <1>3 DEF Begin
  <2>3. /\ out'.program = program /\ out'.part = 1 /\ out'.total = total
        /\ out'.remaining = total /\ out'.at = 0
    BY <2>2
  <2>4. out' \in Outs
    <3> HIDE DEF total
    <3>1. total \in Nat
      BY <2>1
    <3>2. program \in Programs \cup {"none", "gave up", "whole"}
      BY Zenon
    <3>3. 1 \in 0..9 /\ 0 \in Nat
      BY SMT
    <3> QED BY <2>2, <3>1, <3>2, <3>3 DEF Outs
  <2>5. BufferTypeOK'
    BY <1>t, <2>2, <2>4 DEF BufferTypeOK, Outs
  <2>6. WorkAhead'
    BY <2>1, <2>2, <2>3 DEF WorkAhead
  <2>7. WritesInside'
    BY <2>1, <2>2, <2>3 DEF WritesInside, BufferInvariant
  <2> QED BY <2>3, <2>5, <2>6, <2>7 DEF BufferInvariant, SizesAgree, WholeText, Programs
<1>4. CASE WritePart
  <2> DEFINE length == Length(response, out.program, out.part)
             rest == Rest(response, out.program, out.part + 1)
  <2>1. out.program \in Programs /\ out.part \in 1..8 /\ response' = response
    BY <1>4 DEF WritePart
  <2>2. /\ length \in Nat /\ rest \in Nat
        /\ Rest(response, out.program, out.part) = length + rest
        /\ out.part <= 4 => rest >= 2
    BY <1>t, <2>1, RestOfParts
  <2>3. Unused(out.program) \in Nat
    BY DEF Unused
  <2>4. out.remaining = length + rest + Unused(out.program)
        /\ out.total = TotalSize(response, out.program)
    BY <2>1, <2>2, <2>3 DEF BufferInvariant, WorkAhead
  <2> HIDE DEF length, rest
  <2>5. Enough(out.part, length, out.remaining)
    BY <2>1, <2>2, <2>3, <2>4 DEF Enough
  <2>6. out' = [out EXCEPT !.part = @ + 1, !.at = @ + length, !.remaining = @ - length]
    BY <1>4, <2>5 DEF WritePart, length
  <2>7. /\ out'.program = out.program /\ out'.total = out.total
        /\ out'.part = out.part + 1 /\ out'.at = out.at + length
        /\ out'.remaining = out.remaining - length
    BY <1>t, <2>6 DEF Outs
  <2>8. out.remaining - length \in Nat /\ out.at + length \in Nat /\ out.part + 1 \in 0..9
    BY <1>t, <2>1, <2>2, <2>3, <2>4
  <2>9. out' \in Outs
    BY <1>t, <2>6, <2>8 DEF Outs
  <2>10. WritesInside'
    BY <1>t, <2>1, <2>2, <2>7, <2>8 DEF BufferInvariant, WritesInside, Programs
  <2>11. WorkAhead'
    BY <1>t, <2>1, <2>2, <2>3, <2>4, <2>7 DEF WorkAhead, rest
  <2>12. BufferTypeOK'
    BY <1>t, <2>1, <2>9 DEF BufferTypeOK, Outs
  <2> QED BY <2>1, <2>7, <2>10, <2>11, <2>12 DEF BufferInvariant, SizesAgree, WholeText, Programs
<1>5. CASE AddBody
  <2>1. response' = response /\ out.program = "headers" /\ out.part = 9
    BY <1>5 DEF AddBody
  <2>2. /\ response.status \in Nat /\ response.type \in Nat /\ response.digits \in Nat
        /\ response.connection \in Nat
    BY <1>t DEF Responses
  <2>3. out.remaining = 0 /\ out.total = Rest(response, "headers", 1)
    <3>1. out.remaining = Rest(response, "headers", 9) + 0 /\ out.total = TotalSize(response, "headers")
      BY <2>1 DEF BufferInvariant, WorkAhead, Programs, Unused
    <3>2. TotalSize(response, "headers") = Rest(response, "headers", 1) + 0
      BY <1>t, TotalIsRest DEF Programs, Unused
    <3>3. Rest(response, "headers", 9) = 0
      BY DEF Rest
    <3>4. Rest(response, "headers", 1) \in Nat
      BY <1>r, <2>2 DEF Rest
    <3> QED BY <3>1, <3>2, <3>3, <3>4
  <2>4. out.at = out.total
    BY <1>t, <2>1, <2>3 DEF BufferInvariant, WritesInside
  <2> DEFINE whole == out.at + response.body
  <2>5. whole = Rest(response, "string", 1) /\ whole \in Nat
    BY <1>t, <1>r, <2>2, <2>3, <2>4 DEF Rest
  <2> HIDE DEF whole
  <2>6. out' = [program |-> "whole", part |-> 9, total |-> whole, remaining |-> 0, at |-> whole]
    BY <1>5 DEF AddBody, whole
  <2>7. /\ out'.program = "whole" /\ out'.part = 9 /\ out'.total = whole
        /\ out'.remaining = 0 /\ out'.at = whole
    BY <2>6
  <2>8. out' \in Outs
    BY <2>5, <2>6 DEF Outs
  <2>9. BufferTypeOK'
    BY <1>t, <2>1, <2>8 DEF BufferTypeOK, Outs
  <2>10. WritesInside'
    BY <2>1, <2>5, <2>7 DEF BufferInvariant, WritesInside
  <2> QED BY <2>1, <2>5, <2>7, <2>9, <2>10 DEF BufferInvariant, SizesAgree, WorkAhead, WholeText, Programs
<1>6. CASE Release
  <2>1. out' = Idle /\ response' = response
    BY <1>6 DEF Release
  <2>2. out'.program = "none" /\ out'.part = 0 /\ out' \in Outs
    BY <2>1 DEF Idle, Outs
  <2>3. BufferTypeOK'
    BY <1>t, <2>1, <2>2 DEF BufferTypeOK, Outs
  <2> QED BY <2>1, <2>2, <2>3 DEF BufferInvariant, SizesAgree, WritesInside, WorkAhead, WholeText, Programs
<1>7. CASE UNCHANGED bufferVars
  BY <1>7 DEF bufferVars, BufferInvariant, BufferTypeOK, SizesAgree, WritesInside, WorkAhead, WholeText
<1> QED BY <1>1, <1>2, <1>3, <1>4, <1>5, <1>6, <1>7 DEF BufferNext

\* The invariant holds in every behaviour.
LEMMA BufferHolds == BufferSpec => []BufferInvariant
<1> QED BY InitBuffer, NextBuffer, PTL DEF BufferSpec

\* No check of the serialisers fails, for responses of any size
\* (httpc_response_to_string, httpc_build_headers).
THEOREM SizesSuffice == BufferSpec => []SizesAgree
<1>1. BufferInvariant => SizesAgree
  BY DEF BufferInvariant
<1> QED BY <1>1, BufferHolds, PTL

\* No byte is written behind a buffer (response.c:201-249, 108-154, 254-290).
THEOREM NoOverrun == BufferSpec => []WritesInside
<1>1. BufferInvariant => WritesInside
  BY DEF BufferInvariant
<1> QED BY <1>1, BufferHolds, PTL

\* Nothing of a response is cut off (httpc_response_to_string, build_response).
THEOREM NothingCut == BufferSpec => []TextComplete
<1>1. ASSUME BufferInvariant, out.part = 9
      PROVE  TextComplete
  <2>t. response \in Responses /\ out.at \in Nat /\ out.total \in Nat /\ out.remaining \in Nat
    BY <1>1 DEF BufferInvariant, BufferTypeOK
  <2>r. /\ response.body \in Nat /\ response.status \in Nat /\ response.type \in Nat
        /\ response.digits \in Nat /\ response.connection \in Nat /\ response.headers \in Nat
        /\ Closing(response) \in Nat
    BY <2>t DEF Responses, Closing
  <2>1. CASE out.program \in Programs
    <3> DEFINE program == out.program
    <3>1. out.remaining = Rest(response, program, 9) + Unused(program)
          /\ out.total = TotalSize(response, program)
      BY <1>1, <2>1 DEF BufferInvariant, WorkAhead
    <3>2. TotalSize(response, program) = Rest(response, program, 1) + Unused(program)
      BY <2>t, <2>1, TotalIsRest
    <3>3. Rest(response, program, 9) = 0 /\ Unused(program) \in Nat
      BY DEF Rest, Unused
    <3>4. out.at + out.remaining = out.total
      BY <1>1, <2>1 DEF BufferInvariant, WritesInside, Programs
    <3>5. Rest(response, program, 1) \in Nat
      BY <2>r DEF Rest
    <3>6. out.at = Rest(response, program, 1)
      BY <2>t, <3>1, <3>2, <3>3, <3>4, <3>5
    <3> QED BY <2>r, <2>1, <3>6 DEF TextComplete, Rest, Programs
  <2>2. CASE out.program = "whole"
    <3>1. out.at = Rest(response, "string", 1)
      BY <1>1, <2>2 DEF BufferInvariant, WholeText
    <3> QED BY <2>r, <2>2, <3>1 DEF TextComplete, Rest
  <2>3. out.program # "none" /\ out.program # "gave up"
    <3>1. out.program = "none" => out.part = 0
      BY <1>1 DEF BufferInvariant, WholeText
    <3>2. out.program # "gave up"
      BY <1>1 DEF BufferInvariant, SizesAgree
    <3>3. out.part # 0
      BY <1>1
    <3> QED BY <3>1, <3>2, <3>3
  <2> QED BY <1>1, <2>1, <2>2, <2>3 DEF BufferInvariant, BufferTypeOK
<1>2. BufferInvariant => TextComplete
  BY <1>1 DEF TextComplete
<1> QED BY <1>2, BufferHolds, PTL

\* For texts of any length: the three together (response.c:95-290).
THEOREM AnswersWhole == BufferSpec => []WholeAnswer
<1>1. SizesAgree /\ WritesInside /\ TextComplete => WholeAnswer
  BY DEF WholeAnswer
<1> QED BY <1>1, SizesSuffice, NoOverrun, NothingCut, PTL
=============================================================================
