---------------------------- MODULE JsonHeapProofs ----------------------------
(***************************************************************************)
(* Heaps that hold a forest, and what the functions of cJSON.c do to one.  *)
(* Good: the links are those of a forest, memory that is not allocated is  *)
(* blank, and the texts are those the items own.  Sound: moreover the      *)
(* caller holds the roots, but for the references that get lost.  Under    *)
(* these, cJSON_Delete frees exactly the tree of a root; each function     *)
(* that makes an item makes a leaf or changes nothing; and the theorems    *)
(* about one list in a heap of three fields, which come first, hold of a   *)
(* list in a forest.                                                       *)
(***************************************************************************)
EXTENDS JsonTree, TurnTheorems, FiniteSetTheorems

-----------------------------------------------------------------------------
(* The relinking functions keep a list whole, whatever its length and      *)
(* whichever of its items they are given.                                  *)

\* What a sequence with one more item at its end holds, and where.
LEMMA AppendedFacts ==
  ASSUME NEW s \in Seq(Items), NEW x \in Items, ~Among(x, s),
         \A i, j \in 1..Len(s) : s[i] = s[j] => i = j
  PROVE  /\ Appended(s, x) \in Seq(Items)
         /\ Len(Appended(s, x)) = Len(s) + 1
         /\ \A i \in 1..Len(s) : Appended(s, x)[i] = s[i] /\ s[i] # x
         /\ Appended(s, x)[Len(s) + 1] = x
         /\ \A i, j \in 1..Len(Appended(s, x)) : Appended(s, x)[i] = Appended(s, x)[j] => i = j
<1> DEFINE n == Len(s)
           t == Appended(s, x)
<1>1. n \in Nat /\ \A i \in 1..n : s[i] \in Items /\ s[i] # x
  BY DEF Among
<1>2. t \in Seq(Items) /\ Len(t) = n + 1 /\ t[n + 1] = x /\ \A i \in 1..n : t[i] = s[i]
  BY <1>1 DEF Appended
<1> HIDE DEF t, n
<1>3. ASSUME NEW i \in 1..(n + 1), NEW j \in 1..(n + 1), t[i] = t[j]
      PROVE  i = j
  <2>1. CASE i <= n /\ j <= n
    BY <2>1, <1>1, <1>2, <1>3 DEF n
  <2>2. CASE i = n + 1 /\ j <= n
    BY <2>2, <1>1, <1>2, <1>3
  <2>3. CASE i <= n /\ j = n + 1
    BY <2>3, <1>1, <1>2, <1>3
  <2> QED BY <2>1, <2>2, <2>3, <1>1
<1> QED BY <1>1, <1>2, <1>3 DEF n, t

\* Appending an item that is in no list (cJSON_AddItemToArray).
THEOREM AppendCorrect ==
  ASSUME NEW h \in Heaps, NEW p \in Items, NEW s, NEW x \in Items,
         Represents(h, p, s), Loose(h, x), ~Among(x, s)
  PROVE  /\ AddItemToArray(h, p, x) \in Heaps
         /\ Represents(AddItemToArray(h, p, x), p, Appended(s, x))
<1> DEFINE g == AddItemToArray(h, p, x)
           t == Appended(s, x)
           n == Len(s)
<1>1. s \in Seq(Items) /\ n \in Nat /\ \A i \in 1..n : s[i] \in Items
  BY DEF Represents
<1>2. /\ t \in Seq(Items) /\ Len(t) = n + 1 /\ t[n + 1] = x
      /\ \A i \in 1..n : t[i] = s[i] /\ s[i] # x
      /\ \A i, j \in 1..Len(t) : t[i] = t[j] => i = j
  BY <1>1, AppendedFacts DEF Represents
<1>3. CASE s = <<>>
  <2>1. n = 0 /\ h.child[p] = Null
    BY <1>3, <1>1 DEF Represents
  <2>2. g = [h EXCEPT !.child[p] = x, !.prev[x] = x, !.next[x] = Null]
    BY <2>1 DEF AddItemToArray
  <2>3. g = [next |-> [h.next EXCEPT ![x] = Null], prev |-> [h.prev EXCEPT ![x] = x],
             child |-> [h.child EXCEPT ![p] = x]]
    BY <2>2 DEF Heaps
  <2>4. g \in Heaps /\ g.child[p] = x /\ g.next[x] = Null /\ g.prev[x] = x
    BY <2>3 DEF Heaps, Pointers
  <2> HIDE DEF g, t, n
  <2>5. Len(t) = 1 /\ t[1] = x
    BY <2>1, <1>2
  <2>7. t # <<>>
    BY <2>5
  <2>6. Represents(g, p, t)
    BY <2>4, <2>5, <2>7, <1>2 DEF Represents
  <2> QED BY <2>4, <2>6 DEF g, t
<1>4. CASE s # <<>>
  <2>1. n >= 1 /\ h.child[p] = s[1] /\ h.prev[s[1]] = s[n]
    BY <1>4, <1>1 DEF Represents
  <2>2. s[1] \in Items /\ s[n] \in Items /\ s[1] # x /\ s[n] # x
    BY <2>1, <1>1, <1>2
  <2>3. g = [h EXCEPT !.next[s[n]] = x, !.prev[x] = s[n], !.prev[s[1]] = x]
    BY <2>1, <2>2, NullAssumption DEF AddItemToArray, SuffixObject
  <2>4. g = [next |-> [h.next EXCEPT ![s[n]] = x], child |-> h.child,
             prev |-> [h.prev EXCEPT ![x] = s[n], ![s[1]] = x]]
    BY <2>3 DEF Heaps
  <2>5. g \in Heaps
    BY <2>2, <2>4 DEF Heaps, Pointers
  <2> HIDE DEF g, t, n
  <2>6. ASSUME NEW i \in 1..(n + 1)
        PROVE  /\ g.next[t[i]] = IF i = n + 1 THEN Null ELSE t[i + 1]
               /\ g.prev[t[i]] = IF i = 1 THEN t[n + 1] ELSE t[i - 1]
    <3>1. CASE i = n + 1
      <4>1. t[i] = x /\ i # 1 /\ t[i - 1] = s[n]
        BY <3>1, <2>1, <1>1, <1>2
      <4>2. g.next[x] = Null /\ g.prev[x] = s[n]
        BY <2>2, <2>4 DEF Loose, Heaps
      <4> QED BY <3>1, <4>1, <4>2
    <3>2. CASE i <= n
      <4>1. i \in 1..n /\ t[i] = s[i] /\ s[i] # x /\ s[i] \in Items
        BY <3>2, <1>1, <1>2
      <4>2. (s[i] = s[n] <=> i = n) /\ (s[i] = s[1] <=> i = 1)
        BY <4>1, <2>1, <1>1 DEF Represents, n
      <4>3. g.next[s[i]] = (IF i = n THEN x ELSE h.next[s[i]])
            /\ g.prev[s[i]] = (IF i = 1 THEN x ELSE h.prev[s[i]])
        BY <4>1, <4>2, <2>2, <2>4 DEF Heaps
      <4>4. h.next[s[i]] = (IF i = n THEN Null ELSE s[i + 1])
            /\ h.prev[s[i]] = (IF i = 1 THEN s[n] ELSE s[i - 1])
        BY <4>1 DEF Represents, n
      <4>5. (i # n => t[i + 1] = s[i + 1]) /\ (i # 1 => t[i - 1] = s[i - 1])
        BY <4>1, <1>1, <1>2
      <4>6. t[n + 1] = x /\ i # n + 1 /\ (i = n => t[i + 1] = x)
        BY <4>1, <1>1, <1>2
      <4> QED BY <4>1, <4>3, <4>4, <4>5, <4>6
    <3> QED BY <3>1, <3>2, <1>1
  <2>7. t[1] = s[1] /\ t # <<>>
    BY <2>1, <1>1, <1>2
  <2>8. Represents(g, p, t)
    <3>1. g.child[p] = t[1]
      BY <2>1, <2>4, <2>7
    <3>2. \A i \in 1..Len(t) :
            /\ g.next[t[i]] = IF i = Len(t) THEN Null ELSE t[i + 1]
            /\ g.prev[t[i]] = IF i = 1 THEN t[Len(t)] ELSE t[i - 1]
      BY <2>6, <1>2
    <3> QED BY <3>1, <3>2, <2>7, <1>2 DEF Represents
  <2> QED BY <2>5, <2>8 DEF g, t
<1> QED BY <1>3, <1>4
\* What a sequence without its k-th item holds, and where.
LEMMA WithoutFacts ==
  ASSUME NEW s \in Seq(Items), NEW k \in 1..Len(s),
         \A i, j \in 1..Len(s) : s[i] = s[j] => i = j
  PROVE  /\ Without(s, k) \in Seq(Items)
         /\ Len(Without(s, k)) = Len(s) - 1
         /\ \A i \in 1..(Len(s) - 1) : Without(s, k)[i] = IF i < k THEN s[i] ELSE s[i + 1]
         /\ \A i, j \in 1..Len(Without(s, k)) : Without(s, k)[i] = Without(s, k)[j] => i = j
<1> DEFINE n == Len(s)
           t == Without(s, k)
<1>1. n \in Nat /\ k \in 1..n /\ \A i \in 1..n : s[i] \in Items
  OBVIOUS
<1>2. t \in Seq(Items) /\ Len(t) = n - 1
      /\ \A i \in 1..(n - 1) : t[i] = IF i < k THEN s[i] ELSE s[i + 1]
  BY <1>1 DEF Without
<1> HIDE DEF t
<1>3. ASSUME NEW i \in 1..(n - 1), NEW j \in 1..(n - 1), t[i] = t[j]
      PROVE  i = j
  <2>1. CASE i < k /\ j < k
    BY <2>1, <1>1, <1>2, <1>3, SMTT(30)
  <2>2. CASE i < k /\ j >= k
    BY <2>2, <1>1, <1>2, <1>3, SMTT(30)
  <2>3. CASE i >= k /\ j < k
    BY <2>3, <1>1, <1>2, <1>3
  <2>4. CASE i >= k /\ j >= k
    BY <2>4, <1>1, <1>2, <1>3, SMTT(30)
  <2> QED BY <2>1, <2>2, <2>3, <2>4, <1>1
<1> QED BY <1>2, <1>3 DEF t

\* Taking any item out of its list (cJSON_DetachItemViaPointer).
THEOREM DetachCorrect ==
  ASSUME NEW h \in Heaps, NEW p \in Items, NEW s, Represents(h, p, s), NEW k \in 1..Len(s)
  PROVE  /\ Detachable(h, p, s[k])
         /\ DetachItemViaPointer(h, p, s[k]) \in Heaps
         /\ Represents(DetachItemViaPointer(h, p, s[k]), p, Without(s, k))
         /\ Loose(DetachItemViaPointer(h, p, s[k]), s[k])
<1> DEFINE x == s[k]
           first == s[1]
           n == Len(s)
           t == Without(s, k)
           a == IF x # first THEN [h EXCEPT !.next[h.prev[x]] = h.next[x]] ELSE h
           b == IF a.next[x] # Null THEN [a EXCEPT !.prev[a.next[x]] = a.prev[x]] ELSE a
           c == IF x = first THEN [b EXCEPT !.child[p] = b.next[x]]
                ELSE IF b.next[x] = Null THEN [b EXCEPT !.prev[first] = b.prev[x]]
                ELSE b
           g == [c EXCEPT !.prev[x] = Null, !.next[x] = Null]
<1>1. s \in Seq(Items) /\ n \in Nat /\ n >= 1 /\ k \in 1..n /\ \A i \in 1..n : s[i] \in Items
  BY DEF Represents
<1>2. /\ t \in Seq(Items) /\ Len(t) = n - 1
      /\ \A i \in 1..(n - 1) : t[i] = IF i < k THEN s[i] ELSE s[i + 1]
      /\ \A i, j \in 1..Len(t) : t[i] = t[j] => i = j
  BY <1>1, WithoutFacts DEF Represents
<1>3. h.child[p] = first /\ first \in Items /\ x \in Items
  BY <1>1 DEF Represents
<1>4. DetachItemViaPointer(h, p, x) = g
  BY <1>3 DEF DetachItemViaPointer
<1>5. \A i, j \in 1..n : s[i] = s[j] <=> i = j
  BY DEF Represents
<1>6. \A i \in 1..n : /\ h.next[s[i]] = IF i = n THEN Null ELSE s[i + 1]
                      /\ h.prev[s[i]] = IF i = 1 THEN s[n] ELSE s[i - 1]
  BY DEF Represents
<1>7. (x = first <=> k = 1) /\ h.next[x] = (IF k = n THEN Null ELSE s[k + 1])
      /\ h.prev[x] = (IF k = 1 THEN s[n] ELSE s[k - 1])
  BY <1>1, <1>5, <1>6
<1>8. a = [next |-> IF k # 1 THEN [h.next EXCEPT ![s[k - 1]] = h.next[x]] ELSE h.next,
           prev |-> h.prev, child |-> h.child]
  BY <1>7, <1>3 DEF Heaps
<1>9. a.next[x] = h.next[x] /\ a.prev[x] = h.prev[x]
  <2>1. k # 1 => s[k - 1] # x
    BY <1>1, <1>5
  <2> QED BY <1>8, <1>3, <2>1 DEF Heaps
<1> HIDE DEF a, t
<1>10. b = [next |-> a.next, child |-> h.child,
            prev |-> IF k # n THEN [h.prev EXCEPT ![s[k + 1]] = h.prev[x]] ELSE h.prev]
  <2>1. k # n => s[k + 1] # Null
    BY <1>1, NullAssumption
  <2> QED BY <1>7, <1>8, <1>9, <2>1
<1>11. b.next[x] = h.next[x] /\ b.prev[x] = h.prev[x]
  <2>1. k # n => s[k + 1] # x
    BY <1>1, <1>5
  <2> QED BY <1>9, <1>10, <1>3, <2>1 DEF Heaps
<1> HIDE DEF b
<1>12. c = [next |-> a.next,
            child |-> IF k = 1 THEN [h.child EXCEPT ![p] = h.next[x]] ELSE h.child,
            prev |-> IF k # n THEN [h.prev EXCEPT ![s[k + 1]] = h.prev[x]]
                     ELSE IF k # 1 THEN [h.prev EXCEPT ![first] = h.prev[x]] ELSE h.prev]
  <2>1. k # n => s[k + 1] # Null
    BY <1>1, NullAssumption
  <2> QED BY <1>7, <1>10, <1>11, <2>1
<1> HIDE DEF c
<1>13. g = [next |-> [a.next EXCEPT ![x] = Null], child |-> c.child,
            prev |-> [c.prev EXCEPT ![x] = Null]]
  <2>1. a.next \in [Items -> Pointers]
    BY <1>1, <1>3, <1>8 DEF Heaps, Pointers
  <2>2. c.prev \in [Items -> Pointers]
    BY <1>1, <1>3, <1>12 DEF Heaps, Pointers
  <2>3. c.child \in [Items -> Pointers]
    BY <1>3, <1>12 DEF Heaps, Pointers
  <2>4. c.next = a.next /\ c = [next |-> c.next, prev |-> c.prev, child |-> c.child]
    BY <1>12
  <2>5. c \in Heaps
    BY <2>1, <2>2, <2>3, <2>4 DEF Heaps
  <2>6. ASSUME NEW r, r = [c EXCEPT !.prev[x] = Null, !.next[x] = Null]
        PROVE  r = [next |-> [c.next EXCEPT ![x] = Null], child |-> c.child,
                    prev |-> [c.prev EXCEPT ![x] = Null]]
    BY <2>5, <2>6, <1>3 DEF Heaps
  <2> QED BY <2>4, <2>6
<1>14. g \in Heaps /\ Loose(g, x)
  <2>1. a.next \in [Items -> Pointers]
    BY <1>1, <1>3, <1>8 DEF Heaps, Pointers
  <2>2. c.prev \in [Items -> Pointers]
    BY <1>1, <1>3, <1>12 DEF Heaps, Pointers
  <2>3. c.child \in [Items -> Pointers]
    BY <1>3, <1>12 DEF Heaps, Pointers
  <2> HIDE DEF g
  <2>4. g \in Heaps
    BY <2>1, <2>2, <2>3, <1>3, <1>13 DEF Heaps, Pointers
  <2>5. g.next[x] = Null /\ g.prev[x] = Null
    BY <2>1, <2>2, <1>3, <1>13
  <2> QED BY <2>4, <2>5 DEF Loose
<1> HIDE DEF g, n
<1>15. ASSUME NEW i \in 1..n, i # k
       PROVE  /\ g.next[s[i]] = IF i = k - 1 THEN h.next[x] ELSE h.next[s[i]]
              /\ g.prev[s[i]] = IF i = k + 1 \/ (i = 1 /\ k = n) THEN h.prev[x] ELSE h.prev[s[i]]
  <2>1. s[i] \in Items /\ s[i] # x
    BY <1>1, <1>5, <1>15
  <2>2. k # 1 => s[k - 1] \in Items /\ (s[i] = s[k - 1] <=> i = k - 1)
    BY <1>1, <1>5
  <2>3. k # n => s[k + 1] \in Items /\ (s[i] = s[k + 1] <=> i = k + 1)
    BY <1>1, <1>5
  <2>4. s[i] = first <=> i = 1
    BY <1>1, <1>5
  <2>5. g.next[s[i]] = a.next[s[i]] /\ g.prev[s[i]] = c.prev[s[i]]
    BY <2>1, <1>3, <1>13, <1>8, <1>12 DEF Heaps
  <2>6. a.next[s[i]] = IF i = k - 1 THEN h.next[x] ELSE h.next[s[i]]
    BY <2>1, <2>2, <1>1, <1>8 DEF Heaps
  <2>7. CASE k # n
    <3>1. c.prev[s[i]] = IF i = k + 1 THEN h.prev[x] ELSE h.prev[s[i]]
      BY <2>1, <2>3, <2>7, <1>12 DEF Heaps
    <3>2. ~(k = n)
      BY <2>7
    <3>3. g.prev[s[i]] = IF i = k + 1 \/ (i = 1 /\ k = n) THEN h.prev[x] ELSE h.prev[s[i]]
      BY <3>1, <3>2, <2>5
    <3> QED BY <3>3, <2>5, <2>6
  <2>8. CASE k = n /\ k # 1
    BY <2>1, <2>4, <2>5, <2>6, <2>8, <1>1, <1>3, <1>12 DEF Heaps
  <2>9. CASE k = n /\ k = 1
    BY <2>9, <1>1, <1>15
  <2> QED BY <2>7, <2>8, <2>9
<1>16. ASSUME NEW i \in 1..(n - 1)
       PROVE  /\ g.next[t[i]] = IF i = n - 1 THEN Null ELSE t[i + 1]
              /\ g.prev[t[i]] = IF i = 1 THEN t[n - 1] ELSE t[i - 1]
  <2>1. CASE i < k
    <3>1. i \in 1..n /\ i # k /\ t[i] = s[i]
      BY <2>1, <1>1, <1>2
    <3>2. g.next[s[i]] = IF i = n - 1 THEN Null ELSE t[i + 1]
      <4>1. CASE i = k - 1
        BY <4>1, <3>1, <1>1, <1>2, <1>7, <1>15
      <4>2. CASE i # k - 1
        <5>1. i + 1 < k /\ i + 1 \in 1..(n - 1) /\ i # n /\ i # n - 1
          BY <4>2, <2>1, <1>1
        <5>2. t[i + 1] = s[i + 1] /\ h.next[s[i]] = s[i + 1]
          BY <5>1, <3>1, <1>2, <1>6
        <5> QED BY <5>1, <5>2, <4>2, <3>1, <1>15
      <4> QED BY <4>1, <4>2
    <3>3. g.prev[s[i]] = IF i = 1 THEN t[n - 1] ELSE t[i - 1]
      BY <2>1, <3>1, <1>1, <1>2, <1>6, <1>7, <1>15, SMTT(30)
    <3> QED BY <3>1, <3>2, <3>3
  <2>2. CASE i >= k
    <3>1. i + 1 \in 1..n /\ i + 1 # k /\ t[i] = s[i + 1]
      BY <2>2, <1>1, <1>2
    <3>2. g.next[s[i + 1]] = IF i = n - 1 THEN Null ELSE t[i + 1]
      BY <2>2, <3>1, <1>1, <1>2, <1>6, <1>7, <1>15, SMTT(30)
    <3>3. g.prev[s[i + 1]] = IF i = 1 THEN t[n - 1] ELSE t[i - 1]
      <4>0. i = k => g.prev[s[i + 1]] = h.prev[x]
        BY <3>1, <1>15
      <4>1. CASE i = k /\ k = 1
        <5>1. n - 1 \in 1..(n - 1) /\ t[n - 1] = s[n]
          BY <4>1, <1>1, <1>2
        <5> QED BY <5>1, <4>0, <4>1, <1>7
      <4>2. CASE i = k /\ k # 1
        <5>1. k - 1 \in 1..(n - 1) /\ t[k - 1] = s[k - 1]
          BY <4>2, <1>1, <1>2
        <5> QED BY <5>1, <4>0, <4>2, <1>7
      <4>3. CASE i > k
        <5>1. i # 1 /\ i - 1 \in 1..(n - 1) /\ t[i - 1] = s[i]
          BY <4>3, <1>1, <1>2
        <5>2. h.prev[s[i + 1]] = s[i]
          BY <3>1, <1>1, <1>6
        <5>3. ~(i + 1 = k + 1 \/ (i + 1 = 1 /\ k = n))
          BY <4>3, <1>1
        <5> QED BY <5>1, <5>2, <5>3, <3>1, <1>15
      <4> QED BY <4>1, <4>2, <4>3, <2>2, <1>1
    <3> QED BY <3>1, <3>2, <3>3
  <2> QED BY <2>1, <2>2, <1>1
<1>17. g.child[p] = IF t = <<>> THEN Null ELSE t[1]
  <2>1. t = <<>> <=> n = 1
    BY <1>1, <1>2
  <2>2. g.child[p] = IF k = 1 THEN h.next[x] ELSE first
    BY <1>3, <1>12, <1>13 DEF Heaps
  <2> QED BY <2>1, <2>2, <1>1, <1>2, <1>7
<1>18. Represents(g, p, t)
  <2>1. \A i \in 1..Len(t) :
          /\ g.next[t[i]] = IF i = Len(t) THEN Null ELSE t[i + 1]
          /\ g.prev[t[i]] = IF i = 1 THEN t[Len(t)] ELSE t[i - 1]
    BY <1>2, <1>16
  <2> QED BY <2>1, <1>2, <1>17 DEF Represents
<1>19. Detachable(h, p, x)
  BY <1>1, <1>3, <1>7, NullAssumption DEF Detachable
<1> QED BY <1>4, <1>14, <1>18, <1>19 DEF t, g
\* What a sequence with an item put before its k-th holds, and where.
LEMMA InsertedFacts ==
  ASSUME NEW s \in Seq(Items), NEW x \in Items, ~Among(x, s), NEW k \in 1..Len(s),
         \A i, j \in 1..Len(s) : s[i] = s[j] => i = j
  PROVE  /\ Inserted(s, k, x) \in Seq(Items)
         /\ Len(Inserted(s, k, x)) = Len(s) + 1
         /\ \A i \in 1..(Len(s) + 1) :
              Inserted(s, k, x)[i] = IF i < k THEN s[i] ELSE IF i = k THEN x ELSE s[i - 1]
         /\ \A i, j \in 1..Len(Inserted(s, k, x)) :
              Inserted(s, k, x)[i] = Inserted(s, k, x)[j] => i = j
<1> DEFINE n == Len(s)
           t == Inserted(s, k, x)
<1>1. n \in Nat /\ k \in 1..n /\ \A i \in 1..n : s[i] \in Items /\ s[i] # x
  BY DEF Among
<1>2. t \in Seq(Items) /\ Len(t) = n + 1
      /\ \A i \in 1..(n + 1) : t[i] = IF i < k THEN s[i] ELSE IF i = k THEN x ELSE s[i - 1]
  BY <1>1 DEF Inserted
<1> HIDE DEF t
<1>3. ASSUME NEW i \in 1..(n + 1), NEW j \in 1..(n + 1), t[i] = t[j], i <= j
      PROVE  i = j
  <2>1. CASE j < k
    BY <2>1, <1>1, <1>2, <1>3, SMTT(30)
  <2>2. CASE j = k
    BY <2>2, <1>1, <1>2, <1>3
  <2>3. CASE j > k /\ i < k
    BY <2>3, <1>1, <1>2, <1>3, SMTT(30)
  <2>4. CASE j > k /\ i = k
    BY <2>4, <1>1, <1>2, <1>3
  <2>5. CASE j > k /\ i > k
    BY <2>5, <1>1, <1>2, <1>3, SMTT(30)
  <2> QED BY <2>1, <2>2, <2>3, <2>4, <2>5, <1>1, <1>3
<1>4. ASSUME NEW i \in 1..(n + 1), NEW j \in 1..(n + 1), t[i] = t[j]
      PROVE  i = j
  BY <1>1, <1>3, <1>4
<1> QED BY <1>2, <1>4 DEF t

\* Putting an item that is in no list before any item of a list
\* (cJSON_InsertItemInArray).
THEOREM InsertCorrect ==
  ASSUME NEW h \in Heaps, NEW p \in Items, NEW s, Represents(h, p, s), NEW k \in 1..Len(s),
         NEW x \in Items, ~Among(x, s)
  PROVE  /\ InsertBefore(h, p, s[k], x) \in Heaps
         /\ Represents(InsertBefore(h, p, s[k], x), p, Inserted(s, k, x))
<1> DEFINE n == Len(s)
           t == Inserted(s, k, x)
           a == [h EXCEPT !.next[x] = s[k], !.prev[x] = h.prev[s[k]], !.prev[s[k]] = x]
           g == InsertBefore(h, p, s[k], x)
<1>1. s \in Seq(Items) /\ n \in Nat /\ n >= 1 /\ k \in 1..n
      /\ \A i \in 1..n : s[i] \in Items /\ s[i] # x
  BY DEF Represents, Among
<1>2. /\ t \in Seq(Items) /\ Len(t) = n + 1
      /\ \A i \in 1..(n + 1) : t[i] = IF i < k THEN s[i] ELSE IF i = k THEN x ELSE s[i - 1]
      /\ \A i, j \in 1..Len(t) : t[i] = t[j] => i = j
  BY <1>1, InsertedFacts DEF Represents
<1>3. \A i, j \in 1..n : s[i] = s[j] <=> i = j
  BY DEF Represents
<1>4. \A i \in 1..n : /\ h.next[s[i]] = IF i = n THEN Null ELSE s[i + 1]
                      /\ h.prev[s[i]] = IF i = 1 THEN s[n] ELSE s[i - 1]
  BY DEF Represents
<1>5. h.child[p] = s[1] /\ (s[k] = s[1] <=> k = 1)
  BY <1>1, <1>3 DEF Represents
<1>6. h.prev[s[k]] = (IF k = 1 THEN s[n] ELSE s[k - 1]) /\ h.prev[s[k]] \in Items
      /\ h.prev[s[k]] # x
  BY <1>1, <1>4
<1>7. ASSUME NEW r, r = a
      PROVE  r = [next |-> [h.next EXCEPT ![x] = s[k]], child |-> h.child,
                  prev |-> [h.prev EXCEPT ![x] = h.prev[s[k]], ![s[k]] = x]]
  BY <1>1, <1>6, <1>7 DEF Heaps
<1>8. a = [next |-> [h.next EXCEPT ![x] = s[k]], child |-> h.child,
           prev |-> [h.prev EXCEPT ![x] = h.prev[s[k]], ![s[k]] = x]]
  BY <1>7
<1>9. g = IF k = 1 THEN [a EXCEPT !.child[p] = x] ELSE [a EXCEPT !.next[s[k - 1]] = x]
  BY <1>5, <1>6 DEF InsertBefore
<1> HIDE DEF a, g, t
<1>10. g = [next |-> IF k = 1 THEN a.next ELSE [a.next EXCEPT ![s[k - 1]] = x],
            child |-> IF k = 1 THEN [h.child EXCEPT ![p] = x] ELSE h.child,
            prev |-> a.prev]
  BY <1>8, <1>9
<1>11. g \in Heaps
  <2>1. a.next \in [Items -> Pointers] /\ a.prev \in [Items -> Pointers]
    BY <1>1, <1>6, <1>8 DEF Heaps, Pointers
  <2> QED BY <2>1, <1>10 DEF Heaps, Pointers
<1> HIDE DEF n
<1>12. g.next[x] = s[k] /\ g.prev[x] = h.prev[s[k]]
  <2>1. a.next[x] = s[k] /\ a.prev[x] = h.prev[s[k]]
    BY <1>1, <1>8 DEF Heaps
  <2>2. k # 1 => s[k - 1] # x
    BY <1>1
  <2> QED BY <2>1, <2>2, <1>8, <1>10 DEF Heaps
<1>13. ASSUME NEW i \in 1..n
       PROVE  /\ g.next[s[i]] = IF i = k - 1 THEN x ELSE h.next[s[i]]
              /\ g.prev[s[i]] = IF i = k THEN x ELSE h.prev[s[i]]
  <2>1. s[i] \in Items /\ s[i] # x /\ (s[i] = s[k] <=> i = k)
    BY <1>1, <1>3
  <2>2. k # 1 => s[k - 1] \in Items /\ (s[i] = s[k - 1] <=> i = k - 1)
    BY <1>1, <1>3
  <2>3. a.next[s[i]] = h.next[s[i]] /\ a.prev[s[i]] = IF i = k THEN x ELSE h.prev[s[i]]
    BY <2>1, <1>1, <1>8 DEF Heaps
  <2>4. g.next[s[i]] = IF i = k - 1 THEN x ELSE a.next[s[i]]
    BY <2>1, <2>2, <1>1, <1>8, <1>10 DEF Heaps
  <2> QED BY <2>3, <2>4, <1>10
<1>14. ASSUME NEW i \in 1..(n + 1)
       PROVE  /\ g.next[t[i]] = IF i = n + 1 THEN Null ELSE t[i + 1]
              /\ g.prev[t[i]] = IF i = 1 THEN t[n + 1] ELSE t[i - 1]
  <2>1. CASE i = k
    BY <2>1, <1>1, <1>2, <1>6, <1>12
  <2>2. CASE i < k
    <3>1. i \in 1..n /\ t[i] = s[i] /\ i # n
      BY <2>2, <1>1, <1>2
    <3>2. g.next[t[i]] = t[i + 1] /\ i # n + 1
      <4>1. CASE i = k - 1
        BY <4>1, <3>1, <1>1, <1>2, <1>13
      <4>2. CASE i # k - 1
        <5>1. i + 1 < k /\ i + 1 \in 1..(n + 1) /\ i # n + 1
          BY <4>2, <2>2, <3>1, <1>1
        <5>2. t[i + 1] = s[i + 1] /\ h.next[s[i]] = s[i + 1]
          BY <5>1, <3>1, <1>2, <1>4
        <5> QED BY <5>1, <5>2, <4>2, <3>1, <1>13
      <4> QED BY <4>1, <4>2
    <3>3. g.prev[t[i]] = h.prev[s[i]]
      BY <2>2, <3>1, <1>1, <1>13
    <3>4. t[n + 1] = s[n] /\ (i # 1 => t[i - 1] = s[i - 1])
      BY <2>2, <3>1, <1>1, <1>2
    <3> QED BY <3>1, <3>2, <3>3, <3>4, <1>4
  <2>3. CASE i > k
    <3>1. i - 1 \in 1..n /\ t[i] = s[i - 1] /\ i # 1 /\ i - 1 # k - 1
      BY <2>3, <1>1, <1>2
    <3>2. g.next[t[i]] = h.next[s[i - 1]]
      BY <3>1, <1>13
    <3>3. i # n + 1 => t[i + 1] = s[i]
      BY <2>3, <1>1, <1>2
    <3>4. g.next[t[i]] = IF i = n + 1 THEN Null ELSE t[i + 1]
      BY <3>1, <3>2, <3>3, <1>1, <1>4
    <3>5. g.prev[t[i]] = t[i - 1]
      <4>1. CASE i - 1 = k
        BY <4>1, <3>1, <1>1, <1>2, <1>13
      <4>2. CASE i - 1 # k
        <5>1. g.prev[t[i]] = h.prev[s[i - 1]] /\ i - 1 # 1 /\ t[i - 1] = s[i - 2]
          BY <4>2, <2>3, <3>1, <1>1, <1>2, <1>13
        <5>2. \A j \in 1..n : j # 1 => h.prev[s[j]] = s[j - 1]
          BY <1>4
        <5>3. h.prev[s[i - 1]] = s[(i - 1) - 1]
          BY <5>1, <5>2, <3>1
        <5>4. (i - 1) - 1 = i - 2
          BY <1>1
        <5> QED BY <5>1, <5>3, <5>4
      <4> QED BY <4>1, <4>2
    <3> QED BY <3>1, <3>4, <3>5
  <2> QED BY <2>1, <2>2, <2>3, <1>1
<1>15. t # <<>> /\ g.child[p] = t[1]
  <2>1. t # <<>> /\ t[1] = IF k = 1 THEN x ELSE s[1]
    BY <1>1, <1>2
  <2> QED BY <2>1, <1>5, <1>10 DEF Heaps
<1>16. Represents(g, p, t)
  <2>1. \A i \in 1..Len(t) :
          /\ g.next[t[i]] = IF i = Len(t) THEN Null ELSE t[i + 1]
          /\ g.prev[t[i]] = IF i = 1 THEN t[Len(t)] ELSE t[i - 1]
    BY <1>2, <1>14
  <2> QED BY <2>1, <1>2, <1>15 DEF Represents
<1> QED BY <1>11, <1>16 DEF t, g
\* Putting an item that is in no list in the place of any item of a list
\* (cJSON_ReplaceItemViaPointer).
THEOREM ReplaceCorrect ==
  ASSUME NEW h \in Heaps, NEW p \in Items, NEW s, Represents(h, p, s), NEW k \in 1..Len(s),
         NEW x \in Items, ~Among(x, s)
  PROVE  /\ ReplaceItemViaPointer(h, p, s[k], x) \in Heaps
         /\ Represents(ReplaceItemViaPointer(h, p, s[k], x), p, Replaced(s, k, x))
         /\ Loose(ReplaceItemViaPointer(h, p, s[k], x), s[k])
<1> DEFINE n == Len(s)
           t == Replaced(s, k, x)
           y == s[k]
           first == s[1]
           a == [h EXCEPT !.next[x] = h.next[y], !.prev[x] = h.prev[y]]
           b == IF a.next[x] # Null THEN [a EXCEPT !.prev[a.next[x]] = x] ELSE a
           alone == IF b.prev[first] = first THEN [b EXCEPT !.prev[x] = x] ELSE b
           linked == IF b.prev[x] # Null THEN [b EXCEPT !.next[b.prev[x]] = x] ELSE b
           c == IF first = y THEN [alone EXCEPT !.child[p] = x]
                ELSE IF linked.next[x] = Null THEN [linked EXCEPT !.prev[first] = x]
                ELSE linked
           g == [c EXCEPT !.next[y] = Null, !.prev[y] = Null]
           nx == [h.next EXCEPT ![x] = h.next[y]]
           pv == [h.prev EXCEPT ![x] = h.prev[y]]
<1>1. s \in Seq(Items) /\ n \in Nat /\ n >= 1 /\ k \in 1..n
      /\ \A i \in 1..n : s[i] \in Items /\ s[i] # x /\ s[i] # Null
  BY NullAssumption DEF Represents, Among
<1>2. /\ t \in Seq(Items) /\ Len(t) = n /\ \A i \in 1..n : t[i] = IF i = k THEN x ELSE s[i]
      /\ \A i, j \in 1..Len(t) : t[i] = t[j] => i = j
  BY <1>1 DEF Replaced, Represents
<1>3. \A i, j \in 1..n : s[i] = s[j] <=> i = j
  BY DEF Represents
<1>4. \A i \in 1..n : /\ h.next[s[i]] = IF i = n THEN Null ELSE s[i + 1]
                      /\ h.prev[s[i]] = IF i = 1 THEN s[n] ELSE s[i - 1]
  BY DEF Represents
<1>5. h.child[p] = first /\ (first = y <=> k = 1) /\ first \in Items /\ y \in Items
      /\ x # y /\ x # first /\ y # Null
  BY <1>1, <1>3 DEF Represents
<1>6. h.next[y] = (IF k = n THEN Null ELSE s[k + 1])
      /\ h.prev[y] = (IF k = 1 THEN s[n] ELSE s[k - 1]) /\ h.prev[y] \in Items
      /\ h.prev[y] # x /\ h.prev[y] # Null
  BY <1>1, <1>4
<1>7. ReplaceItemViaPointer(h, p, y, x) = g
  BY <1>5 DEF ReplaceItemViaPointer
<1>8. a = [next |-> nx, prev |-> pv, child |-> h.child]
  <2>1. ASSUME NEW r, r = a
        PROVE  r = [next |-> nx, prev |-> pv, child |-> h.child]
    BY <1>5, <2>1 DEF Heaps
  <2> QED BY <2>1
<1>9. a.next[x] = h.next[y] /\ a.prev[x] = h.prev[y]
  BY <1>8 DEF Heaps
<1> HIDE DEF a, t
<1> DEFINE pvb == IF k # n THEN [pv EXCEPT ![s[k + 1]] = x] ELSE pv
<1>10. b = [next |-> nx, child |-> h.child, prev |-> pvb]
  <2>1. k # n => s[k + 1] # Null
    BY <1>1
  <2> QED BY <2>1, <1>6, <1>8, <1>9
<1>11. b.next[x] = h.next[y] /\ b.prev[x] = h.prev[y]
  <2>1. k # n => s[k + 1] # x
    BY <1>1
  <2> QED BY <2>1, <1>5, <1>8, <1>9, <1>10 DEF Heaps
<1>12. k = 1 => (b.prev[first] = first <=> n = 1)
  <2>1. k = 1 => pv[first] = s[n]
    BY <1>5, <1>6 DEF Heaps
  <2>2. k # n => s[k + 1] # x /\ (k = 1 => s[k + 1] # first)
    BY <1>1, <1>3
  <2>3. pv \in [Items -> Pointers]
    BY <1>5 DEF Heaps
  <2> HIDE DEF pv, b
  <2>4. k = 1 => pvb[first] = s[n]
    BY <2>1, <2>2, <2>3, <1>5
  <2>5. k = 1 => b.prev[first] = s[n]
    BY <2>4, <1>10
  <2>6. s[n] = first <=> n = 1
    <3>1. n \in 1..n /\ 1 \in 1..n
      BY <1>1
    <3> HIDE DEF n
    <3> QED BY <3>1, <1>3
  <2> QED BY <2>5, <2>6
<1> HIDE DEF b
<1> DEFINE pvc == IF k = 1 THEN IF n = 1 THEN [pvb EXCEPT ![x] = x] ELSE pvb
                  ELSE IF k = n THEN [pvb EXCEPT ![first] = x] ELSE pvb
           nxc == IF k = 1 THEN nx ELSE [nx EXCEPT ![s[k - 1]] = x]
           chc == IF k = 1 THEN [h.child EXCEPT ![p] = x] ELSE h.child
<1>13. c = [next |-> nxc, prev |-> pvc, child |-> chc]
  <2>1. CASE k = 1
    <3>1. alone = [next |-> nx, child |-> h.child,
                   prev |-> IF n = 1 THEN [pvb EXCEPT ![x] = x] ELSE pvb]
      BY <2>1, <1>10, <1>12
    <3> QED BY <2>1, <3>1, <1>5
  <2>2. CASE k # 1
    <3>1. linked = [next |-> [nx EXCEPT ![s[k - 1]] = x], child |-> h.child, prev |-> pvb]
      BY <2>2, <1>6, <1>10, <1>11
    <3>2. linked.next[x] = h.next[y]
      BY <2>2, <3>1, <1>1, <1>6, <1>8, <1>9 DEF Heaps
    <3>3. linked.next[x] = Null <=> k = n
      BY <3>2, <1>1, <1>6
    <3> HIDE DEF linked, pvb
    <3> QED BY <2>2, <3>1, <3>3, <1>5
  <2> QED BY <2>1, <2>2
<1>14. nx \in [Items -> Pointers] /\ pv \in [Items -> Pointers]
  BY <1>5 DEF Heaps
<1>15. pvb \in [Items -> Pointers]
  BY <1>14, <1>1 DEF Pointers
<1>16. nxc \in [Items -> Pointers] /\ pvc \in [Items -> Pointers] /\ chc \in [Items -> Pointers]
  BY <1>14, <1>15, <1>1, <1>5 DEF Pointers, Heaps
<1>17. c \in Heaps
  <2> HIDE DEF nxc, pvc, chc, c
  <2> QED BY <1>13, <1>16 DEF Heaps
<1> HIDE DEF c
<1>18. g = [next |-> [nxc EXCEPT ![y] = Null], prev |-> [pvc EXCEPT ![y] = Null], child |-> chc]
  <2>1. ASSUME NEW r, r = g
        PROVE  r = [next |-> [c.next EXCEPT ![y] = Null], prev |-> [c.prev EXCEPT ![y] = Null],
                    child |-> c.child]
    BY <1>17, <1>5, <2>1 DEF Heaps
  <2> QED BY <2>1, <1>13
<1> HIDE DEF g, n
<1>19. g \in Heaps /\ Loose(g, y)
  <2>1. g \in Heaps
    BY <1>16, <1>18 DEF Heaps, Pointers
  <2>2. g.next[y] = Null /\ g.prev[y] = Null
    BY <1>5, <1>16, <1>18
  <2>3. Loose(g, y)
    BY <2>2 DEF Loose
  <2> QED BY <2>1, <2>3
<1>20. g.next[x] = h.next[y] /\ g.prev[x] = IF n = 1 THEN x ELSE h.prev[y]
  <2>1. g.next[x] = nxc[x] /\ g.prev[x] = pvc[x]
    BY <1>5, <1>16, <1>18
  <2>2. nxc[x] = h.next[y]
    BY <1>1, <1>14 DEF Heaps
  <2>3. pvb[x] = h.prev[y]
    <3>1. k # n => s[k + 1] # x
      BY <1>1
    <3> QED BY <3>1, <1>14 DEF Heaps
  <2> HIDE DEF pvb
  <2>4. pvc[x] = IF n = 1 THEN x ELSE h.prev[y]
    BY <2>3, <1>1, <1>5, <1>15
  <2> QED BY <2>1, <2>2, <2>4
<1>21. ASSUME NEW i \in 1..n, i # k
       PROVE  /\ g.next[s[i]] = IF i = k - 1 THEN x ELSE h.next[s[i]]
              /\ g.prev[s[i]] = IF i = k + 1 \/ (i = 1 /\ k = n) THEN x ELSE h.prev[s[i]]
  <2>1. s[i] \in Items /\ s[i] # x /\ s[i] # y /\ (s[i] = first <=> i = 1)
    BY <1>1, <1>3, <1>21
  <2>2. k # 1 => s[k - 1] \in Items /\ (s[i] = s[k - 1] <=> i = k - 1)
    BY <1>1, <1>3
  <2>3. k # n => s[k + 1] \in Items /\ (s[i] = s[k + 1] <=> i = k + 1)
    BY <1>1, <1>3
  <2>4. g.next[s[i]] = nxc[s[i]] /\ g.prev[s[i]] = pvc[s[i]]
    BY <2>1, <1>5, <1>16, <1>18
  <2>5. nxc[s[i]] = IF i = k - 1 THEN x ELSE h.next[s[i]]
    BY <2>1, <2>2, <1>1, <1>14, <1>5 DEF Heaps
  <2>6. pvb[s[i]] = IF i = k + 1 THEN x ELSE h.prev[s[i]]
    <3>1. pv[s[i]] = h.prev[s[i]]
      BY <2>1, <1>5 DEF Heaps
    <3>2. i = k + 1 => k # n
      BY <1>1
    <3> HIDE DEF pv
    <3> QED BY <3>1, <3>2, <2>1, <2>3, <1>14
  <2> HIDE DEF pvb
  <2>7. pvc[s[i]] = IF i = k + 1 \/ (i = 1 /\ k = n) THEN x ELSE h.prev[s[i]]
    <3>1. CASE k = 1
      BY <3>1, <2>1, <2>6, <1>1, <1>15, <1>21
    <3>2. CASE k # 1 /\ k = n
      BY <3>2, <2>1, <2>6, <1>1, <1>5, <1>15
    <3>3. CASE k # 1 /\ k # n
      BY <3>3, <2>6
    <3> QED BY <3>1, <3>2, <3>3
  <2> QED BY <2>4, <2>5, <2>7
<1>22. ASSUME NEW i \in 1..n
       PROVE  /\ g.next[t[i]] = IF i = n THEN Null ELSE t[i + 1]
              /\ g.prev[t[i]] = IF i = 1 THEN t[n] ELSE t[i - 1]
  <2>1. CASE i = k
    <3>1. t[i] = x /\ (i # n => t[i + 1] = s[i + 1]) /\ (i # 1 => t[i - 1] = s[i - 1])
          /\ t[n] = (IF n = k THEN x ELSE s[n])
      BY <2>1, <1>1, <1>2
    <3> QED BY <3>1, <2>1, <1>1, <1>6, <1>20
  <2>2. CASE i # k
    <3>1. t[i] = s[i] /\ (i # n => t[i + 1] = IF i = k - 1 THEN x ELSE s[i + 1])
          /\ (i # 1 => t[i - 1] = IF i = k + 1 THEN x ELSE s[i - 1])
          /\ t[n] = (IF n = k THEN x ELSE s[n])
      BY <2>2, <1>1, <1>2, SMTT(30)
    <3>2. g.next[s[i]] = IF i = n THEN Null ELSE t[i + 1]
      BY <3>1, <2>2, <1>1, <1>4, <1>21
    <3>3. g.prev[s[i]] = IF i = 1 THEN t[n] ELSE t[i - 1]
      BY <3>1, <2>2, <1>1, <1>4, <1>21
    <3> QED BY <3>1, <3>2, <3>3
  <2> QED BY <2>1, <2>2
<1>23. t # <<>> /\ g.child[p] = t[1]
  <2>1. t # <<>> /\ t[1] = IF k = 1 THEN x ELSE s[1]
    BY <1>1, <1>2
  <2>2. g.child = chc
    BY <1>18
  <2> QED BY <2>1, <2>2, <1>5 DEF Heaps
<1>24. Represents(g, p, t)
  <2>1. \A i \in 1..Len(t) :
          /\ g.next[t[i]] = IF i = Len(t) THEN Null ELSE t[i + 1]
          /\ g.prev[t[i]] = IF i = 1 THEN t[Len(t)] ELSE t[i - 1]
    BY <1>2, <1>22
  <2> QED BY <2>1, <1>2, <1>23 DEF Represents
<1>25. /\ ReplaceItemViaPointer(h, p, y, x) \in Heaps
       /\ Represents(ReplaceItemViaPointer(h, p, y, x), p, t)
       /\ Loose(ReplaceItemViaPointer(h, p, y, x), y)
  BY <1>7, <1>19, <1>24
<1> QED BY <1>25 DEF t
-----------------------------------------------------------------------------
(* Loops of the model as loops.                                             *)

USE NullAssumption

ClosureStep(edges, S) == S \cup UNION {edges[x] : x \in S}

\* Closure adds what its members lead to, as often as there are items.
LEMMA ClosureLoop ==
  ASSUME NEW edges \in [Items -> SUBSET Items], NEW S \in SUBSET Items
  PROVE  \E f : /\ f[0] = S /\ Closure(edges, S) = f[Cardinality(Items)]
                /\ \A n \in Nat : n # 0 => f[n] = ClosureStep(edges, f[n - 1])
<1> DEFINE step == [T \in SUBSET Items |-> ClosureStep(edges, T)]
           Is(w) == w = [n \in Nat |->
                           IF n = 0 THEN S
                           ELSE LET inner == w[n - 1] IN inner \cup UNION {edges[x] : x \in inner}]
           within == CHOOSE w : Is(w)
<1>1. step \in [SUBSET Items -> SUBSET Items]
  BY DEF ClosureStep
<1> HIDE DEF step
<1>2. PICK f \in [Nat -> SUBSET Items] : f[0] = S /\ \A n \in Nat : n # 0 => f[n] = step[f[n - 1]]
  <2> DEFINE D == SUBSET Items
  <2>1. S \in D /\ step \in [D -> D]
    BY <1>1
  <2> HIDE DEF D
  <2>2. \E f \in [Nat -> D] : f[0] = S /\ \A n \in Nat : n # 0 => f[n] = step[f[n - 1]]
    BY <2>1, Loop
  <2> QED BY <2>2 DEF D
<1>3. ASSUME NEW n \in Nat, n # 0
      PROVE  f[n] = ClosureStep(edges, f[n - 1])
  <2>1. f[n - 1] \in SUBSET Items
    BY <1>2, <1>3
  <2> QED BY <1>2, <1>3, <2>1 DEF step
<1>4. Is(f)
  BY <1>2, <1>3 DEF ClosureStep
<1>5. Is(within)
  BY <1>4
<1>6. Closure(edges, S) = within[Cardinality(Items)]
  <2>1. DOMAIN edges = Items
    OBVIOUS
  <2> QED BY <2>1 DEF Closure
<1> HIDE DEF within
<1>7. within[0] = S /\ \A n \in Nat : n # 0 => within[n] = ClosureStep(edges, within[n - 1])
  BY <1>5 DEF ClosureStep
<1> QED BY <1>6, <1>7

\* The closure contains S, is closed, and is the least such set: as many
\* turns as there are items are enough.
LEMMA ClosureFacts ==
  ASSUME NEW edges \in [Items -> SUBSET Items], NEW S \in SUBSET Items
  PROVE  /\ S \subseteq Closure(edges, S) /\ Closure(edges, S) \subseteq Items
         /\ \A x \in Closure(edges, S) : edges[x] \subseteq Closure(edges, S)
         /\ \A T : S \subseteq T /\ (\A x \in T \cap Items : edges[x] \subseteq T)
                     => Closure(edges, S) \subseteq T
<1>1. PICK f : /\ f[0] = S /\ Closure(edges, S) = f[Cardinality(Items)]
               /\ \A n \in Nat : n # 0 => f[n] = ClosureStep(edges, f[n - 1])
  BY ClosureLoop
<1> DEFINE Closed(T) == \A x \in T \cap Items : edges[x] \subseteq T
           Good(n) == /\ S \subseteq f[n] /\ f[n] \subseteq Items
                      /\ \A T : S \subseteq T /\ Closed(T) => f[n] \subseteq T
                      /\ Closed(f[n]) \/ Cardinality(f[n]) >= n
           G == {n \in Nat : Good(n)}
<1>2. 0 \in G
  <2>1. IsFiniteSet(S) /\ Cardinality(S) \in Nat
    BY ItemsAssumption, FS_Subset, FS_CardinalityType
  <2> QED BY <1>1, <2>1
<1>3. ASSUME NEW n \in G
      PROVE  n + 1 \in G
  <2>1. n \in Nat /\ Good(n)
    OBVIOUS
  <2>2. f[n + 1] = f[n] \cup UNION {edges[x] : x \in f[n]}
    <3>1. n + 1 \in Nat /\ n + 1 # 0 /\ (n + 1) - 1 = n
      BY <2>1
    <3> QED BY <1>1, <3>1 DEF ClosureStep
  <2>3. S \subseteq f[n + 1] /\ f[n + 1] \subseteq Items
    BY <2>1, <2>2
  <2>4. ASSUME NEW T, S \subseteq T, Closed(T)
        PROVE  f[n + 1] \subseteq T
    BY <2>1, <2>2, <2>4
  <2>5. Closed(f[n + 1]) \/ Cardinality(f[n + 1]) >= n + 1
    <3>1. CASE Closed(f[n])
      <4>1. f[n + 1] = f[n]
        BY <3>1, <2>1, <2>2
      <4> QED BY <3>1, <4>1
    <3>2. CASE ~Closed(f[n])
      <4>1. PICK y : y \in f[n + 1] /\ y \notin f[n]
        BY <3>2, <2>2
      <4>2. IsFiniteSet(f[n + 1]) /\ IsFiniteSet(f[n])
        BY <2>1, <2>3, ItemsAssumption, FS_Subset
      <4>3. Cardinality(f[n]) \in Nat /\ Cardinality(f[n + 1]) \in Nat
        BY <4>2, FS_CardinalityType
      <4>4. Cardinality(f[n] \cup {y}) = Cardinality(f[n]) + 1
        <5>1. Cardinality(f[n] \cup {y}) = IF y \in f[n] THEN Cardinality(f[n]) ELSE Cardinality(f[n]) + 1
          BY <4>2, FS_AddElement
        <5> QED BY <4>1, <5>1
      <4>5. Cardinality(f[n] \cup {y}) <= Cardinality(f[n + 1])
        BY <4>1, <4>2, <2>2, FS_Subset
      <4>6. Cardinality(f[n]) >= n
        BY <3>2, <2>1
      <4> QED BY <2>1, <4>3, <4>4, <4>5, <4>6
    <3> QED BY <3>1, <3>2
  <2> QED BY <2>1, <2>3, <2>4, <2>5
<1>4. G = Nat
  <2> HIDE DEF G
  <2>1. G \in SUBSET Nat
    BY DEF G
  <2> QED BY <1>2, <1>3, <2>1, EveryTurn
<1>5. Cardinality(Items) \in Nat
  BY ItemsAssumption, FS_CardinalityType
<1>6. Good(Cardinality(Items))
  BY <1>4, <1>5
<1> DEFINE C == f[Cardinality(Items)]
<1>7. Closed(C)
  <2>1. CASE Cardinality(C) >= Cardinality(Items)
    <3>1. C \in SUBSET Items /\ Cardinality(C) <= Cardinality(Items) /\ Cardinality(C) \in Nat
      BY <1>6, ItemsAssumption, FS_Subset, FS_CardinalityType
    <3>2. Cardinality(Items) = Cardinality(C)
      BY <2>1, <3>1, <1>5
    <3>3. Items = C
      BY <3>1, <3>2, ItemsAssumption, FS_Subset
    <3> QED BY <3>3
  <2> QED BY <2>1, <1>6
<1> HIDE DEF G
<1> QED BY <1>1, <1>6, <1>7
-----------------------------------------------------------------------------
(* Forests of child sequences.                                              *)

Sequences == [Items -> Seq(Items)]

\* x and the items below it, the least set with x that has the children of
\* its members.
LEMMA OwnedFacts ==
  ASSUME NEW k \in Sequences, NEW x \in Items
  PROVE  /\ x \in Owned(k, x) /\ Owned(k, x) \subseteq Items
         /\ \A y \in Owned(k, x) : Children(k, y) \subseteq Owned(k, x)
         /\ \A T : x \in T /\ (\A y \in T \cap Items : Children(k, y) \subseteq T)
                     => Owned(k, x) \subseteq T
<1> DEFINE edges == [y \in Items |-> Children(k, y)]
<1>1. edges \in [Items -> SUBSET Items]
  <2>1. ASSUME NEW y \in Items
        PROVE  Children(k, y) \subseteq Items
    <3>1. k[y] \in Seq(Items)
      BY DEF Sequences
    <3> QED BY <3>1 DEF Children
  <2> QED BY <2>1
<1>2. {x} \in SUBSET Items
  OBVIOUS
<1>3. Owned(k, x) = Closure(edges, {x})
  <2>1. DOMAIN k = Items
    BY DEF Sequences
  <2> QED BY <2>1 DEF Owned
<1>4. \A y \in Items : edges[y] = Children(k, y)
  OBVIOUS
<1> HIDE DEF edges
<1> QED BY <1>1, <1>2, <1>3, <1>4, ClosureFacts

OneParent(k) ==
  \A p, q \in Items : \A i \in 1..Len(k[p]), j \in 1..Len(k[q]) :
    k[p][i] = k[q][j] => p = q /\ i = j

Levelled(k, level) == \A p \in Items : \A y \in Children(k, p) : level[p] < level[y]

IsForest(k) ==
  /\ k \in Sequences /\ OneParent(k)
  /\ \E level \in [Items -> Nat] : Levelled(k, level)

IsRoot(k, x) == \A p \in Items : x \notin Children(k, p)

\* An item below x, other than x, has its parent below x; none is its own
\* descendant.
LEMMA ParentOwned ==
  ASSUME NEW k, IsForest(k), NEW x \in Items, NEW y \in Owned(k, x)
  PROVE  /\ y # x => \E p \in Owned(k, x) : y \in Children(k, p)
         /\ \A level \in [Items -> Nat] : Levelled(k, level) => level[x] <= level[y]
<1>1. k \in Sequences
  BY DEF IsForest
<1>2. ASSUME y # x, \A p \in Owned(k, x) : y \notin Children(k, p)
      PROVE  FALSE
  <2> DEFINE T == Owned(k, x) \ {y}
  <2>1. x \in T /\ \A z \in T : Children(k, z) \subseteq T
    BY <1>1, <1>2, OwnedFacts
  <2>2. y \notin T
    OBVIOUS
  <2> HIDE DEF T
  <2> QED BY <1>1, <2>1, <2>2, OwnedFacts
<1>3. ASSUME NEW level \in [Items -> Nat], Levelled(k, level)
      PROVE  level[x] <= level[y]
  <2> DEFINE T == {z \in Items : level[x] <= level[z]}
  <2>1. x \in T
    OBVIOUS
  <2>2. ASSUME NEW z \in T, NEW c \in Children(k, z)
        PROVE  c \in T
    <3>1. c \in Items
      BY <1>1 DEF Children, Sequences
    <3>2. level[z] < level[c]
      BY <1>3 DEF Levelled
    <3> QED BY <3>1, <3>2
  <2>3. Owned(k, x) \subseteq T
    <3> HIDE DEF T
    <3> QED BY <1>1, <2>1, <2>2, OwnedFacts
  <2> QED BY <2>3
<1> QED BY <1>2, <1>3

\* A parent is not below its children.
LEMMA ParentAbove ==
  ASSUME NEW k, IsForest(k), NEW p \in Items, NEW x \in Children(k, p)
  PROVE  p \notin Owned(k, x) /\ x \in Items
<1>1. k \in Sequences
  BY DEF IsForest
<1>2. x \in Items
  BY <1>1 DEF Children, Sequences
<1>3. PICK level \in [Items -> Nat] : Levelled(k, level)
  BY DEF IsForest
<1>4. level[p] < level[x]
  BY <1>3 DEF Levelled
<1>5. p \in Owned(k, x) => level[x] <= level[p]
  BY <1>2, <1>3, ParentOwned
<1> QED BY <1>2, <1>4, <1>5

\* Trees that neither contains the other's root are apart.
LEMMA TreesApart ==
  ASSUME NEW k, IsForest(k), NEW x \in Items, NEW y \in Items,
         x \notin Owned(k, y), y \notin Owned(k, x)
  PROVE  Owned(k, x) \cap Owned(k, y) = {}
<1> DEFINE T == Owned(k, x) \ Owned(k, y)
<1>1. k \in Sequences
  BY DEF IsForest
<1>2. x \in T
  BY <1>1, OwnedFacts
<1>3. ASSUME NEW z \in T, NEW c \in Children(k, z)
      PROVE  c \in T
  <2>1. c \in Owned(k, x) /\ z \in Items
    BY <1>1, OwnedFacts
  <2>2. ASSUME c \in Owned(k, y) PROVE FALSE
    <3>1. c # y
      BY <2>1
    <3>2. PICK p \in Owned(k, y) : c \in Children(k, p)
      BY <2>2, <3>1, ParentOwned
    <3>3. p \in Items
      BY <1>1, OwnedFacts
    <3>4. p = z
      BY <3>2, <3>3, <2>1 DEF IsForest, OneParent, Children
    <3> QED BY <3>2, <3>4
  <2> QED BY <2>1, <2>2
<1>4. Owned(k, x) \subseteq T
  <2> HIDE DEF T
  <2> QED BY <1>1, <1>2, <1>3, OwnedFacts
<1> QED BY <1>4

\* Children are items.
LEMMA ChildrenItems ==
  ASSUME NEW k \in Sequences, NEW p \in Items
  PROVE  Children(k, p) \subseteq Items
<1>1. k[p] \in Seq(Items)
  BY DEF Sequences
<1> QED BY <1>1 DEF Children

\* An item has one parent.
LEMMA OnlyParent ==
  ASSUME NEW k, IsForest(k), NEW p \in Items, NEW q \in Items,
         NEW y \in Children(k, p), y \in Children(k, q)
  PROVE  p = q
<1>1. PICK i \in 1..Len(k[p]) : y = k[p][i]
  BY DEF Children
<1>2. PICK j \in 1..Len(k[q]) : y = k[q][j]
  BY DEF Children
<1> QED BY <1>1, <1>2 DEF IsForest, OneParent

\* Trees of siblings are apart.
LEMMA SiblingsApart ==
  ASSUME NEW k, IsForest(k), NEW p \in Items, NEW i \in 1..Len(k[p]), NEW j \in 1..Len(k[p]), i # j
  PROVE  Owned(k, k[p][i]) \cap Owned(k, k[p][j]) = {}
<1>1. k[p][i] \in Children(k, p) /\ k[p][j] \in Children(k, p) /\ k[p][i] # k[p][j]
  BY DEF Children, IsForest, OneParent
<1>2. ASSUME NEW x \in Children(k, p), NEW y \in Children(k, p), x # y, x \in Owned(k, y)
      PROVE  FALSE
  <2>1. y \in Items /\ k \in Sequences
    BY ParentAbove DEF IsForest
  <2>2. PICK q \in Owned(k, y) : x \in Children(k, q)
    BY <2>1, <1>2, ParentOwned
  <2>3. q \in Items
    BY <2>1, OwnedFacts
  <2>4. q = p
    BY <2>2, <2>3 DEF IsForest, OneParent, Children
  <2> QED BY <2>2, <2>4, ParentAbove
<1>3. k[p][i] \in Items /\ k[p][j] \in Items
  BY <1>1, ParentAbove
<1> QED BY <1>1, <1>2, <1>3, TreesApart

\* Trees of different roots are apart.
LEMMA RootsApart ==
  ASSUME NEW k, IsForest(k), NEW x \in Items, NEW y \in Items, x # y, IsRoot(k, x), IsRoot(k, y)
  PROVE  Owned(k, x) \cap Owned(k, y) = {}
<1>1. ASSUME NEW a \in Items, NEW b \in Items, a # b, IsRoot(k, a)
      PROVE  a \notin Owned(k, b)
  <2>1. k \in Sequences
    BY DEF IsForest
  <2> QED BY <2>1, <1>1, ParentOwned, OwnedFacts DEF IsRoot
<1> QED BY <1>1, TreesApart

\* Every item is below some root.
LEMMA RootAbove ==
  ASSUME NEW k, IsForest(k), NEW x \in Items
  PROVE  \E r \in Items : IsRoot(k, r) /\ x \in Owned(k, r)
<1>1. PICK level \in [Items -> Nat] : Levelled(k, level)
  BY DEF IsForest
<1>2. k \in Sequences
  BY DEF IsForest
<1> DEFINE T == {level[a] : a \in {b \in Items : x \in Owned(k, b)}}
<1>3. T \in SUBSET Nat /\ T # {}
  BY <1>2, OwnedFacts
<1>4. PICK n \in T : \A m \in T : n <= m
  <2> HIDE DEF T
  <2> QED BY <1>3, LeastNatural
<1>5. PICK r \in Items : x \in Owned(k, r) /\ n = level[r]
  BY <1>4
<1>6. ASSUME NEW p \in Items, r \in Children(k, p)
      PROVE  FALSE
  <2>1. r \in Owned(k, p)
    BY <1>2, <1>6, OwnedFacts
  <2>2. Owned(k, r) \subseteq Owned(k, p)
    BY <1>2, <2>1, OwnedFacts
  <2>3. level[p] \in T /\ level[p] < level[r] /\ level[p] \in Nat /\ level[r] \in Nat
    BY <1>1, <1>5, <1>6, <2>2 DEF Levelled
  <2>4. n <= level[p]
    BY <1>4, <2>3
  <2> QED BY <1>5, <2>3, <2>4
<1> QED BY <1>5, <1>6 DEF IsRoot

\* The trees of the i-th child of p and of those after it.
From(k, p, i) == UNION {Owned(k, k[p][j]) : j \in i..Len(k[p])}

\* The tree of p is p and the trees of its children, which are apart.
LEMMA FromFacts ==
  ASSUME NEW k, IsForest(k), NEW p \in Items
  PROVE  /\ Owned(k, p) = {p} \cup From(k, p, 1) /\ p \notin From(k, p, 1)
         /\ From(k, p, Len(k[p]) + 1) = {}
         /\ \A i \in 1..Len(k[p]) :
              /\ k[p][i] \in Items
              /\ From(k, p, i) = Owned(k, k[p][i]) \cup From(k, p, i + 1)
              /\ Owned(k, k[p][i]) \cap From(k, p, i + 1) = {}
         /\ \A i \in 1..(Len(k[p]) + 1) : From(k, p, i) \subseteq From(k, p, 1)
<1>1. k \in Sequences /\ k[p] \in Seq(Items) /\ Len(k[p]) \in Nat
  BY DEF IsForest, Sequences
<1>2. \A i \in 1..Len(k[p]) : k[p][i] \in Items /\ k[p][i] \in Children(k, p)
  BY <1>1 DEF Children
<1>3. Owned(k, p) \subseteq {p} \cup From(k, p, 1)
  <2> DEFINE T == {p} \cup From(k, p, 1)
  <2>1. ASSUME NEW y \in T, NEW c \in Children(k, y)
        PROVE  c \in T
    <3>1. CASE y = p
      <4>1. PICK j \in 1..Len(k[p]) : c = k[p][j]
        BY <3>1 DEF Children
      <4>2. c \in Owned(k, k[p][j])
        BY <1>1, <1>2, <4>1, OwnedFacts
      <4> QED BY <4>2 DEF From
    <3>2. CASE y # p
      <4>1. PICK j \in 1..Len(k[p]) : y \in Owned(k, k[p][j])
        BY <3>2 DEF From
      <4>2. c \in Owned(k, k[p][j])
        BY <1>1, <1>2, <4>1, OwnedFacts
      <4> QED BY <4>2 DEF From
    <3> QED BY <3>1, <3>2
  <2>2. p \in T
    OBVIOUS
  <2>3. Owned(k, p) \subseteq T
    <3> HIDE DEF T
    <3> QED BY <1>1, <2>1, <2>2, OwnedFacts
  <2> QED BY <2>3
<1>4. From(k, p, 1) \subseteq Owned(k, p)
  <2>1. ASSUME NEW j \in 1..Len(k[p])
        PROVE  Owned(k, k[p][j]) \subseteq Owned(k, p)
    <3>1. k[p][j] \in Owned(k, p)
      BY <1>1, <1>2, OwnedFacts
    <3> QED BY <1>1, <1>2, <3>1, OwnedFacts
  <2> QED BY <2>1 DEF From
<1>5. p \notin From(k, p, 1)
  BY <1>2, ParentAbove DEF From
<1>6. From(k, p, Len(k[p]) + 1) = {}
  BY <1>1 DEF From
<1>7. ASSUME NEW i \in 1..Len(k[p])
      PROVE  /\ From(k, p, i) = Owned(k, k[p][i]) \cup From(k, p, i + 1)
             /\ Owned(k, k[p][i]) \cap From(k, p, i + 1) = {}
  <2>1. \A j \in i..Len(k[p]) : j = i \/ j \in (i + 1)..Len(k[p])
    BY <1>1
  <2>2. \A j \in (i + 1)..Len(k[p]) : j \in i..Len(k[p]) /\ j \in 1..Len(k[p]) /\ i # j
    BY <1>1
  <2>3. i \in i..Len(k[p])
    BY <1>1
  <2>4. From(k, p, i) = Owned(k, k[p][i]) \cup From(k, p, i + 1)
    BY <2>1, <2>2, <2>3 DEF From
  <2>5. \A j \in (i + 1)..Len(k[p]) : Owned(k, k[p][i]) \cap Owned(k, k[p][j]) = {}
    BY <2>2, SiblingsApart
  <2> QED BY <2>4, <2>5 DEF From
<1>8. \A i \in 1..(Len(k[p]) + 1) : From(k, p, i) \subseteq From(k, p, 1)
  BY <1>1 DEF From
<1>9. p \in Owned(k, p)
  BY <1>1, OwnedFacts
<1>10. Owned(k, p) = {p} \cup From(k, p, 1)
  BY <1>3, <1>4, <1>9
<1> QED BY <1>2, <1>5, <1>6, <1>7, <1>8, <1>10

\* Where nothing below x changes, what is below it does not.
LEMMA OwnedSame ==
  ASSUME NEW k \in Sequences, NEW k2 \in Sequences, NEW x \in Items,
         \A y \in Owned(k, x) : k2[y] = k[y]
  PROVE  Owned(k2, x) = Owned(k, x)
<1>1. \A y \in Owned(k, x) : Children(k2, y) = Children(k, y)
  BY DEF Children
<1>2. Owned(k2, x) \subseteq Owned(k, x)
  BY <1>1, OwnedFacts
<1>3. \A y \in Owned(k2, x) : Children(k, y) \subseteq Owned(k2, x)
  BY <1>1, <1>2, OwnedFacts
<1> QED BY <1>2, <1>3, OwnedFacts

\* A forest stays one when items leave their parents.
LEMMA ForestFewer ==
  ASSUME NEW k, IsForest(k), NEW k2 \in Sequences,
         \A p \in Items : Children(k2, p) \subseteq Children(k, p),
         \A p \in Items : \A i, j \in 1..Len(k2[p]) : k2[p][i] = k2[p][j] => i = j
  PROVE  IsForest(k2)
<1>1. OneParent(k2)
  <2> SUFFICES ASSUME NEW p \in Items, NEW q \in Items, NEW i \in 1..Len(k2[p]), NEW j \in 1..Len(k2[q]),
                      k2[p][i] = k2[q][j]
               PROVE  p = q /\ i = j
    BY DEF OneParent
  <2>1. k2[p][i] \in Children(k2, p) /\ k2[q][j] \in Children(k2, q)
    BY DEF Children
  <2>2. p = q
    BY <2>1, OnlyParent
  <2> QED BY <2>2
<1>2. PICK level \in [Items -> Nat] : Levelled(k, level)
  BY DEF IsForest
<1>3. Levelled(k2, level)
  BY <1>2 DEF Levelled
<1> QED BY <1>1, <1>2, <1>3 DEF IsForest

\* A root may become a child of an item that is not below it.
LEMMA ForestMore ==
  ASSUME NEW k, IsForest(k), NEW p \in Items, NEW x \in Items, IsRoot(k, x), p \notin Owned(k, x),
         NEW s \in Seq(Items), \A i, j \in 1..Len(s) : s[i] = s[j] => i = j,
         \A i \in 1..Len(s) : s[i] \in Children(k, p) \cup {x}
  PROVE  IsForest([k EXCEPT ![p] = s])
<1> DEFINE k2 == [k EXCEPT ![p] = s]
<1>1. k \in Sequences /\ k2 \in Sequences
  BY DEF IsForest, Sequences
<1>2. k2[p] = s /\ \A q \in Items : q # p => k2[q] = k[q]
  BY <1>1 DEF Sequences
<1> HIDE DEF k2
<1>3. \A q \in Items : \A y \in Children(k2, q) : y \in Children(k, q) \/ (q = p /\ y = x)
  BY <1>2 DEF Children
<1>4. \A q \in Items : \A i \in 1..Len(k2[q]) : k2[q][i] \in Children(k2, q)
  BY DEF Children
<1>5. OneParent(k2)
  <2> SUFFICES ASSUME NEW a \in Items, NEW b \in Items, NEW i \in 1..Len(k2[a]), NEW j \in 1..Len(k2[b]),
                      k2[a][i] = k2[b][j]
               PROVE  a = b /\ i = j
    BY DEF OneParent
  <2>1. a = b
    <3>1. CASE k2[a][i] = x
      BY <3>1, <1>3, <1>4 DEF IsRoot
    <3>2. CASE k2[a][i] # x
      <4>1. k2[a][i] \in Children(k, a) /\ k2[a][i] \in Children(k, b)
        BY <3>2, <1>3, <1>4
      <4> QED BY <4>1, OnlyParent
    <3> QED BY <3>1, <3>2
  <2>2. i = j
    <3>1. CASE a = p
      BY <2>1, <3>1, <1>2
    <3>2. CASE a # p
      BY <2>1, <3>2, <1>2 DEF IsForest, OneParent
    <3> QED BY <3>1, <3>2
  <2> QED BY <2>1, <2>2
<1>6. PICK level \in [Items -> Nat] : Levelled(k, level)
  BY DEF IsForest
<1> DEFINE lower == [y \in Items |-> IF y \in Owned(k, x) THEN level[y] + level[p] + 1 ELSE level[y]]
<1>7. lower \in [Items -> Nat]
  BY <1>6
<1>8. Levelled(k2, lower)
  <2> SUFFICES ASSUME NEW q \in Items, NEW y \in Children(k2, q)
               PROVE  lower[q] < lower[y]
    BY DEF Levelled
  <2>0. y \in Items
    BY <1>1, ChildrenItems
  <2>1. CASE y \in Children(k, q)
    <3>1. level[q] < level[y] /\ level[q] \in Nat /\ level[y] \in Nat /\ level[p] \in Nat
      BY <2>0, <2>1, <1>6 DEF Levelled
    <3>2. q \in Owned(k, x) => y \in Owned(k, x)
      BY <2>1, <1>1, OwnedFacts
    <3> QED BY <2>0, <3>1, <3>2
  <2>2. CASE q = p /\ y = x
    <3>1. x \in Owned(k, x) /\ level[x] \in Nat /\ level[p] \in Nat
      BY <1>1, <1>6, OwnedFacts
    <3> QED BY <2>2, <3>1
  <2> QED BY <2>1, <2>2, <1>3
<1> QED BY <1>1, <1>5, <1>7, <1>8 DEF IsForest, k2

\* What is below p once the root x has become its child.
LEMMA OwnedMore ==
  ASSUME NEW k \in Sequences, NEW k2 \in Sequences, NEW p \in Items, NEW x \in Items, p \notin Owned(k, x),
         \A y \in Items : y # p => k2[y] = k[y],
         Children(k2, p) = Children(k, p) \cup {x}
  PROVE  Owned(k2, p) = Owned(k, p) \cup Owned(k, x)
<1>1. \A y \in Items : Children(k2, y) = IF y = p THEN Children(k, p) \cup {x} ELSE Children(k, y)
  <2>1. \A y \in Items : y # p => Children(k2, y) = Children(k, y)
    BY DEF Children
  <2> QED BY <2>1
<1> DEFINE T == Owned(k, p) \cup Owned(k, x)
<1>2. p \in T /\ T \subseteq Items /\ \A y \in T : Children(k2, y) \subseteq T
  BY <1>1, OwnedFacts
<1>3. Owned(k2, p) \subseteq T
  <2> HIDE DEF T
  <2> QED BY <1>2, OwnedFacts
<1>4. /\ p \in Owned(k2, p) /\ x \in Owned(k2, p) /\ Owned(k2, p) \subseteq Items
      /\ \A y \in Owned(k2, p) : Children(k, y) \subseteq Owned(k2, p)
  BY <1>1, OwnedFacts
<1>5. Owned(k, p) \subseteq Owned(k2, p) /\ Owned(k, x) \subseteq Owned(k2, p)
  BY <1>4, OwnedFacts
<1> QED BY <1>3, <1>5
-----------------------------------------------------------------------------
(* What cJSON_Delete meets.                                                 *)

Visits == [items : SUBSET Items, again : BOOLEAN]

VisitStep(h, walk) ==
  [item \in Pointers |-> IF item = Null THEN Nothing ELSE VisitItem(h, walk, item)]

\* Visit goes one item deeper with each number.
LEMMA VisitLoop ==
  ASSUME NEW h \in HeapType
  PROVE  /\ Visit(h)[0] = [item \in Pointers |-> Nothing]
         /\ \A n \in Nat : n # 0 => Visit(h)[n] = VisitStep(h, Visit(h)[n - 1])
         /\ \A n \in Nat : Visit(h)[n] \in [Pointers -> Visits]
<1> DEFINE D == [Pointers -> Visits]
           start == [item \in Pointers |-> Nothing]
           step == [walk \in D |-> VisitStep(h, walk)]
           Is(w) == w = [n \in Nat |->
                           IF n = 0 THEN [item \in Pointers |-> Nothing]
                           ELSE [item \in Pointers |-> IF item = Null THEN Nothing
                                                       ELSE VisitItem(h, w[n - 1], item)]]
           visit == CHOOSE w : Is(w)
<1>1. start \in D
  BY DEF Nothing, Visits
<1>2. step \in [D -> D]
  <2> SUFFICES ASSUME NEW walk \in D, NEW item \in Pointers, item # Null
               PROVE  VisitItem(h, walk, item) \in Visits
    BY DEF VisitStep, Nothing, Visits
  <2>0. h.child \in [Items -> Pointers] /\ h.next \in [Items -> Pointers]
    BY DEF HeapType
  <2>1. /\ item \in Items /\ walk[h.next[item]] \in Visits /\ walk[h.child[item]] \in Visits
        /\ Nothing \in Visits
    BY <2>0 DEF Pointers, Nothing, Visits
  <2> QED BY <2>1 DEF VisitItem, Visits
<1> HIDE DEF D, start, step
<1>3. PICK f \in [Nat -> D] : f[0] = start /\ \A n \in Nat : n # 0 => f[n] = step[f[n - 1]]
  <2>1. \E f \in [Nat -> D] : f[0] = start /\ \A n \in Nat : n # 0 => f[n] = step[f[n - 1]]
    BY <1>1, <1>2, Loop
  <2> QED BY <2>1
<1>4. ASSUME NEW n \in Nat, n # 0
      PROVE  f[n] = VisitStep(h, f[n - 1])
  <2>1. f[n - 1] \in D
    BY <1>3, <1>4
  <2> QED BY <1>3, <1>4, <2>1 DEF step
<1>5. Is(f)
  BY <1>3, <1>4 DEF VisitStep, start
<1>6. Is(visit)
  BY <1>5
<1>7. Visit(h) = visit
  BY DEF Visit
<1> HIDE DEF visit
<1>8. visit[0] = start /\ \A n \in Nat : n # 0 => visit[n] = VisitStep(h, visit[n - 1])
  BY <1>6 DEF VisitStep, start
<1> DEFINE G == {n \in Nat : visit[n] \in D}
<1>9. 0 \in G
  BY <1>1, <1>8
<1>10. ASSUME NEW n \in G PROVE n + 1 \in G
  <2>1. n \in Nat /\ visit[n] \in D /\ n + 1 \in Nat /\ n + 1 # 0 /\ (n + 1) - 1 = n
    OBVIOUS
  <2>2. visit[n + 1] = VisitStep(h, visit[n])
    BY <1>8, <2>1
  <2>3. step[visit[n]] = VisitStep(h, visit[n])
    BY <2>1 DEF step
  <2> QED BY <1>2, <2>1, <2>2, <2>3
<1>11. G = Nat
  <2>1. G \in SUBSET Nat
    OBVIOUS
  <2> HIDE DEF G
  <2> QED BY <1>9, <1>10, <2>1, EveryTurn
<1> QED BY <1>7, <1>8, <1>11 DEF D, start

\* The children h holds are those of k, as far as child and next tell.
Kept(h, k) ==
  \A p \in Items : Children(k, p) \subseteq h.live /\ (p \notin h.live \ h.ref => k[p] = <<>>)

Forward(h, k) ==
  \A p \in h.live \ h.ref :
    /\ h.child[p] = IF k[p] = <<>> THEN Null ELSE k[p][1]
    /\ \A i \in 1..Len(k[p]) : h.next[k[p][i]] = IF i = Len(k[p]) THEN Null ELSE k[p][i + 1]

Shape(h, k) == h \in HeapType /\ IsForest(k) /\ Kept(h, k) /\ Forward(h, k)

\* The loop meets the item, the trees below it and those of its next
\* siblings, and nothing twice.
LEMMA VisitFacts ==
  ASSUME NEW h, NEW k, Shape(h, k)
  PROVE  \A n \in Nat : \A p \in Items : \A i \in 1..Len(k[p]) :
           Cardinality(From(k, p, i)) <= n
             => Visit(h)[n][k[p][i]] = [items |-> From(k, p, i), again |-> FALSE]
<1>0. /\ h \in HeapType
      /\ h.live \subseteq Items /\ h.ref \subseteq Items
      /\ IsForest(k) /\ k \in Sequences
  BY DEF Shape, HeapType, IsForest
<1> DEFINE visit == Visit(h)
           walked(x, S) == x = [items |-> S, again |-> FALSE]
           P(n) == \A p \in Items : \A i \in 1..Len(k[p]) :
                     Cardinality(From(k, p, i)) <= n => walked(visit[n][k[p][i]], From(k, p, i))
           G == {n \in Nat : P(n)}
<1>1. ASSUME NEW p \in Items, NEW i \in 1..(Len(k[p]) + 1)
      PROVE  /\ From(k, p, i) \subseteq Items /\ IsFiniteSet(From(k, p, i))
             /\ Cardinality(From(k, p, i)) \in Nat
  <2>1. From(k, p, i) \subseteq Owned(k, p) /\ Owned(k, p) \subseteq Items
    BY <1>0, FromFacts, OwnedFacts
  <2> QED BY <2>1, ItemsAssumption, FS_Subset, FS_CardinalityType
<1>2. \A p \in Items : Len(k[p]) \in Nat
  BY <1>0 DEF Sequences
<1>3. visit[0] = [item \in Pointers |-> Nothing] /\ \A n \in Nat : n # 0 => visit[n] = VisitStep(h, visit[n - 1])
  BY <1>0, VisitLoop
<1> HIDE DEF visit
<1>4. \A n \in Nat : visit[n][Null] = Nothing
  BY <1>3 DEF VisitStep, Pointers
<1>5. 0 \in G
  <2> SUFFICES ASSUME NEW p \in Items, NEW i \in 1..Len(k[p]), Cardinality(From(k, p, i)) <= 0
               PROVE  FALSE
    OBVIOUS
  <2>1. i \in 1..(Len(k[p]) + 1)
    BY <1>2
  <2>2. From(k, p, i) = {}
    BY <1>1, <2>1, FS_EmptySet
  <2>3. k[p][i] \in Owned(k, k[p][i]) /\ Owned(k, k[p][i]) \subseteq From(k, p, i)
    BY <1>0, FromFacts, OwnedFacts
  <2> QED BY <2>2, <2>3
<1>6. ASSUME NEW n \in G
      PROVE  n + 1 \in G
  <2>1. n \in Nat /\ P(n)
    OBVIOUS
  <2> SUFFICES ASSUME NEW p \in Items, NEW i \in 1..Len(k[p]), Cardinality(From(k, p, i)) <= n + 1
               PROVE  walked(visit[n + 1][k[p][i]], From(k, p, i))
    BY <2>1
  <2> DEFINE x == k[p][i]
             below == From(k, x, 1)
             after == From(k, p, i + 1)
  <2>2. /\ x \in Items /\ Owned(k, x) = {x} \cup below /\ x \notin below
        /\ From(k, p, i) = Owned(k, x) \cup after /\ Owned(k, x) \cap after = {}
    BY <1>0, FromFacts
  <2>3. i \in 1..(Len(k[p]) + 1) /\ i + 1 \in 1..(Len(k[p]) + 1) /\ 1 \in 1..(Len(k[x]) + 1)
    BY <1>2, <2>2
  <2>4. Cardinality(below) <= n /\ Cardinality(after) <= n
    <3> DEFINE F == From(k, p, i)
    <3>1. IsFiniteSet(F) /\ Cardinality(F) \in Nat /\ Cardinality(F) <= n + 1 /\ x \in F
      BY <1>1, <2>2, <2>3
    <3>2. IsFiniteSet(F \ {x}) /\ Cardinality(F \ {x}) = Cardinality(F) - 1
      BY <3>1, FS_RemoveElement
    <3>3. below \in SUBSET (F \ {x}) /\ after \in SUBSET (F \ {x})
      BY <2>2
    <3> HIDE DEF F, below, after
    <3>4. Cardinality(below) <= Cardinality(F \ {x}) /\ Cardinality(after) <= Cardinality(F \ {x})
      BY <3>2, <3>3, FS_Subset
    <3>5. Cardinality(below) \in Nat /\ Cardinality(after) \in Nat
      BY <1>1, <2>2, <2>3 DEF below, after
    <3> QED BY <2>1, <3>1, <3>2, <3>4, <3>5
  <2>5. x \in h.live /\ p \in h.live \ h.ref
    <3>1. x \in Children(k, p)
      BY DEF Children
    <3>2. k[p] # <<>>
      BY <1>2
    <3> QED BY <3>1, <3>2 DEF Shape, Kept
  <2>6. x \notin h.ref => walked(visit[n][h.child[x]], below)
    <3>1. CASE x \notin h.ref /\ k[x] = <<>>
      <4>1. h.child[x] = Null
        BY <2>5, <3>1 DEF Shape, Forward
      <4>2. below = {}
        <5>1. Len(k[x]) = 0
          BY <3>1
        <5>2. From(k, x, Len(k[x]) + 1) = {}
          BY <1>0, <2>2, FromFacts
        <5> QED BY <5>1, <5>2
      <4> QED BY <1>4, <2>1, <4>1, <4>2 DEF Nothing
    <3>2. CASE x \notin h.ref /\ k[x] # <<>>
      <4>1. h.child[x] = k[x][1]
        BY <2>5, <3>2 DEF Shape, Forward
      <4>2. 1 \in 1..Len(k[x])
        BY <3>2, <1>0, <2>2 DEF Sequences
      <4> QED BY <2>1, <2>2, <2>4, <4>1, <4>2
    <3> QED BY <3>1, <3>2
  <2>7. x \in h.ref => below = {}
    <3>1. x \in h.ref => k[x] = <<>>
      BY <2>2 DEF Shape, Kept
    <3>2. x \in h.ref => Len(k[x]) = 0
      BY <3>1
    <3>3. From(k, x, Len(k[x]) + 1) = {}
      BY <1>0, <2>2, FromFacts
    <3> QED BY <3>2, <3>3
  <2>8. walked(visit[n][h.next[x]], after)
    <3>1. h.next[x] = IF i = Len(k[p]) THEN Null ELSE k[p][i + 1]
      BY <2>5 DEF Shape, Forward
    <3>2. CASE i = Len(k[p])
      <4>1. after = {}
        BY <1>0, <3>2, FromFacts
      <4> QED BY <1>4, <2>1, <3>1, <3>2, <4>1 DEF Nothing
    <3>3. CASE i # Len(k[p])
      <4>1. i + 1 \in 1..Len(k[p])
        BY <1>2, <3>3
      <4> QED BY <2>1, <2>4, <3>1, <3>3, <4>1
    <3> QED BY <3>2, <3>3
  <2>9. visit[n + 1][x] = VisitItem(h, visit[n], x)
    <3>1. n + 1 \in Nat /\ n + 1 # 0 /\ (n + 1) - 1 = n /\ x \in Pointers /\ x # Null
      BY <2>1, <2>2 DEF Pointers
    <3>2. visit[n + 1] = VisitStep(h, visit[n])
      BY <1>3, <3>1
    <3> HIDE DEF x
    <3> QED BY <3>1, <3>2 DEF VisitStep
  <2> HIDE DEF x, below, after
  <2>10. VisitItem(h, visit[n], x) = [items |-> {x} \cup below \cup after,
                                     again |-> x \in below \cup after \/ below \cap after # {}]
    <3> DEFINE rest == visit[n][h.next[x]]
               inner == IF x \in h.ref THEN Nothing ELSE visit[n][h.child[x]]
    <3>1. rest.items = after /\ rest.again = FALSE
      BY <2>8
    <3>2. inner.items = below /\ inner.again = FALSE
      BY <2>6, <2>7 DEF Nothing
    <3>3. VisitItem(h, visit[n], x) =
            [items |-> {x} \cup inner.items \cup rest.items,
             again |-> \/ inner.again \/ rest.again
                       \/ x \in inner.items \cup rest.items
                       \/ inner.items \cap rest.items # {}]
      BY DEF VisitItem
    <3> HIDE DEF inner, rest
    <3> QED BY <3>1, <3>2, <3>3
  <2>11. {x} \cup below \cup after = From(k, p, i) /\ x \notin below \cup after /\ below \cap after = {}
    BY <2>2
  <2> QED BY <2>9, <2>10, <2>11 DEF x
<1>7. G = Nat
  <2>1. G \in SUBSET Nat
    OBVIOUS
  <2> HIDE DEF G
  <2> QED BY <1>5, <1>6, <2>1, EveryTurn
<1> QED BY <1>7 DEF visit
-----------------------------------------------------------------------------
(* Heaps, field by field.                                                   *)

\* All but the allocations left is the same.
Same(g, h) ==
  /\ g.room = h.room /\ g.live = h.live /\ g.ref = h.ref /\ g.const = h.const
  /\ g.texts = h.texts /\ g.undefined = h.undefined
  /\ g.next = h.next /\ g.prev = h.prev /\ g.child = h.child /\ g.kind = h.kind /\ g.key = h.key

\* The fields of a heap.
LEMMA HeapFields ==
  ASSUME NEW h \in HeapType
  PROVE  /\ h.live \subseteq Items /\ h.ref \subseteq Items /\ h.const \subseteq Items
         /\ h.texts \in Int /\ h.fuel \in Nat /\ h.undefined \in BOOLEAN /\ h.room \in RoomType
         /\ h.next \in [Items -> Pointers] /\ h.prev \in [Items -> Pointers]
         /\ h.child \in [Items -> Pointers]
         /\ h.kind \in [Items -> Kinds \cup {None}] /\ h.key \in [Items -> Keys]
BY DEF HeapType

\* Heaps that are the same differ in fuel alone.
LEMMA SameHeap ==
  ASSUME NEW g \in HeapType, NEW h \in HeapType, Same(g, h)
  PROVE  /\ [g EXCEPT !.fuel = h.fuel] = h
         /\ g.fuel = h.fuel => g = h
BY DEF Same, HeapType

\* cJSON_New_Item gives an item that was not allocated, or changes nothing.
LEMMA NewItemFacts ==
  ASSUME NEW h \in HeapType
  PROVE  /\ NewItem(h).heap \in HeapType /\ NewItem(h).item \in Pointers
         /\ NewItem(h).item = Null => NewItem(h) = Result(h, Null)
         /\ NewItem(h).item # Null =>
              /\ NewItem(h).item \in Items \ h.live /\ h.fuel # 0
              /\ NewItem(h).heap.live = h.live \cup {NewItem(h).item}
              /\ NewItem(h).heap = [h EXCEPT !.fuel = h.fuel - 1, !.live = h.live \cup {NewItem(h).item}]
<1>1. CASE h.fuel = 0 \/ Unused(h) = {} \/ Cardinality(Items \ Unused(h)) >= h.room.items
  <2>1. NewItem(h) = Result(h, Null)
    BY <1>1 DEF NewItem
  <2> QED BY <2>1 DEF Result, Pointers
<1>2. CASE ~ (h.fuel = 0 \/ Unused(h) = {} \/ Cardinality(Items \ Unused(h)) >= h.room.items)
  <2> DEFINE x == CHOOSE i \in Unused(h) : TRUE
  <2>1. x \in Items \ h.live
    BY <1>2 DEF Unused
  <2>2. NewItem(h) = Result([h EXCEPT !.fuel = h.fuel - 1, !.live = h.live \cup {x}], x)
    BY <1>2 DEF NewItem
  <2> HIDE DEF x
  <2>5. h.fuel - 1 \in Nat /\ h.live \cup {x} \in SUBSET Items
    BY <1>2, <2>1, HeapFields
  <2>3. [h EXCEPT !.fuel = h.fuel - 1, !.live = h.live \cup {x}] \in HeapType
    BY <2>5 DEF HeapType
  <2>4. [h EXCEPT !.fuel = h.fuel - 1, !.live = h.live \cup {x}].live = h.live \cup {x}
    BY DEF HeapType
  <2>6. /\ NewItem(h).item = x
        /\ NewItem(h).heap = [h EXCEPT !.fuel = h.fuel - 1, !.live = h.live \cup {x}]
    BY <2>2 DEF Result
  <2>7. x \in Pointers /\ x # Null
    BY <2>1 DEF Pointers
  <2> QED BY <1>2, <2>1, <2>3, <2>4, <2>6, <2>7
<1> QED BY <1>1, <1>2

\* cJSON_strdup makes one text more, or changes nothing.
LEMMA StrdupFacts ==
  ASSUME NEW h \in HeapType
  PROVE  /\ Strdup(h) \in HeapType
         /\ Failed(h, Strdup(h)) => Strdup(h) = h
         /\ ~Failed(h, Strdup(h)) => Strdup(h) = [h EXCEPT !.fuel = h.fuel - 1, !.texts = h.texts + 1]
<1>1. CASE h.fuel = 0 \/ h.texts >= h.room.texts
  <2>1. Strdup(h) = h
    BY <1>1 DEF Strdup
  <2> QED BY <2>1 DEF Failed
<1>2. CASE ~ (h.fuel = 0 \/ h.texts >= h.room.texts)
  <2> DEFINE g == [h EXCEPT !.fuel = h.fuel - 1, !.texts = h.texts + 1]
  <2>1. Strdup(h) = g
    BY <1>2 DEF Strdup
  <2>5. h.fuel - 1 \in Nat /\ h.texts + 1 \in Int
    BY <1>2, HeapFields
  <2>2. g \in HeapType /\ g.texts = h.texts + 1
    BY <2>5 DEF HeapType
  <2>3. h.texts \in Int
    BY HeapFields
  <2> HIDE DEF g
  <2>4. ~Failed(h, g)
    BY <2>2, <2>3 DEF Failed
  <2> QED BY <2>1, <2>2, <2>4 DEF g
<1> QED BY <1>1, <1>2

\* The texts of a set of items can be counted.
LEMMA TextsType ==
  ASSUME NEW h, NEW S \in SUBSET Items
  PROVE  Texts(h, S) \in Nat
<1>1. \A T \in SUBSET Items : Cardinality(T) \in Nat
  BY ItemsAssumption, FS_Subset, FS_CardinalityType
<1>2. {i \in S : OwnsKey(h, i)} \in SUBSET Items /\ {i \in S : OwnsValue(h, i)} \in SUBSET Items
  OBVIOUS
<1> QED BY <1>1, <1>2 DEF Texts

\* What is left when the items of S are freed, field by field.
LEMMA FreedFacts ==
  ASSUME NEW h \in HeapType, NEW S \in SUBSET Items
  PROVE  /\ Freed(h, S) \in HeapType
         /\ Freed(h, S).room = h.room /\ Freed(h, S).fuel = h.fuel
         /\ Freed(h, S).undefined = h.undefined
         /\ Freed(h, S).live = h.live \ S /\ Freed(h, S).ref = h.ref \ S
         /\ Freed(h, S).const = h.const \ S /\ Freed(h, S).texts = h.texts - Texts(h, S)
         /\ Freed(h, S).next = Cleared(h.next, S, Null) /\ Freed(h, S).prev = Cleared(h.prev, S, Null)
         /\ Freed(h, S).child = Cleared(h.child, S, Null)
         /\ Freed(h, S).kind = Cleared(h.kind, S, None) /\ Freed(h, S).key = Cleared(h.key, S, None)
<1>1. Texts(h, S) \in Nat
  BY TextsType
<1>2. h.texts - Texts(h, S) \in Int
  BY <1>1, HeapFields
<1>3. \A f \in [Items -> Pointers] : Cleared(f, S, Null) \in [Items -> Pointers]
  BY DEF Cleared, Pointers
<1>4. Cleared(h.kind, S, None) \in [Items -> Kinds \cup {None}] /\ Cleared(h.key, S, None) \in [Items -> Keys]
  BY HeapFields DEF Cleared, Keys
<1> QED BY <1>2, <1>3, <1>4 DEF Freed, HeapType
-----------------------------------------------------------------------------
(* Counting keys and texts.                                                 *)

\* Two heaps tell the same of what the items of S own.
OwnAlike(g, h, S) ==
  \A i \in S : (OwnsKey(g, i) <=> OwnsKey(h, i)) /\ (OwnsValue(g, i) <=> OwnsValue(h, i))

\* Heaps that tell the same of what S owns count the same.
LEMMA TextsAlike ==
  ASSUME NEW g, NEW h, NEW S, OwnAlike(g, h, S)
  PROVE  Texts(g, S) = Texts(h, S)
<1>1. /\ {i \in S : OwnsKey(g, i)} = {i \in S : OwnsKey(h, i)}
      /\ {i \in S : OwnsValue(g, i)} = {i \in S : OwnsValue(h, i)}
  BY DEF OwnAlike
<1> QED BY <1>1 DEF Texts

\* Texts of sets that are apart add up.
LEMMA TextsUnion ==
  ASSUME NEW h, NEW S \in SUBSET Items, NEW T \in SUBSET Items, S \cap T = {}
  PROVE  Texts(h, S \cup T) = Texts(h, S) + Texts(h, T)
<1>1. ASSUME NEW A \in SUBSET Items, NEW B \in SUBSET Items, A \cap B = {}
      PROVE  /\ Cardinality(A \cup B) = Cardinality(A) + Cardinality(B)
             /\ Cardinality(A) \in Nat /\ Cardinality(B) \in Nat
  <2>1. IsFiniteSet(A) /\ IsFiniteSet(B)
    BY ItemsAssumption, FS_Subset
  <2>2. Cardinality(A) \in Nat /\ Cardinality(B) \in Nat
    BY <2>1, FS_CardinalityType
  <2>3. Cardinality(A \cup B) = Cardinality(A) + Cardinality(B) - Cardinality(A \cap B)
    BY <2>1, FS_Union
  <2>4. Cardinality(A \cap B) = 0
    BY <1>1, FS_EmptySet
  <2> QED BY <2>2, <2>3, <2>4
<1> DEFINE k(R) == {i \in R : OwnsKey(h, i)}
           v(R) == {i \in R : OwnsValue(h, i)}
<1>2. /\ k(S \cup T) = k(S) \cup k(T) /\ k(S) \cap k(T) = {}
      /\ v(S \cup T) = v(S) \cup v(T) /\ v(S) \cap v(T) = {}
      /\ k(S) \in SUBSET Items /\ k(T) \in SUBSET Items
      /\ v(S) \in SUBSET Items /\ v(T) \in SUBSET Items
  OBVIOUS
<1>3. \A R : Texts(h, R) = Cardinality(k(R)) + Cardinality(v(R))
  BY DEF Texts
<1> HIDE DEF k, v
<1>4. /\ Cardinality(k(S \cup T)) = Cardinality(k(S)) + Cardinality(k(T))
      /\ Cardinality(k(S)) \in Nat /\ Cardinality(k(T)) \in Nat
  BY <1>1, <1>2
<1>5. /\ Cardinality(v(S \cup T)) = Cardinality(v(S)) + Cardinality(v(T))
      /\ Cardinality(v(S)) \in Nat /\ Cardinality(v(T)) \in Nat
  BY <1>1, <1>2
<1> QED BY <1>3, <1>4, <1>5

\* What one item owns.
LEMMA TextsOne ==
  ASSUME NEW h, NEW i
  PROVE  Texts(h, {i}) = (IF OwnsKey(h, i) THEN 1 ELSE 0) + (IF OwnsValue(h, i) THEN 1 ELSE 0)
<1>1. {j \in {i} : OwnsKey(h, j)} = (IF OwnsKey(h, i) THEN {i} ELSE {})
  OBVIOUS
<1>2. {j \in {i} : OwnsValue(h, j)} = (IF OwnsValue(h, i) THEN {i} ELSE {})
  OBVIOUS
<1>3. Cardinality({i}) = 1 /\ Cardinality({}) = 0
  BY FS_Singleton, FS_EmptySet
<1> QED BY <1>1, <1>2, <1>3 DEF Texts

\* A cleared field at an item.
LEMMA ClearedAt ==
  ASSUME NEW f, NEW S, NEW blank, NEW i \in Items
  PROVE  Cleared(f, S, blank)[i] = IF i \in S THEN blank ELSE f[i]
BY DEF Cleared

\* Freeing S changes nothing of what other items own.
LEMMA OwnAlikeFreed ==
  ASSUME NEW h \in HeapType, NEW S \in SUBSET Items, NEW T \in SUBSET Items, S \cap T = {}
  PROVE  OwnAlike(Freed(h, S), h, T)
<1> DEFINE g == Freed(h, S)
<1>1. /\ g.ref = h.ref \ S /\ g.const = h.const \ S
      /\ g.kind = Cleared(h.kind, S, None) /\ g.key = Cleared(h.key, S, None)
  BY FreedFacts
<1> HIDE DEF g
<1>2. \A i \in T : g.kind[i] = h.kind[i] /\ g.key[i] = h.key[i]
  BY <1>1, ClearedAt
<1>3. \A i \in T : (i \in g.ref <=> i \in h.ref) /\ (i \in g.const <=> i \in h.const)
  BY <1>1
<1> QED BY <1>2, <1>3 DEF OwnAlike, OwnsKey, OwnsValue, g

\* To free some items and then others is to free them all.
LEMMA FreedTwice ==
  ASSUME NEW h \in HeapType, NEW S \in SUBSET Items, NEW T \in SUBSET Items, S \cap T = {}
  PROVE  Same(Freed(Freed(h, S), T), Freed(h, S \cup T))
<1> DEFINE f == Freed(h, S)
           g == Freed(f, T)
           e == Freed(h, S \cup T)
<1>1. f \in HeapType /\ S \cup T \in SUBSET Items
  BY FreedFacts
<1>2. Texts(f, T) = Texts(h, T)
  BY OwnAlikeFreed, TextsAlike
<1>3. g.texts = e.texts
  <2>1. g.texts = f.texts - Texts(h, T) /\ f.texts = h.texts - Texts(h, S)
        /\ e.texts = h.texts - Texts(h, S \cup T)
    BY <1>1, <1>2, FreedFacts
  <2>2. Texts(h, S \cup T) = Texts(h, S) + Texts(h, T) /\ Texts(h, S) \in Nat /\ Texts(h, T) \in Nat
    BY TextsUnion, TextsType
  <2>3. h.texts \in Int
    BY HeapFields
  <2> HIDE DEF f, g, e
  <2> QED BY <2>1, <2>2, <2>3
<1>4. \A field, blank : Cleared(Cleared(field, S, blank), T, blank) = Cleared(field, S \cup T, blank)
  BY DEF Cleared
<1>5. /\ g.room = f.room /\ g.undefined = f.undefined /\ g.live = f.live \ T /\ g.ref = f.ref \ T
      /\ g.const = f.const \ T /\ g.next = Cleared(f.next, T, Null) /\ g.prev = Cleared(f.prev, T, Null)
      /\ g.child = Cleared(f.child, T, Null)
      /\ g.kind = Cleared(f.kind, T, None) /\ g.key = Cleared(f.key, T, None)
  BY <1>1, FreedFacts
<1>6. /\ f.room = h.room /\ f.undefined = h.undefined /\ f.live = h.live \ S /\ f.ref = h.ref \ S
      /\ f.const = h.const \ S /\ f.next = Cleared(h.next, S, Null) /\ f.prev = Cleared(h.prev, S, Null)
      /\ f.child = Cleared(h.child, S, Null)
      /\ f.kind = Cleared(h.kind, S, None) /\ f.key = Cleared(h.key, S, None)
  BY FreedFacts
<1>7. /\ e.room = h.room /\ e.undefined = h.undefined /\ e.live = h.live \ (S \cup T)
      /\ e.ref = h.ref \ (S \cup T) /\ e.const = h.const \ (S \cup T)
      /\ e.next = Cleared(h.next, S \cup T, Null) /\ e.prev = Cleared(h.prev, S \cup T, Null)
      /\ e.child = Cleared(h.child, S \cup T, Null)
      /\ e.kind = Cleared(h.kind, S \cup T, None) /\ e.key = Cleared(h.key, S \cup T, None)
  BY <1>1, FreedFacts
<1>8. /\ e.live = g.live /\ e.ref = g.ref /\ e.const = g.const
  <2> HIDE DEF f, g, e
  <2> QED BY <1>5, <1>6, <1>7
<1>9. e.next = g.next /\ e.prev = g.prev /\ e.child = g.child /\ e.kind = g.kind /\ e.key = g.key
  <2> HIDE DEF f, g, e
  <2> QED BY <1>4, <1>5, <1>6, <1>7
<1>10. e.room = g.room /\ e.undefined = g.undefined
  <2> HIDE DEF f, g, e
  <2> QED BY <1>5, <1>6, <1>7
<1> HIDE DEF f, g, e
<1> QED BY <1>3, <1>8, <1>9, <1>10 DEF Same, f, g, e

\* Heaps that differ in S alone are the same once S is freed.
LEMMA FreedSame ==
  ASSUME NEW g \in HeapType, NEW h \in HeapType, NEW S \in SUBSET Items,
         g.room = h.room, g.live \ S = h.live \ S, g.ref \ S = h.ref \ S, g.const \ S = h.const \ S,
         g.texts - Texts(g, S) = h.texts - Texts(h, S), g.undefined = h.undefined,
         \A i \in Items \ S : /\ g.next[i] = h.next[i] /\ g.prev[i] = h.prev[i] /\ g.child[i] = h.child[i]
                              /\ g.kind[i] = h.kind[i] /\ g.key[i] = h.key[i]
  PROVE  Same(Freed(g, S), Freed(h, S))
<1>1. /\ Cleared(g.next, S, Null) = Cleared(h.next, S, Null)
      /\ Cleared(g.prev, S, Null) = Cleared(h.prev, S, Null)
      /\ Cleared(g.child, S, Null) = Cleared(h.child, S, Null)
      /\ Cleared(g.kind, S, None) = Cleared(h.kind, S, None)
      /\ Cleared(g.key, S, None) = Cleared(h.key, S, None)
  BY DEF Cleared
<1> DEFINE f == Freed(g, S)
           e == Freed(h, S)
<1>2. /\ f.room = g.room /\ f.undefined = g.undefined /\ f.live = g.live \ S /\ f.ref = g.ref \ S
      /\ f.const = g.const \ S /\ f.next = Cleared(g.next, S, Null) /\ f.prev = Cleared(g.prev, S, Null)
      /\ f.child = Cleared(g.child, S, Null) /\ f.texts = g.texts - Texts(g, S)
      /\ f.kind = Cleared(g.kind, S, None) /\ f.key = Cleared(g.key, S, None)
  BY FreedFacts
<1>3. /\ e.room = h.room /\ e.undefined = h.undefined /\ e.live = h.live \ S /\ e.ref = h.ref \ S
      /\ e.const = h.const \ S /\ e.next = Cleared(h.next, S, Null) /\ e.prev = Cleared(h.prev, S, Null)
      /\ e.child = Cleared(h.child, S, Null) /\ e.texts = h.texts - Texts(h, S)
      /\ e.kind = Cleared(h.kind, S, None) /\ e.key = Cleared(h.key, S, None)
  BY FreedFacts
<1> HIDE DEF f, e
<1>4. Same(f, e)
  BY <1>1, <1>2, <1>3 DEF Same
<1> QED BY <1>4 DEF f, e

\* To be the same is an equivalence.
LEMMA SameTrans ==
  /\ \A h : Same(h, h)
  /\ \A g, h : Same(g, h) => Same(h, g)
  /\ \A f, g, h : Same(f, g) /\ Same(g, h) => Same(f, h)
BY DEF Same
-----------------------------------------------------------------------------
(* Heaps that hold a forest.                                                *)

\* Fields of h for the list s of children of p; of an open list the first
\* child does not point to the last yet.
Lists(h, p, s, open) ==
  /\ h.child[p] = IF s = <<>> THEN Null ELSE s[1]
  /\ \A i \in 1..Len(s) :
       /\ h.next[s[i]] = IF i = Len(s) THEN Null ELSE s[i + 1]
       /\ h.prev[s[i]] = IF i # 1 THEN s[i - 1] ELSE IF open THEN Null ELSE s[Len(s)]

Whole(h, k, open) == \A p \in h.live \ h.ref : Lists(h, p, k[p], p \in open)

RootsLoose(h, k) == \A x \in h.live : IsRoot(k, x) => Loose(h, x)

\* Memory that is not allocated holds nothing.
Blank(h) ==
  /\ h.ref \subseteq h.live /\ h.const \subseteq h.live
  /\ \A i \in Items \ h.live : /\ h.next[i] = Null /\ h.prev[i] = Null /\ h.child[i] = Null
                               /\ h.kind[i] = None /\ h.key[i] = None

Counted(h) == h.texts = Texts(h, h.live) /\ ~h.undefined

\* h holds the forest k; the lists of the items of open are being made.
Good(h, k, open) ==
  /\ h \in HeapType /\ IsForest(k) /\ Kept(h, k)
  /\ Whole(h, k, open) /\ RootsLoose(h, k) /\ Blank(h) /\ Counted(h)

\* A heap that holds a forest has its shape.
LEMMA GoodShape ==
  ASSUME NEW h, NEW k, NEW open, Good(h, k, open)
  PROVE  /\ Shape(h, k)
         /\ h.live \in SUBSET Items /\ k \in Sequences
         /\ \A p \in Items : k[p] \in Seq(Items) /\ Len(k[p]) \in Nat
<1>1. Forward(h, k)
  BY DEF Good, Whole, Lists, Forward
<1>2. h \in HeapType /\ IsForest(k) /\ k \in Sequences
  BY DEF Good, IsForest
<1>3. h.live \subseteq Items
  BY <1>2, HeapFields
<1> QED BY <1>1, <1>2, <1>3 DEF Good, Shape, Sequences

\* Neither the allocations left nor the room matter.
LEMMA GoodAlike ==
  ASSUME NEW g \in HeapType, NEW h, NEW k, NEW open, Good(h, k, open),
         g.live = h.live, g.ref = h.ref, g.const = h.const, g.texts = h.texts, g.undefined = h.undefined,
         g.next = h.next, g.prev = h.prev, g.child = h.child, g.kind = h.kind, g.key = h.key
  PROVE  Good(g, k, open)
<1>1. Kept(g, k) /\ Whole(g, k, open) /\ RootsLoose(g, k) /\ Blank(g)
  BY DEF Good, Kept, Whole, Lists, RootsLoose, Loose, Blank
<1>2. OwnAlike(g, h, h.live)
  BY DEF OwnAlike, OwnsKey, OwnsValue
<1>3. Texts(g, g.live) = Texts(h, h.live)
  BY <1>2, TextsAlike
<1> QED BY <1>1, <1>3 DEF Good, Counted

\* A heap that is the same holds the same forest.
LEMMA GoodSame ==
  ASSUME NEW g \in HeapType, NEW h, NEW k, NEW open, Good(h, k, open), Same(g, h)
  PROVE  Good(g, k, open)
BY GoodAlike DEF Same

\* What an item owns is allocated.
LEMMA OwnedLive ==
  ASSUME NEW h, NEW k, NEW open, Good(h, k, open), NEW x \in h.live
  PROVE  Owned(k, x) \subseteq h.live /\ Owned(k, x) \in SUBSET Items /\ x \in Owned(k, x) /\ x \in Items
<1>1. h.live \in SUBSET Items /\ k \in Sequences /\ Kept(h, k)
  BY GoodShape DEF Good
<1>2. x \in Items /\ \A y \in h.live \cap Items : Children(k, y) \subseteq h.live
  BY <1>1 DEF Kept
<1> QED BY <1>1, <1>2, OwnedFacts

\* An item that has no children owns itself alone.
LEMMA OwnedLeaf ==
  ASSUME NEW k \in Sequences, NEW x \in Items, k[x] = <<>>
  PROVE  Owned(k, x) = {x} /\ Children(k, x) = {}
<1>1. Children(k, x) = {}
  BY DEF Children
<1> DEFINE T == {x}
<1>2. x \in T /\ \A y \in T \cap Items : Children(k, y) \subseteq T
  BY <1>1
<1> HIDE DEF T
<1>3. Owned(k, x) \subseteq T /\ x \in Owned(k, x)
  BY <1>2, OwnedFacts
<1> QED BY <1>1, <1>3 DEF T

\* cJSON_Delete of a root frees what the root owns, each item once.
THEOREM DeleteCorrect ==
  ASSUME NEW h, NEW k, NEW open, Good(h, k, open), NEW x \in h.live, IsRoot(k, x)
  PROVE  Delete(h, x) = Freed(h, Owned(k, x))
<1> DEFINE N == Cardinality(Items)
           visit == Visit(h)
           below == From(k, x, 1)
<1>0. /\ Shape(h, k) /\ h \in HeapType /\ IsForest(k) /\ k \in Sequences /\ x \in Items
      /\ x \in Pointers /\ x # Null
      /\ Loose(h, x) /\ N \in Nat
  <2>1. N \in Nat
    BY ItemsAssumption, FS_CardinalityType
  <2> QED BY <2>1, GoodShape DEF Good, RootsLoose, Pointers, IsForest
<1>1. /\ visit[0] = [item \in Pointers |-> Nothing]
      /\ \A n \in Nat : n # 0 => visit[n] = VisitStep(h, visit[n - 1])
  BY <1>0, VisitLoop
<1>2. /\ Owned(k, x) = {x} \cup below /\ x \notin below
      /\ From(k, x, Len(k[x]) + 1) = {}
  BY <1>0, FromFacts
<1>3. k[x] # <<>> => visit[N][k[x][1]] = [items |-> below, again |-> FALSE]
  <2> SUFFICES ASSUME k[x] # <<>> PROVE visit[N][k[x][1]] = [items |-> below, again |-> FALSE]
    OBVIOUS
  <2>1. 1 \in 1..Len(k[x])
    BY <1>0 DEF Sequences
  <2>2. below \in SUBSET Items
    BY <1>0, <1>2, OwnedFacts
  <2>3. Cardinality(below) <= N
    BY <2>2, ItemsAssumption, FS_Subset
  <2> QED BY <1>0, <2>1, <2>3, VisitFacts
<1>4. k[x] = <<>> => below = {}
  <2>1. k[x] = <<>> => Len(k[x]) + 1 = 1
    OBVIOUS
  <2> QED BY <1>2, <2>1
<1> HIDE DEF visit, N, below
<1>5. visit[N][Null] = Nothing
  <2>1. N = 0 \/ (N # 0 /\ visit[N] = VisitStep(h, visit[N - 1]))
    BY <1>0, <1>1
  <2> QED BY <1>1, <2>1 DEF VisitStep, Pointers
<1>6. visit[N + 1][x] = VisitItem(h, visit[N], x)
  <2>1. N + 1 \in Nat /\ N + 1 # 0 /\ (N + 1) - 1 = N
    BY <1>0
  <2>2. visit[N + 1] = VisitStep(h, visit[N])
    BY <1>1, <2>1
  <2> QED BY <1>0, <2>2 DEF VisitStep
<1> DEFINE inner == IF x \in h.ref THEN Nothing ELSE visit[N][h.child[x]]
           rest == visit[N][h.next[x]]
<1>7. inner.items = below /\ inner.again = FALSE
  <2>1. CASE x \in h.ref
    <3>1. k[x] = <<>>
      BY <1>0, <2>1 DEF Shape, Kept
    <3> QED BY <2>1, <3>1, <1>4 DEF Nothing
  <2>2. CASE x \notin h.ref
    <3>1. h.child[x] = IF k[x] = <<>> THEN Null ELSE k[x][1]
      BY <1>0, <2>2 DEF Shape, Forward
    <3>2. CASE k[x] = <<>>
      <4>1. inner = Nothing
        BY <2>2, <3>1, <3>2, <1>5
      <4> HIDE DEF inner
      <4> QED BY <3>2, <4>1, <1>4 DEF Nothing
    <3>3. CASE k[x] # <<>>
      BY <2>2, <3>1, <3>3, <1>3
    <3> QED BY <3>2, <3>3
  <2> QED BY <2>1, <2>2
<1>8. rest.items = {} /\ rest.again = FALSE
  BY <1>0, <1>5 DEF Loose, Nothing
<1>9. VisitItem(h, visit[N], x) = [items |-> {x} \cup inner.items \cup rest.items,
                                   again |-> \/ inner.again \/ rest.again
                                             \/ x \in inner.items \cup rest.items
                                             \/ inner.items \cap rest.items # {}]
  BY DEF VisitItem
<1> HIDE DEF inner, rest
<1>10. /\ visit[N + 1][x].items = Owned(k, x)
       /\ visit[N + 1][x].again = FALSE
  BY <1>2, <1>6, <1>7, <1>8, <1>9
<1>11. Delete(h, x) = [Freed(h, Owned(k, x)) EXCEPT
                         !.undefined = @ \/ FALSE \/ ~(Owned(k, x) \subseteq h.live)]
  BY <1>10 DEF Delete, visit, N
<1>12. Owned(k, x) \subseteq h.live
  BY OwnedLive
<1>13. Freed(h, Owned(k, x)) \in HeapType
  BY <1>0, FreedFacts, OwnedFacts
<1> DEFINE f == Freed(h, Owned(k, x))
<1>14. [f EXCEPT !.undefined = f.undefined \/ FALSE \/ ~(Owned(k, x) \subseteq h.live)] = f
  <2>1. f.undefined \in BOOLEAN
    BY <1>13, HeapFields
  <2>2. (f.undefined \/ FALSE \/ ~(Owned(k, x) \subseteq h.live)) = f.undefined
    BY <1>12, <2>1
  <2> HIDE DEF f
  <2> QED BY <1>13, <2>2 DEF HeapType, f
<1> QED BY <1>11, <1>14

\* cJSON_Delete of nothing.
LEMMA DeleteNull ==
  ASSUME NEW h \in HeapType
  PROVE  Delete(h, Null) \in HeapType /\ Same(Delete(h, Null), h) /\ Delete(h, Null).fuel = h.fuel
<1> DEFINE N == Cardinality(Items)
           S == {}
           f == Freed(h, S)
<1>1. Visit(h)[N + 1] = VisitStep(h, Visit(h)[N])
  <2>1. N \in Nat
    BY ItemsAssumption, FS_CardinalityType
  <2>2. N + 1 \in Nat /\ N + 1 # 0 /\ (N + 1) - 1 = N
    BY <2>1
  <2> HIDE DEF N
  <2> QED BY <2>2, VisitLoop
<1>2. Visit(h)[N + 1][Null] = Nothing
  BY <1>1 DEF VisitStep, Pointers
<1>3. Delete(h, Null) = [f EXCEPT !.undefined = f.undefined \/ FALSE \/ ~(S \subseteq h.live)]
  BY <1>2 DEF Delete, Nothing
<1>4. S \in SUBSET Items /\ S \subseteq h.live
  OBVIOUS
<1>5. Texts(h, S) = 0
  <2>1. {i \in S : OwnsKey(h, i)} = {} /\ {i \in S : OwnsValue(h, i)} = {}
    OBVIOUS
  <2> QED BY <2>1, FS_EmptySet DEF Texts
<1>6. /\ Cleared(h.next, S, Null) = h.next /\ Cleared(h.prev, S, Null) = h.prev
      /\ Cleared(h.child, S, Null) = h.child
      /\ Cleared(h.kind, S, None) = h.kind /\ Cleared(h.key, S, None) = h.key
  BY HeapFields DEF Cleared
<1>7. h.live \ S = h.live /\ h.ref \ S = h.ref /\ h.const \ S = h.const
  OBVIOUS
<1> HIDE DEF S, N
<1>8. /\ f.room = h.room /\ f.undefined = h.undefined /\ f.fuel = h.fuel
      /\ f.live = h.live \ S /\ f.ref = h.ref \ S
      /\ f.const = h.const \ S /\ f.texts = h.texts - Texts(h, S)
      /\ f.next = Cleared(h.next, S, Null) /\ f.prev = Cleared(h.prev, S, Null)
      /\ f.child = Cleared(h.child, S, Null)
      /\ f.kind = Cleared(h.kind, S, None) /\ f.key = Cleared(h.key, S, None)
  BY <1>4, FreedFacts
<1>9. f \in HeapType /\ h.undefined \in BOOLEAN /\ h.texts \in Int
  BY <1>4, FreedFacts, HeapFields
<1> HIDE DEF f
<1>10. Same(f, h)
  BY <1>5, <1>6, <1>7, <1>8, <1>9 DEF Same
<1>11. (f.undefined \/ FALSE \/ ~(S \subseteq h.live)) = f.undefined
  BY <1>4, <1>8, <1>9
<1>12. Delete(h, Null) = f
  BY <1>3, <1>9, <1>11 DEF HeapType
<1> QED BY <1>8, <1>9, <1>10, <1>12
-----------------------------------------------------------------------------
(* What the caller holds.                                                   *)

\* The forest without the items of S.
Pruned(k, S) == [p \in Items |-> IF p \in S THEN <<>> ELSE k[p]]

\* The caller has m to delete, all of it roots; the other roots are the
\* references that cJSON_AddItemReferenceToObject loses.
Held(h, k, m) ==
  /\ m \subseteq h.live /\ \A x \in m : IsRoot(k, x)
  /\ \A x \in h.live : IsRoot(k, x) /\ x \notin m => x \in h.ref /\ h.key[x] = None

Sound(h, k, m) == Good(h, k, {}) /\ Held(h, k, m)

\* A forest without the items of S is a forest.
LEMMA PrunedForest ==
  ASSUME NEW k, IsForest(k), NEW S \in SUBSET Items
  PROVE  /\ IsForest(Pruned(k, S))
         /\ \A p \in Items : Pruned(k, S)[p] = IF p \in S THEN <<>> ELSE k[p]
         /\ \A p \in Items : Children(Pruned(k, S), p) = IF p \in S THEN {} ELSE Children(k, p)
<1> DEFINE k2 == Pruned(k, S)
<1>1. k2 \in Sequences /\ k \in Sequences
  BY DEF Pruned, Sequences, IsForest
<1>2. \A p \in Items : k2[p] = IF p \in S THEN <<>> ELSE k[p]
  BY DEF Pruned
<1> HIDE DEF k2
<1>3. \A p \in Items : Children(k2, p) = IF p \in S THEN {} ELSE Children(k, p)
  <2> TAKE p \in Items
  <2>1. CASE p \in S
    <3>1. k2[p] = <<>>
      BY <1>2, <2>1
    <3> QED BY <1>1, <2>1, <3>1, OwnedLeaf
  <2>2. CASE p \notin S
    BY <1>2, <2>2 DEF Children
  <2> QED BY <2>1, <2>2
<1>4. ASSUME NEW p \in Items, NEW i \in 1..Len(k2[p]), NEW j \in 1..Len(k2[p]), k2[p][i] = k2[p][j]
      PROVE  i = j
  <2>1. CASE p \in S
    <3>1. k2[p] = <<>>
      BY <1>2, <2>1
    <3> QED BY <3>1
  <2>2. CASE p \notin S
    BY <1>2, <1>4, <2>2 DEF IsForest, OneParent
  <2> QED BY <2>1, <2>2
<1>5. IsForest(k2)
  BY <1>1, <1>3, <1>4, ForestFewer
<1> QED BY <1>2, <1>3, <1>5 DEF k2

\* What is left when the tree of a root is gone is sound.
LEMMA FreedGood ==
  ASSUME NEW h, NEW k, NEW open, Good(h, k, open), NEW x \in h.live, IsRoot(k, x)
  PROVE  LET S == Owned(k, x) IN
         /\ Good(Freed(h, S), Pruned(k, S), open)
         /\ \A y \in h.live \ S : IsRoot(Pruned(k, S), y) <=> IsRoot(k, y)
<1> DEFINE S == Owned(k, x)
           k2 == Pruned(k, S)
           g == Freed(h, S)
<1>1. S \in SUBSET Items /\ S \subseteq h.live /\ x \in S /\ x \in Items
  BY OwnedLive
<1>2. /\ h \in HeapType /\ IsForest(k) /\ k \in Sequences /\ Kept(h, k) /\ h.live \in SUBSET Items
  BY GoodShape DEF Good, IsForest
<1>3. \A p \in Items : Children(k, p) \subseteq Items
  BY <1>2, ChildrenItems
<1>4. \A p \in Items \ S : Children(k, p) \cap S = {}
  <2> SUFFICES ASSUME NEW p \in Items \ S, NEW y \in Children(k, p), y \in S
               PROVE  FALSE
    OBVIOUS
  <2>1. y # x
    BY DEF IsRoot
  <2>2. PICK q \in S : y \in Children(k, q)
    BY <1>1, <1>2, <2>1, ParentOwned
  <2> QED BY <1>1, <1>2, <2>2, OnlyParent
<1>5. \A p \in S : Children(k, p) \subseteq S
  BY <1>1, <1>2, OwnedFacts
<1>6. /\ IsForest(k2)
      /\ \A p \in Items : k2[p] = IF p \in S THEN <<>> ELSE k[p]
      /\ \A p \in Items : Children(k2, p) = IF p \in S THEN {} ELSE Children(k, p)
  BY <1>1, <1>2, PrunedForest
<1>7. /\ g \in HeapType /\ g.live = h.live \ S /\ g.ref = h.ref \ S /\ g.const = h.const \ S
      /\ g.texts = h.texts - Texts(h, S) /\ g.undefined = h.undefined
      /\ \A i \in Items : g.next[i] = IF i \in S THEN Null ELSE h.next[i]
      /\ \A i \in Items : g.prev[i] = IF i \in S THEN Null ELSE h.prev[i]
      /\ \A i \in Items : g.child[i] = IF i \in S THEN Null ELSE h.child[i]
      /\ \A i \in Items : g.kind[i] = IF i \in S THEN None ELSE h.kind[i]
      /\ \A i \in Items : g.key[i] = IF i \in S THEN None ELSE h.key[i]
  BY <1>1, <1>2, FreedFacts, ClearedAt
<1>8. Texts(g, g.live) = Texts(h, h.live) - Texts(h, S)
  <2> DEFINE R == h.live \ S
  <2>1. R \in SUBSET Items /\ S \cap R = {} /\ S \cup R = h.live
    BY <1>1, <1>2
  <2>2. Texts(g, R) = Texts(h, R)
    BY <1>1, <1>2, <2>1, OwnAlikeFreed, TextsAlike
  <2>3. Texts(h, S \cup R) = Texts(h, S) + Texts(h, R)
    BY <1>1, <2>1, TextsUnion
  <2>4. Texts(h, S) \in Nat /\ Texts(h, R) \in Nat
    BY <1>1, <2>1, TextsType
  <2>5. g.live = R
    BY <1>7
  <2>6. Texts(g, g.live) = Texts(h, R)
    BY <2>2, <2>5
  <2>7. Texts(h, h.live) = Texts(h, S) + Texts(h, R)
    BY <2>1, <2>3
  <2> HIDE DEF R, S, g
  <2> QED BY <2>4, <2>6, <2>7
<1> HIDE DEF S, k2, g
<1>9. \A y \in h.live \ S : IsRoot(k2, y) <=> IsRoot(k, y)
  BY <1>5, <1>6 DEF IsRoot
<1>10. Kept(g, k2)
  BY <1>2, <1>4, <1>6, <1>7 DEF Kept
<1>11. Whole(g, k2, open)
  <2> SUFFICES ASSUME NEW p \in g.live \ g.ref PROVE Lists(g, p, k2[p], p \in open)
    BY DEF Whole
  <2>1. p \in Items \ S /\ p \in h.live \ h.ref
    BY <1>2, <1>7
  <2>2. Lists(h, p, k[p], p \in open) /\ k2[p] = k[p] /\ g.child[p] = h.child[p]
    BY <1>6, <1>7, <2>1 DEF Good, Whole
  <2>3. \A i \in 1..Len(k[p]) : k[p][i] \in Items \ S
    BY <1>3, <1>4, <2>1 DEF Children
  <2> QED BY <1>7, <2>2, <2>3 DEF Lists
<1>12. RootsLoose(g, k2)
  BY <1>2, <1>7, <1>9 DEF Good, RootsLoose, Loose
<1>13. Blank(g)
  BY <1>7 DEF Good, Blank
<1>14. Counted(g)
  BY <1>7, <1>8 DEF Good, Counted
<1> QED BY <1>6, <1>7, <1>9, <1>10, <1>11, <1>12, <1>13, <1>14 DEF Good, S, k2, g

\* cJSON_Delete of what the caller holds.
LEMMA DeleteSound ==
  ASSUME NEW h, NEW k, NEW m, Sound(h, k, m), NEW x \in m
  PROVE  /\ Delete(h, x).live = h.live \ Owned(k, x)
         /\ Sound(Delete(h, x), Pruned(k, Owned(k, x)), m \ {x})
<1> DEFINE S == Owned(k, x)
           g == Freed(h, S)
<1>1. x \in h.live /\ IsRoot(k, x) /\ Good(h, k, {})
  BY DEF Sound, Held
<1>2. Delete(h, x) = g
  BY <1>1, DeleteCorrect
<1>3. /\ Good(g, Pruned(k, S), {})
      /\ \A y \in h.live \ S : IsRoot(Pruned(k, S), y) <=> IsRoot(k, y)
  BY <1>1, FreedGood
<1>4. /\ S \in SUBSET Items /\ x \in S /\ h \in HeapType /\ IsForest(k) /\ h.live \in SUBSET Items
  BY <1>1, OwnedLive, GoodShape DEF Good
<1>5. /\ g.fuel = h.fuel /\ g.live = h.live \ S /\ g.ref = h.ref \ S
      /\ \A i \in Items : g.key[i] = IF i \in S THEN None ELSE h.key[i]
  BY <1>4, FreedFacts, ClearedAt
<1>6. \A y \in m : y # x => y \notin S
  <2> SUFFICES ASSUME NEW y \in m, y # x PROVE y \notin S
    OBVIOUS
  <2>1. y \in h.live /\ IsRoot(k, y)
    BY DEF Sound, Held
  <2>2. Owned(k, x) \cap Owned(k, y) = {} /\ y \in Owned(k, y)
    BY <1>1, <1>4, <2>1, RootsApart, OwnedLive
  <2> QED BY <2>2
<1> HIDE DEF S, g
<1>7. Held(g, Pruned(k, S), m \ {x})
  BY <1>3, <1>4, <1>5, <1>6 DEF Held, Sound
<1> QED BY <1>2, <1>3, <1>5, <1>7 DEF Sound, S

\* A reference without a key may be lost.
LEMMA LostSound ==
  ASSUME NEW h, NEW k, NEW m, Sound(h, k, m), NEW x \in h.ref, h.key[x] = None
  PROVE  Sound(h, k, m \ {x})
BY DEF Sound, Held
-----------------------------------------------------------------------------
(* New items.                                                               *)

\* g is h with one more item, that has no children.
Leaf(h, g, n) ==
  /\ g \in HeapType /\ n \in Items \ h.live
  /\ g.room = h.room /\ g.live = h.live \cup {n} /\ g.ref \ {n} = h.ref /\ g.const \ {n} = h.const
  /\ \A i \in Items \ {n} : /\ g.next[i] = h.next[i] /\ g.prev[i] = h.prev[i] /\ g.child[i] = h.child[i]
                            /\ g.kind[i] = h.kind[i] /\ g.key[i] = h.key[i]
  /\ g.next[n] = Null /\ g.prev[n] = Null /\ (n \notin g.ref => g.child[n] = Null)
  /\ g.undefined = h.undefined /\ g.texts = h.texts + Texts(g, {n})

\* A new item without children is a tree of the forest, and freeing it undoes it.
LEMMA LeafGood ==
  ASSUME NEW h, NEW k, NEW open, Good(h, k, open), NEW g, NEW n, Leaf(h, g, n)
  PROVE  /\ Good(g, k, open) /\ IsRoot(k, n) /\ Owned(k, n) = {n} /\ k[n] = <<>>
         /\ Same(Freed(g, Owned(k, n)), h)
<1>1. /\ h \in HeapType /\ IsForest(k) /\ k \in Sequences /\ Kept(h, k) /\ h.live \in SUBSET Items
      /\ n \in Items /\ n \notin h.live /\ g \in HeapType
  BY GoodShape DEF Good, IsForest, Leaf
<1>2. k[n] = <<>> /\ IsRoot(k, n)
  BY <1>1 DEF Kept, IsRoot
<1>3. Owned(k, n) = {n}
  BY <1>1, <1>2, OwnedLeaf
<1>4. /\ g.live = h.live \cup {n} /\ g.ref \ {n} = h.ref /\ g.const \ {n} = h.const
  BY DEF Leaf
<1>5. Kept(g, k)
  BY <1>1, <1>2, <1>4 DEF Kept
<1>6. \A p \in Items : \A i \in 1..Len(k[p]) : k[p][i] \in Items \ {n}
  BY <1>1, <1>2, ChildrenItems DEF IsRoot, Children
<1>7. Whole(g, k, open)
  <2> SUFFICES ASSUME NEW p \in g.live \ g.ref PROVE Lists(g, p, k[p], p \in open)
    BY DEF Whole
  <2>1. CASE p = n
    <3>1. Len(k[p]) = 0
      BY <1>2, <2>1
    <3> QED BY <1>2, <2>1, <3>1 DEF Lists, Leaf
  <2>2. CASE p # n
    <3>1. p \in h.live \ h.ref /\ p \in Items
      BY <1>1, <1>4, <2>2
    <3>2. Lists(h, p, k[p], p \in open)
      BY <3>1 DEF Good, Whole
    <3>3. /\ g.child[p] = h.child[p]
          /\ \A i \in 1..Len(k[p]) : g.next[k[p][i]] = h.next[k[p][i]] /\ g.prev[k[p][i]] = h.prev[k[p][i]]
      BY <1>6, <2>2, <3>1 DEF Leaf
    <3> QED BY <3>2, <3>3 DEF Lists
  <2> QED BY <2>1, <2>2
<1>8. RootsLoose(g, k)
  BY <1>1, <1>4 DEF Good, RootsLoose, Loose, Leaf
<1>9. Blank(g)
  BY <1>1, <1>4 DEF Good, Blank, Leaf
<1>10. OwnAlike(g, h, h.live)
  BY <1>1, <1>4 DEF OwnAlike, OwnsKey, OwnsValue, Leaf
<1>11. Texts(g, g.live) = Texts(h, h.live) + Texts(g, {n})
  <2>1. h.live \in SUBSET Items /\ {n} \in SUBSET Items /\ h.live \cap {n} = {}
    BY <1>1
  <2>2. Texts(g, h.live \cup {n}) = Texts(g, h.live) + Texts(g, {n})
    BY <2>1, TextsUnion
  <2> QED BY <1>4, <1>10, <2>2, TextsAlike
<1>12. Counted(g)
  BY <1>11 DEF Good, Counted, Leaf
<1>13. Good(g, k, open)
  BY <1>1, <1>5, <1>7, <1>8, <1>9, <1>12 DEF Good
<1>14. Same(Freed(g, Owned(k, n)), h)
  <2> DEFINE S == {n}
             f == Freed(g, S)
  <2>1. S \in SUBSET Items /\ n \in S /\ \A i \in Items : i \in S <=> i = n
    BY <1>1
  <2>2. /\ f \in HeapType /\ f.room = g.room /\ f.undefined = g.undefined /\ f.texts = g.texts - Texts(g, S)
        /\ f.live = g.live \ S /\ f.ref = g.ref \ S /\ f.const = g.const \ S
        /\ f.next = Cleared(g.next, S, Null) /\ f.prev = Cleared(g.prev, S, Null)
        /\ f.child = Cleared(g.child, S, Null)
        /\ f.kind = Cleared(g.kind, S, None) /\ f.key = Cleared(g.key, S, None)
    BY <1>1, <2>1, FreedFacts
  <2>3. h.next[n] = Null /\ h.prev[n] = Null /\ h.child[n] = Null /\ h.kind[n] = None /\ h.key[n] = None
    BY <1>1 DEF Good, Blank
  <2>4. /\ Cleared(g.next, S, Null) = h.next /\ Cleared(g.prev, S, Null) = h.prev
        /\ Cleared(g.child, S, Null) = h.child
    <3>1. h.next \in [Items -> Pointers] /\ h.prev \in [Items -> Pointers] /\ h.child \in [Items -> Pointers]
      BY <1>1, HeapFields
    <3>2. \A i \in Items \ {n} : g.next[i] = h.next[i] /\ g.prev[i] = h.prev[i] /\ g.child[i] = h.child[i]
      BY DEF Leaf
    <3> HIDE DEF S
    <3>3. Cleared(g.next, S, Null) = h.next
      BY <2>1, <2>3, <3>1, <3>2 DEF Cleared
    <3>4. Cleared(g.prev, S, Null) = h.prev
      BY <2>1, <2>3, <3>1, <3>2 DEF Cleared
    <3>5. Cleared(g.child, S, Null) = h.child
      BY <2>1, <2>3, <3>1, <3>2 DEF Cleared
    <3> QED BY <3>3, <3>4, <3>5
  <2>5. Cleared(g.kind, S, None) = h.kind /\ Cleared(g.key, S, None) = h.key
    <3>1. h.kind \in [Items -> Kinds \cup {None}] /\ h.key \in [Items -> Keys]
      BY <1>1, HeapFields
    <3>2. \A i \in Items \ {n} : g.kind[i] = h.kind[i] /\ g.key[i] = h.key[i]
      BY DEF Leaf
    <3> HIDE DEF S
    <3>3. Cleared(g.kind, S, None) = h.kind
      BY <2>1, <2>3, <3>1, <3>2 DEF Cleared
    <3>4. Cleared(g.key, S, None) = h.key
      BY <2>1, <2>3, <3>1, <3>2 DEF Cleared
    <3> QED BY <3>3, <3>4
  <2>6. g.live \ S = h.live /\ g.ref \ S = h.ref /\ g.const \ S = h.const
    BY <1>1, <1>4
  <2>7. g.texts - Texts(g, S) = h.texts
    <3>1. Texts(g, S) \in Nat /\ h.texts \in Int
      BY <1>1, <2>1, TextsType, HeapFields
    <3>2. g.texts = h.texts + Texts(g, S)
      BY DEF Leaf
    <3> QED BY <3>1, <3>2
  <2>8. g.room = h.room /\ g.undefined = h.undefined
    BY DEF Leaf
  <2> HIDE DEF S, f
  <2>9. Same(f, h)
    BY <2>2, <2>4, <2>5, <2>6, <2>7, <2>8 DEF Same
  <2>10. f = Freed(g, Owned(k, n))
    BY <1>3 DEF f, S
  <2> QED BY <2>9, <2>10
<1> QED BY <1>2, <1>3, <1>13, <1>14

\* What a leaf owns, from its fields.
LEMMA LeafMade ==
  ASSUME NEW h, NEW g \in HeapType, NEW n \in Items \ h.live,
         g.room = h.room, g.live = h.live \cup {n}, g.ref \ {n} = h.ref, g.const \ {n} = h.const,
         \A i \in Items \ {n} : /\ g.next[i] = h.next[i] /\ g.prev[i] = h.prev[i] /\ g.child[i] = h.child[i]
                                /\ g.kind[i] = h.kind[i] /\ g.key[i] = h.key[i],
         g.next[n] = Null, g.prev[n] = Null, n \notin g.ref => g.child[n] = Null,
         g.undefined = h.undefined,
         g.texts = h.texts + (IF g.key[n] # None /\ n \notin g.const THEN 1 ELSE 0)
                           + (IF g.kind[n] = "string" /\ n \notin g.ref THEN 1 ELSE 0),
         h.texts \in Int
  PROVE  Leaf(h, g, n)
<1>1. Texts(g, {n}) = (IF g.key[n] # None /\ n \notin g.const THEN 1 ELSE 0)
                        + (IF g.kind[n] = "string" /\ n \notin g.ref THEN 1 ELSE 0)
  BY TextsOne DEF OwnsKey, OwnsValue
<1>2. g.texts = h.texts + Texts(g, {n})
  BY <1>1
<1> QED BY <1>2 DEF Leaf

\* A leaf can be deleted again.
LEMMA LeafDeleted ==
  ASSUME NEW h, NEW k, NEW open, Good(h, k, open), NEW g, NEW n, Leaf(h, g, n)
  PROVE  Delete(g, n) \in HeapType /\ Same(Delete(g, n), h) /\ Delete(g, n).fuel = g.fuel
<1>1. Good(g, k, open) /\ IsRoot(k, n) /\ Same(Freed(g, Owned(k, n)), h)
  BY LeafGood
<1>2. n \in g.live /\ g \in HeapType
  BY DEF Leaf
<1>3. Delete(g, n) = Freed(g, Owned(k, n)) /\ Owned(k, n) \in SUBSET Items
  BY <1>1, <1>2, DeleteCorrect, OwnedLive
<1> QED BY <1>1, <1>2, <1>3, FreedFacts

\* A new item is the caller's.
LEMMA LeafSound ==
  ASSUME NEW h, NEW k, NEW m, Sound(h, k, m), NEW g, NEW n, Leaf(h, g, n)
  PROVE  Sound(g, k, m \cup {n}) /\ n \notin m /\ Owned(k, n) = {n}
<1>0. Good(h, k, {})
  BY DEF Sound
<1>1. Good(g, k, {}) /\ IsRoot(k, n) /\ Owned(k, n) = {n}
  BY <1>0, LeafGood
<1>2. h.live \in SUBSET Items
  BY GoodShape DEF Sound
<1>3. Held(g, k, m \cup {n}) /\ n \notin m
  BY <1>1, <1>2 DEF Sound, Held, Leaf
<1> QED BY <1>1, <1>3 DEF Sound

\* cJSON_New_Item.
LEMMA AllocatedFacts ==
  ASSUME NEW h, NEW k, NEW open, Good(h, k, open), NewItem(h).item # Null
  PROVE  LET a == NewItem(h).heap
             n == NewItem(h).item
         IN /\ a \in HeapType /\ n \in Items \ h.live /\ a.live = h.live \cup {n}
            /\ a.room = h.room /\ a.ref = h.ref /\ a.const = h.const /\ a.texts = h.texts
            /\ a.undefined = h.undefined /\ a.next = h.next /\ a.prev = h.prev /\ a.child = h.child
            /\ a.kind = h.kind /\ a.key = h.key
            /\ n \notin h.ref /\ n \notin h.const
            /\ h.next[n] = Null /\ h.prev[n] = Null /\ h.child[n] = Null
            /\ h.kind[n] = None /\ h.key[n] = None
<1> DEFINE a == NewItem(h).heap
           n == NewItem(h).item
<1>1. h \in HeapType
  BY DEF Good
<1>2. /\ a \in HeapType /\ n \in Items \ h.live
      /\ a = [h EXCEPT !.fuel = h.fuel - 1, !.live = h.live \cup {n}]
  BY <1>1, NewItemFacts
<1> HIDE DEF a, n
<1>3. /\ a.live = h.live \cup {n}
      /\ a.room = h.room /\ a.ref = h.ref /\ a.const = h.const /\ a.texts = h.texts
      /\ a.undefined = h.undefined /\ a.next = h.next /\ a.prev = h.prev /\ a.child = h.child
      /\ a.kind = h.kind /\ a.key = h.key
  BY <1>1, <1>2 DEF HeapType
<1>4. /\ n \notin h.ref /\ n \notin h.const
      /\ h.next[n] = Null /\ h.prev[n] = Null /\ h.child[n] = Null
      /\ h.kind[n] = None /\ h.key[n] = None
  BY <1>2 DEF Good, Blank
<1> QED BY <1>2, <1>3, <1>4 DEF a, n

\* Setting a kind changes nothing else.
LEMMA SetKindFacts ==
  ASSUME NEW h \in HeapType, NEW n \in Items, NEW kind \in Kinds \cup {None}
  PROVE  LET g == SetKind(h, n, kind)
         IN /\ g \in HeapType /\ g.kind[n] = kind /\ \A i \in Items \ {n} : g.kind[i] = h.kind[i]
            /\ g.room = h.room /\ g.live = h.live /\ g.ref = h.ref /\ g.const = h.const
            /\ g.texts = h.texts /\ g.fuel = h.fuel /\ g.undefined = h.undefined
            /\ g.next = h.next /\ g.prev = h.prev /\ g.child = h.child /\ g.key = h.key
<1> DEFINE e == [h.kind EXCEPT ![n] = kind]
<1>1. h.kind \in [Items -> Kinds \cup {None}]
  BY HeapFields
<1>2. /\ e \in [Items -> Kinds \cup {None}] /\ e[n] = kind
      /\ \A i \in Items \ {n} : e[i] = h.kind[i]
  BY <1>1
<1>3. SetKind(h, n, kind) = [h EXCEPT !.kind = e]
  BY DEF SetKind, HeapType
<1> HIDE DEF e
<1> QED BY <1>2, <1>3 DEF HeapType

\* A copied text is one text more and changes nothing else.
LEMMA CopiedFacts ==
  ASSUME NEW h \in HeapType, ~Failed(h, Strdup(h))
  PROVE  LET g == Strdup(h)
         IN /\ g \in HeapType /\ g.texts = h.texts + 1
            /\ g.room = h.room /\ g.live = h.live /\ g.ref = h.ref /\ g.const = h.const
            /\ g.undefined = h.undefined
            /\ g.next = h.next /\ g.prev = h.prev /\ g.child = h.child /\ g.kind = h.kind /\ g.key = h.key
<1> DEFINE g == Strdup(h)
<1>1. g \in HeapType /\ g = [h EXCEPT !.fuel = h.fuel - 1, !.texts = h.texts + 1]
  BY StrdupFacts
<1> HIDE DEF g
<1>2. /\ g.texts = h.texts + 1
      /\ g.room = h.room /\ g.live = h.live /\ g.ref = h.ref /\ g.const = h.const
      /\ g.undefined = h.undefined
      /\ g.next = h.next /\ g.prev = h.prev /\ g.child = h.child /\ g.kind = h.kind /\ g.key = h.key
  BY <1>1 DEF HeapType
<1> QED BY <1>1, <1>2 DEF g

\* Every call that makes one item gives a leaf, or nothing and leaves the heap.
Makes(h, r) ==
  /\ r.heap \in HeapType
  /\ IF r.item = Null THEN Same(r.heap, h) ELSE Leaf(h, r.heap, r.item)

\* cJSON_CreateNumber, String, Array, ... make one item, or nothing.
LEMMA CreateMakes ==
  ASSUME NEW h, NEW k, NEW open, Good(h, k, open), NEW kind \in Kinds
  PROVE  /\ Makes(h, Create(h, kind))
         /\ Create(h, kind).item # Null => Create(h, kind).item \notin Create(h, kind).heap.ref
<1> DEFINE new == NewItem(h)
           a == new.heap
           n == new.item
           made == SetKind(a, n, kind)
           filled == Strdup(made)
           r == Create(h, kind)
<1>1. h \in HeapType /\ h.texts \in Int
  BY HeapFields DEF Good
<1>2. CASE n = Null
  <2>1. new = Result(h, Null)
    BY <1>1, <1>2, NewItemFacts
  <2>2. r = new
    BY <1>2 DEF Create
  <2>3. r.heap = h /\ r.item = Null
    BY <2>1, <2>2 DEF Result
  <2> HIDE DEF r
  <2> QED BY <1>1, <2>3, SameTrans DEF Makes, r
<1>3. CASE n # Null
  <2>1. /\ a \in HeapType /\ n \in Items \ h.live /\ a.live = h.live \cup {n}
        /\ a.room = h.room /\ a.ref = h.ref /\ a.const = h.const /\ a.texts = h.texts
        /\ a.undefined = h.undefined /\ a.next = h.next /\ a.prev = h.prev /\ a.child = h.child
        /\ a.kind = h.kind /\ a.key = h.key
        /\ n \notin h.ref /\ n \notin h.const
        /\ h.next[n] = Null /\ h.prev[n] = Null /\ h.child[n] = Null
        /\ h.kind[n] = None /\ h.key[n] = None
    BY <1>3, AllocatedFacts
  <2>2. /\ made \in HeapType /\ made.kind[n] = kind /\ \A i \in Items \ {n} : made.kind[i] = h.kind[i]
        /\ made.room = h.room /\ made.live = h.live \cup {n} /\ made.ref = h.ref /\ made.const = h.const
        /\ made.texts = h.texts /\ made.undefined = h.undefined
        /\ made.next = h.next /\ made.prev = h.prev /\ made.child = h.child /\ made.key = h.key
    <3>1. kind \in Kinds \cup {None}
      OBVIOUS
    <3> HIDE DEF a, n
    <3> QED BY <2>1, <3>1, SetKindFacts
  <2>3. kind # None
    BY DEF Kinds, None
  <2>4. CASE kind # "string"
    <3>1. r = Result(made, n)
      BY <1>3, <2>4 DEF Create
    <3>2. r.heap = made /\ r.item = n
      BY <3>1 DEF Result
    <3> HIDE DEF made, n, a, r
    <3>4. made.texts = h.texts + (IF made.key[n] # None /\ n \notin made.const THEN 1 ELSE 0)
                              + (IF made.kind[n] = "string" /\ n \notin made.ref THEN 1 ELSE 0)
      BY <1>1, <2>1, <2>2, <2>4
    <3>3. Leaf(h, made, n)
      BY <1>1, <2>1, <2>2, <3>4, LeafMade
    <3> QED BY <1>3, <2>1, <2>2, <3>2, <3>3 DEF Makes, r
  <2>5. CASE kind = "string" /\ ~Failed(made, filled)
    <3>1. r = Result(filled, n)
      BY <1>3, <2>5 DEF Create
    <3>2. r.heap = filled /\ r.item = n
      BY <3>1 DEF Result
    <3>3. /\ filled \in HeapType /\ filled.texts = made.texts + 1
          /\ filled.room = made.room /\ filled.live = made.live
          /\ filled.ref = made.ref /\ filled.const = made.const
          /\ filled.undefined = made.undefined /\ filled.next = made.next /\ filled.prev = made.prev
          /\ filled.child = made.child /\ filled.kind = made.kind /\ filled.key = made.key
      <4> HIDE DEF made
      <4> QED BY <2>2, <2>5, CopiedFacts
    <3> HIDE DEF made, n, a, r, filled
    <3>4. filled.texts = h.texts + 0 + 1
      BY <1>1, <2>2, <3>3
    <3>5. Leaf(h, filled, n)
      BY <1>1, <2>1, <2>2, <2>5, <3>3, <3>4, LeafMade
    <3> QED BY <1>3, <2>1, <2>2, <3>2, <3>3, <3>5 DEF Makes, r
  <2>6. CASE kind = "string" /\ Failed(made, filled)
    <3> DEFINE bare == SetKind(made, n, None)
    <3>1. r = Result(Delete([made EXCEPT !.kind[n] = None], n), Null)
      BY <1>3, <2>6 DEF Create
    <3>2. r.heap = Delete(bare, n) /\ r.item = Null
      BY <3>1 DEF Result, SetKind
    <3>3. None \in Kinds \cup {None}
      OBVIOUS
    <3> HIDE DEF made, n, a, r
    <3>4. /\ bare \in HeapType /\ bare.kind[n] = None
          /\ \A i \in Items \ {n} : bare.kind[i] = made.kind[i]
          /\ bare.room = made.room /\ bare.live = made.live /\ bare.ref = made.ref /\ bare.const = made.const
          /\ bare.texts = made.texts /\ bare.undefined = made.undefined
          /\ bare.next = made.next /\ bare.prev = made.prev /\ bare.child = made.child
          /\ bare.key = made.key
      BY <2>1, <2>2, <3>3, SetKindFacts
    <3> HIDE DEF bare
    <3>6. bare.key[n] = None /\ bare.kind[n] # "string" /\ bare.texts = h.texts
      BY <2>1, <2>2, <3>4 DEF None
    <3>8. bare.texts = h.texts + (IF bare.key[n] # None /\ n \notin bare.const THEN 1 ELSE 0)
                              + (IF bare.kind[n] = "string" /\ n \notin bare.ref THEN 1 ELSE 0)
      BY <1>1, <3>6
    <3>9. /\ \A i \in Items \ {n} : bare.kind[i] = h.kind[i]
          /\ bare.room = h.room /\ bare.live = h.live \cup {n} /\ bare.ref = h.ref /\ bare.const = h.const
          /\ bare.undefined = h.undefined /\ bare.key = h.key
          /\ bare.next = h.next /\ bare.prev = h.prev /\ bare.child = h.child
      BY <2>2, <3>4
    <3>5. Leaf(h, bare, n)
      BY <1>1, <2>1, <3>4, <3>8, <3>9, LeafMade
    <3>7. Delete(bare, n) \in HeapType /\ Same(Delete(bare, n), h)
      BY <3>5, LeafDeleted
    <3> QED BY <3>2, <3>7 DEF Makes, r
  <2> QED BY <2>4, <2>5, <2>6
<1> QED BY <1>2, <1>3

\* An item for a reference is an item.
LEMMA NewReferenceFacts ==
  ASSUME NEW h \in HeapType
  PROVE  /\ NewReference(h).item = Null => NewReference(h) = Result(h, Null)
         /\ NewReference(h).item # Null => NewReference(h) = NewItem(h)
BY NewItemFacts DEF NewReference, Result

\* cJSON_CreateStringReference, ObjectReference and ArrayReference make a reference.
LEMMA CreateReferenceToMakes ==
  ASSUME NEW h, NEW k, NEW open, Good(h, k, open), NEW kind \in Kinds \cup {None}, NEW child \in Pointers
  PROVE  LET r == CreateReferenceTo(h, kind, child)
         IN Makes(h, r) /\ (r.item # Null => r.item \in r.heap.ref /\ r.heap.key[r.item] = None)
<1> DEFINE new == NewReference(h)
           a == new.heap
           n == new.item
           made == SetKind(a, n, kind)
           e == [made.child EXCEPT ![n] = child]
           g == [made EXCEPT !.ref = made.ref \cup {n}, !.child = e]
           r == CreateReferenceTo(h, kind, child)
<1>1. h \in HeapType /\ h.texts \in Int
  BY HeapFields DEF Good
<1>2. CASE n = Null
  <2>1. new = Result(h, Null)
    BY <1>1, <1>2, NewReferenceFacts
  <2>2. r = new
    BY <1>2 DEF CreateReferenceTo
  <2>3. r.heap = h /\ r.item = Null
    BY <2>1, <2>2 DEF Result
  <2> HIDE DEF r
  <2> QED BY <1>1, <2>3, SameTrans DEF Makes, r
<1>3. CASE n # Null
  <2>0. new = NewItem(h)
    BY <1>1, <1>3, NewReferenceFacts
  <2>1. /\ a \in HeapType /\ n \in Items \ h.live /\ a.live = h.live \cup {n}
        /\ a.room = h.room /\ a.ref = h.ref /\ a.const = h.const /\ a.texts = h.texts
        /\ a.undefined = h.undefined /\ a.next = h.next /\ a.prev = h.prev /\ a.child = h.child
        /\ a.kind = h.kind /\ a.key = h.key
        /\ n \notin h.ref /\ n \notin h.const
        /\ h.next[n] = Null /\ h.prev[n] = Null /\ h.child[n] = Null
        /\ h.kind[n] = None /\ h.key[n] = None
    <3>1. NewItem(h).item # Null
      BY <1>3, <2>0
    <3> QED BY <2>0, <3>1, AllocatedFacts
  <2>2. /\ made \in HeapType /\ made.kind[n] = kind /\ \A i \in Items \ {n} : made.kind[i] = h.kind[i]
        /\ made.room = h.room /\ made.live = h.live \cup {n} /\ made.ref = h.ref /\ made.const = h.const
        /\ made.texts = h.texts /\ made.undefined = h.undefined
        /\ made.next = h.next /\ made.prev = h.prev /\ made.child = h.child /\ made.key = h.key
    <3> HIDE DEF a, n
    <3> QED BY <2>1, SetKindFacts
  <2>3. r = Result(g, n)
    <3>1. r = Result([made EXCEPT !.ref = @ \cup {n}, !.child[n] = child], n)
      BY <1>3 DEF CreateReferenceTo
    <3> HIDE DEF made, n
    <3> QED BY <2>2, <3>1 DEF HeapType
  <2>4. r.heap = g /\ r.item = n
    BY <2>3 DEF Result
  <2>5. made.child \in [Items -> Pointers] /\ made.ref \in SUBSET Items
    <3> HIDE DEF made
    <3> QED BY <2>2, HeapFields
  <2>6. /\ e \in [Items -> Pointers] /\ made.ref \cup {n} \in SUBSET Items
        /\ \A i \in Items \ {n} : e[i] = h.child[i]
    <3> HIDE DEF made, n
    <3> QED BY <2>1, <2>2, <2>5
  <2> HIDE DEF made, n, a, r, e
  <2>7. /\ g \in HeapType /\ g.ref = h.ref \cup {n} /\ g.child = e
        /\ g.room = h.room /\ g.live = h.live \cup {n} /\ g.const = h.const
        /\ g.texts = h.texts /\ g.undefined = h.undefined /\ g.kind = made.kind
        /\ g.next = h.next /\ g.prev = h.prev /\ g.key = h.key
    BY <2>2, <2>6 DEF HeapType
  <2> HIDE DEF g
  <2>8. g.texts = h.texts + (IF g.key[n] # None /\ n \notin g.const THEN 1 ELSE 0)
                          + (IF g.kind[n] = "string" /\ n \notin g.ref THEN 1 ELSE 0)
    BY <1>1, <2>1, <2>7
  <2>9. /\ g.ref \ {n} = h.ref /\ g.const \ {n} = h.const /\ n \in g.ref
        /\ g.next[n] = Null /\ g.prev[n] = Null /\ g.key[n] = None
    BY <2>1, <2>7
  <2>10. \A i \in Items \ {n} : /\ g.next[i] = h.next[i] /\ g.prev[i] = h.prev[i] /\ g.child[i] = h.child[i]
                                /\ g.kind[i] = h.kind[i] /\ g.key[i] = h.key[i]
    BY <2>2, <2>6, <2>7
  <2>11. Leaf(h, g, n)
    BY <1>1, <2>1, <2>7, <2>8, <2>9, <2>10, LeafMade
  <2> QED BY <1>3, <2>4, <2>7, <2>9, <2>11 DEF Makes, r
<1> QED BY <1>2, <1>3

\* create_reference makes a reference, or nothing.
LEMMA CreateReferenceMakes ==
  ASSUME NEW h, NEW k, NEW open, Good(h, k, open), NEW item \in Items
  PROVE  LET r == CreateReference(h, item)
         IN Makes(h, r) /\ (r.item # Null => r.item \in r.heap.ref /\ r.heap.key[r.item] = None)
<1> DEFINE new == NewReference(h)
           a == new.heap
           n == new.item
           c == [a.child EXCEPT ![n] = h.child[item]]
           d == [a.kind EXCEPT ![n] = h.kind[item]]
           const == IF item \in h.const THEN a.const \cup {n} ELSE a.const
           g == [a EXCEPT !.kind = d, !.child = c, !.ref = a.ref \cup {n}, !.const = const]
           r == CreateReference(h, item)
<1>1. h \in HeapType /\ h.texts \in Int /\ item # Null
  BY HeapFields DEF Good
<1>2. CASE n = Null
  <2>2. r = Result(h, Null)
    BY <1>2 DEF CreateReference
  <2>3. r.heap = h /\ r.item = Null
    BY <2>2 DEF Result
  <2> HIDE DEF r
  <2> QED BY <1>1, <2>3, SameTrans DEF Makes, r
<1>3. CASE n # Null
  <2>0. new = NewItem(h)
    BY <1>1, <1>3, NewReferenceFacts
  <2>1. /\ a \in HeapType /\ n \in Items \ h.live /\ a.live = h.live \cup {n}
        /\ a.room = h.room /\ a.ref = h.ref /\ a.const = h.const /\ a.texts = h.texts
        /\ a.undefined = h.undefined /\ a.next = h.next /\ a.prev = h.prev /\ a.child = h.child
        /\ a.kind = h.kind /\ a.key = h.key
        /\ n \notin h.ref /\ n \notin h.const
        /\ h.next[n] = Null /\ h.prev[n] = Null /\ h.child[n] = Null
        /\ h.kind[n] = None /\ h.key[n] = None
    <3>1. NewItem(h).item # Null
      BY <1>3, <2>0
    <3> QED BY <2>0, <3>1, AllocatedFacts
  <2>3. r = Result(g, n)
    <3>1. r = Result([a EXCEPT !.kind[n] = h.kind[item], !.child[n] = h.child[item], !.ref = @ \cup {n},
                               !.const = IF item \in h.const THEN @ \cup {n} ELSE @], n)
      BY <1>1, <1>3 DEF CreateReference
    <3> HIDE DEF a, n
    <3> QED BY <2>1, <3>1 DEF HeapType
  <2>4. r.heap = g /\ r.item = n
    BY <2>3 DEF Result
  <2>5. /\ a.child \in [Items -> Pointers] /\ a.kind \in [Items -> Kinds \cup {None}]
        /\ a.ref \in SUBSET Items /\ a.const \in SUBSET Items
        /\ h.child[item] \in Pointers /\ h.kind[item] \in Kinds \cup {None}
    <3>1. /\ h.child \in [Items -> Pointers] /\ h.kind \in [Items -> Kinds \cup {None}]
          /\ h.ref \in SUBSET Items /\ h.const \in SUBSET Items
      BY <1>1, HeapFields
    <3> HIDE DEF a
    <3> QED BY <2>1, <3>1
  <2>6. /\ c \in [Items -> Pointers] /\ d \in [Items -> Kinds \cup {None}]
        /\ a.ref \cup {n} \in SUBSET Items /\ const \in SUBSET Items
        /\ \A i \in Items \ {n} : c[i] = h.child[i] /\ d[i] = h.kind[i]
    <3> HIDE DEF a, n
    <3> QED BY <2>1, <2>5
  <2>12. const \ {n} = h.const
    <3> HIDE DEF a, n
    <3> QED BY <2>1
  <2> HIDE DEF n, a, r, c, d, const
  <2>7. /\ g \in HeapType /\ g.ref = h.ref \cup {n} /\ g.child = c /\ g.kind = d /\ g.const = const
        /\ g.room = h.room /\ g.live = h.live \cup {n}
        /\ g.texts = h.texts /\ g.undefined = h.undefined
        /\ g.next = h.next /\ g.prev = h.prev /\ g.key = h.key
    BY <2>1, <2>6 DEF HeapType
  <2> HIDE DEF g
  <2>8. g.texts = h.texts + (IF g.key[n] # None /\ n \notin g.const THEN 1 ELSE 0)
                          + (IF g.kind[n] = "string" /\ n \notin g.ref THEN 1 ELSE 0)
    BY <1>1, <2>1, <2>7
  <2>9. /\ g.ref \ {n} = h.ref /\ g.const \ {n} = h.const /\ n \in g.ref
        /\ g.next[n] = Null /\ g.prev[n] = Null /\ g.key[n] = None
    BY <2>1, <2>7, <2>12
  <2>10. \A i \in Items \ {n} : /\ g.next[i] = h.next[i] /\ g.prev[i] = h.prev[i] /\ g.child[i] = h.child[i]
                                /\ g.kind[i] = h.kind[i] /\ g.key[i] = h.key[i]
    BY <2>6, <2>7
  <2>11. Leaf(h, g, n)
    BY <1>1, <2>1, <2>7, <2>8, <2>9, <2>10, LeafMade
  <2> QED BY <1>3, <2>4, <2>7, <2>9, <2>11 DEF Makes, r
<1> QED BY <1>2, <1>3

\* A new item on its way to be a copy: t texts copied, kind set, key not yet.
Bud(h, g, n, t, kind, const) ==
  /\ g \in HeapType /\ n \in Items \ h.live
  /\ g.room = h.room /\ g.live = h.live \cup {n} /\ g.ref = h.ref
  /\ g.const = IF const THEN h.const \cup {n} ELSE h.const
  /\ g.undefined = h.undefined /\ g.texts = h.texts + t
  /\ g.next = h.next /\ g.prev = h.prev /\ g.child = h.child /\ g.key = h.key
  /\ g.kind[n] = kind /\ \A i \in Items \ {n} : g.kind[i] = h.kind[i]

\* A bud with one text more.
LEMMA BudCopied ==
  ASSUME NEW h, NEW g, NEW n, NEW t \in Int, NEW kind,
         NEW const, Bud(h, g, n, t, kind, const), h.texts \in Int,
         ~Failed(g, Strdup(g))
  PROVE  Bud(h, Strdup(g), n, t + 1, kind, const)
<1> DEFINE f == Strdup(g)
<1>1. /\ f \in HeapType /\ f.texts = g.texts + 1
      /\ f.room = g.room /\ f.live = g.live /\ f.ref = g.ref /\ f.const = g.const
      /\ f.undefined = g.undefined
      /\ f.next = g.next /\ f.prev = g.prev /\ f.child = g.child /\ f.kind = g.kind /\ f.key = g.key
  BY CopiedFacts DEF Bud
<1> HIDE DEF f
<1>2. f.texts = h.texts + (t + 1)
  BY <1>1 DEF Bud
<1>3. Bud(h, f, n, t + 1, kind, const)
  BY <1>1, <1>2 DEF Bud
<1> QED BY <1>3 DEF f

\* A bud of another kind.
LEMMA BudKind ==
  ASSUME NEW h, NEW g, NEW n, NEW t \in Int, NEW kind, NEW const, Bud(h, g, n, t, kind, const),
         NEW kd \in Kinds \cup {None}
  PROVE  Bud(h, SetKind(g, n, kd), n, t, kd, const)
<1> DEFINE f == SetKind(g, n, kd)
<1>1. /\ f \in HeapType /\ f.kind[n] = kd /\ \A i \in Items \ {n} : f.kind[i] = g.kind[i]
      /\ f.room = g.room /\ f.live = g.live /\ f.ref = g.ref /\ f.const = g.const
      /\ f.texts = g.texts /\ f.fuel = g.fuel /\ f.undefined = g.undefined
      /\ f.next = g.next /\ f.prev = g.prev /\ f.child = g.child /\ f.key = g.key
  BY SetKindFacts DEF Bud
<1> HIDE DEF f
<1>3. Bud(h, f, n, t, kd, const)
  BY <1>1 DEF Bud
<1> QED BY <1>3 DEF f

\* A bud with the texts its kind has is a new item.
LEMMA BudLeaf ==
  ASSUME NEW h, NEW k, NEW open, Good(h, k, open), NEW g, NEW n, NEW kind, NEW const,
         Bud(h, g, n, IF kind = "string" THEN 1 ELSE 0, kind, const)
  PROVE  Leaf(h, g, n)
<1>1. /\ n \in Items /\ n \notin h.live /\ n \notin h.ref /\ n \notin h.const /\ h.texts \in Int
      /\ h.next[n] = Null /\ h.prev[n] = Null /\ h.child[n] = Null /\ h.key[n] = None
  BY HeapFields DEF Good, Blank, Bud
<1>2. /\ g.texts = h.texts + (IF kind = "string" THEN 1 ELSE 0)
      /\ g.kind[n] = kind /\ n \notin g.ref /\ g.key[n] = None
  BY <1>1 DEF Bud
<1>3. g.texts = h.texts + (IF g.key[n] # None /\ n \notin g.const THEN 1 ELSE 0)
                        + (IF g.kind[n] = "string" /\ n \notin g.ref THEN 1 ELSE 0)
  BY <1>1, <1>2
<1>4. /\ g \in HeapType /\ g.room = h.room /\ g.live = h.live \cup {n} /\ g.undefined = h.undefined
      /\ g.ref \ {n} = h.ref /\ g.const \ {n} = h.const
      /\ g.next[n] = Null /\ g.prev[n] = Null /\ g.child[n] = Null
  BY <1>1 DEF Bud
<1>5. \A i \in Items \ {n} : /\ g.next[i] = h.next[i] /\ g.prev[i] = h.prev[i] /\ g.child[i] = h.child[i]
                             /\ g.kind[i] = h.kind[i] /\ g.key[i] = h.key[i]
  BY DEF Bud
<1> QED BY <1>1, <1>3, <1>4, <1>5, LeafMade DEF Bud

\* cJSON_Duplicate_rec up to its loop: a copy of the item alone, or nothing.
LEMMA CopyItemMakes ==
  ASSUME NEW h, NEW k, NEW open, Good(h, k, open), NEW item \in Items
  PROVE  LET r == CopyItem(h, item)
         IN Makes(h, r) /\ (r.item # Null => r.item \notin r.heap.ref)
<1> DEFINE new == NewItem(h)
           a == new.heap
           n == new.item
           const == item \in h.const
           kd == h.kind[item]
           text == kd = "string"
           typed == [a EXCEPT !.const = IF item \in h.const THEN @ \cup {n} ELSE @]
           valued == IF h.kind[item] = "string" THEN Strdup(typed) ELSE typed
           kinded == IF h.kind[item] = "string" /\ Failed(typed, valued) THEN valued
                     ELSE SetKind(valued, n, h.kind[item])
           named == IF OwnsKey(h, item) THEN Strdup(kinded) ELSE kinded
           one == IF text THEN 1 ELSE 0
           r == CopyItem(h, item)
<1>1. h \in HeapType /\ h.texts \in Int /\ kd \in Kinds \cup {None} /\ h.key[item] \in Keys
  BY HeapFields DEF Good
<1>2. CASE n = Null
  <2>1. new = Result(h, Null)
    BY <1>1, <1>2, NewItemFacts
  <2>2. r = new
    BY <1>2 DEF CopyItem, FillCopy
  <2>3. r.heap = h /\ r.item = Null
    BY <2>1, <2>2 DEF Result
  <2> HIDE DEF r
  <2> QED BY <1>1, <2>3, SameTrans DEF Makes, r
<1>3. CASE n # Null
  <2>1. /\ a \in HeapType /\ n \in Items \ h.live /\ a.live = h.live \cup {n}
        /\ a.room = h.room /\ a.ref = h.ref /\ a.const = h.const /\ a.texts = h.texts
        /\ a.undefined = h.undefined /\ a.next = h.next /\ a.prev = h.prev /\ a.child = h.child
        /\ a.kind = h.kind /\ a.key = h.key
        /\ n \notin h.ref /\ n \notin h.const
        /\ h.next[n] = Null /\ h.prev[n] = Null /\ h.child[n] = Null
        /\ h.kind[n] = None /\ h.key[n] = None
    BY <1>3, AllocatedFacts
  <2>2. Bud(h, typed, n, 0, None, const)
    <3> DEFINE c == IF item \in h.const THEN a.const \cup {n} ELSE a.const
    <3>1. a.const \in SUBSET Items
      <4>1. h.const \in SUBSET Items
        BY <1>1, HeapFields
      <4> HIDE DEF a
      <4> QED BY <2>1, <4>1
    <3>2. c \in SUBSET Items /\ c = IF const THEN h.const \cup {n} ELSE h.const
      <4> HIDE DEF a, n
      <4> QED BY <2>1, <3>1
    <3>3. typed = [a EXCEPT !.const = c]
      <4> HIDE DEF a, n
      <4> QED BY <2>1 DEF HeapType
    <3> HIDE DEF a, n, c, typed
    <3>4. /\ typed \in HeapType /\ typed.const = c
          /\ typed.room = a.room /\ typed.live = a.live /\ typed.ref = a.ref /\ typed.texts = a.texts
          /\ typed.undefined = a.undefined /\ typed.next = a.next /\ typed.prev = a.prev
          /\ typed.child = a.child
          /\ typed.kind = a.kind /\ typed.key = a.key
      BY <2>1, <3>2, <3>3 DEF HeapType
    <3>5. typed.texts = h.texts + 0
      BY <1>1, <2>1, <3>4
    <3> QED BY <2>1, <3>2, <3>4, <3>5 DEF Bud
  <2>9. None # "string" /\ 0 \in Int /\ 0 + 1 = 1
    BY DEF None
  <2>3. CASE text /\ Failed(typed, valued)
    <3>1. valued = typed /\ kinded = valued
      <4>1. valued = Strdup(typed) /\ kinded = valued
        BY <2>3
      <4>2. typed \in HeapType
        BY <2>2 DEF Bud
      <4> HIDE DEF typed
      <4> QED BY <2>3, <4>1, <4>2, StrdupFacts
    <3>2. kinded.kind[n] = None
      <4> HIDE DEF typed, n, valued, kinded
      <4> QED BY <2>2, <3>1 DEF Bud
    <3>3. r = Result(Delete(kinded, n), Null)
      BY <1>3, <3>2 DEF CopyItem, FillCopy
    <3>4. r.heap = Delete(kinded, n) /\ r.item = Null
      BY <3>3 DEF Result
    <3>5. Leaf(h, kinded, n)
      <4>1. Bud(h, kinded, n, IF None = "string" THEN 1 ELSE 0, None, const)
        <5> HIDE DEF kinded, typed, n
        <5> QED BY <2>2, <2>9, <3>1
      <4> HIDE DEF kinded, n
      <4> QED BY <4>1, BudLeaf
    <3> HIDE DEF kinded, n, r
    <3>6. Delete(kinded, n) \in HeapType /\ Same(Delete(kinded, n), h)
      BY <3>5, LeafDeleted
    <3> QED BY <3>4, <3>6 DEF Makes, r
  <2>4. CASE ~(text /\ Failed(typed, valued))
    <3>1. Bud(h, kinded, n, one, kd, const)
      <4>1. Bud(h, valued, n, one, None, const)
        <5>1. CASE text
          <6>1. valued = Strdup(typed) /\ one = 1 /\ ~Failed(typed, Strdup(typed))
            BY <2>4, <5>1
          <6> HIDE DEF typed, n, valued, one
          <6> QED BY <1>1, <2>2, <2>9, <6>1, BudCopied
        <5>2. CASE ~text
          <6>1. valued = typed /\ one = 0
            BY <5>2
          <6> HIDE DEF typed, n, valued, one
          <6> QED BY <2>2, <6>1
        <5> QED BY <5>1, <5>2
      <4>2. kinded = SetKind(valued, n, kd) /\ one \in Int
        BY <2>4
      <4> HIDE DEF valued, n, kinded, one
      <4> QED BY <1>1, <4>1, <4>2, BudKind
    <3>2. Leaf(h, kinded, n)
      <4> HIDE DEF kinded, n
      <4> QED BY <3>1, BudLeaf
    <3>3. kinded.kind[n] = kd /\ kinded \in HeapType
      <4> HIDE DEF kinded, n, kd
      <4> QED BY <3>1 DEF Bud
    <3>4. CASE kd = None
      <4>3. r = Result(Delete(kinded, n), Null)
        BY <1>3, <3>3, <3>4 DEF CopyItem, FillCopy
      <4>4. r.heap = Delete(kinded, n) /\ r.item = Null
        BY <4>3 DEF Result
      <4> HIDE DEF kinded, n, r
      <4>6. Delete(kinded, n) \in HeapType /\ Same(Delete(kinded, n), h)
        BY <3>2, LeafDeleted
      <4> QED BY <4>4, <4>6 DEF Makes, r
    <3>5. CASE kd # None /\ OwnsKey(h, item) /\ Failed(kinded, named)
      <4>1. named = kinded
        <5>1. named = Strdup(kinded)
          BY <3>5
        <5> HIDE DEF kinded
        <5> QED BY <3>3, <3>5, <5>1, StrdupFacts
      <4>2. kinded.kind[n] # None
        BY <3>3, <3>5
      <4>3. r = Result(Delete(named, n), Null)
        BY <1>3, <3>5, <4>2 DEF CopyItem, FillCopy
      <4>4. r.heap = Delete(kinded, n) /\ r.item = Null
        BY <4>1, <4>3 DEF Result
      <4> HIDE DEF kinded, n, r
      <4>6. Delete(kinded, n) \in HeapType /\ Same(Delete(kinded, n), h)
        BY <3>2, LeafDeleted
      <4> QED BY <4>4, <4>6 DEF Makes, r
    <3>6. CASE kd # None /\ ~(OwnsKey(h, item) /\ Failed(kinded, named))
      <4> DEFINE more == IF OwnsKey(h, item) THEN 1 ELSE 0
                 e == [named.key EXCEPT ![n] = h.key[item]]
                 g == [named EXCEPT !.key = e]
      <4>1. Bud(h, named, n, one + more, kd, const)
        <5>1. CASE OwnsKey(h, item)
          <6>1. named = Strdup(kinded) /\ more = 1 /\ ~Failed(kinded, Strdup(kinded)) /\ one \in Int
            BY <3>6, <5>1
          <6> HIDE DEF kinded, n, named, one, more, kd
          <6> QED BY <1>1, <3>1, <6>1, BudCopied
        <5>2. CASE ~OwnsKey(h, item)
          <6>1. named = kinded /\ more = 0 /\ one + 0 = one
            BY <5>2
          <6> HIDE DEF kinded, n, named, one, more, kd
          <6> QED BY <3>1, <6>1
        <5> QED BY <5>1, <5>2
      <4>2. kinded.kind[n] # None
        BY <3>3, <3>6
      <4>3. r = Result([named EXCEPT !.key[n] = h.key[item]], n)
        BY <1>3, <3>6, <4>2 DEF CopyItem, FillCopy
      <4>4. named \in HeapType /\ named.key = h.key
        <5> HIDE DEF named, n
        <5> QED BY <4>1 DEF Bud
      <4>5. r.heap = g /\ r.item = n
        <5>1. [named EXCEPT !.key[n] = h.key[item]] = g
          <6> HIDE DEF named, n
          <6> QED BY <4>4 DEF HeapType
        <5> HIDE DEF named, n, g, r
        <5> QED BY <4>3, <5>1 DEF Result
      <4>6. e \in [Items -> Keys] /\ e[n] = h.key[item] /\ \A i \in Items \ {n} : e[i] = h.key[i]
        <5>1. h.key \in [Items -> Keys]
          BY <1>1, HeapFields
        <5> HIDE DEF named, n
        <5> QED BY <1>1, <2>1, <4>4, <5>1
      <4>7. text <=> kd = "string"
        OBVIOUS
      <4>8. one = (IF kd = "string" THEN 1 ELSE 0) /\ more = (IF h.key[item] # None /\ ~const THEN 1 ELSE 0)
        BY DEF OwnsKey
      <4> HIDE DEF named, n, e, one, more, kd, const, r
      <4>9. /\ g \in HeapType /\ g.key = e
            /\ g.room = named.room /\ g.live = named.live /\ g.ref = named.ref /\ g.const = named.const
            /\ g.texts = named.texts /\ g.undefined = named.undefined
            /\ g.next = named.next /\ g.prev = named.prev /\ g.child = named.child /\ g.kind = named.kind
        BY <4>4, <4>6 DEF HeapType
      <4> HIDE DEF g
      <4>10. /\ g.room = h.room /\ g.live = h.live \cup {n} /\ g.ref = h.ref
             /\ g.const = (IF const THEN h.const \cup {n} ELSE h.const)
             /\ g.undefined = h.undefined /\ g.texts = h.texts + (one + more)
             /\ g.next = h.next /\ g.prev = h.prev /\ g.child = h.child
             /\ g.kind[n] = kd /\ \A i \in Items \ {n} : g.kind[i] = h.kind[i]
        BY <4>1, <4>9 DEF Bud
      <4>11. n \notin g.ref /\ g.ref \ {n} = h.ref /\ g.const \ {n} = h.const /\ (n \in g.const <=> const)
        BY <2>1, <4>10
      <4>12. g.texts = h.texts + (IF g.key[n] # None /\ n \notin g.const THEN 1 ELSE 0)
                               + (IF g.kind[n] = "string" /\ n \notin g.ref THEN 1 ELSE 0)
        <5>1. (IF g.key[n] # None /\ n \notin g.const THEN 1 ELSE 0) = more
          BY <4>6, <4>8, <4>9, <4>11
        <5>2. (IF g.kind[n] = "string" /\ n \notin g.ref THEN 1 ELSE 0) = one
          BY <4>8, <4>10, <4>11
        <5>3. one \in Int /\ more \in Int
          BY DEF one, more
        <5> QED BY <1>1, <4>10, <5>1, <5>2, <5>3
      <4>13. /\ g.next[n] = Null /\ g.prev[n] = Null /\ g.child[n] = Null
             /\ \A i \in Items \ {n} : /\ g.next[i] = h.next[i] /\ g.prev[i] = h.prev[i] /\ g.child[i] = h.child[i]
                                       /\ g.kind[i] = h.kind[i] /\ g.key[i] = h.key[i]
        BY <2>1, <4>6, <4>9, <4>10
      <4>14. Leaf(h, g, n)
        BY <1>1, <2>1, <4>9, <4>10, <4>11, <4>12, <4>13, LeafMade
      <4> QED BY <1>3, <4>5, <4>9, <4>11, <4>14 DEF Makes, r
    <3> QED BY <3>4, <3>5, <3>6
  <2> QED BY <2>3, <2>4
<1> QED BY <1>2, <1>3
-----------------------------------------------------------------------------
(* The relinking functions on a heap of many lists.                         *)

\* The links of the items of F alone change, those below p and roots, and make
\* the list of p in k2; what has left that list is loose.
Relinks(h, k, open, g, p, F, k2, open2) ==
  /\ g \in HeapType /\ p \in h.live \ h.ref
  /\ F \in SUBSET h.live /\ \A y \in F : y \in Children(k, p) \/ IsRoot(k, y)
  /\ IsForest(k2) /\ \A q \in Items \ {p} : k2[q] = k[q]
  /\ Children(k, p) \subseteq F /\ Children(k2, p) \subseteq F
  /\ g.live = h.live /\ g.ref = h.ref /\ g.const = h.const /\ g.texts = h.texts /\ g.undefined = h.undefined
  /\ g.kind = h.kind /\ g.key = h.key
  /\ \A i \in Items \ F : g.next[i] = h.next[i] /\ g.prev[i] = h.prev[i]
  /\ \A q \in Items \ {p} : g.child[q] = h.child[q]
  /\ Lists(g, p, k2[p], p \in open2) /\ \A q \in Items \ {p} : q \in open2 <=> q \in open
  /\ \A y \in F \ Children(k2, p) : Loose(g, y)

\* When the list of p alone is relinked, the heap holds the forest with that list.
LEMMA Relinked ==
  ASSUME NEW h, NEW k, NEW open, Good(h, k, open), NEW g, NEW p, NEW F, NEW k2, NEW open2,
         Relinks(h, k, open, g, p, F, k2, open2)
  PROVE  /\ Good(g, k2, open2)
         /\ \A y \in h.live : IsRoot(k2, y) <=> IF y \in F THEN y \notin Children(k2, p) ELSE IsRoot(k, y)
<1> USE DEF Relinks
<1>1. /\ h \in HeapType /\ IsForest(k) /\ k \in Sequences /\ Kept(h, k) /\ h.live \in SUBSET Items
      /\ p \in Items /\ k2 \in Sequences
  BY GoodShape DEF Good, IsForest
<1>2. \A q \in Items \ {p} : Children(k2, q) = Children(k, q)
  <2> TAKE q \in Items \ {p}
  <2>1. k2[q] = k[q]
    OBVIOUS
  <2> QED BY <2>1 DEF Children
<1>3. \A q \in Items \ {p} : \A y \in Children(k, q) : y \notin F
  BY <1>1, OnlyParent DEF IsRoot
<1>4. \A y \in h.live : IsRoot(k2, y) <=> IF y \in F THEN y \notin Children(k2, p) ELSE IsRoot(k, y)
  BY <1>1, <1>2, <1>3 DEF IsRoot
<1>5. Kept(g, k2)
  BY <1>1, <1>2 DEF Kept
<1>6. Whole(g, k2, open2)
  <2> SUFFICES ASSUME NEW q \in h.live \ h.ref, q # p PROVE Lists(g, q, k2[q], q \in open2)
    BY DEF Whole
  <2>1. q \in Items \ {p} /\ k2[q] = k[q] /\ (q \in open2 <=> q \in open) /\ g.child[q] = h.child[q]
    BY <1>1
  <2>2. Lists(h, q, k[q], q \in open)
    BY DEF Good, Whole
  <2>3. \A i \in 1..Len(k[q]) : k[q][i] \in Items \ F
    BY <1>1, <1>3, <2>1, ChildrenItems DEF Children
  <2> QED BY <2>1, <2>2, <2>3 DEF Lists
<1>7. RootsLoose(g, k2)
  <2> SUFFICES ASSUME NEW y \in h.live, IsRoot(k2, y) PROVE Loose(g, y)
    BY DEF RootsLoose
  <2>1. CASE y \in F
    BY <1>4, <2>1
  <2>2. CASE y \notin F
    <3>1. Loose(h, y) /\ y \in Items
      BY <1>1, <1>4, <2>2 DEF Good, RootsLoose
    <3> QED BY <2>2, <3>1 DEF Loose
  <2> QED BY <2>1, <2>2
<1>8. Blank(g)
  <2>1. \A i \in Items \ h.live : i \notin F /\ i # p
    OBVIOUS
  <2> QED BY <2>1 DEF Good, Blank
<1>9. Counted(g)
  <2>1. OwnAlike(g, h, h.live)
    BY DEF OwnAlike, OwnsKey, OwnsValue
  <2>2. Texts(g, g.live) = Texts(h, h.live)
    BY <2>1, TextsAlike
  <2> QED BY <2>2 DEF Good, Counted
<1> QED BY <1>4, <1>5, <1>6, <1>7, <1>8, <1>9 DEF Good

Links(h) == [next |-> h.next, prev |-> h.prev, child |-> h.child]

\* g is h0 with the links of l; they differ from those of h0 at items of F and
\* in the first child of p alone.
Mirror(h0, g, l, F, p) ==
  /\ l = [next |-> l.next, prev |-> l.prev, child |-> l.child]
  /\ g = [h0 EXCEPT !.next = l.next, !.prev = l.prev, !.child = l.child]
  /\ DOMAIN l.next = Items /\ DOMAIN l.prev = Items /\ DOMAIN l.child = Items
  /\ \A i \in Items \ F : l.next[i] = h0.next[i] /\ l.prev[i] = h0.prev[i]
  /\ \A q \in Items \ {p} : l.child[q] = h0.child[q]

\* A heap has its own links.
LEMMA MirrorStart ==
  ASSUME NEW h0 \in HeapType, NEW F, NEW p
  PROVE  Mirror(h0, h0, Links(h0), F, p) /\ Links(h0) \in Heaps
<1>1. h0.next \in [Items -> Pointers] /\ h0.prev \in [Items -> Pointers] /\ h0.child \in [Items -> Pointers]
  BY HeapFields
<1>2. h0 = [h0 EXCEPT !.next = h0.next, !.prev = h0.prev, !.child = h0.child]
  BY DEF HeapType
<1> QED BY <1>1, <1>2 DEF Mirror, Links, Heaps

\* What a heap has of its links, and what of the heap before.
LEMMA MirrorFields ==
  ASSUME NEW h0 \in HeapType, NEW g, NEW l, NEW F, NEW p, Mirror(h0, g, l, F, p)
  PROVE  /\ g.next = l.next /\ g.prev = l.prev /\ g.child = l.child
         /\ g.room = h0.room /\ g.live = h0.live /\ g.ref = h0.ref /\ g.const = h0.const /\ g.fuel = h0.fuel
         /\ g.texts = h0.texts /\ g.undefined = h0.undefined /\ g.kind = h0.kind /\ g.key = h0.key
         /\ l \in Heaps => g \in HeapType
<1>1. g = [h0 EXCEPT !.next = l.next, !.prev = l.prev, !.child = l.child]
  BY DEF Mirror
<1>2. l \in Heaps => /\ l.next \in [Items -> Pointers] /\ l.prev \in [Items -> Pointers]
                     /\ l.child \in [Items -> Pointers]
  BY DEF Heaps
<1> QED BY <1>1, <1>2 DEF HeapType

\* The assignment to a next, in a heap and in its links.
LEMMA MirrorNext ==
  ASSUME NEW h0 \in HeapType, NEW g, NEW l, NEW F, NEW p, Mirror(h0, g, l, F, p), NEW j \in F, NEW v
  PROVE  Mirror(h0, [g EXCEPT !.next[j] = v], [l EXCEPT !.next[j] = v], F, p)
<1> DEFINE e == [l.next EXCEPT ![j] = v]
           m == [l EXCEPT !.next[j] = v]
<1>1. /\ l = [next |-> l.next, prev |-> l.prev, child |-> l.child]
      /\ g = [h0 EXCEPT !.next = l.next, !.prev = l.prev, !.child = l.child]
      /\ DOMAIN l.next = Items
      /\ \A i \in Items \ F : l.next[i] = h0.next[i]
  BY DEF Mirror
<1>2. DOMAIN e = Items /\ \A i \in Items \ F : e[i] = h0.next[i]
  BY <1>1
<1>3. m = [next |-> e, prev |-> l.prev, child |-> l.child]
  BY <1>1
<1>4. [g EXCEPT !.next[j] = v] = [h0 EXCEPT !.next = e, !.prev = l.prev, !.child = l.child]
  BY <1>1 DEF HeapType
<1> HIDE DEF e, m
<1>5. m.next = e /\ m.prev = l.prev /\ m.child = l.child
  BY <1>3
<1>6. Mirror(h0, [g EXCEPT !.next[j] = v], m, F, p)
  BY <1>2, <1>3, <1>4, <1>5 DEF Mirror
<1> QED BY <1>6 DEF m

\* The assignment to a prev, in a heap and in its links.
LEMMA MirrorPrev ==
  ASSUME NEW h0 \in HeapType, NEW g, NEW l, NEW F, NEW p, Mirror(h0, g, l, F, p), NEW j \in F, NEW v
  PROVE  Mirror(h0, [g EXCEPT !.prev[j] = v], [l EXCEPT !.prev[j] = v], F, p)
<1> DEFINE e == [l.prev EXCEPT ![j] = v]
           m == [l EXCEPT !.prev[j] = v]
<1>1. /\ l = [next |-> l.next, prev |-> l.prev, child |-> l.child]
      /\ g = [h0 EXCEPT !.next = l.next, !.prev = l.prev, !.child = l.child]
      /\ DOMAIN l.prev = Items
      /\ \A i \in Items \ F : l.prev[i] = h0.prev[i]
  BY DEF Mirror
<1>2. DOMAIN e = Items /\ \A i \in Items \ F : e[i] = h0.prev[i]
  BY <1>1
<1>3. m = [next |-> l.next, prev |-> e, child |-> l.child]
  BY <1>1
<1>4. [g EXCEPT !.prev[j] = v] = [h0 EXCEPT !.next = l.next, !.prev = e, !.child = l.child]
  BY <1>1 DEF HeapType
<1> HIDE DEF e, m
<1>5. m.prev = e /\ m.next = l.next /\ m.child = l.child
  BY <1>3
<1>6. Mirror(h0, [g EXCEPT !.prev[j] = v], m, F, p)
  BY <1>2, <1>3, <1>4, <1>5 DEF Mirror
<1> QED BY <1>6 DEF m

\* The assignment to the child of p, in a heap and in its links.
LEMMA MirrorChild ==
  ASSUME NEW h0 \in HeapType, NEW g, NEW l, NEW F, NEW p, Mirror(h0, g, l, F, p), NEW v
  PROVE  Mirror(h0, [g EXCEPT !.child[p] = v], [l EXCEPT !.child[p] = v], F, p)
<1> DEFINE e == [l.child EXCEPT ![p] = v]
           m == [l EXCEPT !.child[p] = v]
<1>1. /\ l = [next |-> l.next, prev |-> l.prev, child |-> l.child]
      /\ g = [h0 EXCEPT !.next = l.next, !.prev = l.prev, !.child = l.child]
      /\ DOMAIN l.child = Items
      /\ \A i \in Items \ {p} : l.child[i] = h0.child[i]
  BY DEF Mirror
<1>2. DOMAIN e = Items /\ \A i \in Items \ {p} : e[i] = h0.child[i]
  BY <1>1
<1>3. m = [next |-> l.next, prev |-> l.prev, child |-> e]
  BY <1>1
<1>4. [g EXCEPT !.child[p] = v] = [h0 EXCEPT !.next = l.next, !.prev = l.prev, !.child = e]
  BY <1>1 DEF HeapType
<1> HIDE DEF e, m
<1>5. m.child = e /\ m.prev = l.prev /\ m.next = l.next
  BY <1>3
<1>6. Mirror(h0, [g EXCEPT !.child[p] = v], m, F, p)
  BY <1>2, <1>3, <1>4, <1>5 DEF Mirror
<1> QED BY <1>6 DEF m

\* What the four functions change, on a list of distinct items.
LEMMA AppendMirror ==
  ASSUME NEW h \in HeapType, NEW p \in Items, NEW s, Represents(h, p, s), NEW F, NEW x \in F,
         \A i \in 1..Len(s) : s[i] \in F
  PROVE  Mirror(h, AddItemToArray(h, p, x), AddItemToArray(Links(h), p, x), F, p)
<1> DEFINE l == Links(h)
           first == h.child[p]
           last == h.prev[first]
<1>0. /\ l.next = h.next /\ l.prev = h.prev /\ l.child = h.child
      /\ Mirror(h, h, l, F, p)
  BY MirrorStart DEF Links
<1>1. s \in Seq(Items) /\ Len(s) \in Nat
  BY DEF Represents
<1> HIDE DEF l
<1>2. CASE first = Null
  <2>1. Mirror(h, [h EXCEPT !.child[p] = x], [l EXCEPT !.child[p] = x], F, p)
    BY <1>0, MirrorChild
  <2> DEFINE g1 == [h EXCEPT !.child[p] = x]
             l1 == [l EXCEPT !.child[p] = x]
             g2 == [g1 EXCEPT !.prev[x] = x]
             l2 == [l1 EXCEPT !.prev[x] = x]
             g3 == [g2 EXCEPT !.next[x] = Null]
             l3 == [l2 EXCEPT !.next[x] = Null]
  <2>4. g3 = [h EXCEPT !.child[p] = x, !.prev[x] = x, !.next[x] = Null]
    OBVIOUS
  <2>5. l3 = [l EXCEPT !.child[p] = x, !.prev[x] = x, !.next[x] = Null]
    OBVIOUS
  <2> HIDE DEF g1, l1
  <2>2. Mirror(h, g2, l2, F, p)
    BY <2>1, MirrorPrev DEF g1, l1
  <2> HIDE DEF g2, l2
  <2>3. Mirror(h, g3, l3, F, p)
    BY <2>2, MirrorNext
  <2>6. AddItemToArray(h, p, x) = g3 /\ AddItemToArray(l, p, x) = l3
    BY <1>0, <1>2, <2>4, <2>5 DEF AddItemToArray
  <2> QED BY <2>3, <2>6 DEF l
<1>3. CASE first # Null
  <2>1. 1 \in 1..Len(s) /\ Len(s) \in 1..Len(s) /\ first = s[1] /\ last = s[Len(s)]
    BY <1>1, <1>3 DEF Represents
  <2>2. first \in F /\ last \in F /\ last # Null
    BY <1>1, <2>1
  <2> DEFINE g1 == [h EXCEPT !.next[last] = x]
             l1 == [l EXCEPT !.next[last] = x]
             g2 == [g1 EXCEPT !.prev[x] = last]
             l2 == [l1 EXCEPT !.prev[x] = last]
             g3 == [g2 EXCEPT !.prev[first] = x]
             l3 == [l2 EXCEPT !.prev[first] = x]
  <2>3. g2 = SuffixObject(h, last, x) /\ l2 = SuffixObject(l, last, x)
    BY DEF SuffixObject
  <2>4. AddItemToArray(h, p, x) = [SuffixObject(h, last, x) EXCEPT !.prev[first] = x]
    BY <1>3, <2>2 DEF AddItemToArray
  <2>5. AddItemToArray(l, p, x) = [SuffixObject(l, last, x) EXCEPT !.prev[first] = x]
    BY <1>0, <1>3, <2>2 DEF AddItemToArray
  <2> HIDE DEF first, last
  <2>6. Mirror(h, g1, l1, F, p)
    BY <1>0, <2>2, MirrorNext
  <2> HIDE DEF g1, l1
  <2>7. Mirror(h, g2, l2, F, p)
    BY <2>6, MirrorPrev
  <2> HIDE DEF g2, l2
  <2>8. Mirror(h, g3, l3, F, p)
    BY <2>2, <2>7, MirrorPrev
  <2> QED BY <2>3, <2>4, <2>5, <2>8 DEF l
<1> QED BY <1>2, <1>3

\* A detachment does to a heap what it does to its links.
LEMMA DetachMirror ==
  ASSUME NEW h \in HeapType, NEW p \in Items, NEW s, Represents(h, p, s), NEW k \in 1..Len(s), NEW F,
         \A i \in 1..Len(s) : s[i] \in F
  PROVE  Mirror(h, DetachItemViaPointer(h, p, s[k]), DetachItemViaPointer(Links(h), p, s[k]), F, p)
<1> DEFINE x == s[k]
           l == Links(h)
           first == h.child[p]
           a == IF x # first THEN [h EXCEPT !.next[h.prev[x]] = h.next[x]] ELSE h
           la == IF x # first THEN [l EXCEPT !.next[h.prev[x]] = h.next[x]] ELSE l
           b == IF a.next[x] # Null THEN [a EXCEPT !.prev[a.next[x]] = a.prev[x]] ELSE a
           lb == IF a.next[x] # Null THEN [la EXCEPT !.prev[a.next[x]] = a.prev[x]] ELSE la
           c == IF x = first THEN [b EXCEPT !.child[p] = b.next[x]]
                ELSE IF b.next[x] = Null THEN [b EXCEPT !.prev[first] = b.prev[x]]
                ELSE b
           lc == IF x = first THEN [lb EXCEPT !.child[p] = b.next[x]]
                 ELSE IF b.next[x] = Null THEN [lb EXCEPT !.prev[first] = b.prev[x]]
                 ELSE lb
           d == [c EXCEPT !.prev[x] = Null]
           ld == [lc EXCEPT !.prev[x] = Null]
           e == [d EXCEPT !.next[x] = Null]
           le == [ld EXCEPT !.next[x] = Null]
<1>0. /\ l.next = h.next /\ l.prev = h.prev /\ l.child = h.child
      /\ Mirror(h, h, l, F, p)
  BY MirrorStart DEF Links
<1>1. /\ s \in Seq(Items) /\ Len(s) \in Nat /\ 1 \in 1..Len(s) /\ first = s[1] /\ first \in F /\ x \in F
      /\ x # Null /\ first \in Items
      /\ \A i \in 1..Len(s) : s[i] \in Items
  BY DEF Represents
<1>2. /\ h.next \in [Items -> Pointers] /\ h.prev \in [Items -> Pointers]
      /\ h.next[x] = IF k = Len(s) THEN Null ELSE s[k + 1]
      /\ h.prev[x] = IF k = 1 THEN s[Len(s)] ELSE s[k - 1]
      /\ h.next[x] # x /\ h.prev[x] \in F /\ (h.next[x] # Null => h.next[x] \in F)
      /\ (x # first => k # 1 /\ h.prev[x] # x)
  BY <1>1, HeapFields DEF Represents
<1>3. DetachItemViaPointer(h, p, x) = e
  BY DEF DetachItemViaPointer
<1> HIDE DEF l, first, x
<1>4. Mirror(h, a, la, F, p)
  BY <1>0, <1>1, <1>2, MirrorNext
<1>5. a.next = la.next /\ a.prev = la.prev /\ a.child = la.child
  <2> HIDE DEF a, la
  <2> QED BY <1>4, MirrorFields
<1>6. a.next[x] = h.next[x]
  <2> HIDE DEF la
  <2> QED BY <1>1, <1>2 DEF HeapType
<1>7. Mirror(h, b, lb, F, p)
  <2> HIDE DEF a, la
  <2> QED BY <1>2, <1>4, <1>6, MirrorPrev
<1>8. b.next = lb.next /\ b.prev = lb.prev /\ b.child = lb.child
  <2> HIDE DEF b, lb
  <2> QED BY <1>7, MirrorFields
<1>9. Mirror(h, c, lc, F, p)
  <2> HIDE DEF b, lb
  <2> QED BY <1>1, <1>7, MirrorPrev, MirrorChild
<1>10. DetachItemViaPointer(l, p, x) = le
  <2>1. DetachItemViaPointer(l, p, x) =
          LET a0 == IF x # l.child[p] THEN [l EXCEPT !.next[l.prev[x]] = l.next[x]] ELSE l
              b0 == IF a0.next[x] # Null THEN [a0 EXCEPT !.prev[a0.next[x]] = a0.prev[x]] ELSE a0
              c0 == IF x = l.child[p] THEN [b0 EXCEPT !.child[p] = b0.next[x]]
                    ELSE IF b0.next[x] = Null THEN [b0 EXCEPT !.prev[l.child[p]] = b0.prev[x]]
                    ELSE b0
          IN [c0 EXCEPT !.prev[x] = Null, !.next[x] = Null]
    BY DEF DetachItemViaPointer
  <2> DEFINE a0 == IF x # l.child[p] THEN [l EXCEPT !.next[l.prev[x]] = l.next[x]] ELSE l
             b0 == IF a0.next[x] # Null THEN [a0 EXCEPT !.prev[a0.next[x]] = a0.prev[x]] ELSE a0
             c0 == IF x = l.child[p] THEN [b0 EXCEPT !.child[p] = b0.next[x]]
                   ELSE IF b0.next[x] = Null THEN [b0 EXCEPT !.prev[l.child[p]] = b0.prev[x]]
                   ELSE b0
  <2>2. DetachItemViaPointer(l, p, x) = [c0 EXCEPT !.prev[x] = Null, !.next[x] = Null]
    BY <2>1
  <2>3. a0 = la
    BY <1>0 DEF first
  <2>4. b0 = lb
    <3> HIDE DEF a0, la, a
    <3> QED BY <1>5, <2>3
  <2>5. c0 = lc
    <3> HIDE DEF b0, lb, b
    <3> QED BY <1>0, <1>8, <2>4 DEF first
  <2> HIDE DEF c0, lc
  <2> QED BY <2>2, <2>5
<1> HIDE DEF c, lc
<1>11. Mirror(h, d, ld, F, p)
  BY <1>1, <1>9, MirrorPrev
<1> HIDE DEF d, ld
<1>12. Mirror(h, e, le, F, p)
  BY <1>1, <1>11, MirrorNext
<1> QED BY <1>3, <1>10, <1>12 DEF x, l

\* An insertion does to a heap what it does to its links.
LEMMA InsertMirror ==
  ASSUME NEW h \in HeapType, NEW p \in Items, NEW s, Represents(h, p, s), NEW k \in 1..Len(s), NEW F,
         \A i \in 1..Len(s) : s[i] \in F, NEW x \in F
  PROVE  Mirror(h, InsertBefore(h, p, s[k], x), InsertBefore(Links(h), p, s[k], x), F, p)
<1> DEFINE after == s[k]
           l == Links(h)
           first == h.child[p]
           before == h.prev[after]
           a == [h EXCEPT !.next[x] = after]
           la == [l EXCEPT !.next[x] = after]
           b == [a EXCEPT !.prev[x] = before]
           lb == [la EXCEPT !.prev[x] = before]
           c == [b EXCEPT !.prev[after] = x]
           lc == [lb EXCEPT !.prev[after] = x]
           d == IF after = first THEN [c EXCEPT !.child[p] = x] ELSE [c EXCEPT !.next[before] = x]
           ld == IF after = first THEN [lc EXCEPT !.child[p] = x] ELSE [lc EXCEPT !.next[before] = x]
<1>0. /\ l.next = h.next /\ l.prev = h.prev /\ l.child = h.child
      /\ Mirror(h, h, l, F, p)
  BY MirrorStart DEF Links
<1>1. s \in Seq(Items) /\ Len(s) \in Nat /\ after \in F
  BY DEF Represents
<1>2. before \in F
  BY <1>1 DEF Represents
<1>3. InsertBefore(h, p, after, x) = d
  BY DEF InsertBefore
<1> HIDE DEF l, after
<1>4. InsertBefore(l, p, after, x) = ld
  BY <1>0 DEF InsertBefore
<1> HIDE DEF before, first
<1>5. Mirror(h, a, la, F, p)
  BY <1>0, MirrorNext
<1> HIDE DEF a, la
<1>6. Mirror(h, b, lb, F, p)
  BY <1>5, MirrorPrev
<1> HIDE DEF b, lb
<1>7. Mirror(h, c, lc, F, p)
  BY <1>1, <1>6, MirrorPrev
<1> HIDE DEF c, lc
<1>8. Mirror(h, d, ld, F, p)
  BY <1>2, <1>7, MirrorNext, MirrorChild
<1> QED BY <1>3, <1>4, <1>8 DEF after, l

\* A replacement does to a heap what it does to its links.
LEMMA ReplaceMirror ==
  ASSUME NEW h \in HeapType, NEW p \in Items, NEW s, Represents(h, p, s), NEW k \in 1..Len(s), NEW F,
         \A i \in 1..Len(s) : s[i] \in F, NEW x \in F, ~Among(x, s), x \in Items
  PROVE  Mirror(h, ReplaceItemViaPointer(h, p, s[k], x), ReplaceItemViaPointer(Links(h), p, s[k], x), F, p)
<1> DEFINE y == s[k]
           l == Links(h)
           first == h.child[p]
           z == [h EXCEPT !.next[x] = h.next[y]]
           lz == [l EXCEPT !.next[x] = h.next[y]]
           a == [z EXCEPT !.prev[x] = h.prev[y]]
           la == [lz EXCEPT !.prev[x] = h.prev[y]]
           b == IF a.next[x] # Null THEN [a EXCEPT !.prev[a.next[x]] = x] ELSE a
           lb == IF la.next[x] # Null THEN [la EXCEPT !.prev[la.next[x]] = x] ELSE la
           alone == IF b.prev[first] = first THEN [b EXCEPT !.prev[x] = x] ELSE b
           lalone == IF lb.prev[first] = first THEN [lb EXCEPT !.prev[x] = x] ELSE lb
           linked == IF b.prev[x] # Null THEN [b EXCEPT !.next[b.prev[x]] = x] ELSE b
           llinked == IF lb.prev[x] # Null THEN [lb EXCEPT !.next[lb.prev[x]] = x] ELSE lb
           c == IF first = y THEN [alone EXCEPT !.child[p] = x]
                ELSE IF linked.next[x] = Null THEN [linked EXCEPT !.prev[first] = x]
                ELSE linked
           lc == IF first = y THEN [lalone EXCEPT !.child[p] = x]
                 ELSE IF llinked.next[x] = Null THEN [llinked EXCEPT !.prev[first] = x]
                 ELSE llinked
           d == [c EXCEPT !.next[y] = Null]
           ld == [lc EXCEPT !.next[y] = Null]
           e == [d EXCEPT !.prev[y] = Null]
           le == [ld EXCEPT !.prev[y] = Null]
<1>0. /\ l.next = h.next /\ l.prev = h.prev /\ l.child = h.child
      /\ Mirror(h, h, l, F, p)
  BY MirrorStart DEF Links
<1>1. /\ s \in Seq(Items) /\ Len(s) \in Nat /\ 1 \in 1..Len(s) /\ first = s[1] /\ first \in F /\ y \in F
      /\ y # x /\ y # Null /\ first # x
      /\ \A i \in 1..Len(s) : s[i] \in Items /\ s[i] # x
  BY DEF Represents, Among
<1>2. /\ h.next \in [Items -> Pointers] /\ h.prev \in [Items -> Pointers]
      /\ h.next[y] = IF k = Len(s) THEN Null ELSE s[k + 1]
      /\ h.prev[y] = IF k = 1 THEN s[Len(s)] ELSE s[k - 1]
      /\ h.prev[y] \in F /\ (h.next[y] # Null => h.next[y] \in F) /\ h.next[y] # x
  BY <1>1, HeapFields DEF Represents
<1>3. ReplaceItemViaPointer(h, p, y, x) = e
  BY DEF ReplaceItemViaPointer
<1> HIDE DEF l, y
<1>4. ReplaceItemViaPointer(l, p, y, x) = le
  BY <1>0 DEF ReplaceItemViaPointer
<1> HIDE DEF first
<1>5. Mirror(h, z, lz, F, p)
  BY <1>0, MirrorNext
<1> HIDE DEF z, lz
<1>6. Mirror(h, a, la, F, p)
  BY <1>5, MirrorPrev
<1>7. a.next[x] = h.next[y] /\ a.prev[x] = h.prev[y]
  <2>1. z.next = lz.next /\ z.prev = lz.prev /\ la = [lz EXCEPT !.prev[x] = h.prev[y]]
    BY <1>5, MirrorFields
  <2>2. DOMAIN h.next = Items /\ DOMAIN h.prev = Items
    BY <1>2
  <2>3. a.next[x] = h.next[y]
    BY <2>2 DEF z, HeapType
  <2>4. a.prev[x] = h.prev[y]
    BY <2>2 DEF z, HeapType
  <2> QED BY <2>3, <2>4
<1>8. a.next = la.next /\ a.prev = la.prev /\ a.child = la.child
  <2> HIDE DEF a, la
  <2> QED BY <1>6, MirrorFields
<1> HIDE DEF a, la
<1>9. Mirror(h, b, lb, F, p)
  BY <1>2, <1>6, <1>7, <1>8, MirrorPrev
<1>10. b.next = lb.next /\ b.prev = lb.prev /\ b.child = lb.child
  <2> HIDE DEF b, lb
  <2> QED BY <1>9, MirrorFields
<1>11. b.prev[x] = h.prev[y]
  <2>1. /\ DOMAIN la.next = Items /\ DOMAIN la.prev = Items
        /\ la = [next |-> la.next, prev |-> la.prev, child |-> la.child]
    BY <1>6 DEF Mirror
  <2>2. lb.prev[x] = la.prev[x]
    <3>1. CASE la.next[x] # Null
      <4>1. la.next[x] # x /\ lb = [la EXCEPT !.prev[la.next[x]] = x]
        BY <1>2, <1>7, <1>8, <3>1
      <4>2. lb.prev = [la.prev EXCEPT ![la.next[x]] = x]
        BY <2>1, <4>1
      <4> HIDE DEF lb
      <4> QED BY <2>1, <4>1, <4>2
    <3>2. CASE la.next[x] = Null
      BY <3>2
    <3> QED BY <3>1, <3>2
  <2> HIDE DEF b, lb
  <2> QED BY <1>7, <1>8, <1>10, <2>2
<1> HIDE DEF b, lb
<1>12. Mirror(h, alone, lalone, F, p)
  BY <1>9, <1>10, MirrorPrev
<1>13. Mirror(h, linked, llinked, F, p)
  BY <1>2, <1>9, <1>10, <1>11, MirrorNext
<1> HIDE DEF alone, lalone
<1>14. linked.next = llinked.next /\ linked.prev = llinked.prev
  <2> HIDE DEF linked, llinked
  <2> QED BY <1>13, MirrorFields
<1> HIDE DEF linked, llinked
<1>15. Mirror(h, c, lc, F, p)
  BY <1>1, <1>12, <1>13, <1>14, MirrorPrev, MirrorChild
<1> HIDE DEF c, lc
<1>16. Mirror(h, d, ld, F, p)
  BY <1>1, <1>15, MirrorNext
<1> HIDE DEF d, ld
<1>17. Mirror(h, e, le, F, p)
  BY <1>1, <1>16, MirrorPrev
<1> QED BY <1>3, <1>4, <1>17 DEF y, l
-----------------------------------------------------------------------------
(* The relinking functions and what the caller holds.                       *)

\* The list of an item is whole, in a heap and in its links.
LEMMA ListRepresented ==
  ASSUME NEW h, NEW k, Good(h, k, {}), NEW p \in h.live \ h.ref
  PROVE  Represents(h, p, k[p]) /\ Represents(Links(h), p, k[p])
<1>1. h.live \in SUBSET Items /\ p \in Items /\ IsForest(k) /\ k[p] \in Seq(Items)
  BY GoodShape DEF Good
<1>2. \A i, j \in 1..Len(k[p]) : k[p][i] = k[p][j] => i = j
  BY <1>1 DEF IsForest, OneParent
<1>3. Lists(h, p, k[p], FALSE)
  <2>1. Lists(h, p, k[p], p \in {}) /\ (p \in {}) = FALSE
    BY DEF Good, Whole
  <2> QED BY <2>1 DEF Lists
<1>4. Represents(h, p, k[p])
  BY <1>1, <1>2, <1>3 DEF Represents, Lists
<1>5. Links(h).next = h.next /\ Links(h).prev = h.prev /\ Links(h).child = h.child
  BY DEF Links
<1> QED BY <1>4, <1>5 DEF Represents

\* The list of p after a relinking function, from what it does to a heap of
\* three fields.
Relists(h, k, p, F, s, g, l, k2) ==
  /\ p \in h.live \ h.ref
  /\ F \in SUBSET h.live /\ \A y \in F : y \in Children(k, p) \/ IsRoot(k, y)
  /\ Children(k, p) \subseteq F
  /\ l \in Heaps /\ Mirror(h, g, l, F, p) /\ Represents(l, p, s)
  /\ k2 = [k EXCEPT ![p] = s] /\ IsForest(k2) /\ \A i \in 1..Len(s) : s[i] \in F
  /\ \A y \in F : ~Among(y, s) => Loose(l, y)

\* The theorems about a heap of three fields hold of a list in a forest.
LEMMA RelinkedSound ==
  ASSUME NEW h, NEW k, Good(h, k, {}), NEW p, NEW F, NEW s, NEW g, NEW l,
         NEW k2, Relists(h, k, p, F, s, g, l, k2)
  PROVE  /\ Good(g, k2, {})
         /\ \A y \in h.live : IsRoot(k2, y) <=> IF y \in F THEN ~Among(y, s) ELSE IsRoot(k, y)
         /\ g.live = h.live /\ g.ref = h.ref /\ g.key = h.key /\ g.fuel = h.fuel
<1>0. /\ p \in h.live \ h.ref
      /\ F \in SUBSET h.live /\ (\A y \in F : y \in Children(k, p) \/ IsRoot(k, y))
      /\ Children(k, p) \subseteq F
      /\ l \in Heaps /\ Mirror(h, g, l, F, p) /\ Represents(l, p, s)
      /\ k2 = [k EXCEPT ![p] = s] /\ IsForest(k2) /\ (\A i \in 1..Len(s) : s[i] \in F)
      /\ (\A y \in F : ~Among(y, s) => Loose(l, y))
  BY DEF Relists
<1>1. /\ h \in HeapType /\ k \in Sequences /\ p \in Items
  BY <1>0, GoodShape DEF Good
<1>2. k2[p] = s /\ \A q \in Items \ {p} : k2[q] = k[q]
  BY <1>0, <1>1 DEF Sequences
<1>3. \A y : y \in Children(k2, p) <=> Among(y, s)
  BY <1>2 DEF Children, Among
<1>4. /\ g.next = l.next /\ g.prev = l.prev /\ g.child = l.child
      /\ g.room = h.room /\ g.live = h.live /\ g.ref = h.ref /\ g.const = h.const /\ g.fuel = h.fuel
      /\ g.texts = h.texts /\ g.undefined = h.undefined /\ g.kind = h.kind /\ g.key = h.key
      /\ g \in HeapType
  BY <1>0, <1>1, MirrorFields
<1>5. /\ \A i \in Items \ F : g.next[i] = h.next[i] /\ g.prev[i] = h.prev[i]
      /\ \A q \in Items \ {p} : g.child[q] = h.child[q]
  BY <1>0, <1>4 DEF Mirror
<1>6. Lists(g, p, k2[p], FALSE)
  BY <1>0, <1>2, <1>4 DEF Lists, Represents
<1>7. Children(k2, p) \subseteq F /\ \A y \in F \ Children(k2, p) : Loose(g, y)
  <2>1. \A y \in F : ~Among(y, s) => Loose(g, y)
    BY <1>0, <1>4 DEF Loose
  <2>2. \A i \in 1..Len(s) : s[i] \in F
    BY <1>0
  <2>3. \A y : Among(y, s) => y \in F
    BY <2>2 DEF Among
  <2> QED BY <1>3, <2>1, <2>3
<1> DEFINE none == {}
<1>10. Good(h, k, none)
  OBVIOUS
<1>8. Relinks(h, k, none, g, p, F, k2, none)
  <2>2. Lists(g, p, k2[p], p \in none)
    BY <1>6 DEF Lists
  <2> HIDE DEF none
  <2> QED BY <1>0, <1>2, <1>4, <1>5, <1>7, <2>2 DEF Relinks
<1>9. /\ Good(g, k2, {})
      /\ \A y \in h.live : IsRoot(k2, y) <=> IF y \in F THEN y \notin Children(k2, p) ELSE IsRoot(k, y)
  <2> HIDE DEF none
  <2>1. /\ Good(g, k2, none)
        /\ \A y \in h.live : IsRoot(k2, y) <=> IF y \in F THEN y \notin Children(k2, p) ELSE IsRoot(k, y)
    BY <1>8, <1>10, Relinked
  <2> QED BY <2>1 DEF none
<1> QED BY <1>3, <1>4, <1>9

\* cJSON_AddItemToArray takes what the caller held.
LEMMA AppendSound ==
  ASSUME NEW h, NEW k, NEW m, Sound(h, k, m), NEW p \in h.live \ h.ref, NEW x \in m, p \notin Owned(k, x)
  PROVE  /\ Sound(AddItemToArray(h, p, x), [k EXCEPT ![p] = Appended(k[p], x)], m \ {x})
         /\ AddItemToArray(h, p, x).live = h.live
<1> DEFINE s == k[p]
           t == Appended(s, x)
           k2 == [k EXCEPT ![p] = t]
           F == Children(k, p) \cup {x}
           g == AddItemToArray(h, p, x)
           l == AddItemToArray(Links(h), p, x)
<1>1. /\ Good(h, k, {}) /\ Held(h, k, m) /\ h \in HeapType /\ IsForest(k) /\ k \in Sequences /\ Kept(h, k)
      /\ p \in Items /\ x \in Items /\ x \in h.live /\ IsRoot(k, x)
      /\ s \in Seq(Items) /\ Loose(h, x)
  <2>1. Good(h, k, {}) /\ Held(h, k, m)
    BY DEF Sound
  <2>2. h.live \in SUBSET Items /\ k \in Sequences
    BY <2>1, GoodShape
  <2>3. x \in h.live /\ IsRoot(k, x)
    BY <2>1 DEF Held
  <2> QED BY <2>1, <2>2, <2>3 DEF Good, RootsLoose, Sequences
<1>2. Represents(h, p, s) /\ Represents(Links(h), p, s) /\ Links(h) \in Heaps /\ Loose(Links(h), x)
  <2>1. Links(h) \in Heaps /\ Links(h).next = h.next /\ Links(h).prev = h.prev
    BY <1>1, MirrorStart DEF Links
  <2> QED BY <1>1, <2>1, ListRepresented DEF Loose
<1>3. ~Among(x, s)
  BY <1>1 DEF Among, IsRoot, Children
<1>4. l \in Heaps /\ Represents(l, p, t)
  BY <1>1, <1>2, <1>3, AppendCorrect
<1>5. \A i \in 1..Len(s) : s[i] \in F
  BY DEF Children
<1>6. x \in F
  OBVIOUS
<1>7. Mirror(h, g, l, F, p)
  <2> HIDE DEF F, s
  <2> QED BY <1>1, <1>2, <1>5, <1>6, AppendMirror
<1>8. /\ t \in Seq(Items) /\ Len(t) = Len(s) + 1 /\ t[Len(s) + 1] = x /\ Len(s) \in Nat
      /\ \A i \in 1..Len(s) : t[i] = s[i]
      /\ \A i, j \in 1..Len(t) : t[i] = t[j] => i = j
  <2>1. \A i, j \in 1..Len(s) : s[i] = s[j] => i = j
    BY <1>2 DEF Represents
  <2> HIDE DEF s
  <2> QED BY <1>1, <1>3, <2>1, AppendedFacts
<1> HIDE DEF t
<1>9. \A i \in 1..Len(t) : t[i] \in F
  BY <1>5, <1>6, <1>8
<1>10. \A y \in F : Among(y, t)
  <2>1. Among(x, t)
    BY <1>8 DEF Among
  <2>2. ASSUME NEW y \in Children(k, p) PROVE Among(y, t)
    <3>1. PICK i \in 1..Len(s) : y = s[i]
      BY DEF Children
    <3>2. i \in 1..Len(t) /\ t[i] = y
      BY <1>8, <3>1
    <3> QED BY <3>2 DEF Among
  <2> QED BY <2>1, <2>2
<1>11. IsForest(k2)
  BY <1>1, <1>8, <1>9, ForestMore
<1>12. F \in SUBSET h.live /\ (\A y \in F : y \in Children(k, p) \/ IsRoot(k, y)) /\ Children(k, p) \subseteq F
  BY <1>1 DEF Kept
<1> HIDE DEF F, g, l, s
<1>13. /\ Good(g, k2, {})
       /\ \A y \in h.live : IsRoot(k2, y) <=> IF y \in F THEN ~Among(y, t) ELSE IsRoot(k, y)
       /\ g.live = h.live /\ g.ref = h.ref /\ g.key = h.key /\ g.fuel = h.fuel
  <2>1. Relists(h, k, p, F, t, g, l, k2)
    BY <1>4, <1>7, <1>9, <1>10, <1>11, <1>12 DEF Relists
  <2> HIDE DEF k2
  <2> QED BY <1>1, <2>1, RelinkedSound
<1> HIDE DEF k2
<1>14. \A y \in m : y # x => y \notin F
  BY <1>1 DEF F, Held, IsRoot
<1>15. Held(g, k2, m \ {x})
  BY <1>1, <1>6, <1>10, <1>13, <1>14 DEF Held
<1> QED BY <1>13, <1>15 DEF Sound, g, k2, t, s

\* What a heap in order has.
LEMMA SoundFacts ==
  ASSUME NEW h, NEW k, NEW m, Sound(h, k, m)
  PROVE  /\ Good(h, k, {}) /\ Held(h, k, m) /\ h \in HeapType /\ IsForest(k) /\ k \in Sequences /\ Kept(h, k)
         /\ h.live \in SUBSET Items /\ Links(h) \in Heaps
         /\ \A x \in m : x \in h.live /\ x \in Items /\ IsRoot(k, x) /\ Loose(h, x) /\ Loose(Links(h), x)
<1>1. Good(h, k, {}) /\ Held(h, k, m)
  BY DEF Sound
<1>2. h.live \in SUBSET Items /\ k \in Sequences /\ h \in HeapType /\ IsForest(k) /\ Kept(h, k)
  BY <1>1, GoodShape DEF Good
<1>3. \A x \in m : x \in h.live /\ x \in Items /\ IsRoot(k, x) /\ Loose(h, x)
  BY <1>1, <1>2 DEF Held, Good, RootsLoose
<1>4. Links(h) \in Heaps /\ Links(h).next = h.next /\ Links(h).prev = h.prev
  BY <1>2, MirrorStart DEF Links
<1>5. \A x : Loose(h, x) => Loose(Links(h), x)
  BY <1>4 DEF Loose
<1> QED BY <1>1, <1>2, <1>3, <1>4, <1>5

\* The list of p in a heap in order.
LEMMA ListFacts ==
  ASSUME NEW h, NEW k, NEW m, Sound(h, k, m), NEW p \in h.live \ h.ref
  PROVE  /\ p \in Items /\ k[p] \in Seq(Items) /\ Len(k[p]) \in Nat
         /\ Represents(h, p, k[p]) /\ Represents(Links(h), p, k[p])
         /\ \A i, j \in 1..Len(k[p]) : k[p][i] = k[p][j] => i = j
         /\ \A i \in 1..Len(k[p]) : k[p][i] \in Children(k, p) /\ k[p][i] \in Items
         /\ Children(k, p) \subseteq h.live
         /\ \A y \in Children(k, p) : y \notin m /\ Among(y, k[p])
         /\ \A y : IsRoot(k, y) => ~Among(y, k[p])
<1>1. /\ Good(h, k, {}) /\ h.live \in SUBSET Items /\ k \in Sequences /\ Kept(h, k)
      /\ \A x \in m : IsRoot(k, x)
  BY SoundFacts
<1>2. p \in Items /\ k[p] \in Seq(Items) /\ Len(k[p]) \in Nat
  BY <1>1 DEF Sequences
<1>3. Represents(h, p, k[p]) /\ Represents(Links(h), p, k[p])
  BY <1>1, ListRepresented
<1>4. \A i, j \in 1..Len(k[p]) : k[p][i] = k[p][j] => i = j
  BY <1>3 DEF Represents
<1>5. Children(k, p) \subseteq h.live
  BY <1>1, <1>2 DEF Kept
<1>6. \A i \in 1..Len(k[p]) : k[p][i] \in Children(k, p) /\ k[p][i] \in Items
  BY <1>2 DEF Children
<1>7. \A y \in Children(k, p) : y \notin m /\ Among(y, k[p])
  BY <1>1, <1>2 DEF Children, Among, IsRoot
<1>8. \A y : IsRoot(k, y) => ~Among(y, k[p])
  BY <1>2 DEF Children, Among, IsRoot
<1> QED BY <1>2, <1>3, <1>4, <1>5, <1>6, <1>7, <1>8

\* cJSON_DetachItemViaPointer gives the caller a child back.
LEMMA DetachSound ==
  ASSUME NEW h, NEW k, NEW m, Sound(h, k, m), NEW p \in h.live \ h.ref, NEW i \in 1..Len(k[p])
  PROVE  /\ Detachable(h, p, k[p][i])
         /\ Sound(DetachItemViaPointer(h, p, k[p][i]), [k EXCEPT ![p] = Without(k[p], i)], m \cup {k[p][i]})
         /\ DetachItemViaPointer(h, p, k[p][i]).live = h.live
<1> DEFINE s == k[p]
           y == s[i]
           t == Without(s, i)
           k2 == [k EXCEPT ![p] = t]
           F == Children(k, p)
           g == DetachItemViaPointer(h, p, y)
           l == DetachItemViaPointer(Links(h), p, y)
<1>1. /\ Good(h, k, {}) /\ Held(h, k, m) /\ h \in HeapType /\ IsForest(k) /\ k \in Sequences
      /\ h.live \in SUBSET Items /\ Links(h) \in Heaps
      /\ \A x \in m : x \in h.live /\ IsRoot(k, x)
  BY SoundFacts
<1>2. /\ p \in Items /\ s \in Seq(Items) /\ Len(s) \in Nat /\ i \in 1..Len(s)
      /\ Represents(h, p, s) /\ Represents(Links(h), p, s)
      /\ \A a, b \in 1..Len(s) : s[a] = s[b] => a = b
      /\ \A a \in 1..Len(s) : s[a] \in F /\ s[a] \in Items
      /\ F \subseteq h.live
      /\ \A z \in F : z \notin m /\ Among(z, s)
  BY ListFacts
<1> HIDE DEF F
<1>3. Detachable(Links(h), p, y) /\ l \in Heaps /\ Represents(l, p, t) /\ Loose(l, y)
  BY <1>1, <1>2, DetachCorrect
<1>4. Detachable(h, p, y)
  BY <1>3 DEF Detachable, Links
<1>5. Mirror(h, g, l, F, p)
  <2> HIDE DEF s
  <2> QED BY <1>1, <1>2, DetachMirror
<1>6. /\ t \in Seq(Items) /\ Len(t) = Len(s) - 1
      /\ \A j \in 1..(Len(s) - 1) : t[j] = IF j < i THEN s[j] ELSE s[j + 1]
      /\ \A a, b \in 1..Len(t) : t[a] = t[b] => a = b
  <2> HIDE DEF s
  <2> QED BY <1>2, WithoutFacts
<1> HIDE DEF t
<1>7. \A j \in 1..Len(t) : t[j] \in F /\ t[j] # y
  <2> TAKE j \in 1..Len(t)
  <2>1. CASE j < i
    BY <1>2, <1>6, <2>1
  <2>2. CASE ~(j < i)
    <3>1. j + 1 \in 1..Len(s) /\ j + 1 # i /\ t[j] = s[j + 1]
      BY <1>2, <1>6, <2>2
    <3> QED BY <1>2, <3>1
  <2> QED BY <2>1, <2>2
<1>8. \A z \in F : Among(z, t) <=> z # y
  <2> TAKE z \in F
  <2>1. Among(z, t) => z # y
    BY <1>7 DEF Among
  <2>2. ASSUME z # y PROVE Among(z, t)
    <3>1. PICK j \in 1..Len(s) : z = s[j]
      BY <1>2 DEF Among
    <3>2. CASE j < i
      <4>1. j \in 1..Len(t) /\ t[j] = z
        BY <1>2, <1>6, <3>1, <3>2
      <4> QED BY <4>1 DEF Among
    <3>3. CASE j > i
      <4>1. j - 1 \in 1..Len(t) /\ t[j - 1] = z
        BY <1>2, <1>6, <3>1, <3>3
      <4> QED BY <4>1 DEF Among
    <3> QED BY <1>2, <2>2, <3>1, <3>2, <3>3
  <2> QED BY <2>1, <2>2
<1>9. IsForest(k2)
  <2>1. k2 \in Sequences /\ k2[p] = t /\ \A q \in Items \ {p} : k2[q] = k[q]
    BY <1>1, <1>2, <1>6 DEF Sequences
  <2> HIDE DEF k2
  <2>2. \A q \in Items : Children(k2, q) \subseteq Children(k, q)
    <3> TAKE q \in Items
    <3>1. CASE q = p
      BY <1>7, <2>1, <3>1 DEF Children, F
    <3>2. CASE q # p
      <4>1. k2[q] = k[q]
        BY <2>1, <3>2
      <4> QED BY <4>1 DEF Children
    <3> QED BY <3>1, <3>2
  <2>3. \A q \in Items : \A a, b \in 1..Len(k2[q]) : k2[q][a] = k2[q][b] => a = b
    <3> TAKE q \in Items
    <3>1. CASE q = p
      BY <1>6, <2>1, <3>1
    <3>2. CASE q # p
      <4>1. k2[q] = k[q]
        BY <2>1, <3>2
      <4> QED BY <1>1, <4>1 DEF IsForest, OneParent
    <3> QED BY <3>1, <3>2
  <2> QED BY <1>1, <2>1, <2>2, <2>3, ForestFewer
<1>10. Relists(h, k, p, F, t, g, l, k2)
  <2>1. \A z \in F : ~Among(z, t) => Loose(l, z)
    BY <1>3, <1>8
  <2>2. F \in SUBSET h.live /\ (\A z \in F : z \in Children(k, p) \/ IsRoot(k, z)) /\ Children(k, p) \subseteq F
    BY <1>2 DEF F
  <2> HIDE DEF g, l, y, s
  <2> QED BY <1>3, <1>5, <1>7, <1>9, <2>1, <2>2 DEF Relists, t
<1> HIDE DEF g, l, k2
<1>11. /\ Good(g, k2, {})
       /\ \A z \in h.live : IsRoot(k2, z) <=> IF z \in F THEN ~Among(z, t) ELSE IsRoot(k, z)
       /\ g.live = h.live /\ g.ref = h.ref /\ g.key = h.key /\ g.fuel = h.fuel
  BY <1>1, <1>10, RelinkedSound
<1>12. y \in F
  BY <1>2
<1> HIDE DEF y, s
<1>13. Held(g, k2, m \cup {y})
  BY <1>1, <1>2, <1>8, <1>11, <1>12 DEF Held
<1> QED BY <1>4, <1>11, <1>13 DEF Sound, g, k2, t, s, y

\* With the items of S, g is in order once the children of p are s.
Relisted(S, k, p, s, g, m) == g.live = S /\ Sound(g, [k EXCEPT ![p] = s], m)

\* cJSON_InsertItemInArray takes what the caller held.
LEMMA InsertSound ==
  ASSUME NEW h, NEW k, NEW m, Sound(h, k, m), NEW p \in h.live \ h.ref, NEW i \in 1..Len(k[p]),
         NEW x \in m, p \notin Owned(k, x)
  PROVE  Relisted(h.live, k, p, Inserted(k[p], i, x), InsertBefore(h, p, k[p][i], x), m \ {x})
<1> DEFINE s == k[p]
           y == s[i]
           t == Inserted(s, i, x)
           k2 == [k EXCEPT ![p] = t]
           F == Children(k, p) \cup {x}
           g == InsertBefore(h, p, y, x)
           l == InsertBefore(Links(h), p, y, x)
<1>1. /\ Good(h, k, {}) /\ Held(h, k, m) /\ h \in HeapType /\ IsForest(k) /\ k \in Sequences
      /\ h.live \in SUBSET Items /\ Links(h) \in Heaps
      /\ \A z \in m : z \in h.live /\ IsRoot(k, z)
      /\ x \in h.live /\ x \in Items /\ IsRoot(k, x)
  BY SoundFacts
<1>2. /\ p \in Items /\ s \in Seq(Items) /\ Len(s) \in Nat /\ i \in 1..Len(s)
      /\ Represents(h, p, s) /\ Represents(Links(h), p, s) /\ ~Among(x, s)
      /\ \A a, b \in 1..Len(s) : s[a] = s[b] => a = b
      /\ \A a \in 1..Len(s) : s[a] \in Children(k, p) /\ s[a] \in Items
      /\ Children(k, p) \subseteq h.live
      /\ \A z \in Children(k, p) : z \notin m /\ Among(z, s)
  BY <1>1, ListFacts
<1>3. l \in Heaps /\ Represents(l, p, t)
  <2> HIDE DEF s
  <2> QED BY <1>1, <1>2, InsertCorrect DEF s
<1>4. x \in F /\ (\A a \in 1..Len(s) : s[a] \in F) /\ F \in SUBSET h.live
      /\ (\A z \in F : z \in Children(k, p) \/ IsRoot(k, z)) /\ Children(k, p) \subseteq F
  BY <1>1, <1>2
<1>5. Mirror(h, g, l, F, p)
  <2> HIDE DEF s, F
  <2> QED BY <1>1, <1>2, <1>4, InsertMirror
<1>6. /\ t \in Seq(Items) /\ Len(t) = Len(s) + 1
      /\ \A j \in 1..(Len(s) + 1) : t[j] = IF j < i THEN s[j] ELSE IF j = i THEN x ELSE s[j - 1]
      /\ \A a, b \in 1..Len(t) : t[a] = t[b] => a = b
  <2> HIDE DEF s
  <2> QED BY <1>1, <1>2, InsertedFacts
<1> HIDE DEF t
<1>7. \A j \in 1..Len(t) : t[j] \in F /\ t[j] \in Children(k, p) \cup {x}
  <2> TAKE j \in 1..Len(t)
  <2>1. CASE j < i
    BY <1>2, <1>6, <2>1
  <2>2. CASE j = i
    BY <1>2, <1>6, <2>2
  <2>3. CASE j > i
    <3>1. j - 1 \in 1..Len(s) /\ t[j] = s[j - 1]
      BY <1>2, <1>6, <2>3
    <3> QED BY <1>2, <3>1
  <2> QED BY <1>2, <1>6, <2>1, <2>2, <2>3
<1>8. \A z \in F : Among(z, t)
  <2> TAKE z \in F
  <2>1. CASE z = x
    <3>1. i \in 1..Len(t) /\ t[i] = z
      BY <1>2, <1>6, <2>1
    <3> QED BY <3>1 DEF Among
  <2>2. CASE z \in Children(k, p)
    <3>1. PICK j \in 1..Len(s) : z = s[j]
      BY <1>2, <2>2 DEF Among
    <3>2. CASE j < i
      <4>1. j \in 1..Len(t) /\ t[j] = z
        BY <1>2, <1>6, <3>1, <3>2
      <4> QED BY <4>1 DEF Among
    <3>3. CASE ~(j < i)
      <4>1. j + 1 \in 1..Len(t) /\ t[j + 1] = z
        BY <1>2, <1>6, <3>1, <3>3
      <4> QED BY <4>1 DEF Among
    <3> QED BY <3>2, <3>3
  <2> QED BY <2>1, <2>2
<1>9. IsForest(k2)
  BY <1>1, <1>2, <1>6, <1>7, ForestMore
<1>10. Relists(h, k, p, F, t, g, l, k2)
  <2> HIDE DEF g, l, y, s, F
  <2> QED BY <1>3, <1>4, <1>5, <1>7, <1>8, <1>9 DEF Relists
<1> HIDE DEF g, l, k2
<1>11. /\ Good(g, k2, {})
       /\ \A z \in h.live : IsRoot(k2, z) <=> IF z \in F THEN ~Among(z, t) ELSE IsRoot(k, z)
       /\ g.live = h.live /\ g.ref = h.ref /\ g.key = h.key /\ g.fuel = h.fuel
  <2> HIDE DEF F
  <2> QED BY <1>1, <1>10, RelinkedSound
<1>12. \A z \in m : z # x => z \notin F
  BY <1>2
<1> HIDE DEF y, s, F
<1>13. Held(g, k2, m \ {x})
  BY <1>1, <1>4, <1>8, <1>11, <1>12 DEF Held
<1> QED BY <1>11, <1>13 DEF Sound, Relisted, g, k2, t, s, y

\* cJSON_ReplaceItemViaPointer takes one item and gives another.
LEMMA ReplaceSound ==
  ASSUME NEW h, NEW k, NEW m, Sound(h, k, m), NEW p \in h.live \ h.ref, NEW i \in 1..Len(k[p]),
         NEW x \in m, p \notin Owned(k, x)
  PROVE  /\ Sound(ReplaceItemViaPointer(h, p, k[p][i], x), [k EXCEPT ![p] = Replaced(k[p], i, x)],
                  (m \ {x}) \cup {k[p][i]})
         /\ ReplaceItemViaPointer(h, p, k[p][i], x).live = h.live
         /\ k[p][i] \notin m
<1> DEFINE s == k[p]
           y == s[i]
           t == Replaced(s, i, x)
           k2 == [k EXCEPT ![p] = t]
           F == Children(k, p) \cup {x}
           g == ReplaceItemViaPointer(h, p, y, x)
           l == ReplaceItemViaPointer(Links(h), p, y, x)
<1>1. /\ Good(h, k, {}) /\ Held(h, k, m) /\ h \in HeapType /\ IsForest(k) /\ k \in Sequences
      /\ h.live \in SUBSET Items /\ Links(h) \in Heaps
      /\ \A z \in m : z \in h.live /\ IsRoot(k, z)
      /\ x \in h.live /\ x \in Items /\ IsRoot(k, x)
  BY SoundFacts
<1>2. /\ p \in Items /\ s \in Seq(Items) /\ Len(s) \in Nat /\ i \in 1..Len(s)
      /\ Represents(h, p, s) /\ Represents(Links(h), p, s) /\ ~Among(x, s)
      /\ \A a, b \in 1..Len(s) : s[a] = s[b] => a = b
      /\ \A a \in 1..Len(s) : s[a] \in Children(k, p) /\ s[a] \in Items
      /\ Children(k, p) \subseteq h.live
      /\ \A z \in Children(k, p) : z \notin m /\ Among(z, s)
  BY <1>1, ListFacts
<1>3. l \in Heaps /\ Represents(l, p, t) /\ Loose(l, y)
  <2> HIDE DEF s
  <2> QED BY <1>1, <1>2, ReplaceCorrect DEF s
<1>4. x \in F /\ (\A a \in 1..Len(s) : s[a] \in F) /\ F \in SUBSET h.live
      /\ (\A z \in F : z \in Children(k, p) \/ IsRoot(k, z)) /\ Children(k, p) \subseteq F
  BY <1>1, <1>2
<1>5. Mirror(h, g, l, F, p)
  <2> HIDE DEF s, F
  <2> QED BY <1>1, <1>2, <1>4, ReplaceMirror
<1>6. /\ t \in Seq(Items) /\ Len(t) = Len(s)
      /\ \A j \in 1..Len(s) : t[j] = IF j = i THEN x ELSE s[j]
  <2> HIDE DEF s
  <2> QED BY <1>1, <1>2 DEF Replaced
<1> HIDE DEF t
<1>7. /\ \A j \in 1..Len(t) : t[j] \in F /\ t[j] \in Children(k, p) \cup {x} /\ t[j] # y
      /\ \A a, b \in 1..Len(t) : t[a] = t[b] => a = b
  BY <1>2, <1>6 DEF Among
<1>8. \A z \in F : Among(z, t) <=> z # y
  <2> TAKE z \in F
  <2>1. Among(z, t) => z # y
    BY <1>7 DEF Among
  <2>2. ASSUME z # y PROVE Among(z, t)
    <3>1. CASE z = x
      <4>1. i \in 1..Len(t) /\ t[i] = z
        BY <1>2, <1>6, <3>1
      <4> QED BY <4>1 DEF Among
    <3>2. CASE z \in Children(k, p)
      <4>1. PICK j \in 1..Len(s) : z = s[j]
        BY <1>2, <3>2 DEF Among
      <4>2. j \in 1..Len(t) /\ t[j] = z
        BY <1>6, <2>2, <4>1
      <4> QED BY <4>2 DEF Among
    <3> QED BY <3>1, <3>2
  <2> QED BY <2>1, <2>2
<1>9. IsForest(k2)
  BY <1>1, <1>2, <1>6, <1>7, ForestMore
<1>10. Relists(h, k, p, F, t, g, l, k2)
  <2>1. \A z \in F : ~Among(z, t) => Loose(l, z)
    BY <1>3, <1>8
  <2> HIDE DEF g, l, y, s, F
  <2> QED BY <1>3, <1>4, <1>5, <1>7, <1>9, <2>1 DEF Relists
<1> HIDE DEF g, l, k2
<1>11. /\ Good(g, k2, {})
       /\ \A z \in h.live : IsRoot(k2, z) <=> IF z \in F THEN ~Among(z, t) ELSE IsRoot(k, z)
       /\ g.live = h.live /\ g.ref = h.ref /\ g.key = h.key /\ g.fuel = h.fuel
  <2> HIDE DEF F
  <2> QED BY <1>1, <1>10, RelinkedSound
<1>12. (\A z \in m : z # x => z \notin F) /\ y \in F /\ y \notin m
  BY <1>2
<1> HIDE DEF y, s, F
<1>13. Held(g, k2, (m \ {x}) \cup {y})
  BY <1>1, <1>4, <1>8, <1>11, <1>12 DEF Held
<1> QED BY <1>11, <1>12, <1>13 DEF Sound, g, k2, t, s, y
-----------------------------------------------------------------------------
(* Looking items up.                                                        *)

\* A list has no more items than there are.
LEMMA ListShort ==
  ASSUME NEW s \in Seq(Items), \A i, j \in 1..Len(s) : s[i] = s[j] => i = j
  PROVE  Len(s) <= Cardinality(Items) /\ Cardinality(Items) \in Nat
<1> DEFINE n == Len(s)
           T == {s[i] : i \in 1..n}
<1>1. n \in Nat /\ s \in [1..n -> Items]
  OBVIOUS
<1>2. T \in SUBSET Items
  BY <1>1
<1>3. s \in [1..n -> T] /\ \A y \in T : \E i \in 1..n : s[i] = y
  BY <1>1
<1> HIDE DEF T, n
<1>4. s \in Bijection(1..n, T)
  BY <1>3 DEF Bijection, Injection, Surjection, IsInjective, n
<1>5. Cardinality(T) = n
  BY <1>1, <1>4, FS_CountingElements DEF ExistsBijection
<1>6. Cardinality(T) <= Cardinality(Items) /\ Cardinality(Items) \in Nat
  BY <1>2, ItemsAssumption, FS_Subset, FS_CardinalityType
<1> QED BY <1>1, <1>5, <1>6 DEF n

Walked(h, first, s) ==
  LET current == IF s = <<>> THEN first ELSE h.next[s[Len(s)]]
  IN IF current = Null THEN s ELSE Append(s, current)

\* Chain goes one item further with each number.
LEMMA ChainLoop ==
  ASSUME NEW h \in HeapType, NEW first \in Pointers
  PROVE  \E f : /\ f[0] = <<>> /\ Chain(h, first) = f[Cardinality(Items)]
                /\ \A n \in Nat : n # 0 => f[n] = Walked(h, first, f[n - 1])
<1> DEFINE D == Seq(Items)
           start == <<>>
           step == [s \in D |-> Walked(h, first, s)]
           Is(w) == w = [n \in Nat |->
                           IF n = 0 THEN <<>>
                           ELSE LET s == w[n - 1]
                                    current == IF s = <<>> THEN first ELSE h.next[s[Len(s)]]
                                IN IF current = Null THEN s ELSE Append(s, current)]
           walked == CHOOSE w : Is(w)
<1>1. start \in D
  OBVIOUS
<1>2. step \in [D -> D]
  <2> SUFFICES ASSUME NEW s \in Seq(Items) PROVE Walked(h, first, s) \in Seq(Items)
    OBVIOUS
  <2> DEFINE current == IF s = <<>> THEN first ELSE h.next[s[Len(s)]]
  <2>1. h.next \in [Items -> Pointers]
    BY HeapFields
  <2>2. current \in Pointers
    <3>1. s # <<>> => s[Len(s)] \in Items
      OBVIOUS
    <3> QED BY <2>1, <3>1
  <2>3. Walked(h, first, s) = IF current = Null THEN s ELSE Append(s, current)
    BY DEF Walked
  <2> HIDE DEF current
  <2>4. current # Null => current \in Items
    BY <2>2 DEF Pointers
  <2> QED BY <2>3, <2>4
<1> HIDE DEF D, start, step
<1>3. PICK f \in [Nat -> D] : f[0] = start /\ \A n \in Nat : n # 0 => f[n] = step[f[n - 1]]
  <2>1. \E f \in [Nat -> D] : f[0] = start /\ \A n \in Nat : n # 0 => f[n] = step[f[n - 1]]
    BY <1>1, <1>2, Loop
  <2> QED BY <2>1
<1>4. ASSUME NEW n \in Nat, n # 0
      PROVE  f[n] = Walked(h, first, f[n - 1])
  <2>1. f[n - 1] \in D
    BY <1>3, <1>4
  <2> QED BY <1>3, <1>4, <2>1 DEF step
<1>5. Is(f)
  BY <1>3, <1>4 DEF Walked, start
<1>6. Is(walked)
  BY <1>5
<1>7. Chain(h, first) = walked[Cardinality(Items)]
  BY DEF Chain
<1> HIDE DEF walked
<1>8. walked[0] = <<>> /\ \A n \in Nat : n # 0 => walked[n] = Walked(h, first, walked[n - 1])
  BY <1>6 DEF Walked
<1> QED BY <1>7, <1>8

\* A walk along next reads the children a list stands for.
LEMMA ChainFacts ==
  ASSUME NEW h \in HeapType, NEW p \in Items, NEW s, Represents(h, p, s)
  PROVE  Chain(h, h.child[p]) = s
<1> DEFINE first == h.child[p]
           N == Cardinality(Items)
           L == Len(s)
<1>1. /\ s \in Seq(Items) /\ L \in Nat /\ (\A i, j \in 1..L : s[i] = s[j] => i = j)
      /\ first = (IF s = <<>> THEN Null ELSE s[1])
      /\ \A i \in 1..L : h.next[s[i]] = (IF i = L THEN Null ELSE s[i + 1])
      /\ \A i \in 1..L : s[i] \in Items
  BY DEF Represents
<1>2. L <= N /\ N \in Nat
  BY <1>1, ListShort
<1>3. first \in Pointers
  BY HeapFields
<1>4. PICK f : /\ f[0] = <<>> /\ Chain(h, first) = f[N]
               /\ \A n \in Nat : n # 0 => f[n] = Walked(h, first, f[n - 1])
  BY <1>3, ChainLoop
<1> DEFINE Cut(n) == IF n <= L THEN n ELSE L
           Q(n) == f[n] = [i \in 1..Cut(n) |-> s[i]]
           G == {n \in Nat : Q(n)}
<1> HIDE DEF first, N, L
<1>5. 0 \in G
  <2>1. Cut(0) = 0
    BY <1>1
  <2>2. [i \in 1..0 |-> s[i]] = <<>>
    OBVIOUS
  <2> QED BY <1>4, <2>1, <2>2
<1>6. ASSUME NEW n \in G PROVE n + 1 \in G
  <2>1. n \in Nat /\ f[n] = [i \in 1..Cut(n) |-> s[i]]
    OBVIOUS
  <2>2. f[n + 1] = Walked(h, first, f[n])
    <3>1. n + 1 \in Nat /\ n + 1 # 0 /\ (n + 1) - 1 = n
      BY <2>1
    <3> QED BY <1>4, <3>1
  <2> DEFINE c == Cut(n)
             t == [i \in 1..c |-> s[i]]
             current == IF t = <<>> THEN first ELSE h.next[t[Len(t)]]
  <2>3. c \in Nat /\ c <= L /\ (n < L => c = n) /\ (n >= L => c = L)
    BY <1>1, <2>1
  <2>4. f[n + 1] = IF current = Null THEN t ELSE Append(t, current)
    BY <2>1, <2>2 DEF Walked
  <2> HIDE DEF c
  <2>5. t \in Seq(Items) /\ Len(t) = c /\ \A i \in 1..c : t[i] = s[i]
    BY <1>1, <2>3
  <2>6. current = IF c = L THEN Null ELSE s[c + 1]
    <3>1. CASE c = 0
      <4>1. t = <<>>
        BY <3>1
      <4>2. s = <<>> <=> L = 0
        BY <1>1 DEF L
      <4> QED BY <1>1, <2>3, <3>1, <4>1, <4>2
    <3>2. CASE c # 0
      <4> HIDE DEF t
      <4>1. c \in 1..c /\ c \in 1..L
        BY <1>1, <2>3, <3>2
      <4>2. t # <<>> /\ t[Len(t)] = s[c]
        BY <2>3, <2>5, <3>2, <4>1
      <4> QED BY <1>1, <4>1, <4>2
    <3> QED BY <3>1, <3>2
  <2> HIDE DEF current
  <2> SUFFICES f[n + 1] = [i \in 1..Cut(n + 1) |-> s[i]]
    BY <2>1
  <2>7. CASE c = L
    <3>1. f[n + 1] = t
      BY <2>4, <2>6, <2>7
    <3>2. Cut(n + 1) = c
      BY <1>1, <2>1, <2>3, <2>7 DEF c
    <3> QED BY <3>1, <3>2
  <2>8. CASE c # L
    <3>1. current = s[c + 1] /\ c + 1 \in 1..L /\ s[c + 1] # Null /\ c = n /\ n + 1 <= L
      <4> HIDE DEF t
      <4>1. c + 1 \in 1..L /\ c = n /\ n + 1 <= L
        BY <1>1, <2>1, <2>3, <2>8
      <4> QED BY <1>1, <2>6, <2>8, <4>1
    <3>2. Cut(n + 1) = c + 1
      BY <1>1, <2>1, <3>1
    <3>3. f[n + 1] = Append(t, s[c + 1])
      BY <2>4, <3>1
    <3>4. Append(t, s[c + 1]) = [i \in 1..(c + 1) |-> s[i]]
      <4>1. Append(t, s[c + 1]) = [i \in 1..(c + 1) |-> IF i = c + 1 THEN s[c + 1] ELSE t[i]]
        <5> HIDE DEF t
        <5> QED BY <1>1, <2>3, <2>5, <3>1
      <4>2. \A i \in 1..(c + 1) : (IF i = c + 1 THEN s[c + 1] ELSE t[i]) = s[i]
        BY <2>3, <2>5
      <4> QED BY <4>1, <4>2
    <3> QED BY <3>2, <3>3, <3>4
  <2> QED BY <2>7, <2>8
<1>7. G = Nat
  <2>1. G \in SUBSET Nat
    OBVIOUS
  <2> HIDE DEF G
  <2> QED BY <1>5, <1>6, <2>1, EveryTurn
<1>8. f[N] = [i \in 1..L |-> s[i]]
  <2>1. Cut(N) = L
    BY <1>1, <1>2
  <2>2. Q(N)
    BY <1>2, <1>7
  <2> QED BY <2>1, <2>2
<1>9. [i \in 1..L |-> s[i]] = s
  BY <1>1 DEF L
<1> QED BY <1>4, <1>8, <1>9 DEF first

\* What kids holds after a call.
LEMMA ListOfFacts ==
  ASSUME NEW h, NEW k, Good(h, k, {})
  PROVE  [p \in Items |-> ListOf(h, p)] = k
<1>1. h \in HeapType /\ k \in [Items -> Seq(Items)] /\ Kept(h, k)
  BY GoodShape DEF Good, Sequences
<1>2. ASSUME NEW p \in Items PROVE ListOf(h, p) = k[p]
  <2>1. CASE p \in h.live \ h.ref
    BY <1>1, <2>1, ListRepresented, ChainFacts DEF ListOf
  <2>2. CASE p \notin h.live \ h.ref
    BY <1>1, <2>2 DEF ListOf, Kept
  <2> QED BY <2>1, <2>2
<1> QED BY <1>1, <1>2

\* By position and by name alike a call finds a child or nothing.
LEMMA GetFacts ==
  ASSUME NEW h, NEW k, Good(h, k, {}), NEW p \in h.live \ h.ref
  PROVE  /\ \A i \in Nat : GetArrayItem(h, p, i) = IF i < Len(k[p]) THEN k[p][i + 1] ELSE Null
         /\ \A name, exact : \/ GetObjectItem(h, p, name, exact) = Null
                             \/ \E i \in 1..Len(k[p]) : GetObjectItem(h, p, name, exact) = k[p][i]
<1>1. h \in HeapType /\ p \in Items /\ k[p] \in Seq(Items)
  BY GoodShape DEF Good
<1>2. Chain(h, h.child[p]) = k[p]
  BY <1>1, ListRepresented, ChainFacts
<1>3. ASSUME NEW name, NEW exact, GetObjectItem(h, p, name, exact) # Null
      PROVE  \E i \in 1..Len(k[p]) : GetObjectItem(h, p, name, exact) = k[p][i]
  <2> DEFINE s == k[p]
             stops == {i \in 1..Len(s) : IF h.key[s[i]] = None THEN exact
                                         ELSE SameName(name, h.key[s[i]], exact)}
             at == CHOOSE i \in stops : \A j \in stops : i <= j
  <2>1. GetObjectItem(h, p, name, exact) = IF stops = {} \/ h.key[s[at]] = None THEN Null ELSE s[at]
    <3>1. GetObjectItem(h, p, name, exact) = Search(h, h.child[p], name, exact)
      BY <1>3 DEF GetObjectItem
    <3>2. Search(h, h.child[p], name, exact) = IF stops = {} \/ h.key[s[at]] = None THEN Null ELSE s[at]
      BY <1>2 DEF Search
    <3> HIDE DEF at, stops
    <3> QED BY <3>1, <3>2
  <2>2. stops # {}
    BY <1>3, <2>1
  <2>3. stops \in SUBSET Nat /\ stops \subseteq 1..Len(s)
    BY <1>1
  <2> HIDE DEF stops
  <2>4. at \in stops
    <3>1. \E i \in stops : \A j \in stops : i <= j
      BY <2>2, <2>3, LeastNatural
    <3> QED BY <3>1
  <2> HIDE DEF at
  <2> QED BY <1>3, <2>1, <2>3, <2>4
<1> QED BY <1>2, <1>3 DEF GetArrayItem
-----------------------------------------------------------------------------
(* Keys.                                                                    *)

\* g is h but for the key of x.
Rekeys(h, g, x) ==
  /\ g \in HeapType /\ x \in h.live
  /\ g.live = h.live /\ g.ref = h.ref /\ g.const \ {x} = h.const \ {x} /\ g.undefined = h.undefined
  /\ g.next = h.next /\ g.prev = h.prev /\ g.child = h.child /\ g.kind = h.kind
  /\ \A i \in Items \ {x} : g.key[i] = h.key[i]
  /\ g.texts - Texts(g, {x}) = h.texts - Texts(h, {x})

\* A root may get another key.
LEMMA RekeyedSound ==
  ASSUME NEW h, NEW k, NEW m, Sound(h, k, m), NEW g, NEW x \in m, Rekeys(h, g, x)
  PROVE  Sound(g, k, m)
<1>1. /\ h \in HeapType /\ Good(h, k, {}) /\ Held(h, k, m) /\ h.live \in SUBSET Items /\ x \in Items
      /\ x \in h.live
  BY SoundFacts
<1>2. /\ g \in HeapType
      /\ g.live = h.live /\ g.ref = h.ref /\ g.const \ {x} = h.const \ {x} /\ g.undefined = h.undefined
      /\ g.next = h.next /\ g.prev = h.prev /\ g.child = h.child /\ g.kind = h.kind
      /\ \A i \in Items \ {x} : g.key[i] = h.key[i]
      /\ g.texts - Texts(g, {x}) = h.texts - Texts(h, {x})
  BY DEF Rekeys
<1> DEFINE none == {}
<1>3. Kept(h, k) /\ Whole(h, k, none) /\ RootsLoose(h, k) /\ IsForest(k)
  BY <1>1 DEF Good
<1> HIDE DEF none
<1>7. Kept(g, k) /\ RootsLoose(g, k)
  BY <1>2, <1>3 DEF Kept, RootsLoose, Loose
<1>8. Whole(g, k, none)
  BY <1>2, <1>3 DEF Whole, Lists
<1>4. Blank(g)
  BY <1>1, <1>2 DEF Good, Blank
<1>5. Counted(g)
  <2> DEFINE R == h.live \ {x}
             X == {x}
  <2>1. R \in SUBSET Items /\ X \in SUBSET Items /\ X \cap R = {} /\ h.live = X \cup R
    BY <1>1
  <2>2. OwnAlike(g, h, R)
    BY <1>1, <1>2 DEF OwnAlike, OwnsKey, OwnsValue
  <2> HIDE DEF R, X
  <2>3. /\ Texts(g, h.live) = Texts(g, X) + Texts(g, R)
        /\ Texts(h, h.live) = Texts(h, X) + Texts(h, R)
        /\ Texts(g, R) = Texts(h, R)
    BY <2>1, <2>2, TextsUnion, TextsAlike
  <2>4. /\ Texts(g, X) \in Nat /\ Texts(h, X) \in Nat /\ Texts(h, R) \in Nat
        /\ g.texts \in Int /\ h.texts \in Int
    BY <1>1, <1>2, <2>1, TextsType, HeapFields
  <2>5. h.texts = Texts(h, h.live) /\ ~h.undefined
    BY <1>1 DEF Good, Counted
  <2>6. g.texts - Texts(g, X) = h.texts - Texts(h, X)
    BY <1>2 DEF X
  <2>7. g.texts = Texts(g, h.live)
    BY <2>3, <2>4, <2>5, <2>6
  <2> QED BY <1>2, <2>5, <2>7 DEF Counted
<1>6. Held(g, k, m)
  BY <1>1, <1>2 DEF Held
<1> QED BY <1>2, <1>3, <1>4, <1>5, <1>6, <1>7, <1>8 DEF Sound, Good, none

Keyed(h, x, name, C) == [FreeKey(h, x) EXCEPT !.key[x] = name, !.const = C]

\* The old key goes; what stands for it is new.
LEMMA KeyedFacts ==
  ASSUME NEW h \in HeapType, NEW x \in Items, NEW name \in Keys, NEW C \in SUBSET Items
  PROVE  LET g == Keyed(h, x, name, C) IN
            /\ g \in HeapType /\ g.const = C /\ g.key[x] = name
            /\ \A i \in Items \ {x} : g.key[i] = h.key[i]
            /\ g.texts = h.texts - (IF OwnsKey(h, x) THEN 1 ELSE 0)
            /\ g.room = h.room /\ g.fuel = h.fuel /\ g.live = h.live /\ g.ref = h.ref
            /\ g.undefined = h.undefined
            /\ g.next = h.next /\ g.prev = h.prev /\ g.child = h.child /\ g.kind = h.kind
<1> DEFINE f == FreeKey(h, x)
<1>1. h.texts \in Int /\ h.key \in [Items -> Keys]
  BY HeapFields
<1>2. /\ f \in HeapType /\ f.texts = h.texts - (IF OwnsKey(h, x) THEN 1 ELSE 0) /\ f.key = h.key
      /\ f.room = h.room /\ f.fuel = h.fuel /\ f.live = h.live /\ f.ref = h.ref /\ f.undefined = h.undefined
      /\ f.next = h.next /\ f.prev = h.prev /\ f.child = h.child /\ f.kind = h.kind
  BY <1>1 DEF FreeKey, HeapType
<1> HIDE DEF f
<1>3. [f.key EXCEPT ![x] = name] \in [Items -> Keys]
  BY <1>1, <1>2
<1> DEFINE kk == [f.key EXCEPT ![x] = name]
           G == [f EXCEPT !.key = kk, !.const = C]
<1>4. kk[x] = name /\ \A i \in Items \ {x} : kk[i] = h.key[i]
  BY <1>1, <1>2
<1>5. Keyed(h, x, name, C) = G
  BY DEF f, Keyed
<1> HIDE DEF kk
<1>6. /\ G \in HeapType /\ G.key = kk /\ G.const = C
      /\ G.texts = f.texts
      /\ G.room = f.room /\ G.fuel = f.fuel /\ G.live = f.live /\ G.ref = f.ref /\ G.undefined = f.undefined
      /\ G.next = f.next /\ G.prev = f.prev /\ G.child = f.child /\ G.kind = f.kind
  BY <1>2, <1>3 DEF HeapType, kk
<1> HIDE DEF G
<1> QED BY <1>2, <1>4, <1>5, <1>6

\* A root with its key replaced leaves the heap in order.
LEMMA KeyedSound ==
  ASSUME NEW h, NEW k, NEW m, Sound(h, k, m), NEW x \in m, NEW c \in HeapType, NEW t \in Int,
         c.live = h.live, c.ref = h.ref, c.const = h.const, c.undefined = h.undefined, c.key = h.key,
         c.next = h.next, c.prev = h.prev, c.child = h.child, c.kind = h.kind,
         c.texts = h.texts + t,
         NEW name \in Keys, NEW C \in SUBSET Items, C \ {x} = h.const \ {x},
         t = IF name # None /\ x \notin C THEN 1 ELSE 0
  PROVE  Sound(Keyed(c, x, name, C), k, m) /\ Keyed(c, x, name, C).live = h.live
<1> DEFINE g == Keyed(c, x, name, C)
<1>1. h \in HeapType /\ x \in Items /\ x \in h.live /\ h.texts \in Int
  BY SoundFacts, HeapFields
<1>2. /\ g \in HeapType /\ g.const = C /\ g.key[x] = name
      /\ \A i \in Items \ {x} : g.key[i] = c.key[i]
      /\ g.texts = c.texts - (IF OwnsKey(c, x) THEN 1 ELSE 0)
      /\ g.fuel = c.fuel /\ g.live = c.live /\ g.ref = c.ref /\ g.undefined = c.undefined
      /\ g.next = c.next /\ g.prev = c.prev /\ g.child = c.child /\ g.kind = c.kind
  BY <1>1, KeyedFacts
<1>3. /\ Texts(g, {x}) = (IF OwnsKey(g, x) THEN 1 ELSE 0) + (IF OwnsValue(g, x) THEN 1 ELSE 0)
      /\ Texts(h, {x}) = (IF OwnsKey(h, x) THEN 1 ELSE 0) + (IF OwnsValue(h, x) THEN 1 ELSE 0)
  BY TextsOne
<1>4. /\ OwnsKey(c, x) <=> OwnsKey(h, x)
      /\ OwnsValue(g, x) <=> OwnsValue(h, x)
      /\ OwnsKey(g, x) <=> name # None /\ x \notin C
  BY <1>2 DEF OwnsKey, OwnsValue
<1>5. g.texts - Texts(g, {x}) = h.texts - Texts(h, {x})
  BY <1>1, <1>2, <1>3, <1>4
<1>6. Rekeys(h, g, x)
  BY <1>1, <1>2, <1>5 DEF Rekeys
<1>7. Sound(g, k, m)
  BY <1>6, RekeyedSound
<1> QED BY <1>2, <1>7
=============================================================================
