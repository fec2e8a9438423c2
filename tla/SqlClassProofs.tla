---------------------------- MODULE SqlClassProofs ----------------------------
(***************************************************************************)
(* Proofs about SqlClass: data exec reads statements as they were written, *)
(* whatever statements, noise and bound there are.                         *)
(*                                                                         *)
(* The argument: loops of the scanner end and visit what follows from      *)
(* their step (walks); every harmless token of a text is crossed from its  *)
(* first symbol to the space behind it without a semicolon, a refusal or a *)
(* keyword outside parentheses, and at the same depth behind it; so that a *)
(* scanner gets from token to token, at the depth of the statement's own   *)
(* symbols, and what it finds is what the statement means.                 *)
(***************************************************************************)
EXTENDS SqlClass, FiniteSetTheorems, SequenceTheorems, WellFoundedInduction, TLAPS

-----------------------------------------------------------------------------
(* Least numbers, and lists that grow. *)

LEMMA LeastNumber ==
    ASSUME NEW S, S \subseteq Nat, S # {}
    PROVE  \E n \in S : \A m \in S : n <= m
<1> DEFINE R == OpToRel(<, Nat)
<1>1. IsWellFoundedOn(R, Nat)
  BY NatLessThanWellFounded
<1>2. \A m, n \in Nat : m < n => <<m, n>> \in R
  BY Zenon DEF OpToRel
<1> HIDE DEF R
<1>3. PICK n \in S : \A m \in S : <<m, n>> \notin R
  BY <1>1, WFMin
<1>4. \A m \in S : ~(m < n)
  BY <1>2, <1>3
<1> QED BY <1>3, <1>4

-----------------------------------------------------------------------------
(* Walks. *)

\* A walk before its end, one state on.
Longer(next, before) ==
    LET last == Last(before)
        state == IF last \in DOMAIN next THEN next[last] ELSE last
    IN  IF state = last THEN before ELSE Append(before, state)

\* f is the recursive function inside Walk.
WalkRule(f, next, start, steps) ==
    f = [n \in 0..steps |-> IF n = 0 THEN <<start>> ELSE Longer(next, f[n - 1])]

\* It exists.
LEMMA WalkDefined ==
    ASSUME NEW next, NEW start, NEW steps \in Nat
    PROVE  \E f : WalkRule(f, next, start, steps)
<1> USE DEF WalkRule
<1> DEFINE Of(m, f) == [n \in 0..m |-> IF n = 0 THEN <<start>> ELSE Longer(next, f[n - 1])]
           Bad == {m \in Nat : ~ \E f : f = Of(m, f)}
<1>1. SUFFICES ASSUME Bad # {} PROVE FALSE
  BY <1>1
<1>2. PICK m \in Bad : \A k \in Bad : m <= k
  BY <1>1, LeastNumber
<1>3. CASE m = 0
  <2> DEFINE g == [n \in 0..0 |-> <<start>>]
  <2>1. g = Of(0, g)
    OBVIOUS
  <2> QED BY <1>2, <1>3, <2>1
<1>4. CASE m # 0
  <2>1. m \in Nat /\ m - 1 \in Nat /\ m - 1 \notin Bad
    <3>1. m \in Nat
      BY <1>2
    <3> HIDE DEF Bad
    <3> QED BY <1>2, <1>4, <3>1
  <2>2. PICK f : f = Of(m - 1, f)
    BY <2>1
  <2> DEFINE g == [n \in 0..m |-> IF n = m THEN Longer(next, f[m - 1]) ELSE f[n]]
  <2>3. \A n \in 0..(m - 1) : f[n] = IF n = 0 THEN <<start>> ELSE Longer(next, f[n - 1])
    BY <2>2
  <2>4. ASSUME NEW n \in 0..m PROVE g[n] = IF n = 0 THEN <<start>> ELSE Longer(next, g[n - 1])
    <3>1. n # 0 => n - 1 \in 0..m /\ n - 1 # m /\ g[n - 1] = f[n - 1]
      BY <2>1
    <3>2. CASE n = m
      BY <1>4, <3>1, <3>2
    <3>3. CASE n # m
      <4>1. n \in 0..(m - 1) /\ g[n] = f[n]
        BY <2>1, <3>3
      <4> QED BY <2>3, <3>1, <4>1
    <3> QED BY <3>2, <3>3
  <2>5. g = Of(m, g)
    <3>1. g = [n \in 0..m |-> g[n]]
      OBVIOUS
    <3> HIDE DEF g
    <3> QED BY <2>4, <3>1
  <2> QED BY <1>2, <2>5
<1> QED BY <1>3, <1>4

\* What a walk is: states that follow each other, from the first on.
Walks(next, start, w) ==
    /\ Len(w) \in Nat \ {0} /\ DOMAIN w = 1..Len(w) /\ w[1] = start
    /\ \A i \in 1..(Len(w) - 1) : w[i] \in DOMAIN next /\ w[i + 1] = next[w[i]] /\ w[i + 1] # w[i]

Ended(next, x) == x \notin DOMAIN next \/ next[x] = x

LEMMA LongerWalks ==
    ASSUME NEW next, NEW start, NEW A, NEW w \in Seq(A), Walks(next, start, w),
           \A x \in A \cap DOMAIN next : next[x] \in A
    PROVE  LET r == Longer(next, w)
           IN  /\ r \in Seq(A) /\ Walks(next, start, r)
               /\ Ended(next, Last(w)) => r = w
               /\ ~Ended(next, Last(w)) => Last(r) = next[Last(w)]
<1> DEFINE last == w[Len(w)]
           r == Append(w, next[last])
<1>1. last \in A /\ Len(w) \in Nat \ {0} /\ Last(w) = last
  BY DEF Walks, Last
<1>2. CASE Ended(next, last)
  <2>1. Longer(next, w) = w
    BY <1>1, <1>2 DEF Longer, Ended
  <2> QED BY <1>1, <1>2, <2>1
<1>3. CASE ~Ended(next, last)
  <2>1. last \in DOMAIN next /\ next[last] # last /\ next[last] \in A
    BY <1>1, <1>3 DEF Ended
  <2>2. Longer(next, w) = r
    BY <1>1, <2>1 DEF Longer
  <2>3. /\ r \in Seq(A) /\ Len(r) = Len(w) + 1 /\ DOMAIN r = 1..Len(r)
        /\ \A i \in 1..Len(w) : r[i] = w[i]
        /\ r[Len(w) + 1] = next[last]
    BY <1>1, <2>1
  <2> HIDE DEF r
  <2>4. r[1] = start
    BY <1>1, <2>3 DEF Walks
  <2>5. ASSUME NEW i \in 1..(Len(r) - 1)
        PROVE  r[i] \in DOMAIN next /\ r[i + 1] = next[r[i]] /\ r[i + 1] # r[i]
    <3>1. CASE i = Len(w)
      BY <1>1, <2>1, <2>3, <3>1
    <3>2. CASE i # Len(w)
      <4>1. i \in 1..(Len(w) - 1) /\ i \in 1..Len(w) /\ i + 1 \in 1..Len(w)
        BY <1>1, <2>3, <3>2
      <4> QED BY <2>3, <4>1 DEF Walks
    <3> QED BY <3>1, <3>2
  <2>6. Walks(next, start, r)
    BY <1>1, <2>3, <2>4, <2>5 DEF Walks
  <2>7. Last(r) = next[last]
    BY <1>1, <2>3 DEF Last
  <2> QED BY <1>1, <1>3, <2>2, <2>3, <2>6, <2>7
<1> QED BY <1>2, <1>3

\* A walk comes to its end when its states have a rank that falls from each to the next.
LEMMA WalkEnds ==
    ASSUME NEW next, NEW start, NEW steps \in Nat, NEW A, start \in A,
           \A x \in A \cap DOMAIN next : next[x] \in A,
           NEW rank, \A x \in A : rank[x] \in Nat,
           \A x \in A \cap DOMAIN next : next[x] # x => rank[next[x]] < rank[x],
           rank[start] <= steps
    PROVE  LET w == Walk(next, start, steps)
           IN  w \in Seq(A) /\ Walks(next, start, w) /\ Ended(next, Last(w))
<1> DEFINE f == CHOOSE f : f = [n \in 0..steps |->
                                  IF n = 0 THEN <<start>> ELSE Longer(next, f[n - 1])]
<1>1. Walk(next, start, steps) = f[steps]
  BY DEF Walk, Longer
<1>2. f = [n \in 0..steps |-> IF n = 0 THEN <<start>> ELSE Longer(next, f[n - 1])]
  <2>1. \E g : WalkRule(g, next, start, steps)
    BY ONLY steps \in Nat, WalkDefined
  <2> QED BY <2>1, Zenon DEF WalkRule
<1> HIDE DEF f
<1>3. f[0] = <<start>> /\ \A n \in 1..steps : f[n] = Longer(next, f[n - 1])
  <2>1. \A n \in 0..steps : f[n] = IF n = 0 THEN <<start>> ELSE Longer(next, f[n - 1])
    BY <1>2
  <2> QED BY <2>1
<1> DEFINE Good(n) == /\ f[n] \in Seq(A) /\ Walks(next, start, f[n])
                      /\ Ended(next, Last(f[n])) \/ rank[Last(f[n])] <= steps - n
           Bad == {n \in 0..steps : ~Good(n)}
<1>4. Good(0)
  <2>1. <<start>> \in Seq(A) /\ Len(<<start>>) = 1 /\ Last(<<start>>) = start
    BY DEF Last
  <2>2. Walks(next, start, <<start>>)
    BY <2>1 DEF Walks
  <2> QED BY <1>3, <2>1, <2>2
<1>5. ASSUME NEW n \in 1..steps, Good(n - 1) PROVE Good(n)
  <2> DEFINE w == f[n - 1]
  <2>1. w \in Seq(A) /\ Walks(next, start, w) /\ f[n] = Longer(next, w)
    BY <1>3, <1>5
  <2>2. /\ f[n] \in Seq(A) /\ Walks(next, start, f[n])
        /\ Ended(next, Last(w)) => f[n] = w
        /\ ~Ended(next, Last(w)) => Last(f[n]) = next[Last(w)]
    <3> HIDE DEF w
    <3>1. f[n] = Longer(next, w) /\ w \in Seq(A) /\ Walks(next, start, w)
      BY <2>1
    <3>2. LET r == Longer(next, w)
          IN  /\ r \in Seq(A) /\ Walks(next, start, r)
              /\ Ended(next, Last(w)) => r = w
              /\ ~Ended(next, Last(w)) => Last(r) = next[Last(w)]
      <4>1. \A x \in A \cap DOMAIN next : next[x] \in A
        OBVIOUS
      <4> QED BY ONLY <3>1, <4>1, LongerWalks
    <3> QED BY ONLY <3>1, <3>2
  <2>3. CASE Ended(next, Last(w))
    BY <2>2, <2>3
  <2>4. CASE ~Ended(next, Last(w))
    <3>1. Last(w) \in A /\ rank[Last(w)] <= steps - (n - 1)
      <4>1. Last(w) \in A
        BY <2>1 DEF Last, Walks
      <4> QED BY <1>5, <2>4, <4>1
    <3>2. rank[next[Last(w)]] < rank[Last(w)] /\ next[Last(w)] \in A
      BY <2>4, <3>1 DEF Ended
    <3>3. rank[next[Last(w)]] <= steps - n
      BY <3>1, <3>2
    <3> QED BY <2>2, <2>4, <3>3
  <2> QED BY <2>3, <2>4
<1> HIDE DEF Good
<1>6. Good(steps)
  <2>1. SUFFICES ASSUME Bad # {} PROVE FALSE
    BY <2>1
  <2>2. Bad \subseteq Nat
    OBVIOUS
  <2>3. PICK n \in Bad : \A k \in Bad : n <= k
    BY <2>1, <2>2, LeastNumber
  <2>4. n \in 1..steps /\ n - 1 \in 0..steps /\ n - 1 \notin Bad
    BY <1>4, <2>3
  <2> QED BY <1>5, <2>3, <2>4
<1>7. f[steps] \in Seq(A) /\ Walks(next, start, f[steps])
  BY <1>6 DEF Good
<1>8. Ended(next, Last(f[steps]))
  <2>1. Last(f[steps]) \in A
    BY <1>7 DEF Last, Walks
  <2>2. CASE ~Ended(next, Last(f[steps])) /\ rank[Last(f[steps])] <= steps - steps
    <3>1. rank[next[Last(f[steps])]] < rank[Last(f[steps])] /\ next[Last(f[steps])] \in A
      BY <2>1, <2>2 DEF Ended
    <3> QED BY <2>1, <2>2, <3>1
  <2> QED BY <1>6, <2>2 DEF Good
<1> QED BY <1>1, <1>7, <1>8

\* What a walk visits is closed under its steps, and it ends once.
LEMMA WalkVisits ==
    ASSUME NEW next, NEW start, NEW w, Walks(next, start, w), Ended(next, Last(w))
    PROVE  /\ start \in ToSet(w) /\ Last(w) \in ToSet(w)
           /\ \A x \in ToSet(w) \cap DOMAIN next : next[x] \in ToSet(w)
           /\ \A x \in ToSet(w) : Ended(next, x) => x = Last(w)
<1>1. /\ Len(w) \in Nat \ {0} /\ DOMAIN w = 1..Len(w) /\ w[1] = start /\ Last(w) = w[Len(w)]
      /\ \A i \in 1..(Len(w) - 1) : w[i] \in DOMAIN next /\ w[i + 1] = next[w[i]]
                                    /\ w[i + 1] # w[i]
  BY DEF Walks, Last
<1>2. ASSUME NEW x \in ToSet(w) PROVE /\ x \in DOMAIN next => next[x] \in ToSet(w)
                                      /\ Ended(next, x) => x = Last(w)
  <2>1. PICK i \in 1..Len(w) : x = w[i]
    BY <1>1 DEF ToSet
  <2>2. CASE i = Len(w)
    BY <1>1, <2>1, <2>2 DEF ToSet, Ended
  <2>3. CASE i # Len(w)
    <3>1. i \in 1..(Len(w) - 1) /\ i + 1 \in 1..Len(w)
      <4>1. Len(w) \in Nat /\ i \in 1..Len(w)
        BY <1>1, <2>1
      <4> QED BY <2>3, <4>1
    <3>2. x \in DOMAIN next /\ w[i + 1] = next[x] /\ w[i + 1] # x
      BY <1>1, <2>1, <3>1
    <3>3. w[i + 1] \in ToSet(w)
      BY <1>1, <3>1 DEF ToSet
    <3> QED BY <3>2, <3>3 DEF Ended
  <2> QED BY <2>2, <2>3
<1>3. start \in ToSet(w) /\ Last(w) \in ToSet(w)
  BY <1>1 DEF ToSet
<1> QED BY <1>2, <1>3

\* It stays in every set that its steps do not leave.
LEMMA WalkWithin ==
    ASSUME NEW next, NEW start, NEW w, Walks(next, start, w),
           NEW I, start \in I, \A x \in I \cap DOMAIN next : next[x] \in I
    PROVE  ToSet(w) \subseteq I
<1>1. /\ Len(w) \in Nat \ {0} /\ DOMAIN w = 1..Len(w) /\ w[1] = start
      /\ \A i \in 1..(Len(w) - 1) : w[i] \in DOMAIN next /\ w[i + 1] = next[w[i]]
  BY DEF Walks
<1> DEFINE Bad == {i \in 1..Len(w) : w[i] \notin I}
<1>2. SUFFICES ASSUME Bad # {} PROVE FALSE
  BY <1>1, <1>2 DEF ToSet
<1>3. PICK i \in Bad : \A k \in Bad : i <= k
  <2>1. Bad \subseteq Nat
    BY <1>1
  <2> QED BY <1>2, <2>1, LeastNumber
<1>4. i # 1 /\ i \in 1..Len(w)
  BY <1>1, <1>3
<1>5. i - 1 \in 1..(Len(w) - 1) /\ i - 1 \in 1..Len(w) /\ i - 1 \notin Bad
  BY <1>1, <1>3, <1>4
<1>6. w[i - 1] \in I /\ w[(i - 1) + 1] = next[w[i - 1]] /\ w[i - 1] \in DOMAIN next
  BY <1>1, <1>5
<1>7. w[i] \in I
  BY <1>4, <1>6
<1> QED BY <1>3, <1>7

-----------------------------------------------------------------------------
(* Every element of a text ends behind its beginning. *)

LEMMA MinimumOf ==
    ASSUME NEW S, S \subseteq Nat, S # {}
    PROVE  Min(S) \in S /\ \A m \in S : Min(S) <= m
BY LeastNumber DEF Min

LEMMA MinimumIs ==
    ASSUME NEW S, S \subseteq Nat, NEW x \in S, \A m \in S : x <= m
    PROVE  Min(S) = x
<1>1. Min(S) \in S /\ \A m \in S : Min(S) <= m
  BY MinimumOf
<1>2. Min(S) \in Nat /\ x \in Nat /\ Min(S) <= x /\ x <= Min(S)
  BY <1>1
<1> QED BY <1>2

Quoting(s, quote, backslash) == [k \in 1..Len(s) |-> InQuotes(s, k, quote, backslash)]

Backslashes == {"refuse", "escape", "plain"}

LEMMA InQuotesForward ==
    ASSUME NEW s \in Seq(Symbols), NEW k \in 1..Len(s), NEW quote, NEW backslash \in Backslashes
    PROVE  InQuotes(s, k, quote, backslash) \in {0, k, k + 1, k + 2}
BY DEF InQuotes, Backslashes, Refusal

LEMMA QuoteWalks ==
    ASSUME NEW s \in Seq(Symbols), NEW i \in 1..Behind(s), NEW quote,
           NEW backslash \in Backslashes
    PROVE  LET next == Quoting(s, quote, backslash)
               w == Walk(next, i, Behind(s) - i)
           IN  w \in Seq(Nat) /\ Walks(next, i, w) /\ Ended(next, Last(w))
<1> DEFINE next == Quoting(s, quote, backslash)
           rank == [x \in Nat |-> IF x \in 1..Len(s) THEN Behind(s) - x ELSE 0]
<1>1. Len(s) \in Nat /\ Behind(s) = Len(s) + 1
  BY DEF Behind
<1>2. ASSUME NEW x \in Nat \cap DOMAIN next
      PROVE  next[x] \in Nat /\ (next[x] # x => rank[next[x]] < rank[x])
  <2>1. x \in 1..Len(s) /\ next[x] = InQuotes(s, x, quote, backslash)
    BY DEF Quoting
  <2>2. next[x] \in {0, x, x + 1, x + 2}
    BY <2>1, InQuotesForward
  <2> HIDE DEF next
  <2>3. next[x] \in Nat
    BY <2>1, <2>2
  <2> QED BY <1>1, <2>1, <2>2, <2>3
<1>3. \A x \in Nat : rank[x] \in Nat
  BY <1>1
<1>4. i \in Nat /\ Behind(s) - i \in Nat /\ rank[i] <= Behind(s) - i
  BY <1>1
<1> HIDE DEF next, rank
<1>5. LET w == Walk(next, i, Behind(s) - i)
      IN  w \in Seq(Nat) /\ Walks(next, i, w) /\ Ended(next, Last(w))
  BY <1>2, <1>3, <1>4, WalkEnds
<1> QED BY <1>5 DEF next

LEMMA QuoteEndForward ==
    ASSUME NEW s \in Seq(Symbols), NEW i \in 1..Behind(s), NEW quote,
           NEW backslash \in Backslashes
    PROVE  QuoteEnd(s, i, quote, backslash) \in {0} \cup (i + 1)..Behind(s)
<1> DEFINE next == Quoting(s, quote, backslash)
           w == Walk(next, i, Behind(s) - i)
           I == {0} \cup {x \in Nat : i <= x}
<1>1. Len(s) \in Nat /\ Behind(s) = Len(s) + 1 /\ i \in I
  BY DEF Behind
<1>2. Walks(next, i, w) /\ Ended(next, Last(w))
  BY QuoteWalks
<1>3. ASSUME NEW x \in I \cap DOMAIN next PROVE next[x] \in I
  <2>1. x \in 1..Len(s) /\ next[x] = InQuotes(s, x, quote, backslash)
    BY DEF Quoting
  <2>2. next[x] \in {0, x, x + 1, x + 2}
    BY <2>1, InQuotesForward
  <2> QED BY <2>1, <2>2
<1>4. QuoteEnd(s, i, quote, backslash) = IF Last(w) \in 1..Len(s) THEN Last(w) + 1 ELSE 0
  BY DEF QuoteEnd, Quoting, Refusal
<1> HIDE DEF next, w
<1>5. Last(w) \in ToSet(w)
  BY <1>2, WalkVisits
<1>6. ToSet(w) \subseteq I
  <2> HIDE DEF I
  <2> QED BY <1>1, <1>2, <1>3, WalkWithin
<1> QED BY <1>1, <1>4, <1>5, <1>6

LEMMA BackslashKnown ==
    ASSUME NEW s, NEW i, NEW d PROVE Backslash(s, i, d) \in Backslashes
BY DEF Backslash, Backslashes

LEMMA SkipCommentForward ==
    ASSUME NEW s \in Seq(Symbols), NEW i \in 1..Len(s), NEW d
    PROVE  SkipComment(s, i, d) \in {0} \cup i..Behind(s)
<1>1. Len(s) \in Nat /\ Behind(s) = Len(s) + 1 /\ i \in Nat
  BY DEF Behind
<1>2. LineEnd(s, i + 1) \in i..Behind(s)
  <2> DEFINE ends == {j \in (i + 1)..Len(s) : s[j] = "nl"}
  <2>1. LineEnd(s, i + 1) = IF ends = {} THEN Behind(s) ELSE Min(ends)
    BY DEF LineEnd
  <2>2. ends \subseteq (i + 1)..Len(s) /\ ends \subseteq Nat
    BY <1>1
  <2> HIDE DEF ends
  <2>3. ends # {} => Min(ends) \in ends
    BY <2>2, MinimumOf, Zenon
  <2>4. ends # {} => Min(ends) \in (i + 1)..Len(s)
    BY <2>2, <2>3, Zenon
  <2>5. CASE ends = {}
    BY <1>1, <2>1, <2>5
  <2>6. CASE ends # {}
    BY <1>1, <2>1, <2>4, <2>6
  <2> QED BY <2>5, <2>6
<1>3. BlockEnd(s, i + 1, d) \in {0} \cup i..Behind(s)
  <2> DEFINE opened(j) == {k \in (i + 1)..j : s[k] \in {"/*", "/*!"} /\ Nests(d)}
             closed(j) == {k \in (i + 1)..j : s[k] = "*/"}
             ends == {j \in (i + 1)..Len(s) :
                        s[j] = "*/" /\ Cardinality(closed(j)) > Cardinality(opened(j))}
  <2>1. BlockEnd(s, i + 1, d) = IF ends = {} THEN 0 ELSE Min(ends) + 1
    BY DEF BlockEnd, Refusal
  <2>2. ends \subseteq (i + 1)..Len(s) /\ ends \subseteq Nat
    BY <1>1
  <2> HIDE DEF ends
  <2>3. ends # {} => Min(ends) \in ends
    BY <2>2, MinimumOf, Zenon
  <2>4. ends # {} => Min(ends) \in (i + 1)..Len(s)
    BY <2>2, <2>3, Zenon
  <2>5. CASE ends = {}
    BY <1>1, <2>1, <2>5
  <2>6. CASE ends # {}
    BY <1>1, <2>1, <2>4, <2>6
  <2> QED BY <2>5, <2>6
<1> QED BY <1>1, <1>2, <1>3 DEF SkipComment

LEMMA PastForward ==
    ASSUME NEW s \in Seq(Symbols), NEW i \in 1..Len(s), NEW d
    PROVE  Past(s, i, d) \in {0} \cup (i + 1)..Behind(s)
<1>1. Len(s) \in Nat /\ Behind(s) = Len(s) + 1 /\ i \in Nat /\ i + 1 \in 1..Behind(s)
  BY DEF Behind
<1>2. SkipQuoted(s, i, d) \in {0} \cup (i + 1)..Behind(s)
  <2>1. QuoteEnd(s, i + 1, s[i], Backslash(s, i, d)) \in {0} \cup ((i + 1) + 1)..Behind(s)
    BY <1>1, BackslashKnown, QuoteEndForward
  <2> QED BY <1>1, <2>1 DEF SkipQuoted
<1>3. SkipDollarQuote(s, i) \in {0} \cup (i + 1)..Behind(s)
  <2> DEFINE ends == {j \in (i + 1)..Len(s) : s[j] = s[i]}
  <2>1. SkipDollarQuote(s, i) = IF ends = {} THEN 0 ELSE Min(ends) + 1
    BY DEF SkipDollarQuote, Refusal
  <2>2. ends \subseteq (i + 1)..Len(s) /\ ends \subseteq Nat
    BY <1>1
  <2> HIDE DEF ends
  <2>3. ends # {} => Min(ends) \in ends
    BY <2>2, MinimumOf, Zenon
  <2>4. ends # {} => Min(ends) \in (i + 1)..Len(s)
    BY <2>2, <2>3, Zenon
  <2>5. CASE ends = {}
    BY <1>1, <2>1, <2>5
  <2>6. CASE ends # {}
    BY <1>1, <2>1, <2>4, <2>6
  <2> QED BY <2>5, <2>6
<1> DEFINE j == SkipComment(s, i, d)
<1>4. j \in {0} \cup i..Behind(s)
  BY SkipCommentForward
<1> HIDE DEF j
<1>5. (IF j = i THEN i + 1 ELSE j) \in {0} \cup (i + 1)..Behind(s)
  BY <1>1, <1>4
<1> QED BY <1>2, <1>3, <1>5 DEF Past, j

-----------------------------------------------------------------------------
(* The elements of a text, at the tokens it was written from. *)

\* The token n stands in s behind its first o symbols, and spaces around it.
At(s, o, n) ==
    /\ o \in Nat /\ o + Len(n) + 1 \in 1..Len(s)
    /\ \A i \in 1..Len(n) : s[o + i] = n[i]
    /\ s[o + Len(n) + 1] = "sp"
    /\ o = 0 \/ (o \in 1..Len(s) /\ s[o] = "sp")

Plain == Words \cup Marks \cup Spaces

LEMMA PlainPast ==
    ASSUME NEW s \in Seq(Symbols), NEW i \in 1..Len(s), s[i] \in Plain, NEW d
    PROVE  Past(s, i, d) = i + 1 /\ SkipComment(s, i, d) = i
<1>1. s[i] \notin {"sq", "dq", "bq", "--", "#", "/*", "/*!", "$$", "$a$"}
  BY DEF Plain, Words, Marks, Spaces
<1>2. SkipComment(s, i, d) = i
  BY <1>1 DEF SkipComment
<1>3. ~HasDollarQuote(s, i)
  BY <1>1 DEF HasDollarQuote, Delimiters
<1> QED BY <1>1, <1>2, <1>3 DEF Past

LEMMA WithinToken ==
    ASSUME NEW s \in Seq(Symbols), NEW n \in Seq(Symbols), NEW o \in Nat, At(s, o, n),
           NEW i \in 1..Len(n)
    PROVE  /\ o \in Nat /\ Len(n) \in Nat /\ Len(s) \in Nat /\ i \in Nat
           /\ o + i \in 1..Len(s) /\ s[o + i] = n[i] /\ o + i < Len(s)
           /\ o + i + 1 \in 1..Len(s)
           /\ (i = Len(n) => s[o + i + 1] = "sp") /\ (i # Len(n) => s[o + i + 1] = n[i + 1])
<1>1. o \in Nat /\ Len(n) \in Nat /\ Len(s) \in Nat /\ i \in Nat /\ i <= Len(n)
      /\ o + Len(n) + 1 <= Len(s) /\ s[o + i] = n[i]
  BY DEF At
<1>2. (i = Len(n) => s[o + i + 1] = "sp") /\ (i # Len(n) => s[o + i + 1] = n[i + 1])
  <2>1. CASE i = Len(n)
    BY <2>1 DEF At
  <2>2. CASE i # Len(n)
    <3>1. i + 1 \in 1..Len(n) /\ o + (i + 1) = o + i + 1
      BY <1>1, <2>2
    <3>2. s[o + (i + 1)] = n[i + 1]
      BY <3>1 DEF At
    <3> QED BY <2>2, <3>1, <3>2
  <2> QED BY <2>1, <2>2
<1> QED BY <1>1, <1>2

LEMMA DashPast ==
    ASSUME NEW s \in Seq(Symbols), NEW n \in Seq(Symbols), NEW o \in Nat, At(s, o, n),
           NEW i \in 1..(Len(n) - 1), n[i] = "--", n[i + 1] \notin Spaces
    PROVE  Past(s, o + i, "mysql") = o + i + 1
<1>1. i \in 1..Len(n) /\ i # Len(n)
  OBVIOUS
<1>2. /\ s[o + i] = "--" /\ o + i < Len(s) /\ s[o + i + 1] \notin Spaces /\ o + i \in Nat
  <2>1. /\ o \in Nat /\ Len(n) \in Nat /\ Len(s) \in Nat /\ i \in Nat
      /\ o + i \in 1..Len(s) /\ s[o + i] = n[i] /\ o + i < Len(s)
      /\ o + i + 1 \in 1..Len(s)
      /\ (i = Len(n) => s[o + i + 1] = "sp") /\ (i # Len(n) => s[o + i + 1] = n[i + 1])
    BY <1>1, WithinToken
  <2> QED BY <1>1, <2>1
<1>3. SkipComment(s, o + i, "mysql") = o + i
  BY <1>2 DEF SkipComment
<1> QED BY <1>2, <1>3 DEF Past

-----------------------------------------------------------------------------
(* Quotes. *)

Firsts(n, i, k, backslash, firsts) ==
    /\ \A j \in firsts :
         /\ j + 1 \in (i + 1)..k /\ j + 1 \notin firsts
         /\ \/ n[j] = n[i] /\ n[j + 1] = n[i]
            \/ n[j] = "bs" /\ backslash = "escape"
    /\ \A j \in (i + 1)..k : j \notin firsts /\ j - 1 \notin firsts =>
         n[j] # n[i] /\ (n[j] = "bs" => backslash = "plain")

LEMMA QuoteSteps ==
    ASSUME NEW s \in Seq(Symbols), NEW n \in Seq(Symbols), NEW o \in Nat, At(s, o, n),
           NEW i \in 1..Len(n), NEW k \in i..Len(n), NEW backslash, NEW firsts,
           Firsts(n, i, k, backslash, firsts), n[i] # "bs",
           NEW j \in (i + 1)..k, j - 1 \notin firsts
    PROVE  InQuotes(s, o + j, n[i], backslash) = IF j \in firsts THEN o + j + 2 ELSE o + j + 1
<1>1. j \in 1..Len(n) /\ j \in Nat /\ i \in Nat
  OBVIOUS
<1>2. s[o + j] = n[j] /\ o + j < Len(s) /\ o + j \in Nat
      /\ (j = Len(n) => s[o + j + 1] = "sp") /\ (j # Len(n) => s[o + j + 1] = n[j + 1])
  <2>1. o \in Nat /\ s[o + j] = n[j] /\ o + j < Len(s)
    BY <1>1, WithinToken
  <2>2. (j = Len(n) => s[o + j + 1] = "sp") /\ (j # Len(n) => s[o + j + 1] = n[j + 1])
    BY <1>1, WithinToken, SMTT(30)
  <2> QED BY <1>1, <2>1, <2>2
<1>3. CASE j \in firsts
  <2>1. /\ j + 1 \in (i + 1)..k
        /\ (n[j] = n[i] /\ n[j + 1] = n[i]) \/ (n[j] = "bs" /\ backslash = "escape")
    BY <1>3 DEF Firsts
  <2>2. j # Len(n)
    BY <1>1, <2>1
  <2>3. CASE n[j] = n[i] /\ n[j + 1] = n[i]
    BY <1>2, <1>3, <2>2, <2>3 DEF InQuotes, Doubled
  <2>4. CASE n[j] = "bs" /\ backslash = "escape"
    BY <1>2, <1>3, <2>4 DEF InQuotes
  <2> QED BY <2>1, <2>3, <2>4
<1>4. CASE j \notin firsts
  <2>1. n[j] # n[i] /\ (n[j] = "bs" => backslash = "plain")
    BY <1>4 DEF Firsts
  <2> QED BY <1>2, <1>4, <2>1 DEF InQuotes, Doubled
<1> QED BY <1>3, <1>4

\* Where the reading of the quotes that open at i comes to.
LEMMA OpensPast ==
    ASSUME NEW s \in Seq(Symbols), NEW n \in Seq(Symbols), NEW o \in Nat, At(s, o, n),
           NEW i \in 1..2, i < Len(n), NEW d, Opens(n, i, d)
    PROVE  /\ n[i] \in {"sq", "dq", "bq"}
           /\ Past(s, o + i, d) = QuoteEnd(s, o + i + 1, n[i], Backslash(n, i, d))
<1>1. i \in 1..Len(n) /\ i \in Nat
  OBVIOUS
<1>2. s[o + i] = n[i] /\ o \in Nat /\ o + i \in Nat
  BY <1>1, WithinToken
<1>3. n[i] \in {"sq", "dq", "bq"} /\ (d = "postgres" => n[i] # "bq")
  BY DEF Opens
<1>4. Backslash(s, o + i, d) = Backslash(n, i, d)
  <2>1. CASE d = "mysql"
    BY <2>1 DEF Backslash
  <2>2. CASE i = 1 /\ d # "mysql"
    <3>1. o + 1 > 1 => s[(o + 1) - 1] = "sp"
      <4>1. (o + 1) - 1 = o
        BY <1>2
      <4> QED BY <1>2, <4>1 DEF At
    <3> QED BY <1>2, <2>2, <3>1 DEF Backslash
  <2>3. CASE i = 2 /\ d # "mysql"
    <3>1. 1 \in 1..Len(n)
      BY <1>1
    <3>2. s[o + 1] = n[1]
      BY <3>1, WithinToken
    <3>3. (o + 2) - 1 = o + 1
      BY <1>2
    <3> QED BY <1>2, <2>3, <3>2, <3>3 DEF Backslash
  <2> QED BY <2>1, <2>2, <2>3
<1>5. Past(s, o + i, d) = SkipQuoted(s, o + i, d)
  BY <1>2, <1>3 DEF Past
<1>6. SkipQuoted(s, o + i, d) = QuoteEnd(s, o + i + 1, n[i], Backslash(n, i, d))
  BY <1>2, <1>3, <1>4 DEF SkipQuoted
<1> QED BY <1>3, <1>5, <1>6

LEMMA QuotedPast ==
    ASSUME NEW s \in Seq(Symbols), NEW n \in Seq(Symbols), NEW o \in Nat, At(s, o, n),
           NEW i \in 1..2, i < Len(n), NEW d, Opens(n, i, d), n[Len(n)] = n[i],
           Quotes(n, i, Len(n) - 1, Backslash(n, i, d))
    PROVE  Past(s, o + i, d) = o + Len(n) + 1
<1> DEFINE backslash == Backslash(n, i, d)
           next == Quoting(s, n[i], backslash)
           w == Walk(next, o + i + 1, Behind(s) - (o + i + 1))
<1>1. i \in 1..Len(n) /\ i \in Nat /\ Len(n) \in Nat /\ Len(n) - 1 \in i..Len(n)
      /\ Len(n) \in 1..Len(n)
  OBVIOUS
<1>2. /\ o \in Nat /\ Len(s) \in Nat /\ o + Len(n) < Len(s)
      /\ s[o + Len(n)] = n[i] /\ s[o + Len(n) + 1] = "sp"
  <2>1. Len(s) \in Nat /\ s[o + Len(n)] = n[Len(n)] /\ o + Len(n) < Len(s)
    BY <1>1, WithinToken
  <2>2. s[o + Len(n) + 1] = "sp"
    BY <1>1 DEF At
  <2> QED BY <2>1, <2>2
<1>3. PICK firsts \in SUBSET {j \in (i + 1)..(Len(n) - 1) : n[j] \in {n[i], "bs"}} :
         Firsts(n, i, Len(n) - 1, backslash, firsts)
  BY DEF Quotes, Firsts
<1>4. n[i] \in {"sq", "dq", "bq"} /\ Past(s, o + i, d) = QuoteEnd(s, o + i + 1, n[i], backslash)
  BY OpensPast
<1>5. w \in Seq(Nat) /\ Walks(next, o + i + 1, w) /\ Ended(next, Last(w))
  <2>1. o + i + 1 \in 1..Behind(s)
    BY <1>1, <1>2 DEF Behind
  <2> QED BY <2>1, QuoteWalks, BackslashKnown
<1>6. QuoteEnd(s, o + i + 1, n[i], backslash) = IF Last(w) \in 1..Len(s) THEN Last(w) + 1 ELSE 0
  BY DEF QuoteEnd, Quoting, Refusal
<1> DEFINE I == {p \in Nat : \E j \in (i + 1)..Len(n) : p = o + j /\ j - 1 \notin firsts}
<1>7. o + i + 1 \in I
  <2>1. i + 1 \in (i + 1)..Len(n) /\ (i + 1) - 1 \notin firsts /\ o + i + 1 = o + (i + 1)
    BY <1>1, <1>2, <1>3
  <2> QED BY <1>2, <2>1
<1>8. ASSUME NEW p \in I
      PROVE  /\ p \in DOMAIN next /\ next[p] \in I
             /\ next[p] = p => p = o + Len(n)
  <2>1. PICK j \in (i + 1)..Len(n) : p = o + j /\ j - 1 \notin firsts
    OBVIOUS
  <2>2. j \in Nat /\ p \in 1..Len(s)
    BY <1>1, <1>2, <2>1
  <2>3. p \in DOMAIN next /\ next[p] = InQuotes(s, o + j, n[i], backslash)
    BY <2>1, <2>2 DEF Quoting
  <2>4. CASE j = Len(n)
    <3>1. InQuotes(s, o + j, n[i], backslash) = o + j
      BY <1>2, <1>4, <2>4 DEF InQuotes, Doubled
    <3> QED BY <2>1, <2>3, <2>4, <3>1
  <2>5. CASE j # Len(n)
    <3>1. j \in (i + 1)..(Len(n) - 1)
      BY <1>1, <2>2, <2>5
    <3>2. InQuotes(s, o + j, n[i], backslash) = IF j \in firsts THEN o + j + 2 ELSE o + j + 1
      <4> HIDE DEF backslash
      <4>1. n[i] # "bs" /\ i \in 1..Len(n) /\ Len(n) - 1 \in i..Len(n)
        BY <1>1, <1>4
      <4> QED BY <1>3, <2>1, <3>1, <4>1, QuoteSteps
    <3>3. CASE j \in firsts
      <4>1. j + 1 \in (i + 1)..(Len(n) - 1) /\ j + 1 \notin firsts
        BY <1>3, <3>3 DEF Firsts
      <4>2. j + 2 \in (i + 1)..Len(n) /\ (j + 2) - 1 = j + 1 /\ o + (j + 2) = o + j + 2
        BY <1>1, <1>2, <2>2, <4>1
      <4>3. o + j + 2 \in I
        BY <1>2, <2>2, <4>1, <4>2
      <4>4. next[p] = o + j + 2 /\ o + j + 2 # p
        BY <1>2, <2>1, <2>2, <2>3, <3>2, <3>3
      <4> HIDE DEF next, I
      <4> QED BY <2>3, <4>3, <4>4
    <3>4. CASE j \notin firsts
      <4>1. j + 1 \in (i + 1)..Len(n) /\ (j + 1) - 1 = j /\ o + (j + 1) = o + j + 1
        BY <1>1, <1>2, <2>2, <3>1
      <4>2. o + j + 1 \in I
        BY <1>2, <2>2, <3>4, <4>1
      <4>3. next[p] = o + j + 1 /\ o + j + 1 # p
        BY <1>2, <2>1, <2>2, <2>3, <3>2, <3>4
      <4> HIDE DEF next, I
      <4> QED BY <2>3, <4>2, <4>3
    <3> QED BY <3>3, <3>4
  <2> QED BY <2>4, <2>5
<1> HIDE DEF next, w, I
<1>9. Last(w) \in I
  <2>1. ToSet(w) \subseteq I
    BY <1>5, <1>7, <1>8, WalkWithin
  <2> QED BY <1>5, <2>1, WalkVisits
<1>10. Last(w) = o + Len(n)
  BY <1>5, <1>8, <1>9 DEF Ended
<1> QED BY <1>2, <1>4, <1>6, <1>10, <1>1

LEMMA UncertainPast ==
    ASSUME NEW s \in Seq(Symbols), NEW n \in Seq(Symbols), NEW o \in Nat, At(s, o, n),
           NEW i \in 1..2, i < Len(n), NEW d, Opens(n, i, d), Backslash(n, i, d) = "refuse",
           NEW k \in (i + 1)..Len(n), n[k] = "bs", Quotes(n, i, k - 1, "refuse")
    PROVE  Past(s, o + i, d) = Refusal
<1> DEFINE next == Quoting(s, n[i], "refuse")
           w == Walk(next, o + i + 1, Behind(s) - (o + i + 1))
<1>1. i \in 1..Len(n) /\ i \in Nat /\ Len(n) \in Nat /\ k \in Nat /\ k - 1 \in i..Len(n)
  OBVIOUS
<1>2. o \in Nat /\ Len(s) \in Nat /\ o + Len(n) < Len(s)
  BY <1>1, WithinToken
<1>3. PICK firsts \in SUBSET {j \in (i + 1)..(k - 1) : n[j] \in {n[i], "bs"}} :
         Firsts(n, i, k - 1, "refuse", firsts)
  BY DEF Quotes, Firsts
<1>4. n[i] \in {"sq", "dq", "bq"} /\ Past(s, o + i, d) = QuoteEnd(s, o + i + 1, n[i], "refuse")
  BY OpensPast
<1>5. w \in Seq(Nat) /\ Walks(next, o + i + 1, w) /\ Ended(next, Last(w))
  <2>1. o + i + 1 \in 1..Behind(s)
    BY <1>1, <1>2 DEF Behind
  <2> QED BY <2>1, QuoteWalks DEF Backslashes
<1>6. QuoteEnd(s, o + i + 1, n[i], "refuse") = IF Last(w) \in 1..Len(s) THEN Last(w) + 1 ELSE 0
  BY DEF QuoteEnd, Quoting, Refusal
<1> DEFINE I == {p \in Nat : p = 0 \/ \E j \in (i + 1)..k : p = o + j /\ j - 1 \notin firsts}
<1>7. o + i + 1 \in I
  <2>1. i + 1 \in (i + 1)..k /\ (i + 1) - 1 \notin firsts /\ o + i + 1 = o + (i + 1)
    BY <1>1, <1>2, <1>3
  <2> QED BY <1>2, <2>1
<1>8. ASSUME NEW p \in I
      PROVE  /\ p \in DOMAIN next => next[p] \in I /\ next[p] # p
             /\ p \notin DOMAIN next => p = 0
  <2>1. CASE p = 0
    BY <2>1 DEF Quoting
  <2>2. CASE p # 0
    <3>1. PICK j \in (i + 1)..k : p = o + j /\ j - 1 \notin firsts
      BY <2>2
    <3>2. j \in Nat /\ p \in 1..Len(s) /\ j \in 1..Len(n)
      BY <1>1, <1>2, <3>1
    <3>3. p \in DOMAIN next /\ next[p] = InQuotes(s, o + j, n[i], "refuse")
      BY <3>1, <3>2 DEF Quoting
    <3>4. CASE j = k
      <4>1. s[o + j] = "bs"
        BY <3>2, <3>4, WithinToken
      <4>2. next[p] = 0
        BY <3>3, <4>1 DEF InQuotes, Refusal
      <4> QED BY <2>2, <3>3, <4>2
    <3>5. CASE j # k
      <4>1. j \in (i + 1)..(k - 1)
        BY <1>1, <3>2, <3>5
      <4>2. InQuotes(s, o + j, n[i], "refuse") = IF j \in firsts THEN o + j + 2 ELSE o + j + 1
        <5>1. n[i] # "bs" /\ i \in 1..Len(n) /\ k - 1 \in i..Len(n)
          BY <1>1, <1>4
        <5> QED BY <1>3, <3>1, <4>1, <5>1, QuoteSteps
      <4>3. CASE j \in firsts
        <5>1. j + 1 \in (i + 1)..(k - 1) /\ j + 1 \notin firsts
          BY <1>3, <4>3 DEF Firsts
        <5>2. j + 2 \in (i + 1)..k /\ (j + 2) - 1 = j + 1 /\ o + (j + 2) = o + j + 2
          BY <1>1, <1>2, <3>2, <5>1
        <5>3. o + j + 2 \in I
          BY <1>2, <3>2, <5>1, <5>2
        <5>4. next[p] = o + j + 2
          BY <3>3, <4>2, <4>3
        <5> HIDE DEF next, I
        <5> QED BY <1>2, <3>1, <3>2, <3>3, <5>3, <5>4
      <4>4. CASE j \notin firsts
        <5>1. j + 1 \in (i + 1)..k /\ (j + 1) - 1 = j /\ o + (j + 1) = o + j + 1
          BY <1>1, <1>2, <3>2, <4>1
        <5>2. o + j + 1 \in I
          BY <1>2, <3>2, <4>4, <5>1
        <5>3. next[p] = o + j + 1
          BY <3>3, <4>2, <4>4
        <5> HIDE DEF next, I
        <5> QED BY <1>2, <3>1, <3>2, <3>3, <5>2, <5>3
      <4> QED BY <4>3, <4>4
    <3> QED BY <3>4, <3>5
  <2> QED BY <2>1, <2>2
<1> HIDE DEF next, w, I
<1>9. Last(w) \in I
  <2>1. ToSet(w) \subseteq I
    BY <1>5, <1>7, <1>8, WalkWithin
  <2> QED BY <1>5, <2>1, WalkVisits
<1>10. Last(w) = 0
  BY <1>5, <1>8, <1>9 DEF Ended
<1> QED BY <1>2, <1>4, <1>6, <1>10 DEF Refusal

-----------------------------------------------------------------------------
(* Dollar quotes and comments. *)

LEMMA DollarPast ==
    ASSUME NEW s \in Seq(Symbols), NEW n \in Seq(Symbols), NEW o \in Nat, At(s, o, n),
           IsDollarQuoted(n, "postgres")
    PROVE  Past(s, o + 1, "postgres") = o + Len(n) + 1
<1> DEFINE ends == {j \in ((o + 1) + 1)..Len(s) : s[j] = s[o + 1]}
<1>1. /\ Len(n) \in Nat /\ Len(n) > 1 /\ n[1] \in Delimiters /\ n[Len(n)] = n[1]
      /\ \A i \in 2..(Len(n) - 1) : n[i] # n[1]
  BY DEF IsDollarQuoted
<1>2. /\ Len(s) \in Nat /\ o + Len(n) < Len(s) /\ o + 1 \in 1..Len(s)
      /\ \A i \in 1..Len(n) : s[o + i] = n[i]
  BY <1>1 DEF At
<1>3. s[o + 1] = n[1] /\ s[o + Len(n)] = n[1]
  BY <1>1, <1>2
<1>4. o + Len(n) \in ends /\ ends \subseteq Nat
  BY <1>1, <1>2, <1>3
<1>5. ASSUME NEW m \in ends PROVE o + Len(n) <= m
  <2>1. SUFFICES ASSUME m < o + Len(n) PROVE FALSE
    BY <1>1, <1>2
  <2>2. m - o \in 2..(Len(n) - 1) /\ m - o \in 1..Len(n) /\ o + (m - o) = m
    BY <1>1, <1>2, <2>1
  <2>3. s[m] = n[m - o]
    BY <1>2, <2>2
  <2> QED BY <1>1, <1>3, <2>2, <2>3
<1>6. SkipDollarQuote(s, o + 1) = IF ends = {} THEN 0 ELSE Min(ends) + 1
  BY DEF SkipDollarQuote, Refusal
<1> HIDE DEF ends
<1>7. Min(ends) = o + Len(n) /\ ends # {}
  BY <1>4, <1>5, MinimumIs
<1>8. HasDollarQuote(s, o + 1)
  <2>1. s[o + 1] \in Delimiters
    BY <1>1, <1>3
  <2>2. o + 1 = 1 \/ s[(o + 1) - 1] = "sp"
    <3>1. (o + 1) - 1 = o
      OBVIOUS
    <3> QED BY <3>1 DEF At
  <2> QED BY <2>1, <2>2 DEF HasDollarQuote, Spaces
<1>9. s[o + 1] \notin {"sq", "dq", "bq"}
  BY <1>1, <1>3 DEF Delimiters
<1> QED BY <1>6, <1>7, <1>8, <1>9 DEF Past

LEMMA LineCommentSkipped ==
    ASSUME NEW s \in Seq(Symbols), NEW n \in Seq(Symbols), NEW o \in Nat, At(s, o, n),
           NEW d \in Dialects, IsLineComment(n, d)
    PROVE  SkipComment(s, o + 1, d) = o + Len(n) /\ Past(s, o + 1, d) = o + Len(n)
<1> DEFINE ends == {j \in ((o + 1) + 1)..Len(s) : s[j] = "nl"}
<1>1. /\ Len(n) \in Nat /\ Len(n) > 1 /\ n[Len(n)] = "nl"
      /\ \A i \in 1..(Len(n) - 1) : n[i] # "nl"
  BY DEF IsLineComment
<1>2. /\ Len(s) \in Nat /\ o + Len(n) < Len(s) /\ o + 1 \in 1..Len(s)
      /\ \A i \in 1..Len(n) : s[o + i] = n[i]
  BY <1>1 DEF At
<1>3. s[o + 1] = n[1] /\ s[o + Len(n)] = "nl" /\ s[o + 1 + 1] = n[2]
  <2>1. 1 \in 1..Len(n) /\ 2 \in 1..Len(n) /\ Len(n) \in 1..Len(n) /\ o + 1 + 1 = o + 2
    BY <1>1
  <2> QED BY <1>1, <1>2, <2>1
<1>4. o + Len(n) \in ends /\ ends \subseteq Nat
  BY <1>1, <1>2, <1>3
<1>5. ASSUME NEW m \in ends PROVE o + Len(n) <= m
  <2>1. SUFFICES ASSUME m < o + Len(n) PROVE FALSE
    BY <1>1, <1>2
  <2>2. m - o \in 1..(Len(n) - 1) /\ m - o \in 1..Len(n) /\ o + (m - o) = m
    BY <1>1, <1>2, <2>1
  <2>3. s[m] = n[m - o]
    BY <1>2, <2>2
  <2> QED BY <1>1, <2>2, <2>3
<1>6. LineEnd(s, (o + 1) + 1) = IF ends = {} THEN Behind(s) ELSE Min(ends)
  BY DEF LineEnd
<1> HIDE DEF ends
<1>7. Min(ends) = o + Len(n) /\ ends # {}
  BY <1>4, <1>5, MinimumIs
<1>8. SkipComment(s, o + 1, d) = o + Len(n)
  <2>1. CASE n[1] = "#" /\ d = "mysql"
    BY <1>3, <1>6, <1>7, <2>1 DEF SkipComment
  <2>2. CASE n[1] = "--" /\ (d = "mysql" => n[2] \in Spaces)
    BY <1>3, <1>6, <1>7, <2>2 DEF SkipComment
  <2> QED BY <2>1, <2>2 DEF IsLineComment
<1>9. s[o + 1] \notin {"sq", "dq", "bq"} \cup Delimiters
  BY <1>3 DEF IsLineComment, Delimiters
<1>10. ~HasDollarQuote(s, o + 1) /\ s[o + 1] \notin {"sq", "dq", "bq"}
  BY <1>9 DEF HasDollarQuote
<1>11. o + Len(n) # o + 1
  BY <1>1
<1> QED BY <1>8, <1>10, <1>11 DEF Past

LEMMA ShiftedCardinality ==
    ASSUME NEW o \in Nat, NEW q \in Nat, NEW S, S \subseteq 1..q, NEW R,
           \A k \in S : o + k \in R, \A j \in R : j - o \in S /\ j \in Int
    PROVE  Cardinality(R) = Cardinality(S)
<1> DEFINE f == [k \in S |-> o + k]
<1>1. IsFiniteSet(S)
  <2>1. IsFiniteSet(1..q) /\ S \in SUBSET (1..q)
    BY FS_Interval
  <2> QED BY <2>1, FS_Subset
<1>2. f \in Bijection(S, R)
  <2>1. f \in Injection(S, R)
    BY DEF Injection, IsInjective
  <2>2. f \in Surjection(S, R)
    <3>1. ASSUME NEW j \in R PROVE \E k \in S : f[k] = j
      <4>1. j - o \in S /\ o + (j - o) = j
        OBVIOUS
      <4> QED BY <4>1
    <3> QED BY <3>1 DEF Surjection
  <2> QED BY <2>1, <2>2 DEF Bijection
<1> QED BY <1>1, <1>2, FS_Bijection DEF ExistsBijection

LEMMA BlockCommentSkipped ==
    ASSUME NEW s \in Seq(Symbols), NEW n \in Seq(Symbols), NEW o \in Nat, At(s, o, n),
           NEW d \in Dialects, IsBlockComment(n, d)
    PROVE  SkipComment(s, o + 1, d) = o + Len(n) + 1 /\ Past(s, o + 1, d) = o + Len(n) + 1
<1> DEFINE opened(i) == {k \in 2..i : n[k] \in {"/*", "/*!"} /\ d = "postgres"}
           closed(i) == {k \in 2..i : n[k] = "*/"}
           begun(j) == {k \in ((o + 1) + 1)..j : s[k] \in {"/*", "/*!"} /\ Nests(d)}
           ended(j) == {k \in ((o + 1) + 1)..j : s[k] = "*/"}
           ends == {j \in ((o + 1) + 1)..Len(s) :
                      s[j] = "*/" /\ Cardinality(ended(j)) > Cardinality(begun(j))}
<1>1. /\ Len(n) \in Nat /\ Len(n) > 1 /\ n[1] = "/*"
      /\ \A i \in 2..Len(n) :
           n[i] = "*/" /\ Cardinality(closed(i)) > Cardinality(opened(i)) <=> i = Len(n)
  <2>1. Len(n) \in Nat
    OBVIOUS
  <2>2. /\ Len(n) > 1 /\ n[1] = "/*"
        /\ \A i \in 2..Len(n) :
             n[i] = "*/" /\ Cardinality(closed(i)) > Cardinality(opened(i)) <=> i = Len(n)
    BY Zenon DEF IsBlockComment
  <2> HIDE DEF opened, closed, begun, ended, ends
  <2> QED BY <2>1, <2>2
<1>2. /\ Len(s) \in Nat /\ o + Len(n) < Len(s) /\ o + 1 \in 1..Len(s)
      /\ \A i \in 1..Len(n) : s[o + i] = n[i]
  BY <1>1 DEF At
<1>3. ASSUME NEW i \in 2..Len(n)
      PROVE  /\ Cardinality(ended(o + i)) = Cardinality(closed(i))
             /\ Cardinality(begun(o + i)) = Cardinality(opened(i))
  <2>1. i \in Nat /\ closed(i) \subseteq 1..i /\ opened(i) \subseteq 1..i
    OBVIOUS
  <2>2. ASSUME NEW k \in 2..i
        PROVE  o + k \in ((o + 1) + 1)..(o + i) /\ s[o + k] = n[k]
    BY <1>2
  <2>3. ASSUME NEW j \in ((o + 1) + 1)..(o + i)
        PROVE  j - o \in 2..i /\ s[j] = n[j - o] /\ j \in Int
    <3> DEFINE k == j - o
    <3>1. k \in 2..i /\ k \in 1..Len(n) /\ o + k = j /\ j \in Int
      OBVIOUS
    <3> HIDE DEF k
    <3>2. s[o + k] = n[k]
      BY <1>2, <3>1
    <3> QED BY <3>1, <3>2 DEF k
  <2>4. /\ \A k \in closed(i) : o + k \in ended(o + i)
        /\ \A j \in ended(o + i) : j - o \in closed(i) /\ j \in Int
    BY <2>2, <2>3
  <2>5. /\ \A k \in opened(i) : o + k \in begun(o + i)
        /\ \A j \in begun(o + i) : j - o \in opened(i) /\ j \in Int
    BY <2>2, <2>3 DEF Nests
  <2> HIDE DEF opened, closed, begun, ended
  <2> QED BY <2>1, <2>4, <2>5, ShiftedCardinality
<1> HIDE DEF opened, closed, begun, ended
<1>4. o + Len(n) \in ends
  <2>1. Len(n) \in 2..Len(n) /\ Len(n) \in 1..Len(n) /\ o + Len(n) \in ((o + 1) + 1)..Len(s)
    BY <1>1, <1>2
  <2> QED BY <1>1, <1>2, <1>3, <2>1
<1>5. ASSUME NEW m \in ends PROVE o + Len(n) <= m /\ m \in Nat
  <2>1. m \in Nat /\ m >= o + 2
    OBVIOUS
  <2>2. SUFFICES ASSUME m < o + Len(n) PROVE FALSE
    BY <1>1, <1>2, <2>1
  <2>3. m - o \in 2..Len(n) /\ m - o \in 1..Len(n) /\ m - o # Len(n) /\ o + (m - o) = m
    BY <1>1, <1>2, <2>1, <2>2
  <2>4. s[m] = n[m - o]
    BY <1>2, <2>3
  <2>5. ~(n[m - o] = "*/" /\ Cardinality(closed(m - o)) > Cardinality(opened(m - o)))
    BY <1>1, <2>3
  <2>6. /\ Cardinality(ended(m)) = Cardinality(closed(m - o))
        /\ Cardinality(begun(m)) = Cardinality(opened(m - o))
    BY <1>3, <2>3
  <2> QED BY <2>4, <2>5, <2>6
<1>6. BlockEnd(s, (o + 1) + 1, d) = IF ends = {} THEN 0 ELSE Min(ends) + 1
  BY DEF BlockEnd, Refusal, begun, ended
<1> HIDE DEF ends
<1>7. Min(ends) = o + Len(n) /\ ends # {}
  BY <1>4, <1>5, MinimumIs
<1>8. s[o + 1] = "/*"
  BY <1>1, <1>2
<1>9. SkipComment(s, o + 1, d) = o + Len(n) + 1
  BY <1>6, <1>7, <1>8 DEF SkipComment
<1> QED BY <1>1, <1>8, <1>9 DEF Past, HasDollarQuote, Delimiters

-----------------------------------------------------------------------------
(* Depths. *)

Count(n, w, i) == Cardinality({j \in 1..i : n[j] = w})

LEMMA CountOf ==
    ASSUME NEW n, NEW w, NEW i \in Nat
    PROVE  /\ Count(n, w, i) \in Nat
           /\ Count(n, w, 0) = 0
           /\ i > 0 => Count(n, w, i) = Count(n, w, i - 1) + (IF n[i] = w THEN 1 ELSE 0)
<1> DEFINE among(k) == {j \in 1..k : n[j] = w}
<1>1. ASSUME NEW k \in Nat PROVE IsFiniteSet(among(k)) /\ Cardinality(among(k)) \in Nat
  <2>1. IsFiniteSet(1..k) /\ among(k) \in SUBSET (1..k)
    BY FS_Interval
  <2>2. IsFiniteSet(among(k))
    BY <2>1, FS_Subset
  <2> QED BY <2>2, FS_CardinalityType
<1>2. Cardinality(among(0)) = 0
  <2>1. among(0) = {}
    OBVIOUS
  <2> QED BY <2>1, FS_EmptySet
<1>3. ASSUME i > 0
      PROVE  Cardinality(among(i)) = Cardinality(among(i - 1)) + (IF n[i] = w THEN 1 ELSE 0)
  <2>1. i - 1 \in Nat /\ i \notin among(i - 1)
    BY <1>3
  <2>4. IsFiniteSet(among(i - 1)) /\ Cardinality(among(i - 1)) \in Nat
    <3> HIDE DEF among
    <3> QED BY <1>1, <2>1
  <2>2. CASE n[i] = w
    <3>1. among(i) = among(i - 1) \cup {i}
      BY <1>3, <2>2
    <3> HIDE DEF among
    <3> QED BY <2>1, <2>2, <2>4, <3>1, FS_AddElement
  <2>3. CASE n[i] # w
    <3>1. among(i) = among(i - 1)
      BY <1>3, <2>3
    <3> HIDE DEF among
    <3> QED BY <2>3, <2>4, <3>1
  <2> QED BY <2>2, <2>3
<1>4. \A k : Count(n, w, k) = Cardinality(among(k))
  BY DEF Count
<1> HIDE DEF among
<1> QED BY <1>1, <1>2, <1>3, <1>4

LEMMA DepthSteps ==
    ASSUME NEW n, NEW i \in Nat
    PROVE  /\ Depth(n, i) \in Int
           /\ Depth(n, 0) = 0
           /\ i > 0 => Depth(n, i) = CASE n[i] = "(" -> Depth(n, i - 1) + 1
                                       [] n[i] = ")" -> Depth(n, i - 1) - 1
                                       [] OTHER -> Depth(n, i - 1)
<1>1. ASSUME NEW w
      PROVE  /\ Count(n, w, i) \in Nat /\ Count(n, w, 0) = 0
             /\ i > 0 => Count(n, w, i) = Count(n, w, i - 1) + (IF n[i] = w THEN 1 ELSE 0)
  BY CountOf
<1>2. i > 0 => i - 1 \in Nat
  OBVIOUS
<1>3. ASSUME i > 0, NEW w PROVE Count(n, w, i - 1) \in Nat
  BY <1>2, <1>3, CountOf
<1>4. \A k : Depth(n, k) = Count(n, "(", k) - Count(n, ")", k)
  BY DEF Depth, Count
<1>5. Depth(n, i) \in Int /\ Depth(n, 0) = 0
  BY <1>1, <1>4
<1>6. ASSUME i > 0
      PROVE  Depth(n, i) = CASE n[i] = "(" -> Depth(n, i - 1) + 1
                             [] n[i] = ")" -> Depth(n, i - 1) - 1
                             [] OTHER -> Depth(n, i - 1)
  <2>1. /\ Count(n, "(", i) = Count(n, "(", i - 1) + (IF n[i] = "(" THEN 1 ELSE 0)
        /\ Count(n, ")", i) = Count(n, ")", i - 1) + (IF n[i] = ")" THEN 1 ELSE 0)
        /\ Count(n, "(", i - 1) \in Nat /\ Count(n, ")", i - 1) \in Nat
    BY <1>1, <1>3, <1>6
  <2>2. /\ Depth(n, i) = Count(n, "(", i) - Count(n, ")", i)
        /\ Depth(n, i - 1) = Count(n, "(", i - 1) - Count(n, ")", i - 1)
    BY <1>4
  <2>3. CASE n[i] = "("
    BY <2>1, <2>2, <2>3
  <2>4. CASE n[i] = ")"
    BY <2>1, <2>2, <2>4
  <2>5. CASE n[i] # "(" /\ n[i] # ")"
    BY <2>1, <2>2, <2>5
  <2> QED BY <2>3, <2>4, <2>5
<1> QED BY <1>5, <1>6

-----------------------------------------------------------------------------
(* How a scanner goes through a token. *)

\* X holds the states from the token n, behind o symbols, to the next one, and the depths
\* there are m and then m2.
Crossing(s, d, o, m, n, m2, X) ==
    /\ X \subseteq States(s) /\ <<o + 1, m>> \in X
    /\ \A x \in X : /\ x[1] \in (o + 1)..(o + Len(n) + 1)
                    /\ Step(s, x, d)[1] > x[1]
                    /\ Step(s, x, d) \in X \cup {<<o + Len(n) + 2, m2>>}
                    /\ ~Refused(s, x, d)

\* Nothing on the way separates statements or is a word of a change.
Silent(s, n, X) ==
    \A x \in X : /\ s[x[1]] # ";"
                 /\ x[2] = 0 /\ s[x[1]] \in Words => s[x[1]] \notin Keywords /\ n[1] \in Words

\* A symbol that opens no parenthesis, closes none, separates nothing and changes nothing.
Opaque(w, d) ==
    /\ w \notin {"(", ")", ";"} \cup Keywords
    /\ ~(w = "bq" /\ d = "postgres") /\ ~(w = "/*!" /\ d = "mysql")

OpaqueStates(s, d, o, n, P) ==
    /\ P \subseteq (o + 1)..(o + Len(n) + 1) /\ o + 1 \in P
    /\ \A p \in P : /\ Past(s, p, d) \in P \cup {o + Len(n) + 2} /\ Past(s, p, d) > p
                    /\ Opaque(s[p], d) /\ (s[p] \in Words => n[1] \in Words)

LEMMA OpaqueSymbols ==
    /\ \A w \in {"sq", "dq", "#", "--", "/*", "$$", "$a$", "sp", "nl"} :
         w \notin Words /\ \A d : Opaque(w, d)
    /\ "bq" \notin Words /\ \A d : d # "postgres" => Opaque("bq", d)
    /\ "E" \in Words /\ \A d : Opaque("E", d)
BY DEF Opaque, Words, Keywords, Kinds

LEMMA OpaqueCrossed ==
    ASSUME NEW s \in Seq(Symbols), NEW n \in Seq(Symbols), NEW o \in Nat, At(s, o, n), NEW d,
           NEW m \in Nat, NEW P, OpaqueStates(s, d, o, n, P)
    PROVE  \E X : Crossing(s, d, o, m, n, m, X) /\ Silent(s, n, X)
<1> DEFINE X == {<<p, m>> : p \in P}
<1>1. /\ Len(n) \in Nat /\ Len(s) \in Nat /\ o + Len(n) + 1 <= Len(s)
  BY DEF At
<1>2. \A p \in P : p \in 1..Len(s) /\ p \in Nat /\ p \in (o + 1)..(o + Len(n) + 1)
  BY <1>1 DEF OpaqueStates
<1>3. ASSUME NEW p \in P PROVE Step(s, <<p, m>>, d) = <<Past(s, p, d), m>>
  BY DEF Step, OpaqueStates, Opaque
<1>4. X \subseteq States(s) /\ <<o + 1, m>> \in X
  BY <1>2 DEF States, OpaqueStates
<1>5. ASSUME NEW x \in X
      PROVE  /\ x[1] \in (o + 1)..(o + Len(n) + 1) /\ Step(s, x, d)[1] > x[1]
             /\ Step(s, x, d) \in X \cup {<<o + Len(n) + 2, m>>} /\ ~Refused(s, x, d)
             /\ s[x[1]] # ";"
             /\ x[2] = 0 /\ s[x[1]] \in Words => s[x[1]] \notin Keywords /\ n[1] \in Words
  <2>1. PICK p \in P : x = <<p, m>>
    OBVIOUS
  <2>2. Step(s, x, d) = <<Past(s, p, d), m>> /\ x[1] = p /\ x[2] = m
    BY <1>3, <2>1
  <2>3. /\ Past(s, p, d) \in P \cup {o + Len(n) + 2} /\ Past(s, p, d) > p
        /\ Opaque(s[p], d) /\ (s[p] \in Words => n[1] \in Words)
    BY DEF OpaqueStates
  <2>4. Step(s, x, d) \in X \cup {<<o + Len(n) + 2, m>>} /\ Step(s, x, d)[1] > x[1]
    BY <2>2, <2>3
  <2>5. ~Refused(s, x, d) /\ s[x[1]] # ";" /\ s[x[1]] \notin Keywords
    BY <2>2, <2>3 DEF Refused, Opaque
  <2> HIDE DEF X
  <2> QED BY <1>2, <2>2, <2>3, <2>4, <2>5
<1> HIDE DEF X
<1>6. Crossing(s, d, o, m, n, m, X) /\ Silent(s, n, X)
  BY <1>4, <1>5 DEF Crossing, Silent
<1> QED BY <1>6

LEMMA SpacePast ==
    ASSUME NEW s \in Seq(Symbols), NEW n \in Seq(Symbols), NEW o \in Nat, At(s, o, n), NEW d
    PROVE  /\ Len(n) \in Nat /\ Len(s) \in Nat /\ o + Len(n) + 1 \in 1..Len(s)
           /\ s[o + Len(n) + 1] = "sp" /\ Past(s, o + Len(n) + 1, d) = o + Len(n) + 2
           /\ SkipComment(s, o + Len(n) + 1, d) = o + Len(n) + 1
<1>1. /\ Len(n) \in Nat /\ Len(s) \in Nat /\ o + Len(n) + 1 \in 1..Len(s)
      /\ s[o + Len(n) + 1] = "sp"
  BY DEF At
<1>2. s[o + Len(n) + 1] \in Plain
  BY <1>1 DEF Plain, Spaces
<1>3. /\ Past(s, o + Len(n) + 1, d) = (o + Len(n) + 1) + 1
      /\ SkipComment(s, o + Len(n) + 1, d) = o + Len(n) + 1
  BY <1>1, <1>2, PlainPast
<1> QED BY <1>1, <1>3

LEMMA QuotedCrossed ==
    ASSUME NEW s \in Seq(Symbols), NEW n \in Seq(Symbols), NEW o \in Nat, At(s, o, n), NEW d,
           NEW m \in Nat, IsQuoted(n, d)
    PROVE  \E X : Crossing(s, d, o, m, n, m, X) /\ Silent(s, n, X)
<1>1. PICK i \in 1..2 : /\ i < Len(n) /\ Opens(n, i, d) /\ n[Len(n)] = n[i]
                        /\ Quotes(n, i, Len(n) - 1, Backslash(n, i, d))
  BY DEF IsQuoted
<1> DEFINE P == {o + 1, o + i, o + Len(n) + 1}
<1>2. /\ Len(n) \in Nat /\ Len(s) \in Nat /\ o + Len(n) + 1 \in 1..Len(s)
      /\ s[o + Len(n) + 1] = "sp" /\ Past(s, o + Len(n) + 1, d) = o + Len(n) + 2
  BY SpacePast
<1>3. Past(s, o + i, d) = o + Len(n) + 1
  BY <1>1, QuotedPast
<1>4. s[o + i] = n[i] /\ s[o + 1] = n[1] /\ n[i] \in {"sq", "dq", "bq"}
      /\ ~(n[i] = "bq" /\ d = "postgres") /\ (i = 2 => n[1] = "E")
  <2>1. i \in 1..Len(n) /\ 1 \in 1..Len(n)
    BY <1>1, <1>2
  <2>2. s[o + i] = n[i] /\ s[o + 1] = n[1]
    BY <2>1, WithinToken
  <2>3. n[i] \in {"sq", "dq", "bq"} /\ ~(n[i] = "bq" /\ d = "postgres") /\ (i = 2 => n[1] = "E")
    BY <1>1 DEF Opens
  <2> QED BY <2>2, <2>3
<1>5. i = 2 => Past(s, o + 1, d) = o + i
  <2>1. i = 2 => s[o + 1] \in Plain
    BY <1>4 DEF Plain, Words
  <2>2. o + 1 \in 1..Len(s) /\ o + 1 + 1 = o + 2
    BY <1>2
  <2> QED BY <2>1, <2>2, PlainPast
<1>6. P \subseteq (o + 1)..(o + Len(n) + 1)
  BY <1>1, <1>2
<1>7. ASSUME NEW p \in P
      PROVE  /\ Past(s, p, d) \in P \cup {o + Len(n) + 2} /\ Past(s, p, d) > p
             /\ Opaque(s[p], d) /\ (s[p] \in Words => n[1] \in Words)
  <2>1. CASE p = o + i
    BY <1>1, <1>2, <1>3, <1>4, <2>1, OpaqueSymbols
  <2>2. CASE p = o + 1 /\ i = 2
    BY <1>1, <1>2, <1>4, <1>5, <2>2, OpaqueSymbols
  <2>3. CASE p = o + Len(n) + 1
    BY <1>1, <1>2, <2>3, OpaqueSymbols
  <2> QED BY <2>1, <2>2, <2>3
<1>8. o + 1 \in P
  OBVIOUS
<1> HIDE DEF P
<1>9. OpaqueStates(s, d, o, n, P)
  BY <1>6, <1>7, <1>8 DEF OpaqueStates
<1> QED BY <1>9, OpaqueCrossed

LEMMA DollarQuotedCrossed ==
    ASSUME NEW s \in Seq(Symbols), NEW n \in Seq(Symbols), NEW o \in Nat, At(s, o, n), NEW d,
           NEW m \in Nat, IsDollarQuoted(n, d)
    PROVE  \E X : Crossing(s, d, o, m, n, m, X) /\ Silent(s, n, X)
<1> DEFINE P == {o + 1, o + Len(n) + 1}
<1>1. /\ Len(n) \in Nat /\ Len(s) \in Nat /\ o + Len(n) + 1 \in 1..Len(s)
      /\ s[o + Len(n) + 1] = "sp" /\ Past(s, o + Len(n) + 1, d) = o + Len(n) + 2
  BY SpacePast
<1>2. Len(n) > 1 /\ n[1] \in Delimiters /\ d = "postgres"
  BY DEF IsDollarQuoted
<1>3. Past(s, o + 1, d) = o + Len(n) + 1
  BY <1>2, DollarPast
<1>4. s[o + 1] = n[1]
  <2>1. 1 \in 1..Len(n)
    BY <1>1, <1>2
  <2> QED BY <2>1 DEF At
<1>5. P \subseteq (o + 1)..(o + Len(n) + 1)
  BY <1>1
<1>6. ASSUME NEW p \in P
      PROVE  /\ Past(s, p, d) \in P \cup {o + Len(n) + 2} /\ Past(s, p, d) > p
             /\ Opaque(s[p], d) /\ (s[p] \in Words => n[1] \in Words)
  <2>1. CASE p = o + 1
    BY <1>1, <1>2, <1>3, <1>4, <2>1, OpaqueSymbols DEF Delimiters
  <2>2. CASE p = o + Len(n) + 1
    BY <1>1, <2>2, OpaqueSymbols
  <2> QED BY <2>1, <2>2
<1>7. o + 1 \in P
  OBVIOUS
<1> HIDE DEF P
<1>8. OpaqueStates(s, d, o, n, P)
  BY <1>5, <1>6, <1>7 DEF OpaqueStates
<1> QED BY <1>8, OpaqueCrossed

LEMMA CommentCrossed ==
    ASSUME NEW s \in Seq(Symbols), NEW n \in Seq(Symbols), NEW o \in Nat, At(s, o, n),
           NEW d \in Dialects, NEW m \in Nat, IsLineComment(n, d) \/ IsBlockComment(n, d)
    PROVE  \E X : Crossing(s, d, o, m, n, m, X) /\ Silent(s, n, X)
<1> DEFINE q == IF IsLineComment(n, d) THEN o + Len(n) ELSE o + Len(n) + 1
           P == {o + 1, q, o + Len(n) + 1}
<1>1. /\ Len(n) \in Nat /\ Len(s) \in Nat /\ o + Len(n) + 1 \in 1..Len(s)
      /\ s[o + Len(n) + 1] = "sp" /\ Past(s, o + Len(n) + 1, d) = o + Len(n) + 2
  BY SpacePast
<1>2. Len(n) > 1 /\ n[1] \in {"#", "--", "/*"}
  BY DEF IsLineComment, IsBlockComment
<1>3. Past(s, o + 1, d) = q
  BY LineCommentSkipped, BlockCommentSkipped
<1>4. s[o + 1] = n[1] /\ (IsLineComment(n, d) => s[o + Len(n)] = "nl")
  <2>1. 1 \in 1..Len(n) /\ Len(n) \in 1..Len(n)
    BY <1>1, <1>2
  <2> QED BY <2>1 DEF At, IsLineComment
<1>5. IsLineComment(n, d) => Past(s, o + Len(n), d) = o + Len(n) + 1
  <2>1. IsLineComment(n, d) => s[o + Len(n)] \in Plain
    BY <1>4 DEF Plain, Spaces
  <2>2. o + Len(n) \in 1..Len(s)
    BY <1>1, <1>2
  <2> QED BY <2>1, <2>2, PlainPast
<1>6. P \subseteq (o + 1)..(o + Len(n) + 1)
  BY <1>1, <1>2
<1>7. ASSUME NEW p \in P
      PROVE  /\ Past(s, p, d) \in P \cup {o + Len(n) + 2} /\ Past(s, p, d) > p
             /\ Opaque(s[p], d) /\ (s[p] \in Words => n[1] \in Words)
  <2>1. CASE p = o + 1
    BY <1>1, <1>2, <1>3, <1>4, <2>1, OpaqueSymbols
  <2>2. CASE p = o + Len(n) + 1
    BY <1>1, <2>2, OpaqueSymbols
  <2>3. CASE p = o + Len(n) /\ IsLineComment(n, d)
    BY <1>1, <1>4, <1>5, <2>3, OpaqueSymbols
  <2> QED BY <2>1, <2>2, <2>3
<1>8. o + 1 \in P
  OBVIOUS
<1> HIDE DEF P
<1>9. OpaqueStates(s, d, o, n, P)
  BY <1>6, <1>7, <1>8 DEF OpaqueStates
<1> QED BY <1>9, OpaqueCrossed

LEMMA StepAt ==
    ASSUME NEW s, NEW p \in Nat, NEW m \in Nat, NEW d
    PROVE  /\ s[p] = "(" => Step(s, <<p, m>>, d) = <<p + 1, m + 1>>
           /\ s[p] = ")" => Step(s, <<p, m>>, d) = <<p + 1, IF m = 0 THEN 0 ELSE m - 1>>
           /\ s[p] \notin {"(", ")"} => Step(s, <<p, m>>, d) = <<Past(s, p, d), m>>
           /\ (s[p] = ")" => m # 0) /\ s[p] \notin {"bq", "/*!"} => ~Refused(s, <<p, m>>, d)
BY DEF Step, Refused

LEMMA SymbolsApart ==
    /\ Marks \cap Words = {} /\ Keywords \subseteq Words
    /\ \A w \in Words \cup Marks : /\ w \in Plain /\ w \notin {"bq", "/*!", "--", "sp", "nl"}
                                  /\ w \notin {"sq", "dq", "#", "/*", "$$", "$a$"}
    /\ {"(", ")", ";"} \subseteq Marks /\ "sp" \in Plain /\ "sp" \notin Words
BY DEF Marks, Words, Keywords, Kinds, Plain, Spaces

\* Words, marks and parentheses are gone through one by one.
LEMMA ExpressionCrossed ==
    ASSUME NEW s \in Seq(Symbols), NEW n \in Seq(Symbols), NEW o \in Nat, At(s, o, n),
           NEW d, NEW m \in Nat, IsExpression(n, d)
    PROVE  \E X : Crossing(s, d, o, m, n, m, X) /\ Silent(s, n, X)
<1> DEFINE X == {<<o + q, m + Depth(n, q - 1)>> : q \in 1..(Len(n) + 1)}
<1>1. /\ Len(n) \in Nat /\ Len(s) \in Nat /\ o + Len(n) + 1 \in 1..Len(s)
      /\ s[o + Len(n) + 1] = "sp" /\ Past(s, o + Len(n) + 1, d) = o + Len(n) + 2
  BY SpacePast
<1>2. /\ \A i \in 1..Len(n) : n[i] \in Words \cup (Marks \ {";"})
                              \/ (i \in 2..(Len(n) - 1) /\ n[i] = "--" /\ d = "mysql")
      /\ \A i \in 1..Len(n) : Depth(n, i) >= 0
      /\ Depth(n, Len(n)) = 0
      /\ \A i \in Outer(n) : n[i] \notin Keywords /\ n[1] \in Words
  <2>1. DOMAIN n = 1..Len(n)
    OBVIOUS
  <2> QED BY <2>1 DEF IsExpression, Balanced
<1>3. ASSUME NEW q \in 1..(Len(n) + 1)
      PROVE  q - 1 \in Nat /\ Depth(n, q - 1) \in Nat
  <2>1. q - 1 \in Nat /\ Depth(n, q - 1) \in Int /\ Depth(n, 0) = 0
    BY <1>1, DepthSteps
  <2>2. CASE q = 1
    BY <2>1, <2>2
  <2>3. CASE q # 1
    <3>1. q - 1 \in 1..Len(n)
      BY <1>1, <2>3
    <3>2. Depth(n, q - 1) >= 0
      BY <1>2, <3>1
    <3> QED BY <2>1, <3>2
  <2> QED BY <2>2, <2>3
<1>4. ASSUME NEW q \in 1..Len(n)
      PROVE  /\ Step(s, <<o + q, m + Depth(n, q - 1)>>, d) = <<o + q + 1, m + Depth(n, q)>>
             /\ ~Refused(s, <<o + q, m + Depth(n, q - 1)>>, d) /\ s[o + q] # ";"
             /\ m + Depth(n, q - 1) = 0 /\ s[o + q] \in Words =>
                  s[o + q] \notin Keywords /\ n[1] \in Words
  <2> DEFINE h == Depth(n, q - 1)
             x == <<o + q, m + h>>
  <2>1. q \in Nat /\ q > 0 /\ q \in 1..(Len(n) + 1) /\ q + 1 \in 1..(Len(n) + 1) /\ (q + 1) - 1 = q
    BY <1>1
  <2>2. h \in Nat /\ Depth(n, q) \in Nat
    BY <1>3, <2>1
  <2>3. /\ o + q \in 1..Len(s) /\ s[o + q] = n[q]
        /\ q # Len(n) => s[o + q + 1] = n[q + 1]
    BY WithinToken
  <2>4. Depth(n, q) = CASE n[q] = "(" -> h + 1 [] n[q] = ")" -> h - 1 [] OTHER -> h
    BY <2>1, DepthSteps
  <2>9. SUFFICES /\ Step(s, x, d) = <<o + q + 1, m + Depth(n, q)>>
                 /\ ~Refused(s, x, d) /\ n[q] # ";"
                 /\ m + h = 0 /\ n[q] \in Words => n[q] \notin Keywords /\ n[1] \in Words
    BY <2>3, <2>9
  <2> HIDE DEF h
  <2>8. o + q \in Nat /\ m + h \in Nat
    BY <2>2, <2>3
  <2>5. CASE n[q] = "("
    <3>1. Step(s, x, d) = <<o + q + 1, m + Depth(n, q)>>
      <4>1. m + h + 1 = m + Depth(n, q)
        BY <2>2, <2>4, <2>5
      <4>2. Step(s, x, d) = <<o + q + 1, m + h + 1>>
        BY <2>3, <2>5, <2>8, StepAt
      <4> QED BY <4>1, <4>2
    <3>2. ~Refused(s, x, d)
      BY <2>3, <2>5, <2>8, StepAt
    <3>3. n[q] \notin Words /\ n[q] # ";"
      BY <2>5, SymbolsApart
    <3> QED BY <3>1, <3>2, <3>3
  <2>6. CASE n[q] = ")"
    <3>1. h - 1 = Depth(n, q) /\ m + h # 0 /\ m + h - 1 = m + Depth(n, q)
      BY <2>2, <2>4, <2>6
    <3>2. Step(s, x, d) = <<o + q + 1, m + Depth(n, q)>>
      <4>1. Step(s, x, d) = <<o + q + 1, m + h - 1>>
        <5>1. s[o + q] = ")"
          BY <2>3, <2>6
        <5>2. Step(s, x, d) = <<(o + q) + 1, IF m + h = 0 THEN 0 ELSE (m + h) - 1>>
          BY <2>8, <5>1, StepAt
        <5> QED BY <2>2, <3>1, <5>2
      <4> QED BY <3>1, <4>1
    <3>3. ~Refused(s, x, d)
      BY <2>3, <2>6, <2>8, <3>1, StepAt
    <3>4. n[q] \notin Words /\ n[q] # ";"
      BY <2>6, SymbolsApart
    <3> QED BY <3>2, <3>3, <3>4
  <2>7. CASE n[q] \notin {"(", ")"}
    <3>1. h = Depth(n, q)
      BY <2>4, <2>7
    <3>2. CASE n[q] \in Words \cup (Marks \ {";"})
      <4>1. n[q] \in Plain /\ n[q] \notin {"bq", "/*!", ";"}
        BY <3>2, SymbolsApart
      <4>2. Past(s, o + q, d) = o + q + 1
        BY <2>3, <4>1, PlainPast
      <4>3. Step(s, x, d) = <<o + q + 1, m + Depth(n, q)>>
        BY <2>3, <2>7, <2>8, <3>1, <4>2, StepAt
      <4>4. ~Refused(s, x, d)
        BY <2>3, <2>7, <2>8, <4>1, StepAt
      <4>5. ASSUME m + h = 0, n[q] \in Words PROVE n[q] \notin Keywords /\ n[1] \in Words
        <5>1. Depth(n, q) = 0
          BY <2>2, <3>1, <4>5
        <5>2. q \in Outer(n)
          BY <1>1, <4>5, <5>1 DEF Outer
        <5> QED BY <1>2, <5>2
      <4> HIDE DEF x
      <4> QED BY <4>1, <4>3, <4>4, <4>5
    <3>3. CASE n[q] = "--" /\ d = "mysql" /\ q \in 2..(Len(n) - 1)
      <4>1. q + 1 \in 1..Len(n) /\ q \in 1..(Len(n) - 1)
        BY <1>1, <3>3
      <4>2. n[q + 1] \notin Spaces
        BY <1>2, <4>1, SymbolsApart DEF Spaces
      <4>3. Past(s, o + q, d) = o + q + 1
        BY <3>3, <4>1, <4>2, DashPast
      <4>4. Step(s, x, d) = <<o + q + 1, m + Depth(n, q)>>
        BY <2>3, <2>7, <2>8, <3>1, <4>3, StepAt
      <4>5. ~Refused(s, x, d)
        BY <2>3, <2>8, <3>3, StepAt
      <4>6. n[q] \notin Words /\ n[q] # ";"
        BY <3>3, SymbolsApart
      <4> HIDE DEF x
      <4> QED BY <4>4, <4>5, <4>6
    <3> QED BY <1>2, <3>2, <3>3
  <2> QED BY <2>5, <2>6, <2>7
<1>5. LET x == <<o + (Len(n) + 1), m + Depth(n, (Len(n) + 1) - 1)>>
      IN  /\ x = <<o + Len(n) + 1, m>>
          /\ Step(s, x, d) = <<o + Len(n) + 2, m>>
          /\ ~Refused(s, x, d) /\ s[x[1]] = "sp"
  <2>1. (Len(n) + 1) - 1 = Len(n) /\ o + (Len(n) + 1) = o + Len(n) + 1 /\ m + 0 = m
    BY <1>1
  <2>2. Step(s, <<o + Len(n) + 1, m>>, d) = <<o + Len(n) + 2, m>>
    BY <1>1, StepAt
  <2>3. ~Refused(s, <<o + Len(n) + 1, m>>, d)
    BY <1>1 DEF Refused
  <2> QED BY <1>1, <1>2, <2>1, <2>2, <2>3
<1>6. X \subseteq States(s)
  <2>1. ASSUME NEW q \in 1..(Len(n) + 1) PROVE <<o + q, m + Depth(n, q - 1)>> \in States(s)
    <3>1. o + q \in 1..Len(s) /\ m + Depth(n, q - 1) \in Nat
      BY <1>1, <1>3
    <3> QED BY <3>1 DEF States
  <2> QED BY <2>1
<1>7. <<o + 1, m>> \in X
  <2>1. 1 \in 1..(Len(n) + 1) /\ 1 - 1 = 0 /\ Depth(n, 0) = 0 /\ m + 0 = m
    BY <1>1, DepthSteps
  <2> QED BY <2>1
<1>8. ASSUME NEW x \in X
      PROVE  /\ x[1] \in (o + 1)..(o + Len(n) + 1) /\ Step(s, x, d)[1] > x[1]
             /\ Step(s, x, d) \in X \cup {<<o + Len(n) + 2, m>>} /\ ~Refused(s, x, d)
             /\ s[x[1]] # ";"
             /\ x[2] = 0 /\ s[x[1]] \in Words => s[x[1]] \notin Keywords /\ n[1] \in Words
  <2>1. PICK q \in 1..(Len(n) + 1) : x = <<o + q, m + Depth(n, q - 1)>>
    OBVIOUS
  <2>2. q \in Nat /\ x[1] = o + q /\ x[1] \in (o + 1)..(o + Len(n) + 1)
    BY <1>1, <2>1
  <2>3. CASE q = Len(n) + 1
    <3>1. x = <<o + Len(n) + 1, m>> /\ Step(s, x, d) = <<o + Len(n) + 2, m>>
          /\ ~Refused(s, x, d) /\ s[x[1]] = "sp"
      BY <1>5, <2>1, <2>3
    <3>2. x[1] = o + Len(n) + 1 /\ "sp" \notin Words /\ "sp" # ";"
      BY <3>1, SymbolsApart
    <3> HIDE DEF X
    <3> QED BY <1>1, <3>1, <3>2
  <2>4. CASE q # Len(n) + 1
    <3>1. q \in 1..Len(n) /\ q + 1 \in 1..(Len(n) + 1) /\ (q + 1) - 1 = q /\ o + (q + 1) = o + q + 1
      <4>1. q \in 1..(Len(n) + 1) /\ Len(n) \in Nat /\ q # Len(n) + 1
        BY <1>1, <2>4
      <4> HIDE DEF X
      <4> QED BY <4>1
    <3>2. /\ Step(s, x, d) = <<o + q + 1, m + Depth(n, q)>>
          /\ ~Refused(s, x, d) /\ s[o + q] # ";"
          /\ x[2] = 0 /\ s[o + q] \in Words => s[o + q] \notin Keywords /\ n[1] \in Words
      BY <1>4, <2>1, <3>1
    <3>5. o + q + 1 > o + q
      BY <2>2
    <3>3. <<o + q + 1, m + Depth(n, q)>> \in X
      <4>1. <<o + (q + 1), m + Depth(n, (q + 1) - 1)>> \in X
        BY <3>1
      <4> HIDE DEF X
      <4> QED BY <3>1, <4>1
    <3>4. Step(s, x, d)[1] > x[1]
      <4> HIDE DEF X
      <4>1. Step(s, x, d)[1] = o + q + 1
        <5>1. Step(s, x, d) = <<o + q + 1, m + Depth(n, q)>>
          BY <3>2
        <5> QED BY ONLY <5>1
      <4> QED BY <2>2, <3>5, <4>1
    <3> HIDE DEF X
    <3> QED BY <2>2, <3>2, <3>3, <3>4
  <2> QED BY <2>3, <2>4
<1> HIDE DEF X
<1>9. Crossing(s, d, o, m, n, m, X) /\ Silent(s, n, X)
  BY <1>6, <1>7, <1>8 DEF Crossing, Silent
<1> QED BY <1>9

LEMMA HarmlessCrossed ==
    ASSUME NEW s \in Seq(Symbols), NEW n \in Seq(Symbols), NEW o \in Nat, At(s, o, n),
           NEW d \in Dialects, NEW m \in Nat, Harmless(n, d)
    PROVE  \E X : Crossing(s, d, o, m, n, m, X) /\ Silent(s, n, X)
BY QuotedCrossed, DollarQuotedCrossed, CommentCrossed, ExpressionCrossed DEF Harmless

\* The depth behind a symbol that stands at depth m.
Deeper(w, m) == IF w = "(" THEN m + 1 ELSE IF w = ")" THEN m - 1 ELSE m

LEMMA SymbolCrossed ==
    ASSUME NEW s \in Seq(Symbols), NEW w \in Words \cup Marks, NEW o \in Nat, At(s, o, <<w>>),
           NEW d, NEW m \in Nat, Deeper(w, m) \in Nat
    PROVE  Crossing(s, d, o, m, <<w>>, Deeper(w, m), {<<o + 1, m>>, <<o + 2, Deeper(w, m)>>})
<1> DEFINE m2 == Deeper(w, m)
           X == {<<o + 1, m>>, <<o + 2, m2>>}
<1>1. /\ Len(s) \in Nat /\ o + 1 \in 1..Len(s) /\ o + 2 \in 1..Len(s) /\ Len(<<w>>) = 1
      /\ s[o + 1] = w /\ s[o + 2] = "sp"
  BY DEF At
<1>2. w \in Plain /\ w \notin {"bq", "/*!"} /\ "sp" \in Plain
  BY SymbolsApart
<1>3. Past(s, o + 1, d) = o + 2 /\ Past(s, o + 2, d) = o + 3
  <2>1. o + 1 + 1 = o + 2 /\ o + 2 + 1 = o + 3
    OBVIOUS
  <2> QED BY <1>1, <1>2, <2>1, PlainPast
<1>4. Step(s, <<o + 1, m>>, d) = <<o + 2, m2>> /\ ~Refused(s, <<o + 1, m>>, d)
  <2>1. CASE w = "("
    BY <1>1, <2>1, StepAt DEF Deeper, Refused
  <2>2. CASE w = ")"
    <3>1. m # 0 /\ m2 = m - 1
      BY <2>2 DEF Deeper
    <3> QED BY <1>1, <2>2, <3>1, StepAt DEF Refused
  <2>3. CASE w \notin {"(", ")"}
    BY <1>1, <1>2, <1>3, <2>3, StepAt DEF Deeper, Refused
  <2> QED BY <2>1, <2>2, <2>3
<1>5. Step(s, <<o + 2, m2>>, d) = <<o + 3, m2>> /\ ~Refused(s, <<o + 2, m2>>, d)
  BY <1>1, <1>3, StepAt DEF Refused
<1> HIDE DEF m2
<1>6. X \subseteq States(s)
  BY <1>1 DEF States, m2
<1>7. \A x \in X : /\ x[1] \in (o + 1)..(o + Len(<<w>>) + 1)
                   /\ Step(s, x, d)[1] > x[1]
                   /\ Step(s, x, d) \in X \cup {<<o + Len(<<w>>) + 2, m2>>}
                   /\ ~Refused(s, x, d)
  <2>1. o + Len(<<w>>) + 1 = o + 2 /\ o + Len(<<w>>) + 2 = o + 3
    BY <1>1
  <2>2. \A p, h, k : <<p, h>>[1] = p
    OBVIOUS
  <2>3. ASSUME NEW x \in X, x = <<o + 1, m>>
        PROVE  /\ x[1] = o + 1 /\ Step(s, x, d) = <<o + 2, m2>> /\ Step(s, x, d)[1] = o + 2
               /\ ~Refused(s, x, d)
    BY <1>4, <2>2, <2>3
  <2>4. ASSUME NEW x \in X, x = <<o + 2, m2>>
        PROVE  /\ x[1] = o + 2 /\ Step(s, x, d) = <<o + 3, m2>> /\ Step(s, x, d)[1] = o + 3
               /\ ~Refused(s, x, d)
    BY <1>5, <2>2, <2>4
  <2> QED BY <2>1, <2>3, <2>4
<1> QED BY <1>6, <1>7 DEF Crossing, m2

LEMMA UncertainRead ==
    ASSUME NEW s \in Seq(Symbols), NEW n \in Seq(Symbols), NEW o \in Nat, At(s, o, n),
           NEW d \in Dialects, NEW m \in Nat, Uncertain(n, d), Len(n) > 0
    PROVE  /\ o + 1 \in 1..Len(s) /\ s[o + 1] # ";"
           /\ \/ Refused(s, <<o + 1, m>>, d)
              \/ Step(s, <<o + 1, m>>, d) = <<0, m>>
              \/ /\ o + 2 \in 1..Len(s) /\ s[o + 2] # ";"
                 /\ Step(s, <<o + 1, m>>, d) = <<o + 2, m>>
                 /\ Step(s, <<o + 2, m>>, d) = <<0, m>>
<1>1. /\ 1 \in 1..Len(n) /\ s[o + 1] = n[1] /\ o + 1 \in 1..Len(s)
  <2>1. 1 \in 1..Len(n)
    OBVIOUS
  <2> QED BY <2>1, WithinToken
<1>2. CASE IsExecutableComment(n, d)
  BY <1>1, <1>2 DEF IsExecutableComment, Refused
<1>3. CASE IsUncertainQuote(n, d)
  <2>1. PICK i \in 1..2 :
          /\ i < Len(n) /\ Opens(n, i, d) /\ Backslash(n, i, d) = "refuse"
          /\ \E k \in (i + 1)..Len(n) : n[k] = "bs" /\ Quotes(n, i, k - 1, "refuse")
    BY <1>3 DEF IsUncertainQuote
  <2>2. Past(s, o + i, d) = 0
    BY <2>1, UncertainPast DEF Refusal
  <2>3. i \in 1..Len(n) /\ o + i \in 1..Len(s) /\ s[o + i] = n[i] /\ n[i] \in {"sq", "dq", "bq"}
    <3>1. i \in 1..Len(n)
      BY <2>1
    <3> QED BY <2>1, <3>1, WithinToken DEF Opens
  <2>4. Step(s, <<o + i, m>>, d) = <<0, m>> /\ s[o + i] # ";"
    <3>1. o + i \in Nat
      BY <2>3
    <3>2. s[o + i] \notin {"(", ")", ";"}
      BY <2>3
    <3>3. Step(s, <<o + i, m>>, d) = <<Past(s, o + i, d), m>>
      <4>1. s[o + i] \notin {"(", ")"}
        BY <3>2
      <4> QED BY ONLY <3>1, <4>1, m \in Nat, StepAt
    <3> QED BY <2>2, <3>2, <3>3
  <2>5. CASE i = 1
    BY <1>1, <2>4, <2>5
  <2>6. CASE i = 2
    <3>1. n[1] = "E"
      BY <2>1, <2>6 DEF Opens
    <3>2. s[o + 1] \in Plain
      BY <1>1, <3>1 DEF Plain, Words
    <3>3. Past(s, o + 1, d) = o + 2
      <4>1. o + 1 + 1 = o + 2
        OBVIOUS
      <4> QED BY <1>1, <3>2, <4>1, PlainPast
    <3>4. Step(s, <<o + 1, m>>, d) = <<o + 2, m>>
      BY <1>1, <3>1, <3>3, StepAt
    <3> QED BY <1>1, <2>3, <2>4, <2>6, <3>1, <3>4
  <2>7. i = 1 \/ i = 2
    OBVIOUS
  <2> QED BY <2>5, <2>6, <2>7, Zenon
<1> QED BY <1>2, <1>3 DEF Uncertain

-----------------------------------------------------------------------------
(* What the loops over a text visit. *)

\* A loop that ends at the states E, or behind the text, or at text it refuses.
Loop(s, d, E) == [x \in States(s) |-> IF x \in E THEN x ELSE Step(s, x, d)]
Visited(s, d, E) == ToSet(Walk(Loop(s, d, E), Start, Len(s)))
End(s, d, E) == Last(Walk(Loop(s, d, E), Start, Len(s)))

LEMMA StepForward ==
    ASSUME NEW s \in Seq(Symbols), NEW d, NEW x \in States(s)
    PROVE  /\ Step(s, x, d) \in Nat \X Nat
           /\ Step(s, x, d)[1] \in {0} \cup (x[1] + 1)..Behind(s)
<1>1. PICK p \in 1..Len(s), m \in Nat : x = <<p, m>>
  BY DEF States
<1>2. /\ Len(s) \in Nat /\ Behind(s) = Len(s) + 1 /\ p \in Nat
      /\ Past(s, p, d) \in {0} \cup (p + 1)..Behind(s)
  BY PastForward DEF Behind
<1>3. p + 1 \in (p + 1)..Behind(s)
  BY <1>2
<1>4. x[1] = p /\ x[2] = m
  BY <1>1
<1>5. CASE s[p] = "("
  <2>1. Step(s, x, d) = <<p + 1, m + 1>>
    BY <1>1, <1>2, <1>5, StepAt
  <2> QED BY <1>2, <1>3, <1>4, <2>1
<1>6. CASE s[p] = ")"
  <2>1. Step(s, x, d) = <<p + 1, IF m = 0 THEN 0 ELSE m - 1>>
    BY <1>1, <1>2, <1>6, StepAt
  <2>2. (IF m = 0 THEN 0 ELSE m - 1) \in Nat
    OBVIOUS
  <2> QED BY <1>2, <1>3, <1>4, <2>1, <2>2
<1>7. CASE s[p] \notin {"(", ")"}
  <2>1. Step(s, x, d) = <<Past(s, p, d), m>>
    BY <1>1, <1>2, <1>7, StepAt
  <2> QED BY <1>2, <1>4, <2>1
<1> QED BY <1>5, <1>6, <1>7

LEMMA LoopWalks ==
    ASSUME NEW s \in Seq(Symbols), NEW d, NEW E
    PROVE  LET w == Walk(Loop(s, d, E), Start, Len(s))
           IN  /\ w \in Seq(Nat \X Nat)
               /\ Walks(Loop(s, d, E), Start, w)
               /\ Ended(Loop(s, d, E), Last(w))
<1> DEFINE next == Loop(s, d, E)
           A == Nat \X Nat
           rank == [x \in A |-> IF x[1] \in 1..Len(s) THEN Behind(s) - x[1] ELSE 0]
<1>1. Len(s) \in Nat /\ Behind(s) = Len(s) + 1
  BY DEF Behind
<1>2. ASSUME NEW x \in A \cap DOMAIN next
      PROVE  next[x] \in A /\ (next[x] # x => rank[next[x]] < rank[x])
  <2>1. x \in States(s) /\ next[x] = (IF x \in E THEN x ELSE Step(s, x, d))
    BY DEF Loop
  <2>2. x[1] \in 1..Len(s)
    BY <2>1 DEF States
  <2>3. /\ Step(s, x, d) \in A
        /\ Step(s, x, d)[1] \in {0} \cup (x[1] + 1)..Behind(s)
    BY <2>1, StepForward
  <2>4. CASE x \in E
    BY <2>1, <2>4
  <2>5. CASE x \notin E
    <3>1. next[x] = Step(s, x, d)
      BY <2>1, <2>5
    <3> HIDE DEF next
    <3>2. rank[next[x]] = IF next[x][1] \in 1..Len(s) THEN Behind(s) - next[x][1] ELSE 0
      BY <2>3, <3>1
    <3>3. rank[x] = Behind(s) - x[1]
      BY <2>2
    <3> HIDE DEF rank, A
    <3> QED BY <1>1, <2>2, <2>3, <3>1, <3>2, <3>3
  <2> QED BY <2>4, <2>5
<1>3. \A x \in A : rank[x] \in Nat
  BY <1>1
<1>4. Start \in A /\ rank[Start] <= Len(s)
  <2>1. Start \in A /\ Start[1] = 1
    BY DEF Start
  <2>2. rank[Start] = IF 1 \in 1..Len(s) THEN Behind(s) - 1 ELSE 0
    BY <2>1
  <2> HIDE DEF rank, A
  <2> QED BY <1>1, <2>1, <2>2
<1> HIDE DEF next, A, rank
<1>5. LET w == Walk(next, Start, Len(s))
      IN  w \in Seq(A) /\ Walks(next, Start, w) /\ Ended(next, Last(w))
  BY <1>1, <1>2, <1>3, <1>4, WalkEnds
<1> QED BY <1>5 DEF next, A

\* A set that holds the start and is left only from the states E.
ClosedFrom(V, s, d, E) ==
    Start \in V /\ \A x \in V \cap States(s) : x \notin E => Step(s, x, d) \in V

LEMMA Scanned ==
    ASSUME NEW s \in Seq(Symbols), NEW d, NEW E
    PROVE  /\ ClosedFrom(Visited(s, d, E), s, d, E)
           /\ End(s, d, E) \in Visited(s, d, E)
           /\ End(s, d, E) \in States(s) => End(s, d, E) \in E
           /\ \A x \in Visited(s, d, E) : x \in E \/ x \notin States(s) => x = End(s, d, E)
<1> DEFINE next == Loop(s, d, E)
           w == Walk(next, Start, Len(s))
<1>1. w \in Seq(Nat \X Nat) /\ Walks(next, Start, w) /\ Ended(next, Last(w))
  BY LoopWalks
<1>2. Visited(s, d, E) = ToSet(w) /\ End(s, d, E) = Last(w)
  BY DEF Visited, End
<1>3. DOMAIN next = States(s) /\ \A x \in States(s) : next[x] = IF x \in E THEN x ELSE Step(s, x, d)
  BY DEF Loop
<1> HIDE DEF next, w
<1>4. /\ Start \in ToSet(w) /\ Last(w) \in ToSet(w)
      /\ \A x \in ToSet(w) \cap DOMAIN next : next[x] \in ToSet(w)
      /\ \A x \in ToSet(w) : Ended(next, x) => x = Last(w)
  BY <1>1, WalkVisits
<1>5. ClosedFrom(ToSet(w), s, d, E)
  BY <1>3, <1>4 DEF ClosedFrom
<1>6. ASSUME Last(w) \in States(s), Last(w) \notin E PROVE FALSE
  <2>1. Step(s, Last(w), d) = Last(w)
    BY <1>1, <1>3, <1>6 DEF Ended
  <2>2. Last(w)[1] \in 1..Len(s)
    BY <1>6 DEF States
  <2>3. Step(s, Last(w), d)[1] \in {0} \cup (Last(w)[1] + 1)..Behind(s)
    BY <1>6, StepForward
  <2> QED BY <2>1, <2>2, <2>3
<1>7. ASSUME NEW x \in ToSet(w), x \in E \/ x \notin States(s) PROVE x = Last(w)
  BY <1>3, <1>4, <1>7 DEF Ended
<1> QED BY <1>2, <1>4, <1>5, <1>6, <1>7

LEMMA ScansWithin ==
    ASSUME NEW s \in Seq(Symbols), NEW d, NEW E, NEW V, ClosedFrom(V, s, d, E)
    PROVE  Visited(s, d, E) \subseteq V
<1> DEFINE next == Loop(s, d, E)
           w == Walk(next, Start, Len(s))
<1>1. Walks(next, Start, w)
  BY LoopWalks
<1>2. Start \in V /\ \A x \in V \cap DOMAIN next : next[x] \in V
  BY DEF ClosedFrom, Loop
<1> HIDE DEF next, w
<1>3. ToSet(w) \subseteq V
  BY <1>1, <1>2, WalkWithin
<1> QED BY <1>3 DEF Visited, next, w

\* A loop that ends earlier visits nothing that the loop over the whole text does not.
LEMMA ScansLess ==
    ASSUME NEW s \in Seq(Symbols), NEW d, NEW E
    PROVE  Visited(s, d, E) \subseteq Visited(s, d, {})
<1>1. ClosedFrom(Visited(s, d, {}), s, d, {})
  BY Scanned
<1>2. ClosedFrom(Visited(s, d, {}), s, d, E)
  BY <1>1 DEF ClosedFrom
<1> QED BY <1>2, ScansWithin

LEMMA CrossedOver ==
    ASSUME NEW s \in Seq(Symbols), NEW d, NEW o \in Nat, NEW m, NEW n \in Seq(Symbols), NEW m2,
           NEW X, Crossing(s, d, o, m, n, m2, X),
           NEW E, X \cap E = {}, NEW V, ClosedFrom(V, s, d, E), <<o + 1, m>> \in V
    PROVE  <<o + Len(n) + 2, m2>> \in V
<1> DEFINE last == o + Len(n) + 1
           left == {last - x[1] : x \in X \cap V}
<1>1. Len(n) \in Nat /\ last \in Nat
  OBVIOUS
<1>2. ASSUME NEW x \in X
      PROVE  x[1] \in (o + 1)..last /\ x[1] \in Nat /\ Step(s, x, d)[1] > x[1] /\ x \in States(s)
             /\ Step(s, x, d) \in X \cup {<<o + Len(n) + 2, m2>>}
  BY <1>1 DEF Crossing
<1>3. left \subseteq Nat /\ left # {}
  <2>1. \A x \in X : last - x[1] \in Nat
    BY <1>1, <1>2
  <2>2. <<o + 1, m>> \in X \cap V
    BY DEF Crossing
  <2> QED BY <2>1, <2>2
<1>4. PICK k \in left : \A j \in left : k <= j
  <2> HIDE DEF left
  <2> QED BY <1>3, LeastNumber
<1>5. PICK x \in X \cap V : k = last - x[1]
  OBVIOUS
<1>6. Step(s, x, d) \in V
  BY <1>2, <1>5 DEF ClosedFrom
<1>7. SUFFICES ASSUME Step(s, x, d) \in X PROVE FALSE
  BY <1>2, <1>5, <1>6
<1>8. last - Step(s, x, d)[1] \in left
  BY <1>6, <1>7
<1>9. Step(s, x, d)[1] \in (o + 1)..last /\ Step(s, x, d)[1] > x[1] /\ x[1] \in Nat
  BY <1>2, <1>5, <1>7
<1> HIDE DEF left
<1> QED BY <1>1, <1>4, <1>5, <1>8, <1>9

-----------------------------------------------------------------------------
(* The tokens of a text. *)

\* The text s of the tokens T, and how many symbols there are up to the end of each.
Layout(s, T, off) ==
    /\ off \in [0..Len(T) -> Nat] /\ off[0] = 0 /\ Len(s) = off[Len(T)]
    /\ \A j \in 1..Len(T) : off[j] = off[j - 1] + Len(T[j]) + 1 /\ At(s, off[j - 1], T[j])

Crosses(s, d, T, off, dep, j, E) ==
    \E X : Crossing(s, d, off[j - 1], dep[j - 1], T[j], dep[j], X) /\ X \cap E = {}

\* The loop gets to a token if it ends in none before.
LEMMA Reached ==
    ASSUME NEW s \in Seq(Symbols), NEW d, NEW T \in Seq(Seq(Symbols)), NEW off, Layout(s, T, off),
           NEW dep, dep[0] = 0, NEW E, NEW V, ClosedFrom(V, s, d, E), NEW J \in 0..Len(T),
           \A j \in 1..J : Crosses(s, d, T, off, dep, j, E)
    PROVE  <<off[J] + 1, dep[J]>> \in V
<1> DEFINE Bad == {j \in 0..J : <<off[j] + 1, dep[j]>> \notin V}
<1>1. SUFFICES ASSUME Bad # {} PROVE FALSE
  <2>1. J \in 0..J
    OBVIOUS
  <2> QED BY <2>1
<1>2. PICK j \in Bad : \A k \in Bad : j <= k
  <2>1. Bad \subseteq Nat
    OBVIOUS
  <2> HIDE DEF Bad
  <2> QED BY <1>1, <2>1, LeastNumber
<1>3. j # 0
  <2>1. off[0] + 1 = 1
    BY DEF Layout
  <2> QED BY <1>2, <2>1 DEF ClosedFrom, Start
<1>4. j \in 1..J /\ j - 1 \in 0..J /\ j \in 1..Len(T) /\ j - 1 \in 0..Len(T) /\ j - 1 < j
  BY <1>2, <1>3
<1>5. <<off[j - 1] + 1, dep[j - 1]>> \in V
  BY <1>2, <1>4
<1>6. PICK X : Crossing(s, d, off[j - 1], dep[j - 1], T[j], dep[j], X) /\ X \cap E = {}
  BY <1>4 DEF Crosses
<1>7. /\ off[j - 1] \in Nat /\ T[j] \in Seq(Symbols) /\ Len(T[j]) \in Nat
      /\ off[j] = off[j - 1] + Len(T[j]) + 1
  <2>1. T[j] \in Seq(Symbols)
    BY <1>4
  <2>2. Len(T[j]) \in Nat
    BY <2>1
  <2> QED BY <1>4, <2>1, <2>2 DEF Layout
<1>8. <<off[j - 1] + Len(T[j]) + 2, dep[j]>> \in V
  <2> DEFINE o == off[j - 1]
             n == T[j]
             m == dep[j - 1]
             m2 == dep[j]
  <2>1. /\ o \in Nat /\ n \in Seq(Symbols) /\ Crossing(s, d, o, m, n, m2, X)
        /\ X \cap E = {} /\ <<o + 1, m>> \in V
    BY <1>5, <1>6, <1>7
  <2> HIDE DEF o, n, m, m2
  <2>2. <<o + Len(n) + 2, m2>> \in V
    BY <2>1, CrossedOver
  <2> QED BY <2>2 DEF o, n, m2
<1>9. off[j - 1] + Len(T[j]) + 2 = off[j] + 1
  BY <1>7
<1> QED BY <1>2, <1>8, <1>9

\* The recursive function inside FlattenSeq exists.
LEMMA FlattenDefined ==
    ASSUME NEW n \in Nat, NEW seqs
    PROVE  \E f : f = [i \in 1..n |-> IF i = 1 THEN seqs[i] ELSE f[i - 1] \o seqs[i]]
<1> DEFINE Of(m, f) == [i \in 1..m |-> IF i = 1 THEN seqs[i] ELSE f[i - 1] \o seqs[i]]
           Bad == {m \in Nat : ~ \E f : f = Of(m, f)}
<1>1. SUFFICES ASSUME Bad # {} PROVE FALSE
  BY <1>1
<1>2. PICK m \in Bad : \A k \in Bad : m <= k
  BY <1>1, LeastNumber
<1>3. CASE m = 0
  <2>1. Of(0, 0) = Of(0, Of(0, 0))
    OBVIOUS
  <2> QED BY <1>2, <1>3, <2>1
<1>4. CASE m # 0
  <2>1. m \in Nat /\ m - 1 \in Nat /\ m - 1 \notin Bad
    <3>1. m \in Nat
      BY <1>2
    <3> HIDE DEF Bad
    <3> QED BY <1>2, <1>4, <3>1
  <2>2. PICK f : f = Of(m - 1, f)
    BY <2>1
  <2> DEFINE g == [i \in 1..m |-> IF i = m THEN IF i = 1 THEN seqs[i] ELSE f[i - 1] \o seqs[i]
                                  ELSE f[i]]
  <2>3. \A i \in 1..(m - 1) : f[i] = IF i = 1 THEN seqs[i] ELSE f[i - 1] \o seqs[i]
    BY <2>2
  <2>4. ASSUME NEW i \in 1..m PROVE g[i] = IF i = 1 THEN seqs[i] ELSE g[i - 1] \o seqs[i]
    <3>1. i # 1 => i - 1 \in 1..m /\ i - 1 # m /\ g[i - 1] = f[i - 1]
      BY <2>1
    <3>2. CASE i = m
      BY <3>1, <3>2
    <3>3. CASE i # m
      <4>1. i \in 1..(m - 1) /\ g[i] = f[i]
        BY <2>1, <3>3
      <4> QED BY <2>3, <3>1, <4>1
    <3> QED BY <3>2, <3>3
  <2>5. g = Of(m, g)
    <3>1. g = [i \in 1..m |-> g[i]]
      OBVIOUS
    <3> HIDE DEF g
    <3> QED BY <2>4, <3>1
  <2> QED BY <1>2, <2>5
<1> QED BY <1>3, <1>4

Written(T) == FlattenSeq([i \in DOMAIN T |-> Append(T[i], "sp")])

\* What is written first stays where it is.
Extends(t, s) == Len(s) <= Len(t) /\ \A k \in 1..Len(s) : t[k] = s[k]

LEMMA AppendSpace ==
    ASSUME NEW n \in Seq(Symbols)
    PROVE  /\ Append(n, "sp") \in Seq(Symbols) /\ Len(Append(n, "sp")) = Len(n) + 1
           /\ Append(n, "sp")[Len(n) + 1] = "sp"
           /\ \A i \in 1..Len(n) : Append(n, "sp")[i] = n[i]
           /\ Len(n) \in Nat
<1>1. "sp" \in Symbols
  BY DEF Symbols, Spaces
<1>2. Len(n) \in Nat
  OBVIOUS
<1> QED BY <1>1, <1>2, AppendProperties

\* The token n is written behind s.
Appended(t, s, n) ==
    /\ t \in Seq(Symbols) /\ Len(t) = Len(s) + Len(n) + 1 /\ Extends(t, s)
    /\ \A i \in 1..Len(n) : t[Len(s) + i] = n[i]
    /\ t[Len(s) + Len(n) + 1] = "sp"

LEMMA AppendExtends ==
    ASSUME NEW s \in Seq(Symbols), NEW n \in Seq(Symbols), NEW t, t = s \o Append(n, "sp")
    PROVE  Appended(t, s, n)
<1> DEFINE a == Append(n, "sp")
<1>1. /\ a \in Seq(Symbols) /\ Len(a) = Len(n) + 1 /\ a[Len(n) + 1] = "sp"
      /\ \A i \in 1..Len(n) : a[i] = n[i]
      /\ Len(s) \in Nat /\ Len(n) \in Nat
  BY AppendSpace
<1> HIDE DEF a
<1>2. /\ t \in Seq(Symbols) /\ Len(t) = Len(s) + Len(a)
      /\ \A k \in 1..(Len(s) + Len(a)) : t[k] = IF k <= Len(s) THEN s[k] ELSE a[k - Len(s)]
  BY <1>1, ConcatProperties DEF a
<1>3. Extends(t, s)
  BY <1>1, <1>2 DEF Extends
<1>4. ASSUME NEW i \in 1..Len(a) PROVE t[Len(s) + i] = a[i]
  <2>1. Len(s) + i \in 1..(Len(s) + Len(a)) /\ ~(Len(s) + i <= Len(s)) /\ (Len(s) + i) - Len(s) = i
    BY <1>1
  <2> QED BY <1>2, <2>1
<1>5. \A i \in 1..Len(n) : t[Len(s) + i] = n[i]
  BY <1>1, <1>4
<1>6. t[Len(s) + Len(n) + 1] = "sp"
  <2>1. Len(n) + 1 \in 1..Len(a) /\ Len(s) + (Len(n) + 1) = Len(s) + Len(n) + 1
    BY <1>1
  <2> QED BY <1>1, <1>4, <2>1
<1> QED BY <1>1, <1>2, <1>3, <1>5, <1>6 DEF Appended

LEMMA ExtendsFurther ==
    ASSUME NEW r, NEW s, NEW t, Extends(s, r), Extends(t, s),
           Len(r) \in Nat, Len(s) \in Nat, Len(t) \in Nat
    PROVE  Extends(t, r)
BY DEF Extends

LEMMA LayoutOf ==
    ASSUME NEW T \in Seq(Seq(Symbols)), NEW t, t[0] = <<>>,
           \A j \in 1..Len(T) : t[j] = t[j - 1] \o Append(T[j], "sp")
    PROVE  t[Len(T)] \in Seq(Symbols) /\ \E off : Layout(t[Len(T)], T, off)
<1> DEFINE N == Len(T)
           s == t[N]
           off == [j \in 0..N |-> Len(t[j])]
           Good(j) == t[j] \in Seq(Symbols) /\ \A i \in 0..j : Extends(t[j], t[i])
           Bad == {j \in 0..N : ~Good(j)}
<1>1. N \in Nat /\ \A i \in 1..N : T[i] \in Seq(Symbols)
  OBVIOUS
<1>2. ASSUME NEW j \in 1..N, t[j - 1] \in Seq(Symbols)
      PROVE  /\ t[j] \in Seq(Symbols) /\ Len(t[j]) = Len(t[j - 1]) + Len(T[j]) + 1
             /\ Extends(t[j], t[j - 1])
             /\ \A i \in 1..Len(T[j]) : t[j][Len(t[j - 1]) + i] = T[j][i]
             /\ t[j][Len(t[j - 1]) + Len(T[j]) + 1] = "sp"
  <2> DEFINE before == t[j - 1]
             n == T[j]
  <2>1. t[j] = before \o Append(n, "sp") /\ n \in Seq(Symbols) /\ before \in Seq(Symbols)
    BY <1>1, <1>2
  <2> HIDE DEF before, n
  <2>2. /\ t[j] \in Seq(Symbols) /\ Len(t[j]) = Len(before) + Len(n) + 1
        /\ Extends(t[j], before)
        /\ \A i \in 1..Len(n) : t[j][Len(before) + i] = n[i]
        /\ t[j][Len(before) + Len(n) + 1] = "sp"
    <3> DEFINE after == t[j]
    <3>1. after = before \o Append(n, "sp")
      BY <2>1
    <3> HIDE DEF after
    <3>2. Appended(after, before, n)
      BY <2>1, <3>1, AppendExtends
    <3> QED BY <3>2 DEF Appended, after
  <2> QED BY <2>2 DEF before, n
<1>3. Good(0)
  <2>1. t[0] \in Seq(Symbols) /\ Extends(t[0], t[0])
    BY DEF Extends
  <2> QED BY <2>1
<1>4. ASSUME NEW j \in 1..N, Good(j - 1) PROVE Good(j)
  <2>1. t[j] \in Seq(Symbols) /\ Extends(t[j], t[j - 1])
    BY <1>2, <1>4
  <2>2. ASSUME NEW i \in 0..j PROVE Extends(t[j], t[i])
    <3>1. CASE i = j
      <4>1. Len(t[j]) \in Nat
        BY <2>1
      <4> QED BY <3>1, <4>1 DEF Extends
    <3>2. CASE i # j
      <4>1. i \in 0..(j - 1)
        BY <3>2
      <4>2. Extends(t[j - 1], t[i])
        BY <1>4, <4>1
      <4> QED BY <1>4, <2>1, <4>2 DEF Extends
    <3> QED BY <3>1, <3>2
  <2> QED BY <2>1, <2>2
<1>5. ASSUME NEW j \in 0..N PROVE Good(j)
  <2> HIDE DEF Good
  <2>1. SUFFICES ASSUME Bad # {} PROVE FALSE
    OBVIOUS
  <2>2. PICK b \in Bad : \A k \in Bad : b <= k
    <3>1. Bad \subseteq Nat
      OBVIOUS
    <3> HIDE DEF Bad
    <3> QED BY <2>1, <3>1, LeastNumber
  <2>3. b \in 1..N /\ b - 1 \in 0..N /\ b - 1 < b
    BY <1>3, <2>2
  <2>4. Good(b - 1)
    BY <2>2, <2>3
  <2> QED BY <1>4, <2>2, <2>3, <2>4
<1>6. s \in Seq(Symbols)
  <2>1. N \in 0..N
    BY <1>1
  <2> QED BY <1>5, <2>1
<1>7. off \in [0..N -> Nat] /\ off[0] = 0 /\ Len(s) = off[N]
  <2>1. \A j \in 0..N : Len(t[j]) \in Nat
    BY <1>5
  <2>2. Len(t[0]) = 0
    OBVIOUS
  <2> QED BY <1>1, <2>1, <2>2
<1>8. ASSUME NEW j \in 1..N PROVE off[j] = off[j - 1] + Len(T[j]) + 1 /\ At(s, off[j - 1], T[j])
  <2> DEFINE o == Len(t[j - 1])
             n == T[j]
  <2>1. /\ t[j - 1] \in Seq(Symbols) /\ n \in Seq(Symbols) /\ t[j] \in Seq(Symbols)
        /\ Extends(s, t[j]) /\ Extends(t[j], t[j - 1])
    <3>1. j \in 0..N /\ j - 1 \in 0..N /\ N \in 0..N /\ j - 1 \in 0..j
      BY <1>1
    <3>2. Good(j) /\ Good(j - 1) /\ Good(N)
      BY <1>5, <3>1
    <3> QED BY <1>1, <3>1, <3>2
  <2>2. /\ Len(t[j]) = o + Len(n) + 1
        /\ \A i \in 1..Len(n) : t[j][o + i] = n[i]
        /\ t[j][o + Len(n) + 1] = "sp"
    BY <1>2, <2>1
  <2>3. o \in Nat /\ Len(n) \in Nat /\ Len(s) \in Nat
    BY <1>6, <2>1
  <2>4. off[j - 1] = o /\ off[j] = o + Len(n) + 1
    <3>1. j \in 0..N /\ j - 1 \in 0..N
      BY <1>1
    <3> QED BY <2>2, <3>1
  <2> HIDE DEF o, n, off, s
  <2>5. /\ o + Len(n) + 1 <= Len(s)
        /\ \A k \in 1..(o + Len(n) + 1) : s[k] = t[j][k]
    BY <2>1, <2>2, <2>3 DEF Extends
  <2>6. \A i \in 1..Len(n) : s[o + i] = n[i]
    <3>1. ASSUME NEW i \in 1..Len(n) PROVE o + i \in 1..(o + Len(n) + 1)
      BY <2>3
    <3> QED BY <2>2, <2>5, <3>1
  <2>7. s[o + Len(n) + 1] = "sp"
    <3>1. o + Len(n) + 1 \in 1..(o + Len(n) + 1)
      BY <2>3
    <3> QED BY <2>2, <2>5, <3>1
  <2>8. o = 0 \/ (o \in 1..Len(s) /\ s[o] = "sp")
    <3>1. CASE j = 1
      BY <3>1 DEF o
    <3>2. CASE j # 1
      <4> DEFINE i == j - 1
      <4>1. i \in 1..N /\ i - 1 \in 0..N
        BY <3>2
      <4>2. t[i - 1] \in Seq(Symbols) /\ T[i] \in Seq(Symbols)
        BY <1>1, <1>5, <4>1
      <4>3. Len(t[i]) = Len(t[i - 1]) + Len(T[i]) + 1 /\ t[i][Len(t[i])] = "sp"
        BY <1>2, <4>1, <4>2
      <4>4. o = Len(t[i]) /\ Len(t[i - 1]) \in Nat /\ Len(T[i]) \in Nat
        BY <4>2 DEF o
      <4>5. o \in 1..o
        <5>1. o = Len(t[i - 1]) + Len(T[i]) + 1
          BY <4>3, <4>4
        <5>2. \A a, b \in Nat : a + b + 1 \in 1..(a + b + 1)
          OBVIOUS
        <5> QED BY <4>4, <5>1, <5>2, Zenon
      <4>6. t[j][o] = t[j - 1][o]
        BY <2>1, <4>4, <4>5 DEF Extends
      <4>7. o \in 1..(o + Len(n) + 1) /\ o \in 1..Len(s)
        BY <2>3, <2>5, <4>5
      <4> QED BY <2>5, <4>3, <4>4, <4>6, <4>7
    <3> QED BY <3>1, <3>2
  <2>9. At(s, o, n)
    BY <2>3, <2>5, <2>6, <2>7, <2>8 DEF At
  <2> QED BY <2>4, <2>9 DEF n
<1>9. Layout(s, T, off)
  BY <1>7, <1>8 DEF Layout
<1> QED BY <1>6, <1>9

LEMMA TextLayout ==
    ASSUME NEW T \in Seq(Seq(Symbols)), Len(T) > 0
    PROVE  Written(T) \in Seq(Symbols) /\ \E off : Layout(Written(T), T, off)
<1> DEFINE N == Len(T)
           seqs == [i \in DOMAIN T |-> Append(T[i], "sp")]
           f == CHOOSE f : f = [i \in 1..N |-> IF i = 1 THEN seqs[i] ELSE f[i - 1] \o seqs[i]]
           t == [j \in 0..N |-> IF j = 0 THEN <<>> ELSE f[j]]
<1>1. N \in Nat /\ N > 0 /\ DOMAIN T = 1..N /\ \A i \in 1..N : T[i] \in Seq(Symbols)
  OBVIOUS
<1>2. \A i \in 1..N : Append(T[i], "sp") \in Seq(Symbols)
  BY <1>1, AppendSpace
<1>3. Len(seqs) = N /\ \A i \in 1..N : seqs[i] = Append(T[i], "sp")
  <2>1. seqs = [i \in 1..N |-> Append(T[i], "sp")]
    BY <1>1
  <2>2. DOMAIN seqs = 1..N /\ \A i \in 1..N : seqs[i] = Append(T[i], "sp")
    BY <2>1
  <2> HIDE DEF seqs
  <2>3. Len(seqs) = N
    BY <1>1, <2>1, LenProperties
  <2> QED BY <2>2, <2>3
<1>4. Written(T) = f[N]
  <2>1. Written(T) = FlattenSeq(seqs)
    BY DEF Written
  <2> HIDE DEF seqs
  <2> QED BY <1>1, <1>3, <2>1 DEF FlattenSeq
<1> HIDE DEF seqs
<1>5. f = [i \in 1..N |-> IF i = 1 THEN seqs[i] ELSE f[i - 1] \o seqs[i]]
  BY <1>1, FlattenDefined
<1> HIDE DEF f
<1>6. t[0] = <<>> /\ t[N] = f[N]
  BY <1>1
<1>7. ASSUME NEW j \in 1..N PROVE t[j] = t[j - 1] \o Append(T[j], "sp")
  <2>1. f[j] = (IF j = 1 THEN seqs[j] ELSE f[j - 1] \o seqs[j]) /\ seqs[j] = Append(T[j], "sp")
        /\ Append(T[j], "sp") \in Seq(Symbols)
    BY <1>2, <1>3, <1>5
  <2>2. CASE j = 1
    <3>1. t[j] = f[j] /\ t[j - 1] = <<>> /\ f[j] = Append(T[j], "sp")
      BY <1>1, <2>1, <2>2
    <3>2. t[j - 1] \o Append(T[j], "sp") = Append(T[j], "sp")
      BY <2>1, <3>1, ConcatEmptySeq
    <3> HIDE DEF t
    <3> QED BY <3>1, <3>2
  <2>3. CASE j # 1
    <3>1. j - 1 \in 0..N /\ j - 1 # 0 /\ j \in 0..N /\ j # 0
      BY <1>1, <2>3
    <3>2. t[j] = f[j] /\ t[j - 1] = f[j - 1]
      BY <3>1
    <3> QED BY <2>1, <2>3, <3>2
  <2> QED BY <2>2, <2>3
<1> HIDE DEF t
<1> QED BY <1>4, <1>6, <1>7, LayoutOf

-----------------------------------------------------------------------------
(* Statements with noise between their tokens. *)

SymbolsOf(st) == [i \in DOMAIN st.tokens |-> st.tokens[i][1]]

LEMMA StatementSymbols ==
    ASSUME NEW st \in Statements
    PROVE  /\ st.tokens \in Seq(Seq(Symbols)) /\ Len(st.tokens) \in Nat /\ Len(st.tokens) > 0
           /\ SymbolsOf(st) \in Seq(Words \cup Marks) /\ Len(SymbolsOf(st)) = Len(st.tokens)
           /\ Balanced(SymbolsOf(st))
           /\ \A i \in 1..Len(st.tokens) :
                /\ st.tokens[i] = <<SymbolsOf(st)[i]>>
                /\ SymbolsOf(st)[i] \in Words \cup Marks
                /\ Depth(SymbolsOf(st), i) \in Nat
                /\ SymbolsOf(st)[i] = ";" => Depth(SymbolsOf(st), i) = 0
           /\ Depth(SymbolsOf(st), 0) = 0 /\ Depth(SymbolsOf(st), Len(st.tokens)) = 0
<1> DEFINE symbols == SymbolsOf(st)
           M == Len(st.tokens)
<1>1. st.tokens \in Seq(Seq(Symbols)) /\ Means(st) /\ DOMAIN st.tokens = 1..M /\ M \in Nat
  BY TextAssumption
<1>2. DOMAIN symbols = 1..M
  BY <1>1 DEF SymbolsOf
<1>3. /\ \A i \in 1..M : st.tokens[i] = <<symbols[i]>>
      /\ Len(symbols) > 0 /\ \A i \in 1..M : symbols[i] \in Words \cup Marks
      /\ Balanced(symbols)
      /\ \A i \in 1..M : symbols[i] = ";" => Depth(symbols, i) = 0
  BY <1>1, <1>2 DEF Means, SymbolsOf
<1>4. symbols \in Seq(Words \cup Marks) /\ Len(symbols) = M
  <2>1. symbols = [i \in 1..M |-> symbols[i]]
    BY <1>1, <1>2 DEF SymbolsOf
  <2>2. symbols \in [1..M -> Words \cup Marks]
    BY <1>3, <2>1
  <2> HIDE DEF symbols, M
  <2>3. symbols \in Seq(Words \cup Marks)
    BY <1>1, <2>2
  <2>4. DOMAIN symbols = 1..M /\ DOMAIN symbols = 1..Len(symbols) /\ Len(symbols) \in Nat
    BY <2>2, <2>3, LenProperties
  <2>5. Len(symbols) = M
    BY <1>1, <2>4
  <2> QED BY <2>3, <2>5
<1> HIDE DEF symbols
<1>5. /\ \A i \in 1..M : Depth(symbols, i) >= 0
      /\ Depth(symbols, M) = 0
  BY <1>2, <1>3, <1>4 DEF Balanced
<1>6. ASSUME NEW i \in 1..M PROVE Depth(symbols, i) \in Nat
  <2>1. Depth(symbols, i) \in Int /\ Depth(symbols, i) >= 0
    BY <1>5, DepthSteps
  <2> QED BY <2>1
<1>7. Depth(symbols, 0) = 0
  BY DepthSteps
<1> QED BY <1>1, <1>3, <1>4, <1>5, <1>6, <1>7 DEF symbols

IsSeparator(n) == n = <<";">>

\* The j-th token is the next one of the statement, or noise where noise may stand: c counts
\* the tokens of the statement.
FromStatement(st, T, c, j) == c[j] = c[j - 1] + 1 /\ T[j] = st.tokens[c[j]]
FromNoise(T, c, A, j) ==
    /\ c[j] = c[j - 1] /\ T[j] \in A
    /\ IsComment(T[j]) \/ \A k \in 1..(j - 1) : ~IsSeparator(T[k])

Weaves(st, T, c, A) ==
    /\ T \in Seq(Seq(Symbols)) /\ Len(T) > 0
    /\ c \in [0..Len(T) -> 0..Len(st.tokens)] /\ c[0] = 0 /\ c[Len(T)] = Len(st.tokens)
    /\ \A j \in 1..Len(T) : FromStatement(st, T, c, j) \/ FromNoise(T, c, A, j)

SymbolAt(st, c, j) == SymbolsOf(st)[c[j]]

Depths(st, T, c) == [j \in 0..Len(T) |-> Depth(SymbolsOf(st), c[j])]

LEMMA WeavesParts ==
    ASSUME NEW st \in Statements, NEW T, NEW c, NEW A, Weaves(st, T, c, A)
    PROVE  /\ Len(T) \in Nat /\ Depths(st, T, c) \in [0..Len(T) -> Nat]
           /\ Depths(st, T, c)[0] = 0 /\ Depths(st, T, c)[Len(T)] = 0
           /\ \A j \in 1..Len(T) : c[j] = c[j - 1] => Depths(st, T, c)[j] = Depths(st, T, c)[j - 1]
<1> DEFINE symbols == SymbolsOf(st)
           M == Len(st.tokens)
           dep == Depths(st, T, c)
<1>1. Len(T) \in Nat /\ M \in Nat
  <2>1. T \in Seq(Seq(Symbols))
    BY DEF Weaves
  <2>2. Len(T) \in Nat
    BY <2>1
  <2> QED BY <2>2, StatementSymbols
<1>2. c \in [0..Len(T) -> 0..M] /\ c[0] = 0 /\ c[Len(T)] = M
  BY DEF Weaves
<1>3. \A j \in 0..Len(T) : dep[j] = Depth(symbols, c[j])
  BY DEF Depths
<1>4. \A i \in 0..M : Depth(symbols, i) \in Nat
  <2>1. ASSUME NEW i \in 0..M PROVE Depth(symbols, i) \in Nat
    <3>1. i = 0 \/ i \in 1..M
      BY <1>1
    <3>2. i \in 1..M => Depth(symbols, i) \in Nat
      BY StatementSymbols
    <3> HIDE DEF symbols, M
    <3> QED BY <3>1, <3>2, DepthSteps
  <2> QED BY <2>1
<1>5. dep \in [0..Len(T) -> Nat]
  BY <1>2, <1>4 DEF Depths
<1>6. dep[0] = 0 /\ dep[Len(T)] = 0
  <2>1. 0 \in 0..Len(T) /\ Len(T) \in 0..Len(T)
    BY <1>1
  <2>2. dep[0] = Depth(symbols, 0) /\ dep[Len(T)] = Depth(symbols, M)
    BY <1>2, <1>3, <2>1
  <2> QED BY <2>2, StatementSymbols
<1>7. ASSUME NEW j \in 1..Len(T), c[j] = c[j - 1] PROVE dep[j] = dep[j - 1]
  <2>1. j \in 0..Len(T) /\ j - 1 \in 0..Len(T)
    BY <1>1
  <2> QED BY <1>3, <1>7, <2>1
<1> QED BY <1>1, <1>5, <1>6, <1>7

\* A token of the statement: what stands where, and at which depth.
LEMMA StatementToken ==
    ASSUME NEW st \in Statements, NEW T, NEW c, NEW A, Weaves(st, T, c, A),
           NEW j \in 1..Len(T), c[j] # c[j - 1]
    PROVE  /\ c[j] = c[j - 1] + 1 /\ c[j] \in 1..Len(st.tokens)
           /\ T[j] = <<SymbolAt(st, c, j)>> /\ SymbolAt(st, c, j) \in Words \cup Marks
           /\ Depths(st, T, c)[j] = Deeper(SymbolAt(st, c, j), Depths(st, T, c)[j - 1])
<1> DEFINE symbols == SymbolsOf(st)
           M == Len(st.tokens)
           dep == Depths(st, T, c)
           i == c[j]
<1>1. j \in 0..Len(T) /\ j - 1 \in 0..Len(T) /\ Len(T) \in Nat
  BY WeavesParts
<1>2. i \in 0..M /\ c[j - 1] \in 0..M /\ M \in Nat
  <2>1. c \in [0..Len(T) -> 0..M]
    BY DEF Weaves
  <2> QED BY <1>1, <2>1, StatementSymbols
<1>3. i = c[j - 1] + 1 /\ T[j] = st.tokens[i]
  BY DEF Weaves, FromStatement, FromNoise
<1>4. i \in 1..M /\ i - 1 = c[j - 1] /\ i \in Nat /\ i > 0
  BY <1>2, <1>3
<1> HIDE DEF i
<1>5. T[j] = <<symbols[i]>> /\ symbols[i] \in Words \cup Marks
  BY <1>3, <1>4, StatementSymbols
<1>6. dep[j] = Depth(symbols, i) /\ dep[j - 1] = Depth(symbols, i - 1)
  BY <1>1, <1>4 DEF Depths, i
<1>7. Depth(symbols, i) = CASE symbols[i] = "(" -> Depth(symbols, i - 1) + 1
                           [] symbols[i] = ")" -> Depth(symbols, i - 1) - 1
                           [] OTHER -> Depth(symbols, i - 1)
  BY <1>4, DepthSteps
<1>8. dep[j] = Deeper(symbols[i], dep[j - 1])
  BY <1>6, <1>7 DEF Deeper
<1> QED BY <1>3, <1>4, <1>5, <1>8 DEF i, SymbolAt

\* The way of a scanner through the j-th token.
TokenWay(s, d, T, c, off, dep, j, X) ==
    /\ Crossing(s, d, off[j - 1], dep[j - 1], T[j], dep[j], X)
    /\ c[j] = c[j - 1] => Silent(s, T[j], X)
    /\ c[j] # c[j - 1] => \A x \in X : x = <<off[j - 1] + 1, dep[j - 1]>> \/ s[x[1]] = "sp"

LEMMA TokenPlace ==
    ASSUME NEW s, NEW T \in Seq(Seq(Symbols)), NEW off, Layout(s, T, off), NEW j \in 1..Len(T)
    PROVE  /\ off[j - 1] \in Nat /\ off[j] \in Nat /\ off[j] = off[j - 1] + Len(T[j]) + 1
           /\ T[j] \in Seq(Symbols) /\ Len(T[j]) \in Nat /\ At(s, off[j - 1], T[j])
           /\ Len(T) \in Nat /\ off[Len(T)] = Len(s)
<1>1. T[j] \in Seq(Symbols) /\ Len(T) \in Nat
  OBVIOUS
<1>2. Len(T[j]) \in Nat /\ j - 1 \in 0..Len(T) /\ j \in 0..Len(T)
  BY <1>1
<1> QED BY <1>1, <1>2 DEF Layout

LEMMA StatementPlace ==
    ASSUME NEW st \in Statements, NEW T, NEW c, NEW A, Weaves(st, T, c, A),
           NEW s \in Seq(Symbols), NEW off, Layout(s, T, off), NEW j \in 1..Len(T), c[j] # c[j - 1]
    PROVE  /\ off[j - 1] \in Nat /\ off[j] = off[j - 1] + 2 /\ off[j - 1] + 2 \in 1..Len(s)
           /\ s[off[j - 1] + 1] = SymbolAt(st, c, j) /\ s[off[j - 1] + 2] = "sp"
<1> DEFINE w == SymbolAt(st, c, j)
           o == off[j - 1]
           o2 == off[j]
<1>1. T[j] = <<w>>
  BY StatementToken
<1>3. o \in Nat /\ At(s, o, <<w>>) /\ o2 = o + Len(T[j]) + 1
  <2>1. T \in Seq(Seq(Symbols))
    BY DEF Weaves
  <2>2. o \in Nat /\ At(s, o, T[j]) /\ o2 = o + Len(T[j]) + 1 /\ Len(T[j]) \in Nat
    BY <2>1, TokenPlace
  <2> QED BY <1>1, <2>2
<1> HIDE DEF w, o, o2
<1>4. Len(<<w>>) = 1 /\ <<w>>[1] = w /\ 1 \in 1..Len(<<w>>)
  OBVIOUS
<1>5. s[o + 1] = w /\ s[o + 2] = "sp" /\ o2 = o + 2 /\ o + 2 \in 1..Len(s)
  BY <1>1, <1>3, <1>4 DEF At
<1> QED BY <1>3, <1>5 DEF w, o, o2

LEMMA StatementWay ==
    ASSUME NEW st \in Statements, NEW T, NEW c, NEW A, Weaves(st, T, c, A),
           NEW s \in Seq(Symbols), NEW off, Layout(s, T, off), NEW d \in Dialects,
           NEW j \in 1..Len(T), c[j] # c[j - 1]
    PROVE  /\ s[off[j - 1] + 1] = SymbolAt(st, c, j) /\ s[off[j - 1] + 2] = "sp"
           /\ off[j] = off[j - 1] + 2
           /\ TokenWay(s, d, T, c, off, Depths(st, T, c), j,
                       {<<off[j - 1] + 1, Depths(st, T, c)[j - 1]>>,
                        <<off[j - 1] + 2, Depths(st, T, c)[j]>>})
<1> DEFINE w == SymbolAt(st, c, j)
           o == off[j - 1]
           dep == Depths(st, T, c)
           m == dep[j - 1]
           X == {<<o + 1, m>>, <<o + 2, dep[j]>>}
<1>1. T[j] = <<w>> /\ w \in Words \cup Marks /\ dep[j] = Deeper(w, m)
  BY StatementToken
<1>2. m \in Nat /\ dep[j] \in Nat
  <2>1. j \in 0..Len(T) /\ j - 1 \in 0..Len(T)
    BY WeavesParts
  <2> QED BY <2>1, WeavesParts
<1>3. o \in Nat /\ At(s, o, <<w>>) /\ off[j] = o + Len(T[j]) + 1
  <2>1. T \in Seq(Seq(Symbols))
    BY DEF Weaves
  <2>2. o \in Nat /\ At(s, o, T[j]) /\ off[j] = o + Len(T[j]) + 1
    BY <2>1, TokenPlace
  <2> QED BY <1>1, <2>2
<1> HIDE DEF w, o, m
<1>4. Len(<<w>>) = 1 /\ <<w>>[1] = w /\ 1 \in 1..Len(<<w>>)
  OBVIOUS
<1>5. s[o + 1] = w /\ s[o + 2] = "sp" /\ off[j] = o + 2
  BY <1>1, <1>3, <1>4 DEF At
<1>6. Crossing(s, d, o, m, <<w>>, Deeper(w, m), {<<o + 1, m>>, <<o + 2, Deeper(w, m)>>})
  BY <1>1, <1>2, <1>3, SymbolCrossed
<1>7. Crossing(s, d, o, m, T[j], dep[j], X)
  BY <1>1, <1>6
<1>8. \A x \in X : x = <<o + 1, m>> \/ s[x[1]] = "sp"
  BY <1>5
<1> QED BY <1>5, <1>7, <1>8 DEF TokenWay, w, o, m

LEMMA NoiseWay ==
    ASSUME NEW st \in Statements, NEW T, NEW c, NEW A, Weaves(st, T, c, A),
           NEW s \in Seq(Symbols), NEW off, Layout(s, T, off), NEW d \in Dialects,
           NEW j \in 1..Len(T), c[j] = c[j - 1], Harmless(T[j], d)
    PROVE  \E X : TokenWay(s, d, T, c, off, Depths(st, T, c), j, X)
<1> DEFINE o == off[j - 1]
           n == T[j]
           m == Depths(st, T, c)[j - 1]
<1>1. m \in Nat /\ Depths(st, T, c)[j] = m
  <2>1. j - 1 \in 0..Len(T)
    BY WeavesParts
  <2> QED BY <2>1, WeavesParts
<1>2. o \in Nat /\ n \in Seq(Symbols) /\ At(s, o, n)
  BY TokenPlace DEF Weaves
<1> HIDE DEF o, n, m
<1>3. PICK X : Crossing(s, d, o, m, n, m, X) /\ Silent(s, n, X)
  BY <1>1, <1>2, HarmlessCrossed DEF n
<1>4. TokenWay(s, d, T, c, off, Depths(st, T, c), j, X)
  BY <1>1, <1>3 DEF TokenWay, o, n, m
<1> QED BY <1>4

\* All that a scanner does in the text it does in a token.
LEMMA ScansTokens ==
    ASSUME NEW st \in Statements, NEW T, NEW c, NEW A, Weaves(st, T, c, A),
           NEW s \in Seq(Symbols), NEW off, Layout(s, T, off), NEW d \in Dialects,
           \A j \in 1..Len(T) : \E X : TokenWay(s, d, T, c, off, Depths(st, T, c), j, X),
           NEW x \in Visited(s, d, {}), x \in States(s)
    PROVE  \E j \in 1..Len(T) : \E X : TokenWay(s, d, T, c, off, Depths(st, T, c), j, X) /\ x \in X
<1> DEFINE dep == Depths(st, T, c)
           inside(y) == \E j \in 1..Len(T) : \E X : TokenWay(s, d, T, c, off, dep, j, X) /\ y \in X
           V == {y \in Nat \X Nat : y \in States(s) => inside(y)}
<1>1. T \in Seq(Seq(Symbols)) /\ Len(T) \in Nat /\ Len(T) > 0 /\ dep[0] = 0
  BY WeavesParts DEF Weaves
<1>2. ASSUME NEW j \in 1..Len(T)
      PROVE  inside(<<off[j - 1] + 1, dep[j - 1]>>)
  BY <1>2 DEF TokenWay, Crossing
<1>3. Start \in V
  <2>1. 1 \in 1..Len(T) /\ 1 - 1 = 0
    BY <1>1
  <2>2. inside(<<off[0] + 1, dep[0]>>)
    BY <1>2, <2>1
  <2>3. off[0] + 1 = 1
    BY DEF Layout
  <2> QED BY <1>1, <2>2, <2>3 DEF Start
<1>6. \A y : y \in V <=> y \in Nat \X Nat /\ (y \in States(s) => inside(y))
  OBVIOUS
<1>4. ASSUME NEW y \in V \cap States(s) PROVE Step(s, y, d) \in V
  <2>1. PICK j \in 1..Len(T) : \E X : TokenWay(s, d, T, c, off, dep, j, X) /\ y \in X
    OBVIOUS
  <2>2. PICK X : TokenWay(s, d, T, c, off, dep, j, X) /\ y \in X
    BY <2>1
  <2> DEFINE z == Step(s, y, d)
  <2>3. z \in Nat \X Nat
    BY StepForward
  <2>4. z \in X \cup {<<off[j - 1] + Len(T[j]) + 2, dep[j]>>}
    BY <2>2 DEF TokenWay, Crossing
  <2>7. SUFFICES z \in V
    OBVIOUS
  <2> HIDE DEF z
  <2>5. CASE z \in X
    <3>1. inside(z)
      BY <2>2, <2>5
    <3> HIDE DEF inside, V
    <3> QED BY <1>6, <2>3, <3>1
  <2>6. CASE z = <<off[j - 1] + Len(T[j]) + 2, dep[j]>>
    <3>1. off[j - 1] + Len(T[j]) + 2 = off[j] + 1
      <4>1. /\ off[j - 1] \in Nat /\ off[j] \in Nat /\ off[j] = off[j - 1] + Len(T[j]) + 1
            /\ Len(T[j]) \in Nat
        BY <1>1, TokenPlace
      <4> QED BY <4>1
    <3>2. CASE j = Len(T)
      <4>1. off[j] = Len(s) /\ Len(s) \in Nat
        BY <1>1, <3>2, TokenPlace
      <4>2. z[1] = Len(s) + 1
        BY <2>6, <3>1, <4>1
      <4>3. z \notin States(s)
        BY <4>1, <4>2 DEF States
      <4> HIDE DEF inside, V
      <4> QED BY <1>6, <2>3, <4>3
    <3>3. CASE j # Len(T)
      <4>1. j + 1 \in 1..Len(T) /\ (j + 1) - 1 = j
        BY <1>1, <3>3
      <4>2. inside(<<off[j] + 1, dep[j]>>)
        BY <1>2, <4>1
      <4> HIDE DEF inside, V
      <4>3. z = <<off[j] + 1, dep[j]>>
        BY <2>6, <3>1
      <4>4. inside(z)
        BY <4>2, <4>3
      <4> QED BY <1>6, <2>3, <4>4
    <3> QED BY <3>2, <3>3
  <2> HIDE DEF V
  <2> QED BY <2>4, <2>5, <2>6
<1> HIDE DEF V, inside
<1>5. Visited(s, d, {}) \subseteq V
  BY <1>3, <1>4, ScansWithin DEF ClosedFrom
<1> QED BY <1>5 DEF V, inside

-----------------------------------------------------------------------------
(* One statement or several. *)

Separators(s) == {x \in States(s) : s[x[1]] = ";"}
Separating(s, d) == {x \in Separators(s) : d = "postgres" \/ x[2] = 0}

WellFormedScan(s, d) ==
    /\ \A x \in Visited(s, d, Separators(s)) \cap States(s) : ~Refused(s, x, d)
    /\ End(s, d, Separators(s))[1] # Refusal /\ End(s, d, Separators(s))[2] = 0
    /\ End(s, d, Separators(s))[1] \in 1..Len(s) =>
         SkipIgnorable(s, End(s, d, Separators(s))[1] + 1, d) = Behind(s)

LEMMA WellFormedIsScanned ==
    ASSUME NEW s, NEW d
    PROVE  IsSingleWellFormedStatement(s, d) <=> WellFormedScan(s, d)
<1>1. Loop(s, d, Separators(s))
        = [x \in States(s) |-> IF s[x[1]] = ";" THEN x ELSE Step(s, x, d)]
  BY DEF Loop, Separators
<1> QED BY <1>1, Zenon DEF IsSingleWellFormedStatement, WellFormedScan, Visited, End

LEMMA SeveralAreScanned ==
    ASSUME NEW s, NEW d
    PROVE  LET end == End(s, d, Separating(s, d))
           IN  HasMultipleStatements(s, d) <=>
                 \/ end[1] = Refusal
                 \/ end[1] \in 1..Len(s) /\ SkipIgnorable(s, end[1] + 1, d) # Behind(s)
<1> DEFINE separates(x) == s[x[1]] = ";" /\ (d = "postgres" \/ x[2] = 0)
<1>1. Loop(s, d, Separating(s, d))
        = [x \in States(s) |-> IF separates(x) THEN x ELSE Step(s, x, d)]
  BY DEF Loop, Separators, Separating
<1> QED BY <1>1, Zenon DEF HasMultipleStatements, End

LEMMA WordsAreScanned ==
    ASSUME NEW s, NEW d, NEW i
    PROVE  i \in TopLevelWords(s, d) <=>
             \E x \in Visited(s, d, {}) : x[1] = i /\ x \in States(s) /\ x[2] = 0 /\ s[i] \in Words
<1>1. Loop(s, d, {}) = [x \in States(s) |-> Step(s, x, d)]
  BY DEF Loop
<1>2. TopLevelWords(s, d) =
        {x[1] : x \in {x \in Visited(s, d, {}) : x \in States(s) /\ x[2] = 0 /\ s[x[1]] \in Words}}
  BY <1>1, Zenon DEF TopLevelWords, Visited
<1> QED BY <1>2

-----------------------------------------------------------------------------
(* Noise. *)

LEMMA SeparatorSymbol ==
    ASSUME NEW n
    PROVE  /\ IsSeparator(n) => n[1] = ";"
           /\ \A w : n = <<w>> => (IsSeparator(n) <=> w = ";")
<1>1. \A w : <<w>> = <<";">> <=> w = ";"
  OBVIOUS
<1>2. <<";">>[1] = ";"
  OBVIOUS
<1>3. IsSeparator(n) => n[1] = ";"
  BY ONLY <1>2 DEF IsSeparator
<1> QED BY <1>1, <1>3 DEF IsSeparator

LEMMA NoiseBegins ==
    ASSUME NEW n \in Seq(Symbols), Len(n) > 0, NEW d \in Dialects
    PROVE  /\ Harmless(n, d) \/ Uncertain(n, d) => ~IsSeparator(n)
           /\ Uncertain(n, d) => ~IsComment(n)
           /\ Harmless(n, d) /\ IsComment(n) => IsLineComment(n, d) \/ IsBlockComment(n, d)
<1>1. IsQuoted(n, d) \/ IsUncertainQuote(n, d) => n[1] \in {"E", "sq", "dq", "bq"}
  BY DEF IsQuoted, IsUncertainQuote, Opens
<1>2. IsDollarQuoted(n, d) => n[1] \in {"$$", "$a$"}
  BY DEF IsDollarQuoted, Delimiters
<1>3. IsLineComment(n, d) \/ IsBlockComment(n, d) => n[1] \in {"--", "#", "/*"}
  BY DEF IsLineComment, IsBlockComment
<1>4. IsExecutableComment(n, d) => n[1] = "/*!"
  BY DEF IsExecutableComment
<1>5. IsExpression(n, d) => n[1] \in Words \cup (Marks \ {";"})
  <2>1. 1 \in DOMAIN n /\ 1 \notin 2..(Len(n) - 1)
    OBVIOUS
  <2> QED BY <2>1 DEF IsExpression
<1>6. IsExpression(n, d) => n[1] # ";" /\ n[1] \notin {"--", "#", "/*"}
  BY <1>5, SymbolsApart
<1>7. IsSeparator(n) => n[1] = ";"
  BY SeparatorSymbol
<1> QED BY <1>1, <1>2, <1>3, <1>4, <1>6, <1>7 DEF Harmless, Uncertain, IsComment

\* s is the text of the tokens T: those of the statement st, with noise of A between them.
Woven(s, d, st, T, c, A, off) ==
    /\ st \in Statements /\ d \in Dialects /\ Weaves(st, T, c, A)
    /\ s \in Seq(Symbols) /\ Layout(s, T, off)
    /\ \A n \in A : n \in Seq(Symbols) /\ Len(n) > 0 /\ (Harmless(n, d) \/ Uncertain(n, d))

SeparatesAt(st, c, j) == SymbolAt(st, c, j) = ";"

LEMMA SeparatorToken ==
    ASSUME NEW s, NEW d, NEW st, NEW T, NEW c, NEW A, NEW off, Woven(s, d, st, T, c, A, off),
           NEW j \in 1..Len(T)
    PROVE  /\ IsSeparator(T[j]) => c[j] # c[j - 1] /\ Depths(st, T, c)[j - 1] = 0
           /\ c[j] # c[j - 1] => (IsSeparator(T[j]) <=> SeparatesAt(st, c, j))
           /\ c[j] = c[j - 1] => /\ T[j] \in A /\ ~IsSeparator(T[j])
                                 /\ IsComment(T[j]) \/ \A k \in 1..(j - 1) : ~IsSeparator(T[k])
<1> DEFINE w == SymbolAt(st, c, j)
           dep == Depths(st, T, c)
<1>1. st \in Statements /\ d \in Dialects /\ Weaves(st, T, c, A)
  BY DEF Woven
<1>2. ASSUME c[j] = c[j - 1]
      PROVE  /\ T[j] \in A /\ ~IsSeparator(T[j])
             /\ IsComment(T[j]) \/ \A k \in 1..(j - 1) : ~IsSeparator(T[k])
  <2>1. c[j - 1] \in Nat
    <3>1. j - 1 \in 0..Len(T) /\ c \in [0..Len(T) -> 0..Len(st.tokens)]
      BY <1>1, WeavesParts DEF Weaves
    <3> QED BY <3>1
  <2>2. FromNoise(T, c, A, j)
    BY <1>1, <1>2, <2>1 DEF Weaves, FromStatement
  <2>3. ~IsSeparator(T[j])
    BY <1>1, <2>2, NoiseBegins DEF Woven, FromNoise
  <2> QED BY <2>2, <2>3 DEF FromNoise
<1>3. ASSUME c[j] # c[j - 1]
      PROVE  /\ IsSeparator(T[j]) <=> w = ";"
             /\ w = ";" => dep[j - 1] = 0 /\ dep[j] = 0
  <2>1. /\ c[j] \in 1..Len(st.tokens) /\ T[j] = <<w>> /\ dep[j] = Deeper(w, dep[j - 1])
    BY <1>1, <1>3, StatementToken
  <2>2. dep[j] = Depth(SymbolsOf(st), c[j])
    <3>1. j \in 0..Len(T)
      BY <1>1, WeavesParts
    <3> QED BY <3>1 DEF Depths
  <2>3. w = ";" => dep[j] = 0
    BY <1>1, <2>1, <2>2, StatementSymbols DEF SymbolAt
  <2> HIDE DEF w, dep
  <2>4. w = ";" => dep[j - 1] = dep[j]
    BY <2>1 DEF Deeper
  <2>5. IsSeparator(T[j]) <=> w = ";"
    BY <2>1, SeparatorSymbol
  <2> QED BY <2>1, <2>3, <2>4, <2>5
<1>4. c[j] # c[j - 1] => (IsSeparator(T[j]) <=> SeparatesAt(st, c, j))
  BY <1>3 DEF SeparatesAt
<1> QED BY <1>2, <1>3, <1>4

LEMMA NoiseToken ==
    ASSUME NEW s, NEW d, NEW st, NEW T, NEW c, NEW A, NEW off, Woven(s, d, st, T, c, A, off),
           NEW j \in 1..Len(T), c[j] = c[j - 1]
    PROVE  /\ T[j] \in A /\ T[j] \in Seq(Symbols) /\ Len(T[j]) > 0
           /\ Harmless(T[j], d) \/ Uncertain(T[j], d)
<1>1. T[j] \in A /\ ~IsSeparator(T[j])
  BY SeparatorToken
<1> QED BY <1>1 DEF Woven

\* A scanner gets over statements and harmless noise to the first semicolon.
LEMMA TokenReached ==
    ASSUME NEW s, NEW d, NEW st, NEW T, NEW c, NEW A, NEW off, Woven(s, d, st, T, c, A, off),
           NEW E, E \subseteq Separators(s), NEW J \in 0..Len(T),
           \A j \in 1..J : ~IsSeparator(T[j]) /\ (c[j] = c[j - 1] => Harmless(T[j], d))
    PROVE  <<off[J] + 1, Depths(st, T, c)[J]>> \in Visited(s, d, E)
<1> DEFINE dep == Depths(st, T, c)
<1>1. /\ st \in Statements /\ d \in Dialects /\ Weaves(st, T, c, A)
      /\ s \in Seq(Symbols) /\ Layout(s, T, off) /\ T \in Seq(Seq(Symbols))
  BY DEF Woven, Weaves
<1>2. Len(T) \in Nat /\ dep[0] = 0
  BY <1>1, WeavesParts
<1>3. ASSUME NEW j \in 1..J
      PROVE  Crosses(s, d, T, off, dep, j, E)
  <2>1. j \in 1..Len(T)
    BY <1>2
  <2>2. CASE c[j] = c[j - 1]
    <3>1. PICK X : TokenWay(s, d, T, c, off, dep, j, X)
      BY <1>1, <2>1, <2>2, NoiseWay
    <3>2. X \cap E = {}
      BY <2>2, <3>1 DEF TokenWay, Silent, Separators
    <3> QED BY <3>1, <3>2 DEF TokenWay, Crosses
  <2>3. CASE c[j] # c[j - 1]
    <3> DEFINE X == {<<off[j - 1] + 1, dep[j - 1]>>, <<off[j - 1] + 2, dep[j]>>}
    <3>1. /\ s[off[j - 1] + 1] = SymbolAt(st, c, j) /\ s[off[j - 1] + 2] = "sp"
          /\ TokenWay(s, d, T, c, off, dep, j, X)
      BY <1>1, <2>1, <2>3, StatementWay
    <3>2. IsSeparator(T[j]) <=> SeparatesAt(st, c, j)
      BY <2>1, <2>3, SeparatorToken
    <3>3. SymbolAt(st, c, j) # ";"
      BY <3>2 DEF SeparatesAt
    <3>4. s[<<off[j - 1] + 1, dep[j - 1]>>[1]] # ";" /\ s[<<off[j - 1] + 2, dep[j]>>[1]] # ";"
      BY <3>1, <3>3
    <3>6. \A x \in X : s[x[1]] # ";"
      BY <3>4
    <3>5. X \cap E = {}
      BY <3>6 DEF Separators
    <3> QED BY <3>1, <3>5 DEF TokenWay, Crosses
  <2> QED BY <2>2, <2>3
<1>4. ClosedFrom(Visited(s, d, E), s, d, E)
  BY <1>1, Scanned
<1> HIDE DEF dep
<1>5. <<off[J] + 1, dep[J]>> \in Visited(s, d, E)
  BY <1>1, <1>2, <1>3, <1>4, Reached
<1> QED BY <1>5 DEF dep

\* The semicolons a scanner stops at are those outside parentheses, or all of them.
StopsAt(s, E) == E \subseteq Separators(s) /\ \A x \in Separators(s) : x[2] = 0 => x \in E

LEMMA EndsAtSeparator ==
    ASSUME NEW s, NEW d, NEW st, NEW T, NEW c, NEW A, NEW off, Woven(s, d, st, T, c, A, off),
           NEW E, StopsAt(s, E), NEW K \in 1..Len(T), IsSeparator(T[K]),
           \A j \in 1..(K - 1) : ~IsSeparator(T[j]) /\ (c[j] = c[j - 1] => Harmless(T[j], d))
    PROVE  /\ End(s, d, E) = <<off[K - 1] + 1, 0>>
           /\ off[K - 1] + 1 \in 1..Len(s) /\ off[K - 1] \in Nat /\ off[K] = off[K - 1] + 2
<1> DEFINE x == <<off[K - 1] + 1, 0>>
<1>1. /\ st \in Statements /\ d \in Dialects /\ Weaves(st, T, c, A)
      /\ s \in Seq(Symbols) /\ Layout(s, T, off) /\ T \in Seq(Seq(Symbols))
  BY DEF Woven, Weaves
<1>2. K - 1 \in 0..Len(T)
  BY <1>1, WeavesParts
<1>3. Depths(st, T, c)[K - 1] = 0
  BY SeparatorToken
<1>10. c[K] # c[K - 1]
  BY SeparatorToken
<1>4. x \in Visited(s, d, E)
  <2>1. <<off[K - 1] + 1, Depths(st, T, c)[K - 1]>> \in Visited(s, d, E)
    BY <1>2, TokenReached DEF StopsAt
  <2> QED BY <1>3, <2>1
<1>5. s[off[K - 1] + 1] = ";" /\ off[K] = off[K - 1] + 2
  <2>1. s[off[K - 1] + 1] = SymbolAt(st, c, K) /\ off[K] = off[K - 1] + 2
    BY <1>1, <1>10, StatementPlace
  <2>2. SymbolAt(st, c, K) = ";"
    <3>1. SeparatesAt(st, c, K)
      BY <1>10, SeparatorToken
    <3> QED BY <3>1 DEF SeparatesAt
  <2> QED BY <2>1, <2>2
<1>6. off[K - 1] \in Nat /\ off[K - 1] + 1 \in 1..Len(s)
  <2>1. off[K - 1] \in Nat /\ off[K - 1] + 2 \in 1..Len(s) /\ Len(s) \in Nat
    BY <1>1, <1>10, StatementPlace
  <2> QED BY <2>1
<1>7. x \in Separators(s) /\ x[2] = 0
  BY <1>5, <1>6 DEF Separators, States
<1>8. x \in E
  BY <1>7 DEF StopsAt
<1> HIDE DEF x
<1>9. x = End(s, d, E)
  BY <1>1, <1>4, <1>8, Scanned
<1> QED BY <1>5, <1>6, <1>9 DEF x

LEMMA EndsBehind ==
    ASSUME NEW s, NEW d, NEW st, NEW T, NEW c, NEW A, NEW off, Woven(s, d, st, T, c, A, off),
           NEW E, E \subseteq Separators(s),
           \A j \in 1..Len(T) : ~IsSeparator(T[j]) /\ (c[j] = c[j - 1] => Harmless(T[j], d))
    PROVE  End(s, d, E) = <<Len(s) + 1, 0>> /\ Len(s) \in Nat
<1> DEFINE x == <<Len(s) + 1, 0>>
<1>1. /\ st \in Statements /\ d \in Dialects /\ Weaves(st, T, c, A)
      /\ s \in Seq(Symbols) /\ Layout(s, T, off) /\ Len(s) \in Nat
  BY DEF Woven
<1>2. Len(T) \in 0..Len(T) /\ Depths(st, T, c)[Len(T)] = 0 /\ off[Len(T)] = Len(s)
  BY <1>1, WeavesParts DEF Layout
<1>3. <<off[Len(T)] + 1, Depths(st, T, c)[Len(T)]>> \in Visited(s, d, E)
  BY <1>2, TokenReached
<1>4. x \in Visited(s, d, E)
  BY <1>2, <1>3
<1>5. x \notin States(s)
  BY <1>1 DEF States
<1> HIDE DEF x
<1>6. x = End(s, d, E)
  BY <1>1, <1>4, <1>5, Scanned
<1> QED BY <1>1, <1>6 DEF x

\* Noise that the settings of the server decide about makes a text one that is refused.
LEMMA UncertainRefused ==
    ASSUME NEW s, NEW d, NEW st, NEW T, NEW c, NEW A, NEW off, Woven(s, d, st, T, c, A, off),
           NEW i \in 1..Len(T), c[i] = c[i - 1], ~Harmless(T[i], d)
    PROVE  ~WellFormedScan(s, d)
<1> DEFINE E == Separators(s)
           V == Visited(s, d, E)
           bad == {j \in 1..Len(T) : c[j] = c[j - 1] /\ ~Harmless(T[j], d)}
<1>1. /\ st \in Statements /\ d \in Dialects /\ Weaves(st, T, c, A)
      /\ s \in Seq(Symbols) /\ Layout(s, T, off) /\ T \in Seq(Seq(Symbols))
  BY DEF Woven, Weaves
<1>2. PICK J \in bad : \A j \in bad : J <= j
  <2>1. bad \subseteq Nat /\ bad # {}
    OBVIOUS
  <2> HIDE DEF bad
  <2> QED BY <2>1, LeastNumber
<1> DEFINE o == off[J - 1]
           m == Depths(st, T, c)[J - 1]
<1>3. J \in 1..Len(T) /\ J - 1 \in 0..Len(T) /\ Len(T) \in Nat
  BY <1>1, <1>2, WeavesParts
<1>4. T[J] \in Seq(Symbols) /\ Len(T[J]) > 0 /\ Uncertain(T[J], d)
  BY <1>2, <1>3, SeparatorToken DEF Woven
<1>5. \A j \in 1..(J - 1) : ~IsSeparator(T[j]) /\ (c[j] = c[j - 1] => Harmless(T[j], d))
  <2>1. \A j \in 1..(J - 1) : ~IsSeparator(T[j])
    <3>1. ~IsComment(T[J])
      BY <1>1, <1>4, NoiseBegins
    <3>2. IsComment(T[J]) \/ \A j \in 1..(J - 1) : ~IsSeparator(T[j])
      BY <1>2, <1>3, SeparatorToken
    <3> QED BY <3>1, <3>2
  <2>2. ASSUME NEW j \in 1..(J - 1), c[j] = c[j - 1] PROVE Harmless(T[j], d)
    <3>1. j \in 1..Len(T) /\ ~(J <= j)
      BY <1>3
    <3> QED BY <1>2, <2>2, <3>1
  <2> QED BY <2>1, <2>2
<1>6. <<o + 1, m>> \in V
  BY <1>3, <1>5, TokenReached
<1>7. o \in Nat /\ At(s, o, T[J]) /\ m \in Nat
  <2>1. o \in Nat /\ At(s, o, T[J])
    BY <1>1, <1>3, TokenPlace
  <2>2. m \in Nat
    <3>1. Depths(st, T, c) \in [0..Len(T) -> Nat]
      BY <1>1, WeavesParts
    <3> QED BY <1>3, <3>1
  <2> QED BY <2>1, <2>2
<1> HIDE DEF o, m, V
<1>8. /\ o + 1 \in 1..Len(s) /\ s[o + 1] # ";"
      /\ \/ Refused(s, <<o + 1, m>>, d)
         \/ Step(s, <<o + 1, m>>, d) = <<0, m>>
         \/ /\ o + 2 \in 1..Len(s) /\ s[o + 2] # ";"
            /\ Step(s, <<o + 1, m>>, d) = <<o + 2, m>>
            /\ Step(s, <<o + 2, m>>, d) = <<0, m>>
  <2> DEFINE n == T[J]
  <2>1. n \in Seq(Symbols) /\ Len(n) > 0 /\ Uncertain(n, d) /\ At(s, o, n)
    BY <1>4, <1>7
  <2> HIDE DEF n
  <2> QED BY <1>1, <1>7, <2>1, UncertainRead, ZenonT(40)
<1>9. <<o + 1, m>> \in States(s) /\ <<o + 1, m>> \notin E
  BY <1>7, <1>8 DEF States, Separators
<1>10. ClosedFrom(V, s, d, E) /\ \A x \in V : x \notin States(s) => x = End(s, d, E)
  BY <1>1, Scanned DEF V
<1>11. Step(s, <<o + 1, m>>, d) \in V
  BY <1>6, <1>9, <1>10 DEF ClosedFrom
<1>12. SUFFICES ASSUME WellFormedScan(s, d) PROVE FALSE
  OBVIOUS
<1>13. ~Refused(s, <<o + 1, m>>, d) /\ End(s, d, E)[1] # 0
  BY <1>6, <1>9, <1>12 DEF WellFormedScan, Refusal, V
<1>14. <<0, m>> \notin V
  <2>1. <<0, m>> \notin States(s)
    BY DEF States
  <2> QED BY <1>10, <1>13, <2>1
<1>15. /\ o + 2 \in 1..Len(s) /\ s[o + 2] # ";"
       /\ <<o + 2, m>> \in V /\ Step(s, <<o + 2, m>>, d) = <<0, m>>
  BY <1>8, <1>11, <1>13, <1>14
<1>16. <<o + 2, m>> \in States(s) /\ <<o + 2, m>> \notin E
  BY <1>7, <1>15 DEF States, Separators
<1>17. <<0, m>> \in V
  BY <1>10, <1>15, <1>16 DEF ClosedFrom
<1> QED BY <1>14, <1>17

-----------------------------------------------------------------------------
(* What is skipped behind a semicolon. *)

Skipping(s, d) == [k \in 1..Len(s) |-> IF s[k] \in Spaces THEN k + 1 ELSE SkipComment(s, k, d)]
Skipped(s, i, d) == ToSet(Walk(Skipping(s, d), i, Behind(s) - i))

LEMMA SkippingEnds ==
    ASSUME NEW s \in Seq(Symbols), NEW i \in 1..Behind(s), NEW d
    PROVE  LET w == Walk(Skipping(s, d), i, Behind(s) - i)
           IN  Walks(Skipping(s, d), i, w) /\ Ended(Skipping(s, d), Last(w))
<1> DEFINE next == Skipping(s, d)
           rank == [x \in Nat |-> IF x \in 1..Len(s) THEN Behind(s) - x ELSE 0]
<1>1. Len(s) \in Nat /\ Behind(s) = Len(s) + 1 /\ i \in Nat
  BY DEF Behind
<1>2. ASSUME NEW x \in Nat \cap DOMAIN next
      PROVE  next[x] \in Nat /\ (next[x] # x => rank[next[x]] < rank[x])
  <2>1. x \in 1..Len(s) /\ next[x] = IF s[x] \in Spaces THEN x + 1 ELSE SkipComment(s, x, d)
    BY DEF Skipping
  <2>2. SkipComment(s, x, d) \in {0} \cup x..Behind(s)
    BY <2>1, SkipCommentForward
  <2> HIDE DEF next
  <2>3. next[x] \in {0} \cup x..Behind(s)
    BY <1>1, <2>1, <2>2
  <2> QED BY <1>1, <2>1, <2>3
<1>3. \A x \in Nat : rank[x] \in Nat
  BY <1>1
<1>4. Behind(s) - i \in Nat /\ rank[i] <= Behind(s) - i
  BY <1>1
<1> HIDE DEF next, rank
<1>5. LET w == Walk(next, i, Behind(s) - i)
      IN  w \in Seq(Nat) /\ Walks(next, i, w) /\ Ended(next, Last(w))
  BY <1>1, <1>2, <1>3, <1>4, WalkEnds
<1> QED BY <1>5 DEF next

LEMMA Skips ==
    ASSUME NEW s \in Seq(Symbols), NEW i \in 1..Behind(s), NEW d
    PROVE  /\ i \in Skipped(s, i, d)
           /\ \A p \in Skipped(s, i, d) :
                /\ p \in 1..Len(s) /\ s[p] \in Spaces => p + 1 \in Skipped(s, i, d)
                /\ p \in 1..Len(s) /\ s[p] \notin Spaces => SkipComment(s, p, d) \in Skipped(s, i, d)
                /\ p \notin 1..Len(s) => SkipIgnorable(s, i, d) = p
                /\ p \in 1..Len(s) /\ s[p] \notin Spaces /\ SkipComment(s, p, d) = p =>
                     SkipIgnorable(s, i, d) = p
<1> DEFINE next == Skipping(s, d)
           w == Walk(next, i, Behind(s) - i)
<1>1. Walks(next, i, w) /\ Ended(next, Last(w))
  BY SkippingEnds
<1>2. SkipIgnorable(s, i, d) = Last(w) /\ Skipped(s, i, d) = ToSet(w)
  BY DEF SkipIgnorable, Skipping, Skipped
<1>3. DOMAIN next = 1..Len(s)
      /\ \A p \in 1..Len(s) : next[p] = IF s[p] \in Spaces THEN p + 1 ELSE SkipComment(s, p, d)
  BY DEF Skipping
<1> HIDE DEF next, w
<1>4. /\ i \in ToSet(w)
      /\ \A x \in ToSet(w) \cap DOMAIN next : next[x] \in ToSet(w)
      /\ \A x \in ToSet(w) : Ended(next, x) => x = Last(w)
  BY <1>1, WalkVisits
<1>5. ASSUME NEW p \in ToSet(w), p \in 1..Len(s)
      PROVE  /\ s[p] \in Spaces => p + 1 \in ToSet(w)
             /\ s[p] \notin Spaces => SkipComment(s, p, d) \in ToSet(w)
             /\ s[p] \notin Spaces /\ SkipComment(s, p, d) = p => Last(w) = p
  <2>1. next[p] \in ToSet(w)
    BY <1>3, <1>4, <1>5
  <2>2. s[p] \notin Spaces /\ SkipComment(s, p, d) = p => Ended(next, p)
    BY <1>3, <1>5 DEF Ended
  <2> QED BY <1>3, <1>4, <1>5, <2>1, <2>2
<1>6. ASSUME NEW p \in ToSet(w), p \notin 1..Len(s) PROVE Last(w) = p
  BY <1>3, <1>4, <1>6 DEF Ended
<1> QED BY <1>2, <1>4, <1>5, <1>6

LEMMA CommentSkipped ==
    ASSUME NEW s \in Seq(Symbols), NEW i \in 1..Behind(s), NEW d \in Dialects,
           NEW n \in Seq(Symbols), NEW o \in Nat, At(s, o, n),
           IsLineComment(n, d) \/ IsBlockComment(n, d), o + 1 \in Skipped(s, i, d)
    PROVE  o + Len(n) + 2 \in Skipped(s, i, d)
<1> DEFINE V == Skipped(s, i, d)
<1>1. /\ Len(n) \in Nat /\ Len(n) > 1 /\ n[1] \in {"--", "#", "/*"}
      /\ IsLineComment(n, d) => n[Len(n)] = "nl"
  BY DEF IsLineComment, IsBlockComment
<1>2. /\ o + 1 \in 1..Len(s) /\ s[o + 1] = n[1]
      /\ o + Len(n) \in 1..Len(s) /\ s[o + Len(n)] = n[Len(n)]
      /\ o + Len(n) + 1 \in 1..Len(s) /\ s[o + Len(n) + 1] = "sp"
  <2>1. 1 \in 1..Len(n) /\ Len(n) \in 1..Len(n)
    BY <1>1
  <2> QED BY <2>1, WithinToken, SpacePast
<1>3. s[o + 1] \notin Spaces
  BY <1>1, <1>2 DEF Spaces
<1>4. /\ SkipComment(s, o + 1, d) \in V
      /\ \A p \in V : p \in 1..Len(s) /\ s[p] \in Spaces => p + 1 \in V
  BY <1>2, <1>3, Skips
<1> HIDE DEF V
<1>6. "nl" \in Spaces /\ "sp" \in Spaces
  BY DEF Spaces
<1>7. o + Len(n) + 1 \in V
  <2>1. CASE IsLineComment(n, d)
    <3>1. o + Len(n) \in V
      BY <1>4, <2>1, LineCommentSkipped
    <3> QED BY <1>1, <1>2, <1>4, <1>6, <2>1, <3>1
  <2>2. CASE IsBlockComment(n, d)
    BY <1>4, <2>2, BlockCommentSkipped
  <2> QED BY <2>1, <2>2
<1>8. o + Len(n) + 1 + 1 \in V
  BY <1>2, <1>4, <1>6, <1>7
<1>9. o + Len(n) + 1 + 1 = o + Len(n) + 2
  BY <1>1
<1> QED BY <1>8, <1>9 DEF V

\* Noise that all servers read alike.
Sure(T, c, d) == \A j \in 1..Len(T) : c[j] = c[j - 1] => Harmless(T[j], d)

\* From the semicolon K to the token J there are only comments, and all of them are skipped.
LEMMA CommentsSkipped ==
    ASSUME NEW s, NEW d, NEW st, NEW T, NEW c, NEW A, NEW off, Woven(s, d, st, T, c, A, off),
           Sure(T, c, d), NEW K \in 1..Len(T), IsSeparator(T[K]), NEW J \in K..Len(T),
           \A j \in (K + 1)..J : c[j] = c[j - 1]
    PROVE  /\ off[K - 1] + 2 \in 1..Behind(s) /\ off[J] \in Nat
           /\ off[J] + 1 \in Skipped(s, off[K - 1] + 2, d)
<1> DEFINE i == off[K - 1] + 2
           Bad == {j \in K..J : off[j] + 1 \notin Skipped(s, i, d)}
<1>1. /\ st \in Statements /\ d \in Dialects /\ Weaves(st, T, c, A)
      /\ s \in Seq(Symbols) /\ Layout(s, T, off) /\ T \in Seq(Seq(Symbols))
  BY DEF Woven, Weaves
<1>2. Len(T) \in Nat /\ Len(s) \in Nat /\ Behind(s) = Len(s) + 1
  BY <1>1 DEF Behind
<1>3. c[K] # c[K - 1]
  BY SeparatorToken
<1>4. off[K] = i /\ off[K - 1] \in Nat /\ i \in 1..Len(s) /\ s[i] = "sp"
  BY <1>1, <1>3, StatementPlace
<1>5. off[J] \in Nat
  BY <1>1, <1>2, TokenPlace
<1> HIDE DEF i
<1>6. i \in 1..Behind(s)
  BY <1>2, <1>4
<1>7. off[K] + 1 \in Skipped(s, i, d)
  <2>1. i \in Skipped(s, i, d) /\ s[i] \in Spaces
    BY <1>1, <1>4, <1>6, Skips DEF Spaces
  <2>2. i + 1 \in Skipped(s, i, d)
    BY <1>1, <1>4, <1>6, <2>1, Skips
  <2> QED BY <1>4, <2>2
<1>8. ASSUME NEW j \in (K + 1)..J, off[j - 1] + 1 \in Skipped(s, i, d)
      PROVE  off[j] + 1 \in Skipped(s, i, d)
  <2> DEFINE o == off[j - 1]
             n == T[j]
  <2>1. j \in 1..Len(T) /\ K \in 1..(j - 1)
    BY <1>2
  <2>2. c[j] = c[j - 1]
    OBVIOUS
  <2>3. Harmless(n, d)
    BY <2>1, <2>2 DEF Sure
  <2>4. o \in Nat /\ n \in Seq(Symbols) /\ At(s, o, n) /\ off[j] = o + Len(n) + 1 /\ Len(n) \in Nat
    BY <1>1, <2>1, TokenPlace
  <2>5. n \in A /\ (IsComment(n) \/ \A k \in 1..(j - 1) : ~IsSeparator(T[k]))
    BY <2>1, <2>2, SeparatorToken
  <2>6. IsComment(n) /\ Len(n) > 0
    BY <2>1, <2>5 DEF Woven
  <2> HIDE DEF o, n
  <2>7. IsLineComment(n, d) \/ IsBlockComment(n, d)
    BY <1>1, <2>3, <2>4, <2>6, NoiseBegins
  <2>8. o + 1 \in Skipped(s, i, d)
    BY <1>8 DEF o
  <2>9. o + Len(n) + 2 \in Skipped(s, i, d)
    BY <1>1, <1>6, <2>4, <2>7, <2>8, CommentSkipped
  <2> QED BY <2>4, <2>9
<1>9. SUFFICES ASSUME Bad # {} PROVE FALSE
  BY <1>2, <1>4, <1>5, <1>6, <1>9 DEF i
<1>10. PICK j \in Bad : \A k \in Bad : j <= k
  <2>1. Bad \subseteq Nat
    BY <1>2
  <2> HIDE DEF Bad
  <2> QED BY <1>9, <2>1, LeastNumber
<1>11. j # K /\ j \in K..J
  BY <1>7, <1>10
<1>12. j \in (K + 1)..J /\ j - 1 \in K..J /\ j - 1 < j
  BY <1>2, <1>11
<1>13. off[j - 1] + 1 \in Skipped(s, i, d)
  BY <1>10, <1>12
<1> QED BY <1>8, <1>10, <1>12, <1>13

LEMMA NothingBehind ==
    ASSUME NEW s, NEW d, NEW st, NEW T, NEW c, NEW A, NEW off, Woven(s, d, st, T, c, A, off),
           Sure(T, c, d), NEW K \in 1..Len(T), IsSeparator(T[K]),
           \A j \in (K + 1)..Len(T) : c[j] = c[j - 1]
    PROVE  SkipIgnorable(s, off[K - 1] + 2, d) = Behind(s)
<1> DEFINE i == off[K - 1] + 2
<1>1. s \in Seq(Symbols) /\ Layout(s, T, off) /\ T \in Seq(Seq(Symbols))
  BY DEF Woven, Weaves
<1>2. Len(T) \in K..Len(T) /\ Len(s) \in Nat /\ Behind(s) = Len(s) + 1
  BY <1>1 DEF Behind
<1>3. i \in 1..Behind(s) /\ off[Len(T)] + 1 \in Skipped(s, i, d)
  BY <1>2, CommentsSkipped
<1>4. off[Len(T)] + 1 = Behind(s)
  BY <1>1, <1>2 DEF Layout
<1> HIDE DEF i
<1>5. Behind(s) \notin 1..Len(s) /\ Behind(s) \in Skipped(s, i, d)
  BY <1>2, <1>3, <1>4
<1>6. SkipIgnorable(s, i, d) = Behind(s)
  BY <1>1, <1>3, <1>5, Skips
<1> QED BY <1>6 DEF i

LEMMA SomethingBehind ==
    ASSUME NEW s, NEW d, NEW st, NEW T, NEW c, NEW A, NEW off, Woven(s, d, st, T, c, A, off),
           Sure(T, c, d), NEW K \in 1..Len(T), IsSeparator(T[K]), NEW L \in (K + 1)..Len(T),
           c[L] # c[L - 1]
    PROVE  SkipIgnorable(s, off[K - 1] + 2, d) # Behind(s)
<1> DEFINE i == off[K - 1] + 2
           later == {j \in (K + 1)..Len(T) : c[j] # c[j - 1]}
<1>1. /\ st \in Statements /\ Weaves(st, T, c, A)
      /\ s \in Seq(Symbols) /\ Layout(s, T, off) /\ T \in Seq(Seq(Symbols))
  BY DEF Woven, Weaves
<1>2. Len(T) \in Nat /\ Len(s) \in Nat /\ Behind(s) = Len(s) + 1
  BY <1>1 DEF Behind
<1>3. PICK J \in later : \A j \in later : J <= j
  <2>1. later \subseteq Nat /\ later # {}
    BY <1>2
  <2> HIDE DEF later
  <2> QED BY <2>1, LeastNumber
<1>4. /\ J \in 1..Len(T) /\ J - 1 \in K..Len(T) /\ c[J] # c[J - 1]
      /\ \A j \in (K + 1)..(J - 1) : j \in (K + 1)..Len(T) /\ ~(J <= j)
  BY <1>2, <1>3
<1>5. \A j \in (K + 1)..(J - 1) : c[j] = c[j - 1]
  BY <1>3, <1>4
<1> HIDE DEF later
<1> DEFINE p == off[J - 1] + 1
<1>6. i \in 1..Behind(s) /\ p \in Skipped(s, i, d)
  BY <1>4, <1>5, CommentsSkipped
<1>7. /\ off[J - 1] \in Nat /\ off[J - 1] + 2 \in 1..Len(s)
      /\ s[p] = SymbolAt(st, c, J) /\ SymbolAt(st, c, J) \in Words \cup Marks
  BY <1>1, <1>4, StatementPlace, StatementToken
<1>8. p \in 1..Len(s) /\ s[p] \in Words \cup Marks
  BY <1>2, <1>7
<1> HIDE DEF p, i
<1>9. s[p] \in Plain /\ s[p] \notin Spaces
  BY <1>8, SymbolsApart DEF Spaces
<1>10. SkipComment(s, p, d) = p
  BY <1>1, <1>8, <1>9, PlainPast
<1>11. SkipIgnorable(s, i, d) = p
  BY <1>1, <1>6, <1>8, <1>9, <1>10, Skips
<1> QED BY <1>2, <1>8, <1>11 DEF i

-----------------------------------------------------------------------------
(* Texts of one statement. *)

\* What rises by one at most at every step.
Counts(c, n, m) ==
    /\ n \in Nat /\ m \in Nat /\ c \in [0..n -> 0..m] /\ c[0] = 0 /\ c[n] = m
    /\ \A j \in 1..n : c[j] = c[j - 1] \/ c[j] = c[j - 1] + 1

LEMMA Rising ==
    ASSUME NEW c, NEW n, NEW m, Counts(c, n, m), NEW i \in 0..n, NEW j \in i..n
    PROVE  c[i] <= c[j]
<1> DEFINE Bad == {k \in i..n : ~(c[i] <= c[k])}
<1>1. n \in Nat /\ c \in [0..n -> 0..m] /\ m \in Nat
  BY DEF Counts
<1>2. SUFFICES ASSUME Bad # {} PROVE FALSE
  BY <1>1, <1>2
<1>3. PICK k \in Bad : \A l \in Bad : k <= l
  <2>1. Bad \subseteq Nat
    BY <1>1
  <2> HIDE DEF Bad
  <2> QED BY <1>2, <2>1, LeastNumber
<1>4. k # i /\ c[i] \in Int
  BY <1>1, <1>3
<1>5. k - 1 \in i..n /\ k - 1 < k /\ k \in 1..n /\ k - 1 \in 0..n
  BY <1>1, <1>3, <1>4
<1>6. c[i] <= c[k - 1]
  BY <1>3, <1>5
<1>7. c[k - 1] <= c[k]
  <2>1. c[k] = c[k - 1] \/ c[k] = c[k - 1] + 1
    BY <1>5 DEF Counts
  <2>2. c[k - 1] \in Int
    BY <1>1, <1>5
  <2> QED BY <2>1, <2>2
<1>8. c[k - 1] \in Int /\ c[k] \in Int
  BY <1>1, <1>5
<1> QED BY <1>3, <1>4, <1>6, <1>7, <1>8

LEMMA Counted ==
    ASSUME NEW c, NEW n, NEW m, Counts(c, n, m), NEW i \in 1..m
    PROVE  \E j \in 1..n : c[j] = i /\ c[j] # c[j - 1]
<1> DEFINE reached == {j \in 0..n : i <= c[j]}
<1>1. n \in Nat /\ m \in Nat /\ c \in [0..n -> 0..m] /\ c[0] = 0 /\ c[n] = m
  BY DEF Counts
<1>2. PICK j \in reached : \A k \in reached : j <= k
  <2>1. reached \subseteq Nat /\ n \in reached
    BY <1>1
  <2> HIDE DEF reached
  <2> QED BY <2>1, LeastNumber
<1>3. j \in 1..n /\ j - 1 \in 0..n /\ j - 1 < j
  BY <1>1, <1>2
<1>4. c[j - 1] < i /\ i <= c[j] /\ c[j] \in Int /\ c[j - 1] \in Int
  BY <1>1, <1>2, <1>3
<1>5. c[j] = c[j - 1] \/ c[j] = c[j - 1] + 1
  BY <1>3 DEF Counts
<1> QED BY <1>3, <1>4, <1>5

LEMMA WeavesCounts ==
    ASSUME NEW st \in Statements, NEW T, NEW c, NEW A, Weaves(st, T, c, A)
    PROVE  Counts(c, Len(T), Len(st.tokens))
<1>1. Len(T) \in Nat /\ Len(st.tokens) \in Nat
  BY WeavesParts, StatementSymbols
<1>2. \A j \in 1..Len(T) : c[j] = c[j - 1] \/ c[j] = c[j - 1] + 1
  BY DEF Weaves, FromStatement, FromNoise
<1> QED BY <1>1, <1>2 DEF Weaves, Counts

\* No token of the statement stands behind a semicolon.
OneStatement(T, c) ==
    \A K, j \in 1..Len(T) : IsSeparator(T[K]) /\ K < j => c[j] = c[j - 1]

MeaningOf(st) ==
    /\ st.count = 1 <=> \A i \in DOMAIN SymbolsOf(st) :
                          SymbolsOf(st)[i] = ";" => i = Len(SymbolsOf(st))
    /\ st.kind \in Kinds \cup {""}
    /\ st.count = 1 => /\ \A kind \in Kinds : st.kind = kind <=> IsChange(SymbolsOf(st), kind)
                       /\ st.kind # "" => st.hasWhere = HasCondition(SymbolsOf(st), st.kind)

LEMMA Meaning ==
    ASSUME NEW st \in Statements
    PROVE  MeaningOf(st)
<1>1. Means(st)
  BY TextAssumption
<1> QED BY <1>1, Zenon DEF Means, SymbolsOf, MeaningOf

LEMMA CountedAsOne ==
    ASSUME NEW st \in Statements, NEW T, NEW c, NEW A, NEW s, NEW d, NEW off,
           Woven(s, d, st, T, c, A, off)
    PROVE  st.count = 1 <=> OneStatement(T, c)
<1> DEFINE symbols == SymbolsOf(st)
           M == Len(st.tokens)
<1>1. Weaves(st, T, c, A) /\ Len(T) \in Nat /\ M \in Nat
  BY WeavesParts, StatementSymbols DEF Woven
<1>2. Counts(c, Len(T), M)
  BY <1>1, WeavesCounts
<1>3. c \in [0..Len(T) -> 0..M]
  BY <1>2 DEF Counts
<1>4. st.count = 1 <=> \A i \in 1..M : symbols[i] = ";" => i = M
  <2>1. DOMAIN symbols = 1..M /\ Len(symbols) = M
    <3>1. symbols \in Seq(Words \cup Marks) /\ Len(symbols) = M
      BY StatementSymbols
    <3> HIDE DEF symbols
    <3> QED BY <3>1
  <2> QED BY <2>1, Meaning DEF MeaningOf
<1>5. ASSUME st.count = 1, NEW K \in 1..Len(T), NEW j \in 1..Len(T), IsSeparator(T[K]), K < j,
             c[j] # c[j - 1]
      PROVE  FALSE
  <2>1. c[K] # c[K - 1] /\ SeparatesAt(st, c, K)
    BY <1>5, SeparatorToken
  <2>2. c[K] \in 1..M /\ c[j] \in 1..M /\ c[j] = c[j - 1] + 1
    BY <1>1, <1>5, <2>1, StatementToken
  <2>3. symbols[c[K]] = ";"
    BY <2>1 DEF SeparatesAt, SymbolAt
  <2>4. c[K] = M
    BY <1>4, <1>5, <2>2, <2>3
  <2>5. K \in 0..Len(T) /\ j - 1 \in K..Len(T)
    BY <1>1, <1>5
  <2>6. c[K] <= c[j - 1]
    BY <1>2, <2>5, Rising
  <2>7. c[j - 1] \in Int
    BY <1>1, <1>3, <2>5
  <2> QED BY <1>1, <2>2, <2>4, <2>6, <2>7
<1>6. ASSUME OneStatement(T, c), NEW i \in 1..M, symbols[i] = ";", i # M
      PROVE  FALSE
  <2>1. i + 1 \in 1..M /\ i \in Nat
    <3>1. i # M
      BY <1>6
    <3> HIDE DEF M
    <3> QED BY ONLY <1>1, <3>1, i \in 1..M
  <2>2. PICK K \in 1..Len(T) : c[K] = i /\ c[K] # c[K - 1]
    BY <1>2, Counted
  <2>3. PICK j \in 1..Len(T) : c[j] = i + 1 /\ c[j] # c[j - 1]
    BY <1>2, <2>1, Counted
  <2>4. SeparatesAt(st, c, K)
    BY <1>6, <2>2 DEF SeparatesAt, SymbolAt
  <2>5. IsSeparator(T[K])
    BY <2>2, <2>4, SeparatorToken
  <2>6. K < j
    <3>1. SUFFICES ASSUME j <= K PROVE FALSE
      BY <1>1
    <3>2. j \in 0..Len(T) /\ K \in j..Len(T)
      BY <1>1, <3>1
    <3>3. c[j] <= c[K]
      BY <1>2, <3>2, Rising
    <3> QED BY <2>1, <2>2, <2>3, <3>3
  <2> QED BY <1>6, <2>3, <2>5, <2>6 DEF OneStatement
<1> QED BY <1>4, <1>5, <1>6 DEF OneStatement

LEMMA TokenWays ==
    ASSUME NEW s, NEW d, NEW st, NEW T, NEW c, NEW A, NEW off, Woven(s, d, st, T, c, A, off),
           Sure(T, c, d), NEW j \in 1..Len(T)
    PROVE  \E X : TokenWay(s, d, T, c, off, Depths(st, T, c), j, X)
<1>1. /\ st \in Statements /\ d \in Dialects /\ Weaves(st, T, c, A)
      /\ s \in Seq(Symbols) /\ Layout(s, T, off)
  BY DEF Woven
<1>2. CASE c[j] = c[j - 1]
  <2>1. Harmless(T[j], d)
    BY <1>2 DEF Sure
  <2> QED BY <1>1, <1>2, <2>1, NoiseWay
<1>3. CASE c[j] # c[j - 1]
  BY <1>1, <1>3, StatementWay
<1> QED BY <1>2, <1>3

\* What a scanner visits it visits in the way of a token.
LEMMA InTokenWay ==
    ASSUME NEW s, NEW d, NEW st, NEW T, NEW c, NEW A, NEW off, Woven(s, d, st, T, c, A, off),
           Sure(T, c, d), NEW x \in Visited(s, d, {}), x \in States(s)
    PROVE  \E j \in 1..Len(T) : \E X : TokenWay(s, d, T, c, off, Depths(st, T, c), j, X) /\ x \in X
<1>1. /\ st \in Statements /\ d \in Dialects /\ Weaves(st, T, c, A)
      /\ s \in Seq(Symbols) /\ Layout(s, T, off)
  BY DEF Woven
<1>2. \A j \in 1..Len(T) : \E X : TokenWay(s, d, T, c, off, Depths(st, T, c), j, X)
  BY TokenWays
<1> QED BY <1>1, <1>2, ScansTokens

LEMMA NothingRefused ==
    ASSUME NEW s, NEW d, NEW st, NEW T, NEW c, NEW A, NEW off, Woven(s, d, st, T, c, A, off),
           Sure(T, c, d), NEW E, NEW x \in Visited(s, d, E) \cap States(s)
    PROVE  ~Refused(s, x, d)
<1>1. s \in Seq(Symbols)
  BY DEF Woven
<1>2. x \in Visited(s, d, {}) /\ x \in States(s)
  BY <1>1, ScansLess
<1>3. PICK j \in 1..Len(T) :
        \E X : TokenWay(s, d, T, c, off, Depths(st, T, c), j, X) /\ x \in X
  BY <1>2, InTokenWay
<1> QED BY <1>3 DEF TokenWay, Crossing

\* The text is accepted as one statement only if it is one.
LEMMA OnlyOneAccepted ==
    ASSUME NEW s, NEW d, NEW st, NEW T, NEW c, NEW A, NEW off, Woven(s, d, st, T, c, A, off),
           WellFormedScan(s, d)
    PROVE  Sure(T, c, d) /\ OneStatement(T, c)
<1>1. Weaves(st, T, c, A) /\ st \in Statements /\ Len(T) \in Nat
  BY WeavesParts DEF Woven
<1>2. Sure(T, c, d)
  BY UncertainRefused DEF Sure
<1>3. SUFFICES ASSUME NEW k \in 1..Len(T), NEW j \in 1..Len(T), IsSeparator(T[k]), k < j,
                      c[j] # c[j - 1]
               PROVE  FALSE
  BY <1>2 DEF OneStatement
<1> DEFINE separators == {i \in 1..Len(T) : IsSeparator(T[i])}
<1>4. PICK K \in separators : \A i \in separators : K <= i
  <2>1. separators \subseteq Nat /\ separators # {}
    BY <1>3
  <2> HIDE DEF separators
  <2> QED BY <2>1, LeastNumber
<1>5. K \in 1..Len(T) /\ IsSeparator(T[K]) /\ K <= k
  BY <1>3, <1>4
<1>6. \A i \in 1..(K - 1) : i \in 1..Len(T) /\ ~IsSeparator(T[i])
  <2>1. \A i \in 1..(K - 1) : i \in 1..Len(T) /\ ~(K <= i)
    BY <1>1, <1>5
  <2> QED BY <1>4, <2>1
<1>7. \A i \in 1..(K - 1) : ~IsSeparator(T[i]) /\ (c[i] = c[i - 1] => Harmless(T[i], d))
  BY <1>2, <1>6 DEF Sure
<1> HIDE DEF separators
<1>8. StopsAt(s, Separators(s))
  BY DEF StopsAt
<1> DEFINE o == off[K - 1]
           e == End(s, d, Separators(s))
<1>9. e = <<o + 1, 0>> /\ o + 1 \in 1..Len(s) /\ o \in Nat
  BY <1>5, <1>7, <1>8, EndsAtSeparator
<1>10. j \in (K + 1)..Len(T)
  BY <1>1, <1>3, <1>5
<1>11. SkipIgnorable(s, o + 2, d) # Behind(s)
  BY <1>2, <1>3, <1>5, <1>10, SomethingBehind
<1>12. e[1] \in 1..Len(s) => SkipIgnorable(s, e[1] + 1, d) = Behind(s)
  BY Zenon DEF WellFormedScan
<1> HIDE DEF o, e
<1>13. e[1] = o + 1 /\ e[1] + 1 = o + 2
  BY <1>9
<1> QED BY <1>9, <1>11, <1>12, <1>13

LEMMA OneAccepted ==
    ASSUME NEW s, NEW d, NEW st, NEW T, NEW c, NEW A, NEW off, Woven(s, d, st, T, c, A, off),
           Sure(T, c, d), OneStatement(T, c)
    PROVE  WellFormedScan(s, d) /\ ~HasMultipleStatements(s, d)
<1>1. /\ Weaves(st, T, c, A) /\ st \in Statements /\ Len(T) \in Nat
      /\ s \in Seq(Symbols) /\ Len(s) \in Nat
  BY WeavesParts DEF Woven
<1>2. StopsAt(s, Separators(s)) /\ StopsAt(s, Separating(s, d))
  BY DEF StopsAt, Separating
<1>3. ASSUME NEW E, StopsAt(s, E)
      PROVE  /\ End(s, d, E)[1] # Refusal /\ End(s, d, E)[2] = 0
             /\ End(s, d, E)[1] \in 1..Len(s) =>
                  SkipIgnorable(s, End(s, d, E)[1] + 1, d) = Behind(s)
  <2> DEFINE separators == {i \in 1..Len(T) : IsSeparator(T[i])}
             e == End(s, d, E)
  <2>1. CASE separators = {}
    <3>1. \A i \in 1..Len(T) : ~IsSeparator(T[i]) /\ (c[i] = c[i - 1] => Harmless(T[i], d))
      BY <2>1 DEF Sure
    <3>2. e = <<Len(s) + 1, 0>>
      BY <1>3, <3>1, EndsBehind DEF StopsAt
    <3> HIDE DEF e
    <3>3. e[1] = Len(s) + 1 /\ e[2] = 0
      BY <3>2
    <3>4. e[1] # Refusal /\ e[1] \notin 1..Len(s)
      BY <1>1, <3>3 DEF Refusal
    <3> QED BY <3>3, <3>4 DEF e
  <2>2. CASE separators # {}
    <3>1. PICK K \in separators : \A i \in separators : K <= i
      <4>1. separators \subseteq Nat
        OBVIOUS
      <4> HIDE DEF separators
      <4> QED BY <2>2, <4>1, LeastNumber
    <3>2. K \in 1..Len(T) /\ IsSeparator(T[K])
      BY <3>1
    <3>3. \A i \in 1..(K - 1) : i \in 1..Len(T) /\ ~IsSeparator(T[i])
      <4>1. \A i \in 1..(K - 1) : i \in 1..Len(T) /\ ~(K <= i)
        BY <1>1, <3>2
      <4> QED BY <3>1, <4>1
    <3>4. \A i \in 1..(K - 1) : ~IsSeparator(T[i]) /\ (c[i] = c[i - 1] => Harmless(T[i], d))
      BY <3>3 DEF Sure
    <3> HIDE DEF separators
    <3> DEFINE o == off[K - 1]
    <3>5. e = <<o + 1, 0>> /\ o + 1 \in 1..Len(s) /\ o \in Nat
      BY <1>3, <3>2, <3>4, EndsAtSeparator
    <3>6. \A j \in (K + 1)..Len(T) : c[j] = c[j - 1]
      <4>1. \A j \in (K + 1)..Len(T) : j \in 1..Len(T) /\ K < j
        BY <1>1, <3>2
      <4> QED BY <3>2, <4>1 DEF OneStatement
    <3>7. SkipIgnorable(s, o + 2, d) = Behind(s)
      BY <3>2, <3>6, NothingBehind
    <3> HIDE DEF o, e
    <3>8. e[1] = o + 1 /\ e[1] + 1 = o + 2 /\ e[2] = 0 /\ e[1] # Refusal
      BY <3>5 DEF Refusal
    <3> QED BY <3>7, <3>8 DEF e
  <2> QED BY <2>1, <2>2
<1>4. \A x \in Visited(s, d, Separators(s)) \cap States(s) : ~Refused(s, x, d)
  BY NothingRefused
<1>5. WellFormedScan(s, d)
  BY <1>2, <1>3, <1>4 DEF WellFormedScan
<1>6. /\ End(s, d, Separating(s, d))[1] # Refusal
      /\ End(s, d, Separating(s, d))[1] \in 1..Len(s) =>
           SkipIgnorable(s, End(s, d, Separating(s, d))[1] + 1, d) = Behind(s)
  BY <1>2, <1>3
<1>7. ~HasMultipleStatements(s, d)
  BY <1>6, SeveralAreScanned
<1> QED BY <1>5, <1>7

-----------------------------------------------------------------------------
(* The words outside parentheses. *)

LEMMA AllReached ==
    ASSUME NEW s, NEW d, NEW st, NEW T, NEW c, NEW A, NEW off, Woven(s, d, st, T, c, A, off),
           Sure(T, c, d), NEW J \in 0..Len(T)
    PROVE  <<off[J] + 1, Depths(st, T, c)[J]>> \in Visited(s, d, {})
<1> DEFINE dep == Depths(st, T, c)
<1>1. /\ st \in Statements /\ Weaves(st, T, c, A)
      /\ s \in Seq(Symbols) /\ Layout(s, T, off) /\ T \in Seq(Seq(Symbols))
  BY DEF Woven, Weaves
<1>2. Len(T) \in Nat /\ dep[0] = 0
  BY <1>1, WeavesParts
<1>3. ASSUME NEW j \in 1..J PROVE Crosses(s, d, T, off, dep, j, {})
  <2>1. j \in 1..Len(T)
    BY <1>2
  <2>2. PICK X : TokenWay(s, d, T, c, off, dep, j, X)
    BY <2>1, TokenWays
  <2> QED BY <2>2 DEF TokenWay, Crosses
<1>4. ClosedFrom(Visited(s, d, {}), s, d, {})
  BY <1>1, Scanned
<1> HIDE DEF dep
<1>5. <<off[J] + 1, dep[J]>> \in Visited(s, d, {})
  BY <1>1, <1>2, <1>3, <1>4, Reached
<1> QED BY <1>5 DEF dep

LEMMA NextPlaced ==
    ASSUME NEW s, NEW T \in Seq(Seq(Symbols)), NEW off, Layout(s, T, off), NEW j \in 1..Len(T)
    PROVE  off[j - 1] < off[j]
<1>1. off[j - 1] \in Nat /\ Len(T[j]) \in Nat
  BY TokenPlace
<1>2. off[j] = off[j - 1] + Len(T[j]) + 1
  BY DEF Layout
<1> QED BY <1>1, <1>2

\* Tokens stand one behind the other.
LEMMA Placed ==
    ASSUME NEW s, NEW d, NEW st, NEW T, NEW c, NEW A, NEW off, Woven(s, d, st, T, c, A, off),
           NEW i \in 0..Len(T), NEW j \in 0..Len(T), i < j
    PROVE  off[i] \in Nat /\ off[j] \in Nat /\ off[i] < off[j]
<1> DEFINE later == (i + 1)..Len(T)
           Bad == {k \in later : ~(off[i] < off[k])}
<1>1. T \in Seq(Seq(Symbols)) /\ Len(T) \in Nat /\ Layout(s, T, off)
  BY WeavesParts DEF Woven, Weaves
<1>2. off \in [0..Len(T) -> Nat]
  BY <1>1 DEF Layout
<1>3. SUFFICES ASSUME Bad # {} PROVE FALSE
  <2>1. j \in later
    BY <1>1
  <2> QED BY <1>2, <1>3, <2>1
<1>4. PICK k \in Bad : \A l \in Bad : k <= l
  <2>1. Bad \subseteq Nat
    BY <1>1
  <2> HIDE DEF Bad
  <2> QED BY <1>3, <2>1, LeastNumber
<1>5. k \in 1..Len(T) /\ k - 1 \in 0..Len(T) /\ k \in 0..Len(T) /\ k - 1 < k
  BY <1>1, <1>4
<1>6. off[k - 1] \in Nat /\ off[k] \in Nat /\ off[i] \in Nat /\ off[k - 1] < off[k]
  BY <1>1, <1>2, <1>5, NextPlaced
<1>7. CASE k - 1 = i
  BY <1>4, <1>6, <1>7
<1>8. CASE k - 1 # i
  <2>1. k - 1 \in later
    BY <1>1, <1>4, <1>8
  <2>2. off[i] < off[k - 1]
    BY <1>4, <1>5, <2>1
  <2> QED BY <1>4, <1>6, <2>2
<1> QED BY <1>7, <1>8

\* Noise that may look like a word of the statement.
Wordy(T, c) == \E j \in 1..Len(T) : c[j] = c[j - 1] /\ T[j][1] \in Words

\* The words of the text are those of the statement, at the places pos, and others that no
\* change is recognized by.
Places(s, d, symbols, pos, T, c) ==
    /\ pos \in [DOMAIN symbols -> Nat]
    /\ \A k, l \in DOMAIN symbols : k < l => pos[k] < pos[l]
    /\ \A k \in Outer(symbols) : pos[k] \in TopLevelWords(s, d) /\ s[pos[k]] = symbols[k]
    /\ \A i \in TopLevelWords(s, d) :
         /\ i \in Nat
         /\ (\E k \in Outer(symbols) : i = pos[k]) \/ (s[i] \notin Keywords /\ Wordy(T, c))

LEMMA WordSeen ==
    ASSUME NEW s, NEW d, NEW st, NEW T, NEW c, NEW A, NEW off, Woven(s, d, st, T, c, A, off),
           Sure(T, c, d), NEW j \in 1..Len(T), c[j] # c[j - 1], c[j] \in Outer(SymbolsOf(st))
    PROVE  off[j - 1] + 1 \in TopLevelWords(s, d) /\ s[off[j - 1] + 1] = SymbolAt(st, c, j)
<1> DEFINE w == SymbolAt(st, c, j)
           o == off[j - 1]
           dep == Depths(st, T, c)
           m == dep[j - 1]
<1>1. /\ st \in Statements /\ Weaves(st, T, c, A)
      /\ s \in Seq(Symbols) /\ Layout(s, T, off) /\ Len(s) \in Nat
  BY DEF Woven
<1>2. j \in 0..Len(T) /\ j - 1 \in 0..Len(T)
  BY <1>1, WeavesParts
<1>3. w \in Words /\ dep[j] = 0
  BY <1>2 DEF Outer, Depths, SymbolAt
<1>4. dep[j] = Deeper(w, m)
  BY <1>1, StatementToken
<1>5. o \in Nat /\ o + 2 \in 1..Len(s) /\ s[o + 1] = w
  BY <1>1, StatementPlace
<1>6. <<o + 1, m>> \in Visited(s, d, {})
  BY <1>2, AllReached
<1> HIDE DEF o, w, m
<1>7. m = 0
  <2>1. w \notin {"(", ")"}
    BY <1>3, SymbolsApart
  <2> QED BY <1>3, <1>4, <2>1 DEF Deeper
<1>8. o + 1 \in 1..Len(s) /\ <<o + 1, 0>> \in States(s)
  BY <1>1, <1>5 DEF States
<1>9. o + 1 \in TopLevelWords(s, d)
  <2> DEFINE x == <<o + 1, 0>>
  <2>1. x[1] = o + 1 /\ x[2] = 0
    OBVIOUS
  <2>2. x \in Visited(s, d, {}) /\ x \in States(s) /\ s[o + 1] \in Words
    BY <1>3, <1>5, <1>6, <1>7, <1>8
  <2> HIDE DEF x
  <2> QED BY <2>1, <2>2, WordsAreScanned
<1> QED BY <1>5, <1>9 DEF o, w

LEMMA WordExplained ==
    ASSUME NEW s, NEW d, NEW st, NEW T, NEW c, NEW A, NEW off, Woven(s, d, st, T, c, A, off),
           Sure(T, c, d), NEW i \in TopLevelWords(s, d)
    PROVE  /\ i \in Nat
           /\ \/ \E j \in 1..Len(T) : /\ c[j] # c[j - 1] /\ c[j] \in Outer(SymbolsOf(st))
                                      /\ i = off[j - 1] + 1
              \/ s[i] \notin Keywords /\ Wordy(T, c)
<1>1. /\ st \in Statements /\ Weaves(st, T, c, A)
      /\ s \in Seq(Symbols) /\ Layout(s, T, off) /\ Len(s) \in Nat
  BY DEF Woven
<1>2. PICK x \in Visited(s, d, {}) : x[1] = i /\ x \in States(s) /\ x[2] = 0 /\ s[i] \in Words
  BY WordsAreScanned
<1>3. i \in Nat
  BY <1>1, <1>2 DEF States
<1> PICK j \in 1..Len(T) :
      \E Y : TokenWay(s, d, T, c, off, Depths(st, T, c), j, Y) /\ x \in Y
  BY <1>2, InTokenWay
<1>4. PICK X : TokenWay(s, d, T, c, off, Depths(st, T, c), j, X) /\ x \in X
  OBVIOUS
<1>5. CASE c[j] = c[j - 1]
  <2>1. Silent(s, T[j], X)
    BY <1>4, <1>5 DEF TokenWay
  <2>2. s[i] \notin Keywords /\ T[j][1] \in Words
    BY <1>2, <1>4, <2>1 DEF Silent
  <2> QED BY <1>3, <1>5, <2>2 DEF Wordy
<1>6. CASE c[j] # c[j - 1]
  <2> DEFINE o == off[j - 1]
             w == SymbolAt(st, c, j)
             dep == Depths(st, T, c)
             m == dep[j - 1]
  <2>1. x = <<o + 1, m>> \/ s[i] = "sp"
    BY <1>2, <1>4, <1>6 DEF TokenWay
  <2>2. s[i] # "sp"
    BY <1>2, SymbolsApart
  <2>3. s[o + 1] = w /\ o \in Nat
    BY <1>1, <1>6, StatementPlace
  <2>4. dep[j] = Deeper(w, m) /\ c[j] \in 1..Len(st.tokens)
    BY <1>1, <1>6, StatementToken
  <2>5. dep[j] = Depth(SymbolsOf(st), c[j])
    <3>1. j \in 0..Len(T)
      BY <1>1, WeavesParts
    <3> QED BY <3>1 DEF Depths
  <2>6. DOMAIN SymbolsOf(st) = 1..Len(st.tokens)
    <3>1. SymbolsOf(st) \in Seq(Words \cup Marks) /\ Len(SymbolsOf(st)) = Len(st.tokens)
      BY <1>1, StatementSymbols
    <3> QED BY <3>1
  <2> HIDE DEF o, w, m
  <2>7. i = o + 1 /\ m = 0 /\ w \in Words
    BY <1>2, <2>1, <2>2, <2>3
  <2>8. dep[j] = 0
    <3>1. w \notin {"(", ")"}
      BY <2>7, SymbolsApart
    <3> QED BY <2>4, <2>7, <3>1 DEF Deeper
  <2>9. c[j] \in Outer(SymbolsOf(st))
    BY <2>4, <2>5, <2>6, <2>7, <2>8 DEF Outer, w, SymbolAt
  <2> QED BY <1>3, <1>6, <2>7, <2>9 DEF o
<1> QED BY <1>5, <1>6

LEMMA WordsPlaced ==
    ASSUME NEW s, NEW d, NEW st, NEW T, NEW c, NEW A, NEW off, Woven(s, d, st, T, c, A, off),
           Sure(T, c, d)
    PROVE  \E pos : Places(s, d, SymbolsOf(st), pos, T, c)
<1> DEFINE symbols == SymbolsOf(st)
           M == Len(st.tokens)
           token == [k \in 1..M |-> CHOOSE j \in 1..Len(T) : c[j] = k /\ c[j] # c[j - 1]]
           pos == [k \in 1..M |-> off[token[k] - 1] + 1]
<1>1. /\ Weaves(st, T, c, A) /\ st \in Statements /\ Len(T) \in Nat /\ M \in Nat
      /\ Counts(c, Len(T), M)
  <2>1. Weaves(st, T, c, A) /\ st \in Statements
    BY DEF Woven
  <2> QED BY <2>1, WeavesParts, StatementSymbols, WeavesCounts
<1>2. DOMAIN symbols = 1..M
  <2>1. symbols \in Seq(Words \cup Marks) /\ Len(symbols) = M
    BY <1>1, StatementSymbols
  <2> HIDE DEF symbols
  <2> QED BY <2>1
<1>3. ASSUME NEW k \in 1..M
      PROVE  token[k] \in 1..Len(T) /\ c[token[k]] = k /\ c[token[k]] # c[token[k] - 1]
  <2>1. \E j \in 1..Len(T) : c[j] = k /\ c[j] # c[j - 1]
    BY <1>1, Counted
  <2> QED BY <2>1, Zenon
<1>4. ASSUME NEW j \in 1..Len(T), c[j] # c[j - 1]
      PROVE  c[j] \in 1..M /\ token[c[j]] = j
  <2> DEFINE i == token[c[j]]
  <2>1. c[j] \in 1..M
    BY <1>1, <1>4, StatementToken
  <2>2. i \in 1..Len(T) /\ c[i] = c[j] /\ c[i] # c[i - 1]
    BY <1>3, <2>1
  <2> HIDE DEF i
  <2>3. ASSUME NEW a \in 1..Len(T), NEW b \in 1..Len(T), a < b, c[a] = c[b], c[b] # c[b - 1]
        PROVE  FALSE
    <3>1. a \in 0..Len(T) /\ b - 1 \in a..Len(T) /\ b - 1 \in 0..Len(T)
      BY <1>1, <2>3
    <3>2. c[a] <= c[b - 1]
      BY <1>1, <3>1, Rising
    <3>3. c[b] = c[b - 1] + 1
      BY <1>1, <2>3 DEF Counts
    <3>4. c[b - 1] \in Int /\ c[a] \in Int
      <4>1. c \in [0..Len(T) -> 0..M]
        BY <1>1 DEF Counts
      <4> QED BY <1>1, <3>1, <4>1
    <3> QED BY <2>3, <3>2, <3>3, <3>4
  <2>4. ~(i < j) /\ ~(j < i)
    BY <1>4, <2>2, <2>3
  <2>5. i = j
    BY <1>1, <2>2, <2>4
  <2> QED BY <2>1, <2>5 DEF i
<1>5. ASSUME NEW k \in 1..M, NEW l \in 1..M, k < l PROVE token[k] < token[l]
  <2> DEFINE a == token[k]
             b == token[l]
  <2>1. a \in 1..Len(T) /\ c[a] = k /\ b \in 1..Len(T) /\ c[b] = l
    BY <1>3
  <2> HIDE DEF a, b, token
  <2>2. SUFFICES ASSUME ~(a < b) PROVE FALSE
    BY DEF a, b
  <2>3. b \in 0..Len(T) /\ a \in b..Len(T)
    BY <1>1, <2>1, <2>2
  <2>4. c[b] <= c[a]
    BY <1>1, <2>3, Rising
  <2> QED BY <1>1, <1>5, <2>1, <2>4
<1> HIDE DEF token
<1>6. ASSUME NEW k \in 1..M PROVE token[k] - 1 \in 0..Len(T) /\ off[token[k] - 1] \in Nat
  <2>1. token[k] - 1 \in 0..Len(T)
    BY <1>1, <1>3
  <2>2. off \in [0..Len(T) -> Nat]
    BY DEF Woven, Layout
  <2> QED BY <2>1, <2>2
<1>7. pos \in [DOMAIN symbols -> Nat]
  BY <1>2, <1>6
<1>8. ASSUME NEW k \in DOMAIN symbols, NEW l \in DOMAIN symbols, k < l PROVE pos[k] < pos[l]
  <2> DEFINE a == token[k] - 1
             b == token[l] - 1
  <2>1. k \in 1..M /\ l \in 1..M
    BY <1>2
  <2>2. a \in 0..Len(T) /\ b \in 0..Len(T) /\ a < b
    BY <1>1, <1>3, <1>5, <1>6, <1>8, <2>1
  <2>3. pos[k] = off[a] + 1 /\ pos[l] = off[b] + 1
    BY <2>1
  <2> HIDE DEF a, b, pos
  <2>4. off[a] \in Nat /\ off[b] \in Nat /\ off[a] < off[b]
    BY <2>2, Placed
  <2> QED BY <2>3, <2>4
<1>9. ASSUME NEW k \in Outer(symbols)
      PROVE  pos[k] \in TopLevelWords(s, d) /\ s[pos[k]] = symbols[k]
  <2> DEFINE j == token[k]
  <2>1. k \in 1..M
    BY <1>2 DEF Outer
  <2>2. j \in 1..Len(T) /\ c[j] = k /\ c[j] # c[j - 1] /\ pos[k] = off[j - 1] + 1
    BY <1>3, <2>1
  <2> HIDE DEF j, pos
  <2>3. off[j - 1] + 1 \in TopLevelWords(s, d) /\ s[off[j - 1] + 1] = SymbolAt(st, c, j)
    BY <2>2, WordSeen
  <2>4. SymbolAt(st, c, j) = symbols[k]
    BY <2>2 DEF SymbolAt
  <2> QED BY <2>2, <2>3, <2>4
<1>10. ASSUME NEW i \in TopLevelWords(s, d)
       PROVE  i \in Nat /\ ((\E k \in Outer(symbols) : i = pos[k])
                            \/ (s[i] \notin Keywords /\ Wordy(T, c)))
  <2>1. i \in Nat
    BY WordExplained
  <2>2. CASE s[i] \notin Keywords /\ Wordy(T, c)
    BY <2>1, <2>2
  <2>3. CASE ~(s[i] \notin Keywords /\ Wordy(T, c))
    <3>1. PICK j \in 1..Len(T) : /\ c[j] # c[j - 1] /\ c[j] \in Outer(SymbolsOf(st))
                                 /\ i = off[j - 1] + 1
      BY <2>3, WordExplained
    <3>2. c[j] \in 1..M /\ token[c[j]] = j
      BY <1>4, <3>1
    <3>3. i = pos[c[j]]
      BY <3>1, <3>2
    <3> QED BY <2>1, <3>1, <3>3
  <2> QED BY <2>2, <2>3
<1> HIDE DEF pos, symbols
<1>11. Places(s, d, symbols, pos, T, c)
  BY <1>7, <1>8, <1>9, <1>10 DEF Places
<1> QED BY <1>11 DEF symbols

-----------------------------------------------------------------------------
(* What a text is classified as. *)

Found(s, d, w, from) == {i \in TopLevelWords(s, d) : i > from /\ s[i] = w}
FirstWord(s, d) == Min(TopLevelWords(s, d))

\* ClassifyDML of a well-formed text: a change of the kind, of which the needed word is found.
Recognized(s, d, kind) ==
    /\ TopLevelWords(s, d) # {} /\ s[FirstWord(s, d)] = kind
    /\ kind # "insert" => Found(s, d, Needed(kind), FirstWord(s, d)) # {}

Conditional(s, d, kind) ==
    /\ kind # "insert"
    /\ Found(s, d, "where", Min(Found(s, d, Needed(kind), FirstWord(s, d)))) # {}

LEMMA ClassifiedAs ==
    ASSUME NEW s, NEW d
    PROVE  LET dml == ClassifyDML(s, d)
           IN  /\ dml.ok <=> /\ IsSingleWellFormedStatement(s, d)
                             /\ \E kind \in Kinds : Recognized(s, d, kind)
               /\ \A kind \in Kinds : dml.ok /\ Recognized(s, d, kind) =>
                    dml.kind = kind /\ dml.hasWhere = Conditional(s, d, kind)
<1> DEFINE words == TopLevelWords(s, d)
           first == FirstWord(s, d)
           w == s[first]
           dml == ClassifyDML(s, d)
           ok == IsSingleWellFormedStatement(s, d)
           classify(kind, needed) ==
             IF Found(s, d, needed, first) = {} THEN Unclassified
             ELSE Classified(kind, Found(s, d, "where", Min(Found(s, d, needed, first))) # {})
<1>1. dml = IF ~ok \/ words = {} THEN Unclassified
            ELSE CASE w = "insert" -> Classified("insert", FALSE)
                   [] w = "update" -> classify("update", "set")
                   [] w = "delete" -> classify("delete", "from")
                   [] OTHER -> Unclassified
  BY Zenon DEF ClassifyDML, Found, FirstWord
<1>2. /\ \A kind \in Kinds : Recognized(s, d, kind) <=>
           words # {} /\ w = kind /\ (kind # "insert" => Found(s, d, Needed(kind), first) # {})
      /\ \A kind \in Kinds : Conditional(s, d, kind) <=>
           /\ kind # "insert"
           /\ Found(s, d, "where", Min(Found(s, d, Needed(kind), first))) # {}
  BY Zenon DEF Recognized, Conditional
<1>3. Needed("update") = "set" /\ Needed("delete") = "from"
  BY DEF Needed
<1>4. \A kind, condition : /\ Classified(kind, condition).ok
                           /\ Classified(kind, condition).kind = kind
                           /\ Classified(kind, condition).hasWhere = condition
                           /\ ~Unclassified.ok
  BY DEF Classified, Unclassified
<1> HIDE DEF words, first, w, dml, ok
<1>5. CASE ~ok \/ words = {}
  <2>1. ~dml.ok
    BY <1>1, <1>4, <1>5
  <2>2. ~ok \/ ~ \E kind \in Kinds : Recognized(s, d, kind)
    BY <1>2, <1>5
  <2> QED BY <2>1, <2>2 DEF dml, ok
<1>6. CASE ok /\ words # {} /\ w = "insert"
  <2>1. dml = Classified("insert", FALSE)
    BY <1>1, <1>6
  <2>2. dml.ok /\ dml.kind = "insert" /\ dml.hasWhere = FALSE
    BY <1>4, <2>1
  <2>3. Recognized(s, d, "insert") /\ ~Conditional(s, d, "insert") /\ "insert" \in Kinds
    BY <1>2, <1>6 DEF Kinds
  <2>4. \A kind \in Kinds : Recognized(s, d, kind) => kind = "insert"
    BY <1>2, <1>6
  <2>5. Conditional(s, d, "insert") = FALSE
    BY <2>3 DEF Conditional
  <2> QED BY <1>6, <2>2, <2>3, <2>4, <2>5 DEF dml, ok
<1>7. CASE ok /\ words # {} /\ w = "update"
  <2> DEFINE found == Found(s, d, "set", first)
             condition == Found(s, d, "where", Min(found)) # {}
  <2>1. dml = IF found = {} THEN Unclassified ELSE Classified("update", condition)
    BY <1>1, <1>7
  <2>2. "update" \in Kinds /\ "update" # "insert"
    BY DEF Kinds
  <2>3. /\ Recognized(s, d, "update") <=> found # {}
        /\ Conditional(s, d, "update") <=> condition
    BY <1>2, <1>3, <1>7, <2>2
  <2>4. \A kind \in Kinds : Recognized(s, d, kind) => kind = "update"
    BY <1>2, <1>7
  <2>5. Conditional(s, d, "update") = condition
    BY <2>3, Zenon DEF Conditional
  <2> HIDE DEF found, condition
  <2>6. CASE found = {}
    <3>1. ~dml.ok /\ ~Recognized(s, d, "update")
      BY <1>4, <2>1, <2>3, <2>6
    <3> QED BY <2>4, <3>1 DEF dml, ok
  <2>7. CASE found # {}
    <3>1. dml.ok /\ dml.kind = "update" /\ dml.hasWhere = condition /\ Recognized(s, d, "update")
      BY <1>4, <2>1, <2>3, <2>7
    <3> QED BY <1>7, <2>2, <2>4, <2>5, <3>1 DEF dml, ok
  <2> QED BY <2>6, <2>7
<1>8. CASE ok /\ words # {} /\ w = "delete"
  <2> DEFINE found == Found(s, d, "from", first)
             condition == Found(s, d, "where", Min(found)) # {}
  <2>1. dml = IF found = {} THEN Unclassified ELSE Classified("delete", condition)
    BY <1>1, <1>8
  <2>2. "delete" \in Kinds /\ "delete" # "insert"
    BY DEF Kinds
  <2>3. /\ Recognized(s, d, "delete") <=> found # {}
        /\ Conditional(s, d, "delete") <=> condition
    BY <1>2, <1>3, <1>8, <2>2
  <2>4. \A kind \in Kinds : Recognized(s, d, kind) => kind = "delete"
    BY <1>2, <1>8
  <2>5. Conditional(s, d, "delete") = condition
    BY <2>3, Zenon DEF Conditional
  <2> HIDE DEF found, condition
  <2>6. CASE found = {}
    <3>1. ~dml.ok /\ ~Recognized(s, d, "delete")
      BY <1>4, <2>1, <2>3, <2>6
    <3> QED BY <2>4, <3>1 DEF dml, ok
  <2>7. CASE found # {}
    <3>1. dml.ok /\ dml.kind = "delete" /\ dml.hasWhere = condition /\ Recognized(s, d, "delete")
      BY <1>4, <2>1, <2>3, <2>7
    <3> QED BY <1>8, <2>2, <2>4, <2>5, <3>1 DEF dml, ok
  <2> QED BY <2>6, <2>7
<1>9. CASE ok /\ words # {} /\ w \notin Kinds
  <2>1. dml = Unclassified
    BY <1>1, <1>9 DEF Kinds
  <2>2. ~dml.ok
    BY <1>4, <2>1
  <2>3. ~ \E kind \in Kinds : Recognized(s, d, kind)
    BY <1>2, <1>9
  <2> QED BY <2>2, <2>3 DEF dml, ok
<1> QED BY <1>5, <1>6, <1>7, <1>8, <1>9 DEF Kinds

LEMMA InOrder ==
    ASSUME NEW s, NEW d, NEW symbols \in Seq(Words \cup Marks), NEW pos, NEW T, NEW c,
           Places(s, d, symbols, pos, T, c)
    PROVE  /\ \A k \in Outer(symbols) : k \in Nat
           /\ \A k, l \in Outer(symbols) : k < l <=> pos[k] < pos[l]
<1>1. DOMAIN symbols \subseteq Nat /\ Outer(symbols) \subseteq DOMAIN symbols
  BY DEF Outer
<1>2. /\ pos \in [DOMAIN symbols -> Nat]
      /\ \A k, l \in DOMAIN symbols : k < l => pos[k] < pos[l]
  BY Zenon DEF Places
<1>3. ASSUME NEW k \in Outer(symbols), NEW l \in Outer(symbols)
      PROVE  k < l <=> pos[k] < pos[l]
  <2>1. k \in DOMAIN symbols /\ l \in DOMAIN symbols /\ k \in Nat /\ l \in Nat
    BY <1>1
  <2>2. pos[k] \in Nat /\ pos[l] \in Nat
    BY <1>2, <2>1
  <2>3. (k < l => pos[k] < pos[l]) /\ (l < k => pos[l] < pos[k])
    BY <1>2, <2>1
  <2>4. CASE k = l
    <3>1. ~(k < l) /\ ~(pos[k] < pos[l])
      BY <2>1, <2>2, <2>4
    <3> QED BY <3>1
  <2>5. CASE k # l
    BY <2>1, <2>2, <2>3, <2>5
  <2> QED BY <2>4, <2>5
<1> QED BY <1>1, <1>3

LEMMA KindWords ==
    ASSUME NEW kind \in Kinds
    PROVE  /\ kind \in Keywords /\ Needed(kind) \in Keywords /\ "where" \in Keywords
           /\ Needed(kind) # kind
BY DEF Kinds, Keywords, Needed

\* A text is recognized as a change only if its statement is that change.
LEMMA RecognizedChange ==
    ASSUME NEW s, NEW d, NEW symbols \in Seq(Words \cup Marks), NEW pos, NEW T, NEW c,
           Places(s, d, symbols, pos, T, c), NEW kind \in Kinds, Recognized(s, d, kind)
    PROVE  /\ IsChange(symbols, kind)
           /\ Conditional(s, d, kind) <=> HasCondition(symbols, kind)
<1> DEFINE words == TopLevelWords(s, d)
           outer == Outer(symbols)
           first == FirstWord(s, d)
           needed == Needed(kind)
           found == Found(s, d, needed, first)
           least == Min(found)
<1>1. /\ words \subseteq Nat
      /\ \A k \in outer : k \in Nat /\ pos[k] \in words /\ s[pos[k]] = symbols[k]
      /\ \A k, l \in outer : k < l <=> pos[k] < pos[l]
      /\ \A i \in words : s[i] \in Keywords => \E k \in outer : i = pos[k]
  <2>1. /\ words \subseteq Nat
        /\ \A k \in outer : pos[k] \in words /\ s[pos[k]] = symbols[k]
    BY Zenon DEF Places
  <2>2. /\ \A k \in outer : k \in Nat
        /\ \A k, l \in outer : k < l <=> pos[k] < pos[l]
    BY InOrder
  <2>3. \A i \in words : s[i] \in Keywords => \E k \in outer : i = pos[k]
    BY Zenon DEF Places
  <2> QED BY <2>1, <2>2, <2>3
<1>2. kind \in Keywords /\ needed \in Keywords /\ "where" \in Keywords /\ needed # kind
  BY KindWords
<1>3. first \in words /\ (\A i \in words : first <= i) /\ s[first] = kind
  BY <1>1, MinimumOf DEF Recognized, FirstWord
<1>4. /\ found \subseteq words
      /\ \A i \in words : i \in found <=> i > first /\ s[i] = needed
      /\ kind # "insert" => found # {}
  BY DEF Found, Recognized
<1>5. Conditional(s, d, kind) <=>
        kind # "insert" /\ \E i \in words : i > least /\ s[i] = "where"
  BY DEF Conditional, Found
<1>6. IsChange(symbols, kind) <=>
        /\ \E i \in outer : symbols[i] = kind /\ \A j \in outer : i <= j
        /\ kind # "insert" => \E i \in outer : symbols[i] = needed
  BY Zenon DEF IsChange
<1>7. HasCondition(symbols, kind) <=>
        /\ kind # "insert"
        /\ \E i, j \in outer : i < j /\ symbols[i] = needed /\ symbols[j] = "where"
  BY Zenon DEF HasCondition
<1> HIDE DEF words, outer, first, needed, found, least
<1>8. PICK k \in outer : first = pos[k]
  BY <1>1, <1>2, <1>3
<1>9. symbols[k] = kind /\ \A j \in outer : k <= j
  <2>1. symbols[k] = kind
    BY <1>1, <1>3, <1>8
  <2>2. ASSUME NEW j \in outer PROVE k <= j
    <3>1. pos[k] <= pos[j] /\ pos[k] \in Nat /\ pos[j] \in Nat
      BY <1>1, <1>3, <1>8
    <3>2. ~(pos[j] < pos[k])
      BY <3>1
    <3>3. ~(j < k) /\ j \in Nat /\ k \in Nat
      BY <1>1, <3>2
    <3> QED BY <3>3
  <2> QED BY <2>1, <2>2
<1>10. ASSUME kind # "insert"
       PROVE  /\ \E i \in outer : symbols[i] = needed /\ least = pos[i]
              /\ least \in found /\ \A i \in found : least <= i
  <2>1. least \in found /\ \A i \in found : least <= i
    <3>1. found \subseteq Nat /\ found # {}
      BY <1>1, <1>4, <1>10
    <3> QED BY <3>1, MinimumOf DEF least
  <2>2. least \in words /\ s[least] = needed
    BY <1>4, <2>1
  <2>3. PICK i \in outer : least = pos[i]
    BY <1>1, <1>2, <2>2
  <2>4. symbols[i] = needed
    BY <1>1, <2>2, <2>3
  <2> QED BY <2>1, <2>3, <2>4
<1>11. IsChange(symbols, kind)
  BY <1>6, <1>9, <1>10
<1>12. ASSUME kind # "insert", NEW w \in words, w > least, s[w] = "where"
       PROVE  \E i, j \in outer : i < j /\ symbols[i] = needed /\ symbols[j] = "where"
  <2>1. PICK i \in outer : symbols[i] = needed /\ least = pos[i]
    BY <1>10, <1>12
  <2>2. PICK j \in outer : w = pos[j]
    BY <1>1, <1>2, <1>12
  <2>3. symbols[j] = "where"
    BY <1>1, <1>12, <2>2
  <2>4. pos[i] < pos[j]
    BY <1>1, <1>12, <2>1, <2>2
  <2> QED BY <1>1, <2>1, <2>3, <2>4
<1>13. ASSUME kind # "insert", NEW i \in outer, NEW j \in outer, i < j,
              symbols[i] = needed, symbols[j] = "where"
       PROVE  \E w \in words : w > least /\ s[w] = "where"
  <2>1. k # i /\ k <= i /\ k \in Nat /\ i \in Nat
    BY <1>1, <1>2, <1>9, <1>13
  <2>2. pos[k] < pos[i] /\ pos[i] \in words /\ s[pos[i]] = needed
    BY <1>1, <1>13, <2>1
  <2>3. pos[i] \in found
    <3>1. pos[i] > first /\ pos[i] \in Nat
      BY <1>1, <1>8, <2>2
    <3> QED BY <1>4, <2>2, <3>1
  <2>4. least <= pos[i] /\ pos[i] < pos[j] /\ pos[j] \in words /\ s[pos[j]] = "where"
    BY <1>1, <1>10, <1>13, <2>3
  <2>5. least \in Nat /\ pos[i] \in Nat /\ pos[j] \in Nat
    BY <1>1, <1>4, <1>10, <1>13, <2>2, <2>4
  <2>6. pos[j] > least
    BY <2>4, <2>5
  <2> QED BY <2>4, <2>6
<1>14. Conditional(s, d, kind) <=> HasCondition(symbols, kind)
  BY <1>5, <1>7, <1>12, <1>13
<1> QED BY <1>11, <1>14

\* And it is if the noise holds no word.
LEMMA ChangeRecognized ==
    ASSUME NEW s, NEW d, NEW symbols \in Seq(Words \cup Marks), NEW pos, NEW T, NEW c,
           Places(s, d, symbols, pos, T, c), ~Wordy(T, c), NEW kind \in Kinds,
           IsChange(symbols, kind)
    PROVE  Recognized(s, d, kind)
<1> DEFINE words == TopLevelWords(s, d)
           outer == Outer(symbols)
           first == FirstWord(s, d)
           needed == Needed(kind)
           found == Found(s, d, needed, first)
<1>1. /\ words \subseteq Nat
      /\ \A k \in outer : k \in Nat /\ pos[k] \in words /\ s[pos[k]] = symbols[k]
      /\ \A k, l \in outer : k < l <=> pos[k] < pos[l]
      /\ \A i \in words : \E k \in outer : i = pos[k]
  <2>1. /\ words \subseteq Nat
        /\ \A k \in outer : pos[k] \in words /\ s[pos[k]] = symbols[k]
    BY Zenon DEF Places
  <2>2. /\ \A k \in outer : k \in Nat
        /\ \A k, l \in outer : k < l <=> pos[k] < pos[l]
    BY InOrder
  <2>3. \A i \in words : \E k \in outer : i = pos[k]
    BY Zenon DEF Places
  <2> QED BY <2>1, <2>2, <2>3
<1>2. kind \in Keywords /\ needed # kind
  BY KindWords
<1>3. PICK k \in outer : symbols[k] = kind /\ \A j \in outer : k <= j
  BY Zenon DEF IsChange
<1>4. kind # "insert" => \E i \in outer : symbols[i] = needed
  BY Zenon DEF IsChange
<1>5. \A i : i \in found <=> i \in words /\ i > first /\ s[i] = needed
  BY DEF Found
<1>6. Recognized(s, d, kind) <=>
        words # {} /\ s[first] = kind /\ (kind # "insert" => found # {})
  BY Zenon DEF Recognized
<1>7. first = Min(words)
  BY DEF FirstWord
<1> HIDE DEF words, outer, first, needed, found
<1>8. pos[k] \in words /\ pos[k] \in Nat /\ s[pos[k]] = kind
  BY <1>1, <1>3
<1>9. ASSUME NEW i \in words PROVE pos[k] <= i
  <2>1. PICK j \in outer : i = pos[j]
    BY <1>1
  <2>2. k <= j /\ k \in Nat /\ j \in Nat
    BY <1>1, <1>3
  <2>3. ~(j < k)
    BY <2>2
  <2>4. ~(pos[j] < pos[k])
    BY <1>1, <2>3
  <2> QED BY <1>1, <1>8, <2>1, <2>4
<1>10. first = pos[k]
  BY <1>1, <1>7, <1>8, <1>9, MinimumIs
<1>11. ASSUME kind # "insert" PROVE found # {}
  <2>1. PICK i \in outer : symbols[i] = needed
    BY <1>4, <1>11
  <2>2. k # i /\ k <= i /\ k \in Nat /\ i \in Nat
    BY <1>1, <1>2, <1>3, <2>1
  <2>5. pos[i] \in words /\ s[pos[i]] = needed
    BY <1>1, <2>1
  <2>6. pos[k] < pos[i]
    BY <1>1, <2>2
  <2>3. pos[k] < pos[i] /\ pos[i] \in words /\ s[pos[i]] = needed /\ pos[i] \in Nat
    BY <1>1, <2>5, <2>6
  <2>4. pos[i] > first
    BY <1>8, <1>10, <2>3
  <2> QED BY <1>5, <2>3, <2>4
<1> QED BY <1>6, <1>8, <1>10, <1>11

LEMMA TruthValues ==
    ASSUME NEW s, NEW d, NEW symbols, NEW kind
    PROVE  Conditional(s, d, kind) \in BOOLEAN /\ HasCondition(symbols, kind) \in BOOLEAN
<1>1. Conditional(s, d, kind) \in BOOLEAN
  BY Zenon DEF Conditional
<1>2. HasCondition(symbols, kind) \in BOOLEAN
  BY Zenon DEF HasCondition
<1> QED BY <1>1, <1>2

\* The noise that is not doubtful is read alike by all servers, and no word of the statement.
LEMMA PlainNoise ==
    ASSUME NEW n \in Seq(Symbols), Len(n) > 0, NEW d, ~Doubtful(n)
    PROVE  ~Uncertain(n, d) /\ n[1] \notin Words
<1>1. \A i \in 1..Len(n) : n[i] \in ToSet(n)
  BY DEF ToSet
<1>2. \A i \in 1..Len(n) : n[i] # "bs" /\ n[i] # "/*!"
  BY <1>1 DEF Doubtful
<1>3. 1 \in 1..Len(n) /\ Len(n) \in Nat
  OBVIOUS
<1>4. ~IsExecutableComment(n, d)
  BY <1>2, <1>3 DEF IsExecutableComment
<1>5. ~IsUncertainQuote(n, d)
  <2>1. SUFFICES ASSUME NEW i \in 1..2, NEW k \in (i + 1)..Len(n), n[k] = "bs" PROVE FALSE
    BY DEF IsUncertainQuote
  <2>2. k \in 1..Len(n)
    BY <1>3
  <2> QED BY <1>2, <2>1, <2>2
<1> QED BY <1>4, <1>5 DEF Uncertain, Doubtful

LEMMA AcceptedAsWritten ==
    ASSUME NEW s, NEW d, NEW st, NEW T, NEW c, NEW A, NEW off, Woven(s, d, st, T, c, A, off),
           ClassifyDML(s, d).ok
    PROVE  /\ st.kind # "" /\ st.count = 1
           /\ ClassifyDML(s, d).kind = st.kind /\ ClassifyDML(s, d).hasWhere = st.hasWhere
<1> DEFINE symbols == SymbolsOf(st)
           dml == ClassifyDML(s, d)
<1>1. st \in Statements
  BY DEF Woven
<1>2. IsSingleWellFormedStatement(s, d) /\ \E kind \in Kinds : Recognized(s, d, kind)
  BY ClassifiedAs
<1>3. Sure(T, c, d) /\ OneStatement(T, c)
  BY <1>2, WellFormedIsScanned, OnlyOneAccepted
<1>4. st.count = 1
  BY <1>1, <1>3, CountedAsOne
<1>5. PICK pos : Places(s, d, symbols, pos, T, c)
  BY <1>3, WordsPlaced
<1>6. PICK kind \in Kinds : Recognized(s, d, kind)
  BY <1>2
<1>7. dml.kind = kind /\ dml.hasWhere = Conditional(s, d, kind)
  BY <1>6, ClassifiedAs
<1>8. symbols \in Seq(Words \cup Marks)
  BY <1>1, StatementSymbols
<1>9. /\ \A k \in Kinds : st.kind = k <=> IsChange(symbols, k)
      /\ st.kind # "" => st.hasWhere = HasCondition(symbols, st.kind)
  BY <1>1, <1>4, Meaning DEF MeaningOf
<1> HIDE DEF symbols, dml
<1>10. IsChange(symbols, kind) /\ (Conditional(s, d, kind) <=> HasCondition(symbols, kind))
  BY <1>5, <1>6, <1>8, RecognizedChange
<1>11. st.kind = kind /\ kind # ""
  BY <1>9, <1>10 DEF Kinds
<1>12. st.hasWhere = HasCondition(symbols, kind)
  BY <1>9, <1>11
<1>13. Conditional(s, d, kind) = HasCondition(symbols, kind)
  BY <1>10, TruthValues, Zenon
<1> QED BY <1>4, <1>7, <1>11, <1>12, <1>13 DEF dml

LEMMA WrittenAccepted ==
    ASSUME NEW s, NEW d, NEW st, NEW T, NEW c, NEW A, NEW off, Woven(s, d, st, T, c, A, off),
           st.kind # "", st.count = 1, \A n \in A : ~Doubtful(n)
    PROVE  ClassifyDML(s, d).ok /\ ~HasMultipleStatements(s, d)
<1> DEFINE symbols == SymbolsOf(st)
           kind == st.kind
<1>1. st \in Statements /\ d \in Dialects
  BY DEF Woven
<1>2. ASSUME NEW j \in 1..Len(T), c[j] = c[j - 1]
      PROVE  Harmless(T[j], d) /\ T[j][1] \notin Words
  <2>1. T[j] \in A /\ T[j] \in Seq(Symbols) /\ Len(T[j]) > 0
        /\ (Harmless(T[j], d) \/ Uncertain(T[j], d))
    BY <1>2, NoiseToken
  <2>2. ~Doubtful(T[j])
    BY <2>1
  <2> QED BY <2>1, <2>2, PlainNoise
<1>3. Sure(T, c, d)
  BY <1>2 DEF Sure
<1>4. ~Wordy(T, c)
  BY <1>2 DEF Wordy
<1>5. OneStatement(T, c)
  BY <1>1, CountedAsOne
<1>6. WellFormedScan(s, d) /\ ~HasMultipleStatements(s, d)
  BY <1>3, <1>5, OneAccepted
<1>7. PICK pos : Places(s, d, symbols, pos, T, c)
  BY <1>3, WordsPlaced
<1>8. symbols \in Seq(Words \cup Marks)
  BY <1>1, StatementSymbols
<1>9. kind \in Kinds /\ IsChange(symbols, kind)
  BY <1>1, Meaning DEF MeaningOf
<1> HIDE DEF symbols, kind
<1>10. Recognized(s, d, kind)
  BY <1>4, <1>7, <1>8, <1>9, ChangeRecognized
<1>11. IsSingleWellFormedStatement(s, d)
  BY <1>6, WellFormedIsScanned
<1>12. ClassifyDML(s, d).ok
  BY <1>9, <1>10, <1>11, ClassifiedAs
<1> QED BY <1>6, <1>12

-----------------------------------------------------------------------------
(* Noise is added to statements. *)

\* Sequence s is T with e at place i.
IsInserted(s, T, i, e) ==
    /\ Len(s) = Len(T) + 1
    /\ \A j \in 1..(Len(T) + 1) : /\ j < i => s[j] = T[j]
                                  /\ j = i => s[j] = e
                                  /\ j > i => s[j] = T[j - 1]

LEMMA Inserted ==
    ASSUME NEW S, NEW T \in Seq(S), NEW i \in 1..(Len(T) + 1), NEW e \in S
    PROVE  InsertAt(T, i, e) \in Seq(S) /\ IsInserted(InsertAt(T, i, e), T, i, e)
<1> DEFINE a == SubSeq(T, 1, i - 1)
           b == <<e>>
           r == SubSeq(T, i, Len(T))
<1>1. Len(T) \in Nat /\ i \in Nat
  OBVIOUS
<1>2. a \in Seq(S) /\ Len(a) = i - 1 /\ \A j \in 1..(i - 1) : a[j] = T[j]
  BY <1>1
<1>3. b \in Seq(S) /\ Len(b) = 1 /\ b[1] = e
  OBVIOUS
<1>4. r \in Seq(S) /\ Len(r) = Len(T) - i + 1 /\ \A j \in 1..(Len(T) - i + 1) : r[j] = T[i + j - 1]
  BY <1>1
<1>5. InsertAt(T, i, e) = a \o b \o r
  BY DEF InsertAt
<1> HIDE DEF a, b, r
<1> DEFINE ab == a \o b
           t == ab \o r
<1>6. /\ ab \in Seq(S) /\ Len(ab) = i
      /\ \A j \in 1..i : ab[j] = IF j <= i - 1 THEN a[j] ELSE b[j - (i - 1)]
  <2>1. /\ ab \in Seq(S) /\ Len(ab) = Len(a) + Len(b)
        /\ \A j \in 1..(Len(a) + Len(b)) : ab[j] = IF j <= Len(a) THEN a[j] ELSE b[j - Len(a)]
    BY <1>2, <1>3, ConcatProperties
  <2> HIDE DEF ab
  <2> QED BY <1>1, <1>2, <1>3, <2>1
<1> HIDE DEF ab
<1>7. /\ t \in Seq(S) /\ Len(t) = Len(T) + 1
      /\ \A j \in 1..(Len(T) + 1) : t[j] = IF j <= i THEN ab[j] ELSE r[j - i]
  <2>1. /\ t \in Seq(S) /\ Len(t) = Len(ab) + Len(r)
        /\ \A j \in 1..(Len(ab) + Len(r)) : t[j] = IF j <= Len(ab) THEN ab[j] ELSE r[j - Len(ab)]
    BY <1>4, <1>6, ConcatProperties
  <2> HIDE DEF t
  <2>2. Len(ab) + Len(r) = Len(T) + 1
    BY <1>1, <1>4, <1>6
  <2> QED BY <1>6, <2>1, <2>2
<1>8. InsertAt(T, i, e) = t
  BY <1>5 DEF ab
<1> HIDE DEF t
<1>9. ASSUME NEW j \in 1..(Len(T) + 1), j < i PROVE t[j] = T[j]
  <2>1. t[j] = ab[j] /\ ab[j] = a[j]
    BY <1>1, <1>6, <1>7, <1>9
  <2> QED BY <1>1, <1>2, <1>9, <2>1
<1>10. ASSUME NEW j \in 1..(Len(T) + 1), j = i PROVE t[j] = e
  <2>1. t[j] = ab[j] /\ ab[j] = b[1]
    BY <1>1, <1>6, <1>7, <1>10
  <2> QED BY <1>3, <2>1
<1>11. ASSUME NEW j \in 1..(Len(T) + 1), j > i PROVE t[j] = T[j - 1]
  <2>1. t[j] = r[j - i] /\ j - i \in 1..(Len(T) - i + 1)
    BY <1>1, <1>7, <1>11
  <2>2. r[j - i] = T[i + (j - i) - 1] /\ i + (j - i) - 1 = j - 1
    BY <1>1, <1>4, <2>1
  <2> QED BY <2>1, <2>2
<1> QED BY <1>7, <1>8, <1>9, <1>10, <1>11 DEF IsInserted

LEMMA AddedWeaves ==
    ASSUME NEW st \in Statements, NEW T, NEW c, NEW A, Weaves(st, T, c, A),
           NEW i \in 1..(Len(T) + 1), NEW n \in Seq(Symbols), ~IsSeparator(n),
           IsComment(n) \/ \A k \in 1..(i - 1) : ~IsSeparator(T[k])
    PROVE  \E cc : Weaves(st, InsertAt(T, i, n), cc, A \cup {n})
<1> DEFINE N == Len(T)
           M == Len(st.tokens)
           TT == InsertAt(T, i, n)
           AA == A \cup {n}
           cc == [j \in 0..(N + 1) |-> IF j < i THEN c[j] ELSE c[j - 1]]
<1>1. /\ T \in Seq(Seq(Symbols)) /\ N \in Nat /\ N > 0 /\ i \in Nat
      /\ c \in [0..N -> 0..M] /\ c[0] = 0 /\ c[N] = M
      /\ \A j \in 1..N : FromStatement(st, T, c, j) \/ FromNoise(T, c, A, j)
  BY DEF Weaves
<1>2. /\ TT \in Seq(Seq(Symbols)) /\ Len(TT) = N + 1
      /\ \A j \in 1..(N + 1) : /\ j < i => TT[j] = T[j]
                               /\ j = i => TT[j] = n
                               /\ j > i => TT[j] = T[j - 1]
  <2> DEFINE S == Seq(Symbols)
  <2>1. T \in Seq(S) /\ n \in S /\ i \in 1..(Len(T) + 1)
    BY <1>1
  <2> HIDE DEF S
  <2>2. TT \in Seq(S) /\ IsInserted(TT, T, i, n)
    BY ONLY <2>1, Inserted
  <2> HIDE DEF TT
  <2> QED BY <2>2 DEF S, IsInserted
<1> HIDE DEF TT
<1>3. cc \in [0..(N + 1) -> 0..M] /\ cc[0] = 0 /\ cc[N + 1] = M
  <2>1. ASSUME NEW j \in 0..(N + 1) PROVE (IF j < i THEN c[j] ELSE c[j - 1]) \in 0..M
    <3>1. (j < i => j \in 0..N) /\ (~(j < i) => j - 1 \in 0..N)
      BY <1>1
    <3>2. j < i => c[j] \in 0..M
      BY <1>1, <3>1
    <3>3. ~(j < i) => c[j - 1] \in 0..M
      BY <1>1, <3>1
    <3> QED BY <3>2, <3>3
  <2>2. 0 \in 0..(N + 1) /\ N + 1 \in 0..(N + 1) /\ 0 < i /\ ~(N + 1 < i) /\ N + 1 - 1 = N
    BY <1>1
  <2>3. cc \in [0..(N + 1) -> 0..M]
    BY <2>1
  <2>4. cc[0] = c[0] /\ cc[N + 1] = c[N + 1 - 1]
    BY <2>2
  <2> HIDE DEF cc
  <2>5. cc[N + 1] = c[N]
    BY <2>2, <2>4
  <2> QED BY <1>1, <2>3, <2>4, <2>5
<1>4. \A j \in 0..(N + 1) : (j < i => cc[j] = c[j]) /\ (~(j < i) => cc[j] = c[j - 1])
  OBVIOUS
<1> HIDE DEF cc
<1>5. ASSUME NEW j \in 1..(N + 1), j < i
      PROVE  FromStatement(st, TT, cc, j) \/ FromNoise(TT, cc, AA, j)
  <2>1. j \in 1..N /\ j - 1 \in 0..(N + 1) /\ j - 1 < i /\ j \in 0..(N + 1)
    BY <1>1, <1>5
  <2>2. cc[j] = c[j] /\ cc[j - 1] = c[j - 1] /\ TT[j] = T[j]
    BY <1>2, <1>4, <1>5, <2>1
  <2>3. CASE FromStatement(st, T, c, j)
    BY <2>2, <2>3 DEF FromStatement
  <2>4. CASE FromNoise(T, c, A, j)
    <3>1. /\ c[j] = c[j - 1] /\ T[j] \in A
          /\ IsComment(T[j]) \/ \A k \in 1..(j - 1) : ~IsSeparator(T[k])
      BY <2>4 DEF FromNoise
    <3>2. \A k \in 1..(j - 1) : TT[k] = T[k]
      <4>1. \A k \in 1..(j - 1) : k \in 1..(N + 1) /\ k < i
        BY <1>1, <1>5
      <4> QED BY <1>2, <4>1
    <3> QED BY <2>2, <3>1, <3>2 DEF FromNoise
  <2> QED BY <1>1, <2>1, <2>3, <2>4
<1>6. FromNoise(TT, cc, AA, i)
  <2>1. i \in 1..(N + 1) /\ i \in 0..(N + 1) /\ i - 1 \in 0..(N + 1) /\ i - 1 < i /\ ~(i < i)
    BY <1>1
  <2>2. cc[i] = cc[i - 1] /\ TT[i] = n
    BY <1>2, <1>4, <2>1
  <2>3. \A k \in 1..(i - 1) : TT[k] = T[k]
    <3>1. \A k \in 1..(i - 1) : k \in 1..(N + 1) /\ k < i
      BY <1>1
    <3> QED BY <1>2, <3>1
  <2> QED BY <2>2, <2>3 DEF FromNoise
<1>7. ASSUME NEW j \in 1..(N + 1), j > i
      PROVE  FromStatement(st, TT, cc, j) \/ FromNoise(TT, cc, AA, j)
  <2> DEFINE l == j - 1
  <2>1. /\ l \in 1..N /\ j \in 0..(N + 1) /\ l \in 0..(N + 1) /\ ~(j < i) /\ ~(l < i)
        /\ l = j - 1 /\ i \in 1..l
    BY <1>1, <1>7
  <2>2. cc[j] = c[l] /\ cc[l] = c[l - 1] /\ TT[j] = T[l]
    BY <1>2, <1>4, <1>7, <2>1
  <2> HIDE DEF l
  <2>3. CASE FromStatement(st, T, c, l)
    BY <2>1, <2>2, <2>3 DEF FromStatement
  <2>4. CASE FromNoise(T, c, A, l)
    <3>1. /\ c[l] = c[l - 1] /\ T[l] \in A
          /\ IsComment(T[l]) \/ \A k \in 1..(l - 1) : ~IsSeparator(T[k])
      BY <2>4 DEF FromNoise
    <3>2. ASSUME \A k \in 1..(l - 1) : ~IsSeparator(T[k]), NEW k \in 1..(j - 1)
          PROVE  ~IsSeparator(TT[k])
      <4>1. k \in 1..(N + 1) /\ k \in Nat
        BY <1>1, <2>1
      <4>2. CASE k < i
        <5>1. k \in 1..(l - 1) /\ TT[k] = T[k]
          BY <1>1, <1>2, <2>1, <4>1, <4>2
        <5> QED BY <3>2, <5>1
      <4>3. CASE k = i
        BY <1>2, <4>1, <4>3
      <4>4. CASE k > i
        <5>1. k - 1 \in 1..(l - 1) /\ TT[k] = T[k - 1]
          BY <1>1, <1>2, <2>1, <4>1, <4>4
        <5> QED BY <3>2, <5>1
      <4> QED BY <1>1, <4>1, <4>2, <4>3, <4>4
    <3> QED BY <2>1, <2>2, <3>1, <3>2 DEF FromNoise
  <2> QED BY <1>1, <2>1, <2>3, <2>4
<1>8. \A j \in 1..(N + 1) : FromStatement(st, TT, cc, j) \/ FromNoise(TT, cc, AA, j)
  <2>1. \A j \in 1..(N + 1) : j < i \/ j = i \/ j > i
    BY <1>1
  <2> QED BY <1>5, <1>6, <1>7, <2>1
<1>9. Weaves(st, TT, cc, AA)
  <2>1. Len(TT) > 0
    BY <1>1, <1>2
  <2> QED BY <1>2, <1>3, <1>8, <2>1 DEF Weaves
<1> QED BY <1>9 DEF TT

\* The tokens are those of the statement, in their order, and noise between them.
NoiseInv ==
    /\ dialect \in Dialects /\ statement \in Statements /\ added \subseteq Noise[dialect]
    /\ \E c : Weaves(statement, tokens, c, added)

\* Initially there is no noise.
LEMMA NoiseInit == Init => NoiseInv
<1> SUFFICES ASSUME Init PROVE NoiseInv
  OBVIOUS
<1> DEFINE N == Len(tokens)
           c == [j \in 0..N |-> j]
<1>1. /\ dialect \in Dialects /\ statement \in Statements /\ added = {}
      /\ tokens = statement.tokens
  BY DEF Init
<1>2. tokens \in Seq(Seq(Symbols)) /\ N \in Nat /\ N > 0
  BY <1>1, StatementSymbols
<1>3. /\ c \in [0..N -> 0..N] /\ c[0] = 0 /\ c[N] = N
      /\ \A j \in 1..N : c[j] = c[j - 1] + 1 /\ c[j] = j
  BY <1>2
<1> HIDE DEF c
<1>4. \A j \in 1..N : FromStatement(statement, tokens, c, j)
  BY <1>1, <1>3 DEF FromStatement
<1>5. Weaves(statement, tokens, c, added)
  BY <1>1, <1>2, <1>3, <1>4 DEF Weaves
<1> QED BY <1>1, <1>5 DEF NoiseInv

LEMMA NoiseStep == NoiseInv /\ [Next]_vars => NoiseInv'
<1> SUFFICES ASSUME NoiseInv, [Next]_vars PROVE NoiseInv'
  OBVIOUS
<1>1. CASE AddNoise
  <2>1. PICK n \in Noise[dialect], i \in 1..(Len(tokens) + 1) :
          /\ MayStand(n, i) /\ tokens' = InsertAt(tokens, i, n) /\ added' = added \cup {n}
    BY <1>1 DEF AddNoise
  <2>2. UNCHANGED <<dialect, statement>>
    BY <1>1 DEF AddNoise
  <2>3. PICK c : Weaves(statement, tokens, c, added)
    BY DEF NoiseInv
  <2>4. /\ dialect \in Dialects /\ statement \in Statements /\ added \subseteq Noise[dialect]
    BY DEF NoiseInv
  <2>5. n \in Seq(Symbols) /\ Len(n) > 0 /\ (Harmless(n, dialect) \/ Uncertain(n, dialect))
    BY <2>4, TextAssumption
  <2>6. ~IsSeparator(n)
    BY <2>4, <2>5, NoiseBegins
  <2>7. IsComment(n) \/ \A k \in 1..(i - 1) : ~IsSeparator(tokens[k])
    BY <2>1 DEF MayStand, IsSeparator
  <2>8. \E cc : Weaves(statement, InsertAt(tokens, i, n), cc, added \cup {n})
    BY <2>3, <2>4, <2>5, <2>6, <2>7, AddedWeaves
  <2>9. added' \subseteq Noise[dialect]
    BY <2>1, <2>4
  <2> QED BY <2>1, <2>2, <2>4, <2>8, <2>9 DEF NoiseInv
<1>2. CASE UNCHANGED vars
  BY <1>2 DEF NoiseInv, vars
<1> QED BY <1>1, <1>2 DEF Next

\* The text that is scanned is that of the statement with its noise.
LEMMA TextWoven ==
    ASSUME NoiseInv
    PROVE  \E c, off : Woven(Text, dialect, statement, tokens, c, added, off)
<1>1. /\ dialect \in Dialects /\ statement \in Statements /\ added \subseteq Noise[dialect]
  BY DEF NoiseInv
<1>2. PICK c : Weaves(statement, tokens, c, added)
  BY DEF NoiseInv
<1>3. tokens \in Seq(Seq(Symbols)) /\ Len(tokens) > 0
  BY <1>2 DEF Weaves
<1>4. Text = Written(tokens)
  BY DEF Text, Written
<1>5. Text \in Seq(Symbols) /\ \E off : Layout(Text, tokens, off)
  BY <1>3, <1>4, TextLayout
<1>6. PICK off : Layout(Text, tokens, off)
  BY <1>5
<1>7. \A n \in added : n \in Seq(Symbols) /\ Len(n) > 0
                       /\ (Harmless(n, dialect) \/ Uncertain(n, dialect))
  BY <1>1, TextAssumption
<1> QED BY <1>1, <1>2, <1>5, <1>6, <1>7 DEF Woven

LEMMA NoiseRead == NoiseInv => DMLReadAsWritten
<1> SUFFICES ASSUME NoiseInv PROVE DMLReadAsWritten
  OBVIOUS
<1> DEFINE text == Text
           dml == ClassifyDML(text, dialect)
<1>1. PICK c, off : Woven(text, dialect, statement, tokens, c, added, off)
  BY TextWoven
<1> HIDE DEF text
<1>2. dml.ok => /\ statement.kind # "" /\ statement.count = 1
                /\ dml.kind = statement.kind /\ dml.hasWhere = statement.hasWhere
  BY <1>1, AcceptedAsWritten
<1>3. statement.kind # "" /\ statement.count = 1 /\ (\A n \in added : ~Doubtful(n)) =>
        dml.ok /\ ~HasMultipleStatements(text, dialect)
  BY <1>1, WrittenAccepted
<1> QED BY <1>2, <1>3, Zenon DEF DMLReadAsWritten, text

\* Whatever statements there are, and whatever noise may be added to them, data exec
\* classifies a text as the statement that was written, and refuses none for the noise unless
\* the settings of the server decide about it.
THEOREM StatementsReadAsWritten == Spec => []DMLReadAsWritten
<1>1. Init => NoiseInv
  BY NoiseInit
<1>2. NoiseInv /\ [Next]_vars => NoiseInv'
  BY NoiseStep
<1>3. NoiseInv => DMLReadAsWritten
  BY NoiseRead
<1> QED BY <1>1, <1>2, <1>3, PTL DEF Spec

=============================================================================
