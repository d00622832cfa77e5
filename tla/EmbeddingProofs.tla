---------------------------- MODULE EmbeddingProofs ----------------------------
(***************************************************************************)
(* The embedding executor, for any callers, jobs and limits: first how a   *)
(* job is cut into requests, text by text and as a whole; then that every  *)
(* caller gets its own texts back, whatever they were merged with; last    *)
(* that the chunks a document's text is cut into are none too large.       *)
(***************************************************************************)
EXTENDS MCText, EmbeddingExecutor, FiniteSetTheorems, SequenceTheorems, TLAPS

-----------------------------------------------------------------------------
(* How texts are cut.                                                      *)

Tokens == Nat \ {0}

\* A batch from s[k] up to s[k + 1] was closed because the text after it did not
\* fit any more.
Needed(l, c, s, k) ==
    \A longest \in Nat :
        (\A i \in s[k] .. s[k + 1] : l[i] <= longest) => ~Fits(c.batches[k] + 1, longest)

Fitting(l, c, s, k) ==
    /\ c.batches[k] <= MaxItems
    /\ \A i \in s[k] .. s[k + 1] - 1 : c.batches[k] * l[i] <= MaxPaddedTokens

\* The state of the loop after the texts l: the closed batches begin where s
\* says, and the open one is as long as its longest text.
CutInto(l, c, s) ==
    /\ l \in Seq(Tokens) /\ c \in Cut /\ s \in Seq(Tokens)
    /\ Len(s) = Len(c.batches) + 1
    /\ s[1] = 1
    /\ \A k \in 1 .. Len(c.batches) :
          /\ s[k + 1] = s[k] + c.batches[k]
          /\ s[k + 1] <= Len(l)
          /\ Fitting(l, c, s, k)
          /\ Needed(l, c, s, k)
    /\ c.items <= MaxItems
    /\ c.items * c.longest <= MaxPaddedTokens
    /\ c.items = 0 => c.longest = 1
    /\ ~c.rejected =>
          /\ s[Len(s)] + c.items = Len(l) + 1
          /\ \A i \in s[Len(s)] .. Len(l) : l[i] <= c.longest
          /\ c.longest = 1 \/ \E i \in s[Len(s)] .. Len(l) : l[i] = c.longest

\* Where the batches begin once one more text is read.
StartsAfter(l, c, s, d) ==
    IF Len(d.batches) = Len(c.batches) THEN s ELSE Append(s, Len(l) + 1)

\* The padded size grows with the longest text.
LEMMA PaddedSizeMonotone ==
    ASSUME NEW n \in Nat, NEW a \in Nat, NEW b \in Nat, a <= b
    PROVE  n * a <= n * b
  BY SMT

\* One iteration of the loop keeps its state well formed.
LEMMA TakeTextType ==
    ASSUME NEW c \in Cut, NEW tokens \in Nat
    PROVE  TakeText(c, tokens) \in Cut
<1>1. ASSUME c.items > 0
      PROVE  Closed(c) \in Cut
  <2>1. Append(c.batches, c.items) \in Seq(Nat \ {0})
        BY <1>1 DEF Cut
  <2>2. c.rejected \in BOOLEAN
        BY DEF Cut
  <2> QED
    BY <2>1, <2>2 DEF Closed, Cut
<1>2. ASSUME NEW d \in Cut
      PROVE  WithText(d, tokens) \in Cut
  <2>1. Longer(d.longest, tokens) \in Nat \ {0}
        BY DEF Longer, Cut
  <2>2. d.items + 1 \in Nat
        BY DEF Cut
  <2> QED
    BY <2>1, <2>2 DEF WithText, Cut
<1>3. [c EXCEPT !.rejected = TRUE] \in Cut
      BY DEF Cut
<1> QED
  BY <1>1, <1>2, <1>3 DEF TakeText, CutBefore

\* A new text rejects the job, joins the open batch or closes it.
LEMMA TakeTextCases ==
    ASSUME NEW c \in Cut, NEW tokens \in Tokens, ~c.rejected
    PROVE  LET d == TakeText(c, tokens) IN
           \/ /\ d = [c EXCEPT !.rejected = TRUE]
              /\ tokens > MaxPaddedTokens
           \/ /\ d.batches = c.batches /\ d.items = c.items + 1
              /\ d.longest = Longer(c.longest, tokens) /\ ~d.rejected
              /\ ~CutBefore(c, tokens)
              /\ tokens <= MaxPaddedTokens
           \/ /\ d.batches = Append(c.batches, c.items) /\ d.items = 1
              /\ d.longest = tokens /\ ~d.rejected
              /\ CutBefore(c, tokens)
              /\ tokens <= MaxPaddedTokens
<1>1. tokens \in Nat \ {0} /\ MaxPaddedTokens \in Nat
      BY LimitsAssumption DEF Tokens
<1>2. CASE tokens > MaxPaddedTokens
      BY <1>1, <1>2 DEF TakeText
<1>3. CASE tokens <= MaxPaddedTokens /\ ~CutBefore(c, tokens)
      BY <1>1, <1>3 DEF TakeText, WithText, Cut
<1>4. CASE tokens <= MaxPaddedTokens /\ CutBefore(c, tokens)
  <2>1. Longer(1, tokens) = tokens
        BY <1>1 DEF Longer
  <2> QED
    BY <1>1, <1>4, <2>1 DEF TakeText, WithText, Closed, Cut
<1> QED
  BY <1>1, <1>2, <1>3, <1>4

\* What was closed stays as it was: a text more does not touch it.
LEMMA ClosedStay ==
    ASSUME NEW l, NEW c, NEW s, NEW d, NEW r, NEW tokens \in Tokens, CutInto(l, c, s),
           NEW k \in 1 .. Len(c.batches), d.batches[k] = c.batches[k],
           r[k] = s[k], r[k + 1] = s[k + 1]
    PROVE  LET m == Append(l, tokens) IN
           /\ r[k + 1] = r[k] + d.batches[k]
           /\ r[k + 1] <= Len(m)
           /\ Fitting(m, d, r, k)
           /\ Needed(m, d, r, k)
<1> DEFINE m == Append(l, tokens)
<1>1. /\ Len(l) \in Nat /\ Len(m) = Len(l) + 1
      /\ \A i \in 1 .. Len(l) : m[i] = l[i]
      /\ s[k] \in Nat \ {0} /\ s[k + 1] \in Nat /\ s[k + 1] <= Len(l)
      /\ s[k + 1] = s[k] + c.batches[k]
  <2>1. l \in Seq(Tokens) /\ s \in Seq(Tokens) /\ Len(s) = Len(c.batches) + 1
        BY DEF CutInto
  <2>2. k \in 1 .. Len(s) /\ k + 1 \in 1 .. Len(s)
        BY <2>1, LenProperties
  <2>3. s[k] \in Tokens /\ s[k + 1] \in Tokens
        BY <2>1, <2>2, ElementOfSeq
  <2>4. /\ Len(l) \in Nat /\ Len(m) = Len(l) + 1
        /\ \A i \in 1 .. Len(l) : m[i] = l[i]
        BY <2>1, AppendProperties, LenProperties
  <2> QED
    BY <2>3, <2>4 DEF CutInto, Tokens
<1>2. \A i \in s[k] .. s[k + 1] : m[i] = l[i]
      BY <1>1
<1>3. Fitting(l, c, s, k) /\ Needed(l, c, s, k)
      BY DEF CutInto
<1> HIDE DEF m
<1>4. Fitting(m, d, r, k)
      BY <1>1, <1>2, <1>3 DEF Fitting
<1>5. Needed(m, d, r, k)
      BY <1>1, <1>2, <1>3 DEF Needed
<1> QED
  BY <1>1, <1>4, <1>5 DEF m

\* One text more.
LEMMA TakeTextCuts ==
    ASSUME NEW l, NEW c, NEW s, NEW tokens \in Tokens, CutInto(l, c, s), ~c.rejected
    PROVE  LET d == TakeText(c, tokens) IN
           CutInto(Append(l, tokens), d, StartsAfter(l, c, s, d))
<1> DEFINE d == TakeText(c, tokens)
           m == Append(l, tokens)
           r == StartsAfter(l, c, s, d)
<1>0. /\ l \in Seq(Tokens) /\ c \in Cut /\ s \in Seq(Tokens)
      /\ tokens \in Nat \ {0} /\ MaxItems \in Nat \ {0} /\ MaxPaddedTokens \in Nat \ {0}
      BY LimitsAssumption DEF CutInto, Tokens
<1>1. /\ Len(l) \in Nat /\ m \in Seq(Tokens) /\ Len(m) = Len(l) + 1
      /\ \A i \in 1 .. Len(l) : m[i] = l[i] /\ l[i] \in Nat \ {0}
      /\ m[Len(l) + 1] = tokens
      BY <1>0, AppendProperties, LenProperties, ElementOfSeq DEF Tokens
<1>2. /\ c.batches \in Seq(Nat \ {0}) /\ c.items \in Nat /\ c.longest \in Nat \ {0}
      /\ Len(c.batches) \in Nat
      BY <1>0, LenProperties DEF Cut
<1>3. /\ Len(s) = Len(c.batches) + 1 /\ s[1] = 1 /\ s[Len(s)] \in Nat \ {0}
      /\ s[Len(s)] + c.items = Len(l) + 1
  <2>1. Len(s) = Len(c.batches) + 1 /\ s[1] = 1 /\ s[Len(s)] + c.items = Len(l) + 1
        BY DEF CutInto
  <2>2. s[Len(s)] \in Tokens
        BY <1>0, <1>2, <2>1, ElementOfSeq
  <2> QED
    BY <2>1, <2>2 DEF Tokens
<1>4. /\ c.items <= MaxItems /\ c.items * c.longest <= MaxPaddedTokens
      /\ c.items = 0 => c.longest = 1
      /\ \A i \in s[Len(s)] .. Len(l) : l[i] <= c.longest
      /\ c.longest = 1 \/ \E i \in s[Len(s)] .. Len(l) : l[i] = c.longest
      BY DEF CutInto
<1>5. d \in Cut
      BY <1>0, TakeTextType
<1>6. \/ /\ d = [c EXCEPT !.rejected = TRUE]
         /\ tokens > MaxPaddedTokens
      \/ /\ d.batches = c.batches /\ d.items = c.items + 1
         /\ d.longest = Longer(c.longest, tokens) /\ ~d.rejected
         /\ ~CutBefore(c, tokens)
         /\ tokens <= MaxPaddedTokens
      \/ /\ d.batches = Append(c.batches, c.items) /\ d.items = 1
         /\ d.longest = tokens /\ ~d.rejected
         /\ CutBefore(c, tokens)
         /\ tokens <= MaxPaddedTokens
      BY <1>0, TakeTextCases
<1>7. r = IF Len(d.batches) = Len(c.batches) THEN s ELSE Append(s, Len(l) + 1)
      BY DEF StartsAfter
<1> SUFFICES CutInto(m, d, r)
    OBVIOUS
<1> HIDE DEF d, m, r
<1>8. ASSUME NEW k \in 1 .. Len(c.batches), d.batches[k] = c.batches[k],
             r[k] = s[k], r[k + 1] = s[k + 1]
      PROVE  /\ r[k + 1] = r[k] + d.batches[k]
             /\ r[k + 1] <= Len(m)
             /\ Fitting(m, d, r, k)
             /\ Needed(m, d, r, k)
      BY <1>8, ClosedStay DEF m
<1>9. CASE d = [c EXCEPT !.rejected = TRUE]
  <2>1. d.batches = c.batches /\ d.items = c.items /\ d.longest = c.longest /\ d.rejected
        BY <1>0, <1>9 DEF Cut
  <2>2. r = s
        BY <1>7, <2>1
  <2> QED
    BY <1>0, <1>1, <1>3, <1>4, <1>5, <1>8, <2>1, <2>2 DEF CutInto
<1>10. CASE /\ d.batches = c.batches /\ d.items = c.items + 1
            /\ d.longest = Longer(c.longest, tokens) /\ ~d.rejected
            /\ ~CutBefore(c, tokens)
            /\ tokens <= MaxPaddedTokens
  <2>1. r = s
        BY <1>7, <1>10
  <2>2. Fits(c.items + 1, Longer(c.longest, tokens))
    <3>1. CASE c.items = 0
          BY <1>0, <1>4, <1>10, <3>1 DEF Fits, Longer
    <3>2. CASE c.items > 0
          BY <1>10, <3>2 DEF CutBefore
    <3> QED
      BY <1>2, <3>1, <3>2
  <2>3. \A i \in s[Len(s)] .. Len(m) : m[i] <= d.longest
    <3>1. \A i \in s[Len(s)] .. Len(l) : m[i] = l[i] /\ l[i] \in Nat /\ l[i] <= c.longest
          BY <1>1, <1>3, <1>4
    <3>2. d.longest \in Nat /\ tokens <= d.longest /\ c.longest <= d.longest
          BY <1>0, <1>2, <1>10 DEF Longer
    <3> TAKE i \in s[Len(s)] .. Len(m)
    <3>3. CASE i = Len(l) + 1
          BY <1>1, <3>2, <3>3
    <3>4. CASE i # Len(l) + 1
      <4>1. i \in s[Len(s)] .. Len(l)
            BY <1>1, <1>3, <3>4
      <4>2. m[i] \in Nat /\ m[i] <= c.longest
            BY <3>1, <4>1
      <4> QED
        BY <1>2, <3>2, <4>2
    <3> QED
      BY <3>3, <3>4
  <2>4. d.longest = 1 \/ \E i \in s[Len(s)] .. Len(m) : m[i] = d.longest
    <3>1. CASE d.longest = tokens
      <4>1. Len(l) + 1 \in s[Len(s)] .. Len(m)
            BY <1>1, <1>2, <1>3
      <4> QED
        BY <1>1, <3>1, <4>1
    <3>2. CASE d.longest # tokens
      <4>1. d.longest = c.longest
            BY <1>10, <3>2 DEF Longer
      <4>2. \A i \in s[Len(s)] .. Len(l) : i \in s[Len(s)] .. Len(m) /\ m[i] = l[i]
            BY <1>1, <1>3
      <4> QED
        BY <1>4, <4>1, <4>2
    <3> QED
      BY <3>1, <3>2
  <2>5. s[Len(s)] + d.items = Len(m) + 1
        BY <1>1, <1>2, <1>3, <1>10
  <2>6. d.items <= MaxItems /\ d.items * d.longest <= MaxPaddedTokens /\ d.items # 0
        BY <1>2, <1>10, <2>2 DEF Fits
  <2> QED
    BY <1>0, <1>1, <1>3, <1>5, <1>8, <1>10, <2>1, <2>3, <2>4, <2>5, <2>6 DEF CutInto
<1>11. CASE /\ d.batches = Append(c.batches, c.items) /\ d.items = 1
            /\ d.longest = tokens /\ ~d.rejected
            /\ CutBefore(c, tokens)
            /\ tokens <= MaxPaddedTokens
  <2> DEFINE n == Len(c.batches) + 1
  <2>0. c.items \in Nat \ {0} /\ ~Fits(c.items + 1, Longer(c.longest, tokens))
        BY <1>2, <1>11 DEF CutBefore
  <2>1. /\ Len(d.batches) = n
        /\ \A k \in 1 .. Len(c.batches) : d.batches[k] = c.batches[k]
        /\ d.batches[n] = c.items
        BY <1>2, <1>11, <2>0, AppendProperties
  <2>2. r = Append(s, Len(l) + 1)
        BY <1>2, <1>7, <2>1
  <2>3. /\ r \in Seq(Tokens) /\ Len(r) = n + 1
        /\ \A k \in 1 .. n : r[k] = s[k]
        /\ r[n + 1] = Len(l) + 1
    <3>1. Len(l) + 1 \in Tokens
          BY <1>1 DEF Tokens
    <3> QED
      BY <1>0, <1>3, <2>2, <3>1, AppendProperties
  <2>4. s[n] \in Nat \ {0} /\ s[n] + c.items = Len(l) + 1 /\ n \in Nat
        BY <1>2, <1>3
  <2>5. \A i \in s[n] .. Len(l) : m[i] = l[i] /\ l[i] \in Nat /\ l[i] <= c.longest
        BY <1>1, <1>3, <1>4
  <2>6. Fitting(m, d, r, n)
    <3>1. \A i \in s[n] .. Len(l) : c.items * m[i] <= MaxPaddedTokens
      <4> TAKE i \in s[n] .. Len(l)
      <4>1. c.items * l[i] <= c.items * c.longest
            BY <1>2, <2>5, PaddedSizeMonotone
      <4>2. c.items * l[i] \in Nat /\ c.items * c.longest \in Nat
            BY <1>2, <2>5
      <4> QED
        BY <1>0, <1>4, <2>5, <4>1, <4>2
    <3>2. r[n] = s[n] /\ r[n + 1] - 1 = Len(l)
          BY <1>1, <2>3, <2>4
    <3> QED
      BY <1>4, <2>1, <3>1, <3>2 DEF Fitting
  <2>7. Needed(m, d, r, n)
    <3>0. r[n] = s[n] /\ r[n + 1] = Len(l) + 1 /\ d.batches[n] = c.items
      <4>1. n \in 1 .. n
            BY <2>4
      <4> QED
        BY <2>1, <2>3, <4>1
    <3> SUFFICES ASSUME NEW longest \in Nat, \A i \in s[n] .. Len(l) + 1 : m[i] <= longest
                 PROVE  ~Fits(c.items + 1, longest)
        BY <3>0 DEF Needed
    <3>1. tokens <= longest
      <4>1. Len(l) + 1 \in s[n] .. Len(l) + 1
            BY <1>1, <2>0, <2>4
      <4> QED
        BY <1>1, <4>1
    <3>2. c.longest <= longest
      <4>1. CASE c.longest = 1
            BY <1>0, <3>1, <4>1
      <4>2. ASSUME NEW i \in s[Len(s)] .. Len(l), l[i] = c.longest PROVE c.longest <= longest
        <5>1. i \in s[n] .. Len(l) /\ i \in s[n] .. Len(l) + 1
              BY <1>1, <1>3, <2>4
        <5>2. m[i] = c.longest
              BY <2>5, <4>2, <5>1
        <5> QED
          BY <5>1, <5>2
      <4> QED
        BY <1>4, <4>1, <4>2
    <3>3. Longer(c.longest, tokens) \in Nat /\ Longer(c.longest, tokens) <= longest
          BY <1>0, <1>2, <3>1, <3>2 DEF Longer
    <3>4. (c.items + 1) * Longer(c.longest, tokens) <= (c.items + 1) * longest
          BY <2>0, <3>3, PaddedSizeMonotone
    <3>5. /\ (c.items + 1) * Longer(c.longest, tokens) \in Nat
          /\ (c.items + 1) * longest \in Nat
          BY <2>0, <3>3
    <3> QED
      BY <1>0, <2>0, <3>4, <3>5 DEF Fits
  <2>8. ASSUME NEW k \in 1 .. n
        PROVE  /\ r[k + 1] = r[k] + d.batches[k]
               /\ r[k + 1] <= Len(m)
               /\ Fitting(m, d, r, k)
               /\ Needed(m, d, r, k)
    <3>1. CASE k = n
          BY <1>1, <2>1, <2>3, <2>4, <2>6, <2>7, <3>1
    <3>2. CASE k # n
      <4>1. k \in 1 .. Len(c.batches) /\ k \in 1 .. n /\ k + 1 \in 1 .. n
            BY <1>2, <3>2
      <4> QED
        BY <1>8, <2>1, <2>3, <4>1
    <3> QED
      BY <3>1, <3>2
  <2>9. /\ r[Len(r)] + d.items = Len(m) + 1
        /\ \A i \in r[Len(r)] .. Len(m) : m[i] <= d.longest
        /\ \E i \in r[Len(r)] .. Len(m) : m[i] = d.longest
    <3>1. r[Len(r)] = Len(m) /\ m[Len(m)] = d.longest
          BY <1>1, <1>11, <2>3
    <3> QED
      BY <1>0, <1>1, <1>11, <3>1
  <2>10. d.items <= MaxItems /\ d.items * d.longest <= MaxPaddedTokens /\ d.items # 0
        BY <1>0, <1>11
  <2>11. r[1] = 1
        BY <1>3, <2>3, <2>4
  <2> HIDE DEF n
  <2> QED
    BY <1>1, <1>5, <2>1, <2>3, <2>8, <2>9, <2>10, <2>11 DEF CutInto
<1> QED
  BY <1>6, <1>9, <1>10, <1>11

-----------------------------------------------------------------------------
(* The loop of microbatch_lengths.                                         *)

LoopInv == LoopTypeOK /\ CutInto(lengths, cut, starts)

\* Nothing is cut yet.
LEMMA UncutCuts == CutInto(<<>>, Uncut, <<1>>)
<1>1. <<>> \in Seq(Tokens) /\ Uncut \in Cut /\ <<1>> \in Seq(Tokens)
      BY DEF Tokens, Uncut, Cut
<1>2. /\ Uncut.batches = <<>> /\ Uncut.items = 0 /\ Uncut.longest = 1
      /\ Len(<<>>) = 0 /\ 1 .. 0 = {} /\ 1 .. Len(<<>>) = {}
      BY DEF Uncut
<1> QED
  BY <1>1, <1>2, LimitsAssumption DEF CutInto

\* LoopInv is inductive: whatever the texts and the limits, the closed batches
\* cover the texts before the open one, fit the model and were closed because the
\* next text did not fit.
THEOREM LoopConsistent == LoopSpec => []LoopInv
<1>1. ASSUME LoopInit PROVE LoopInv
  <2>1. LoopTypeOK
        BY <1>1 DEF LoopInit, LoopTypeOK, Uncut, Cut
  <2> QED
    BY <1>1, <2>1, UncutCuts DEF LoopInit, LoopInv
<1>2. ASSUME LoopInv, NEW tokens \in TokenCounts, ReadText(tokens)
      PROVE  LoopInv'
  <2>1. tokens \in Tokens /\ ~cut.rejected
        BY <1>2, TokenCountsAssumption DEF ReadText, Tokens
  <2>2. CutInto(lengths', cut', starts')
    <3>1. /\ lengths' = Append(lengths, tokens)
          /\ cut' = TakeText(cut, tokens)
          /\ starts' = StartsAfter(lengths, cut, starts, TakeText(cut, tokens))
          BY <1>2 DEF ReadText, StartsAfter
    <3> QED
      BY <1>2, <2>1, <3>1, TakeTextCuts DEF LoopInv
  <2>3. lengths' \in Seq(TokenCounts)
        BY <1>2 DEF ReadText, LoopInv, LoopTypeOK
  <2> QED
    BY <2>2, <2>3 DEF LoopInv, LoopTypeOK, CutInto, Tokens
<1>3. LoopInv /\ UNCHANGED loopVars => LoopInv'
      BY DEF LoopInv, LoopTypeOK, loopVars, CutInto, Fitting, Needed
<1>4. LoopInv /\ [LoopNext]_loopVars => LoopInv'
      BY <1>2, <1>3 DEF LoopNext
<1> QED
  BY <1>1, <1>4, PTL DEF LoopSpec

\* The texts a closed batch covers, and the one after it.
LEMMA BatchMembers ==
    ASSUME LoopInv, NEW k \in Batches
    PROVE  /\ k \in 1 .. Len(cut.batches)
           /\ starts[k + 1] = starts[k] + cut.batches[k]
           /\ Members(k) = starts[k] .. starts[k + 1] - 1
           /\ Members(k) \cup {starts[k + 1]} = starts[k] .. starts[k + 1]
           /\ \A i \in starts[k] .. starts[k + 1] : i \in DOMAIN lengths /\ lengths[i] \in Nat
<1>1. /\ lengths \in Seq(Tokens) /\ cut.batches \in Seq(Nat \ {0})
      /\ starts \in Seq(Tokens) /\ Len(starts) = Len(cut.batches) + 1
      /\ Len(lengths) \in Nat /\ Len(cut.batches) \in Nat
      BY LenProperties DEF LoopInv, CutInto, Cut
<1>2. k \in 1 .. Len(cut.batches) /\ k \in 1 .. Len(starts)
      BY <1>1 DEF Batches
<1>3. starts[k] \in Nat \ {0} /\ cut.batches[k] \in Nat \ {0}
      BY <1>1, <1>2, ElementOfSeq DEF Tokens
<1>4. starts[k + 1] = starts[k] + cut.batches[k] /\ starts[k + 1] <= Len(lengths)
      BY <1>2 DEF LoopInv, CutInto
<1>5. \A i \in 1 .. Len(lengths) : i \in DOMAIN lengths /\ lengths[i] \in Nat
      BY <1>1, ElementOfSeq, LenProperties DEF Tokens
<1>6. Members(k) = starts[k] .. starts[k + 1] - 1
      BY <1>3, <1>4 DEF Members
<1>7. Members(k) \cup {starts[k + 1]} = starts[k] .. starts[k + 1]
      BY <1>3, <1>4, <1>6
<1>8. \A i \in starts[k] .. starts[k + 1] : i \in 1 .. Len(lengths)
      BY <1>1, <1>3, <1>4
<1> QED
  BY <1>2, <1>4, <1>5, <1>6, <1>7, <1>8

\* The requests of a job cover its texts, each once and in order.
THEOREM RequestsAreContiguous == LoopSpec => []Contiguous
<1>1. LoopInv => Contiguous
      BY BatchMembers DEF LoopInv, CutInto, Contiguous, Batches
<1> QED
  BY <1>1, LoopConsistent, PTL

\* No request is too large for one inference batch.
THEOREM RequestsAlwaysFit == LoopSpec => []RequestsFit
<1>1. ASSUME LoopInv PROVE RequestsFit
  <2>1. ASSUME NEW k \in Batches
        PROVE  /\ cut.batches[k] <= MaxItems
               /\ \A i \in Members(k) : cut.batches[k] * lengths[i] <= MaxPaddedTokens
    <3>1. Fitting(lengths, cut, starts, k)
          BY <1>1, BatchMembers DEF LoopInv, CutInto
    <3> QED
      BY <1>1, <3>1, BatchMembers DEF Fitting
  <2> QED
    BY <1>1, <2>1 DEF LoopInv, CutInto, RequestsFit
<1> QED
  BY <1>1, LoopConsistent, PTL

\* A batch is closed only because the text after it does not fit: the requests
\* are as few as the order of the texts allows.
THEOREM EveryCutIsNeeded == LoopSpec => []CutsAreNeeded
<1>1. ASSUME LoopInv PROVE CutsAreNeeded
  <2> SUFFICES ASSUME NEW k \in Batches,
                      NEW i \in Members(k) \cup {starts[k + 1]},
                      \A j \in Members(k) \cup {starts[k + 1]} : lengths[j] <= lengths[i]
               PROVE  ~Fits(cut.batches[k] + 1, lengths[i])
      BY DEF CutsAreNeeded
  <2>1. lengths[i] \in Nat /\ \A j \in starts[k] .. starts[k + 1] : lengths[j] <= lengths[i]
        BY <1>1, BatchMembers
  <2>2. Needed(lengths, cut, starts, k)
        BY <1>1, BatchMembers DEF LoopInv, CutInto
  <2> QED
    BY <2>1, <2>2 DEF Needed
<1> QED
  BY <1>1, LoopConsistent, PTL

\* A job is rejected exactly when one of its texts fits no batch.
THEOREM RejectionIsExact == LoopSpec => [](LoopTypeOK /\ RejectsOnlyOversized)
<1> DEFINE Inv == LoopTypeOK /\ RejectsOnlyOversized
<1>1. LoopInit => Inv
      BY DEF LoopInit, LoopTypeOK, RejectsOnlyOversized, Uncut, Cut
<1>2. ASSUME LoopInv, Inv, NEW tokens \in TokenCounts, ReadText(tokens), LoopInv'
      PROVE  Inv'
  <2>1. /\ lengths' = Append(lengths, tokens) /\ cut' = TakeText(cut, tokens)
        /\ lengths \in Seq(TokenCounts) /\ cut \in Cut /\ ~cut.rejected
        /\ MaxPaddedTokens \in Nat /\ tokens \in Nat /\ tokens \in Tokens
        BY <1>2, LimitsAssumption, TokenCountsAssumption DEF ReadText, LoopTypeOK, Tokens
  <2>2. /\ DOMAIN lengths' = 1 .. Len(lengths) + 1
        /\ DOMAIN lengths = 1 .. Len(lengths)
        /\ Len(lengths) \in Nat
        /\ \A i \in 1 .. Len(lengths) : lengths'[i] = lengths[i]
        /\ lengths'[Len(lengths) + 1] = tokens
        BY <2>1
  <2>3. ~\E i \in 1 .. Len(lengths) : lengths[i] > MaxPaddedTokens
        BY <1>2, <2>1, <2>2 DEF RejectsOnlyOversized
  <2>4. (\E i \in DOMAIN lengths' : lengths'[i] > MaxPaddedTokens)
            <=> tokens > MaxPaddedTokens
        BY <2>2, <2>3
  <2>5. cut'.rejected <=> tokens > MaxPaddedTokens
    <3>1. CASE cut' = [cut EXCEPT !.rejected = TRUE] /\ tokens > MaxPaddedTokens
          BY <2>1, <3>1 DEF Cut
    <3>2. CASE ~cut'.rejected /\ tokens <= MaxPaddedTokens
          BY <2>1, <3>2
    <3> QED
      BY <2>1, <3>1, <3>2, TakeTextCases
  <2> QED
    BY <1>2, <2>4, <2>5 DEF RejectsOnlyOversized, LoopInv
<1>3. Inv /\ UNCHANGED loopVars => Inv'
      BY DEF loopVars, LoopTypeOK, RejectsOnlyOversized
<1>4. LoopInv /\ LoopInv' /\ Inv /\ [LoopNext]_loopVars => Inv'
      BY <1>2, <1>3 DEF LoopNext
<1> QED
  BY <1>1, <1>4, LoopConsistent, PTL DEF LoopSpec

-----------------------------------------------------------------------------
(* The executor's sums over texts and requests.                            *)

MoreText(job, c, tokens) == TakeText(c, tokens)
Cutting == INSTANCE FoldLemmas WITH step <- MoreText

MoreItems(context, n, r) == n + Len(r.values)
Counting == INSTANCE FoldLemmas WITH step <- MoreItems

MoreTokens(context, n, text) == Longer(n, text.tokens)
Reading == INSTANCE FoldLemmas WITH step <- MoreTokens

MoreLength(context, n, r) == Longer(n, Longest(r))
Measuring == INSTANCE FoldLemmas WITH step <- MoreLength

\* Induction on sequences: those that hold the empty one and each with one element
\* more are all of them.
LEMMA Sequencing ==
    ASSUME NEW E, NEW S \in SUBSET Seq(E), <<>> \in S, \A s \in S, e \in E : Append(s, e) \in S
    PROVE  S = Seq(E)
<1> DEFINE Q == {n \in Nat : \A s \in Seq(E) : Len(s) = n => s \in S}
<1>1. 0 \in Q
    BY EmptySeq
<1>2. ASSUME NEW n \in Q PROVE n + 1 \in Q
    <2>1. ASSUME NEW s \in Seq(E), Len(s) = n + 1 PROVE s \in S
        <3>1. n \in Nat /\ s # <<>>
            BY <1>2, <2>1, EmptySeq
        <3>2. PICK r \in Seq(E), e \in E : s = Append(r, e)
            BY <3>1, SequenceEmptyOrAppend
        <3>3. Len(r) = n
            BY <2>1, <3>1, <3>2, AppendProperties, LenProperties
        <3> QED BY <1>2, <3>2, <3>3
    <2> QED BY <1>2, <2>1
<1> HIDE DEF Q
<1>3. Q = Nat
    <2>1. Q \in SUBSET Nat
        BY DEF Q
    <2> QED BY <1>1, <1>2, <2>1, Counting!Numbers
<1>4. \A s \in Seq(E) : s \in S
    BY <1>3, LenProperties DEF Q
<1> QED BY <1>4

-----------------------------------------------------------------------------
(* Sequences laid end to end.                                              *)

\* Appending to the second of two sequences appends to both.
LEMMA ConcatAppend ==
    ASSUME NEW E, NEW s \in Seq(E), NEW r \in Seq(E), NEW e \in E
    PROVE  s \o Append(r, e) = Append(s \o r, e)
<1>1. <<e>> \in Seq(E) /\ s \o r \in Seq(E)
    BY ConcatProperties
<1>2. Append(r, e) = r \o <<e>> /\ Append(s \o r, e) = (s \o r) \o <<e>>
    BY <1>1, AppendIsConcat
<1> QED BY <1>1, <1>2, ConcatAssociative

\* The function behind FlattenSeq.
Flattens(s, n, f) ==
    f = [i \in 1 .. n |-> IF i = 1 THEN s[i] ELSE f[i - 1] \o s[i]]

\* What FlattenSeq has laid end to end after each sequence.
Ends(E, s, ends) ==
    /\ ends \in [0 .. Len(s) -> Seq(E)]
    /\ ends[0] = <<>>
    /\ \A k \in 1 .. Len(s) : ends[k] = ends[k - 1] \o s[k]
    /\ ends[Len(s)] = FlattenSeq(s)

\* The sequences are laid end to end.
THEOREM FlattenVisits ==
    ASSUME NEW E, NEW s \in Seq(Seq(E))
    PROVE  \E ends : Ends(E, s, ends)
<1>0. Len(s) \in Nat /\ \A k \in 1 .. Len(s) : s[k] \in Seq(E)
    BY LenProperties, ElementOfSeq
<1>1. <<>> \in Seq(E)
    BY EmptySeq
<1>2. CASE Len(s) = 0
    <2>1. s = <<>> /\ FlattenSeq(s) = s
        BY <1>2 DEF FlattenSeq
    <2> DEFINE ends == [k \in 0 .. Len(s) |-> <<>>]
    <2>2. ends \in [0 .. Len(s) -> Seq(E)] /\ ends[0] = <<>> /\ ends[Len(s)] = <<>>
        BY <1>1, <1>2
    <2>3. 1 .. Len(s) = {}
        BY <1>2
    <2> HIDE DEF ends
    <2>4. Ends(E, s, ends)
        BY <2>1, <2>2, <2>3 DEF Ends
    <2> QED BY <2>4
<1>3. CASE Len(s) # 0
    <2> DEFINE S == {m \in Nat : \E f : Flattens(s, m, f)}
    <2>1. 0 \in S
        <3>1. Flattens(s, 0, [i \in 1 .. 0 |-> <<>>])
            BY DEF Flattens
        <3> QED BY <3>1
    <2>2. ASSUME NEW m \in S PROVE m + 1 \in S
        <3>0. m \in Nat
            BY <2>2
        <3>1. PICK f : Flattens(s, m, f)
            BY <2>2
        <3> DEFINE g == [i \in 1 .. m + 1 |->
                            IF i <= m THEN f[i]
                            ELSE IF i = 1 THEN s[i] ELSE f[i - 1] \o s[i]]
        <3>2. ASSUME NEW i \in 1 .. m + 1
              PROVE  g[i] = IF i = 1 THEN s[i] ELSE g[i - 1] \o s[i]
            <4>1. CASE i <= m
                <5>1. g[i] = f[i] /\ (i # 1 => g[i - 1] = f[i - 1])
                    BY <3>0, <4>1
                <5>2. f[i] = IF i = 1 THEN s[i] ELSE f[i - 1] \o s[i]
                    <6>1. i \in 1 .. m
                        BY <3>0, <4>1
                    <6> QED BY <3>1, <6>1 DEF Flattens
                <5> QED BY <5>1, <5>2
            <4>2. CASE ~(i <= m)
                <5>1. i # 1 => g[i - 1] = f[i - 1]
                    BY <3>0, <4>2
                <5> QED BY <4>2, <5>1
            <4> QED BY <4>1, <4>2
        <3>3. Flattens(s, m + 1, g)
            BY <3>2 DEF Flattens
        <3> HIDE DEF g
        <3> QED BY <3>0, <3>3
    <2> HIDE DEF S
    <2>3. S = Nat
        BY <2>1, <2>2, Counting!Numbers DEF S
    <2>4. PICK f : f = CHOOSE g : Flattens(s, Len(s), g)
        OBVIOUS
    <2>5. Flattens(s, Len(s), f)
        BY <1>0, <2>3, <2>4 DEF S
    <2>6. FlattenSeq(s) = f[Len(s)]
        BY <1>3, <2>4 DEF FlattenSeq, Flattens
    <2> DEFINE ends == [k \in 0 .. Len(s) |-> IF k = 0 THEN <<>> ELSE f[k]]
    <2>7. ASSUME NEW k \in 1 .. Len(s)
          PROVE  ends[k] = IF k = 1 THEN s[k] ELSE ends[k - 1] \o s[k]
        <3>1. f[k] = IF k = 1 THEN s[k] ELSE f[k - 1] \o s[k]
            BY <2>5 DEF Flattens
        <3>2. ends[k] = f[k] /\ (k # 1 => ends[k - 1] = f[k - 1])
            BY <1>0
        <3> QED BY <3>1, <3>2
    <2>8. ends[0] = <<>> /\ ends[Len(s)] = FlattenSeq(s)
        BY <1>0, <1>3, <2>6
    <2>9. \A k \in 1 .. Len(s) : ends[k] = ends[k - 1] \o s[k]
        <3>1. \A q \in Seq(E) : <<>> \o q = q
            BY ConcatEmptySeq
        <3> HIDE DEF ends
        <3> TAKE k \in 1 .. Len(s)
        <3>2. CASE k = 1
            <4>1. ends[k] = s[k] /\ ends[k - 1] = <<>> /\ s[k] \in Seq(E)
                BY <1>0, <2>7, <2>8, <3>2
            <4> QED BY <3>1, <4>1
        <3>3. CASE k # 1
            BY <2>7, <3>3
        <3> QED BY <3>2, <3>3
    <2>10. \A k \in 0 .. Len(s) : ends[k] \in Seq(E)
        <3> DEFINE Q == {k \in 0 .. Len(s) : ends[k] \in Seq(E)}
        <3>1. 0 \in Q
            BY <1>0, <1>1
        <3>2. ASSUME NEW k \in 0 .. Len(s) - 1, k \in Q PROVE k + 1 \in Q
            <4>1. k + 1 \in 1 .. Len(s) /\ (k + 1) - 1 = k
                BY <1>0
            <4>2. ends[k + 1] = ends[k] \o s[k + 1]
                BY <2>9, <4>1
            <4>3. ends[k] \in Seq(E) /\ s[k + 1] \in Seq(E)
                BY <1>0, <3>2, <4>1
            <4> HIDE DEF ends
            <4>4. ends[k + 1] \in Seq(E)
                BY <4>2, <4>3, ConcatProperties
            <4> QED BY <1>0, <4>1, <4>4
        <3> HIDE DEF Q
        <3>3. 0 .. Len(s) \subseteq Q
            BY <1>0, <3>1, <3>2, Counting!UpTo
        <3> QED BY <3>3 DEF Q
    <2>11. ends \in [0 .. Len(s) -> Seq(E)]
        BY <2>10
    <2> HIDE DEF ends
    <2>12. Ends(E, s, ends)
        BY <2>8, <2>9, <2>11 DEF Ends
    <2> QED BY <2>12
<1> QED BY <1>2, <1>3

\* What has been laid down stays where it is.
LEMMA EndsExtend ==
    ASSUME NEW E, NEW s \in Seq(Seq(E)), NEW ends, Ends(E, s, ends), NEW k \in 0 .. Len(s)
    PROVE  /\ Len(ends[k]) <= Len(FlattenSeq(s))
           /\ \A i \in 1 .. Len(ends[k]) : FlattenSeq(s)[i] = ends[k][i]
<1>0. /\ Len(s) \in Nat /\ \A m \in 1 .. Len(s) : s[m] \in Seq(E)
      /\ \A m \in 0 .. Len(s) : ends[m] \in Seq(E) /\ Len(ends[m]) \in Nat
    BY LenProperties, ElementOfSeq DEF Ends
<1> DEFINE S == {m \in 0 .. Len(s) : k <= m =>
                    /\ Len(ends[k]) <= Len(ends[m])
                    /\ \A i \in 1 .. Len(ends[k]) : ends[m][i] = ends[k][i]}
<1>1. 0 \in S
    BY <1>0
<1>2. ASSUME NEW m \in 0 .. Len(s) - 1, m \in S PROVE m + 1 \in S
    <2>1. m + 1 \in 1 .. Len(s) /\ m \in 0 .. Len(s) /\ (m + 1) - 1 = m
        BY <1>0
    <2>2. ends[m + 1] = ends[m] \o s[m + 1] /\ s[m + 1] \in Seq(E) /\ ends[m] \in Seq(E)
        BY <1>0, <2>1 DEF Ends
    <2>3. /\ Len(ends[m]) <= Len(ends[m + 1])
          /\ \A i \in 1 .. Len(ends[m]) : ends[m + 1][i] = ends[m][i]
        <3>1. PICK a \in Seq(E), b \in Seq(E) :
                 a = ends[m] /\ b = s[m + 1] /\ ends[m + 1] = a \o b
            BY <2>2
        <3>2. /\ Len(a) \in Nat /\ Len(b) \in Nat /\ Len(a \o b) = Len(a) + Len(b)
              /\ \A i \in 1 .. Len(a) + Len(b) :
                    (a \o b)[i] = IF i <= Len(a) THEN a[i] ELSE b[i - Len(a)]
            BY ConcatProperties, LenProperties
        <3>3. Len(a) <= Len(a \o b) /\ \A i \in 1 .. Len(a) : (a \o b)[i] = a[i]
            BY <3>2
        <3> QED BY <3>1, <3>3
    <2>4. CASE k <= m
        <3>1. /\ Len(ends[k]) <= Len(ends[m])
              /\ \A i \in 1 .. Len(ends[k]) : ends[m][i] = ends[k][i]
            BY <1>2, <2>4
        <3>2. Len(ends[k]) \in Nat /\ Len(ends[m]) \in Nat /\ Len(ends[m + 1]) \in Nat
            BY <1>0, <2>1
        <3> QED BY <1>0, <2>1, <2>3, <3>1, <3>2
    <2>5. CASE ~(k <= m)
        <3>1. k <= m + 1 => k = m + 1
            BY <2>1, <2>5
        <3> QED BY <1>0, <2>1, <3>1
    <2> QED BY <2>4, <2>5
<1> HIDE DEF S
<1>3. 0 .. Len(s) \subseteq S
    BY <1>0, <1>1, <1>2, Counting!UpTo
<1>4. ends[Len(s)] = FlattenSeq(s)
    BY DEF Ends
<1>5. Len(s) \in S /\ k <= Len(s)
    <2>1. Len(s) \in 0 .. Len(s) /\ k <= Len(s)
        BY <1>0
    <2> QED BY <1>3, <2>1
<1> QED BY <1>4, <1>5 DEF S

\* Each sequence is found where the ones before it end.
THEOREM FlattenSlice ==
    ASSUME NEW E, NEW s \in Seq(Seq(E)), NEW ends, Ends(E, s, ends), NEW k \in 1 .. Len(s)
    PROVE  SubSeq(FlattenSeq(s), Len(ends[k - 1]) + 1, Len(ends[k - 1]) + Len(s[k])) = s[k]
<1> DEFINE n == Len(ends[k - 1])
           flat == FlattenSeq(s)
<1>0. /\ k - 1 \in 0 .. Len(s) /\ k \in 0 .. Len(s) /\ Len(s) \in Nat
      /\ s[k] \in Seq(E) /\ ends[k - 1] \in Seq(E) /\ ends[k] \in Seq(E)
      /\ ends[k] = ends[k - 1] \o s[k] /\ flat \in Seq(E)
    <2>1. Len(s) \in Nat /\ s[k] \in Seq(E)
        BY LenProperties, ElementOfSeq
    <2>2. k - 1 \in 0 .. Len(s) /\ k \in 0 .. Len(s) /\ Len(s) \in 0 .. Len(s)
        BY <2>1
    <2> QED BY <2>1, <2>2 DEF Ends
<1>1. /\ n \in Nat /\ Len(s[k]) \in Nat /\ Len(flat) \in Nat
      /\ Len(ends[k]) = n + Len(s[k])
      /\ \A i \in n + 1 .. n + Len(s[k]) : ends[k][i] = s[k][i - n]
    <2>1. PICK a \in Seq(E), b \in Seq(E) :
             a = ends[k - 1] /\ b = s[k] /\ ends[k] = a \o b
        BY <1>0
    <2>2. /\ Len(a) \in Nat /\ Len(b) \in Nat /\ Len(a \o b) = Len(a) + Len(b)
          /\ \A i \in 1 .. Len(a) + Len(b) :
                (a \o b)[i] = IF i <= Len(a) THEN a[i] ELSE b[i - Len(a)]
        BY ConcatProperties, LenProperties
    <2>3. \A i \in Len(a) + 1 .. Len(a) + Len(b) : (a \o b)[i] = b[i - Len(a)]
        BY <2>2
    <2>4. Len(flat) \in Nat
        BY <1>0, LenProperties
    <2> QED BY <2>1, <2>2, <2>3, <2>4
<1>2. /\ n + Len(s[k]) <= Len(flat)
      /\ \A i \in 1 .. n + Len(s[k]) : flat[i] = ends[k][i]
    <2>1. /\ Len(ends[k]) <= Len(FlattenSeq(s))
          /\ \A i \in 1 .. Len(ends[k]) : FlattenSeq(s)[i] = ends[k][i]
        <3>1. k \in 0 .. Len(s)
            BY <1>0
        <3> HIDE DEF n, flat
        <3> QED BY <3>1, EndsExtend
    <2> QED BY <1>1, <2>1
<1> HIDE DEF n, flat
<1> DEFINE part == SubSeq(flat, n + 1, n + Len(s[k]))
<1>3. /\ part \in Seq(E) /\ Len(part) = Len(s[k])
      /\ \A i \in 1 .. Len(s[k]) : part[i] = flat[n + i]
    <2>1. /\ n + 1 \in 1 .. Len(flat) + 1
          /\ n + Len(s[k]) \in n .. Len(flat)
        BY <1>1, <1>2
    <2> QED BY <1>0, <1>1, <2>1, SubSeqProperties
<1> HIDE DEF part
<1>4. \A i \in 1 .. Len(s[k]) : part[i] = s[k][i]
    <2> TAKE i \in 1 .. Len(s[k])
    <2>1. n + i \in 1 .. n + Len(s[k]) /\ n + i \in n + 1 .. n + Len(s[k]) /\ (n + i) - n = i
        BY <1>1
    <2> QED BY <1>1, <1>2, <1>3, <2>1
<1>5. part = s[k]
    BY <1>0, <1>3, <1>4, SeqEqual
<1> QED BY <1>5 DEF part, n, flat

\* One sequence more is laid down at the end.
THEOREM FlattenAppend ==
    ASSUME NEW E, NEW s \in Seq(Seq(E)), NEW r \in Seq(E)
    PROVE  /\ FlattenSeq(s) \in Seq(E) /\ FlattenSeq(<<>>) = <<>>
           /\ FlattenSeq(Append(s, r)) = FlattenSeq(s) \o r
<1> DEFINE t == Append(s, r)
<1>0. /\ Len(s) \in Nat /\ t \in Seq(Seq(E)) /\ Len(t) = Len(s) + 1
      /\ \A k \in 1 .. Len(s) : t[k] = s[k]
      /\ t[Len(s) + 1] = r
    BY LenProperties, AppendProperties
<1> HIDE DEF t
<1>1. PICK v : Ends(E, s, v)
    BY FlattenVisits
<1>2. PICK w : Ends(E, t, w)
    BY <1>0, FlattenVisits
<1> DEFINE S == {k \in 0 .. Len(s) : w[k] = v[k]}
<1>3. 0 \in S
    BY <1>0, <1>1, <1>2 DEF Ends
<1>4. ASSUME NEW k \in 0 .. Len(s) - 1, k \in S PROVE k + 1 \in S
    <2>1. k + 1 \in 1 .. Len(s) /\ k + 1 \in 1 .. Len(t) /\ (k + 1) - 1 = k
        BY <1>0
    <2>2. w[k + 1] = w[k] \o t[k + 1] /\ v[k + 1] = v[k] \o s[k + 1]
        BY <1>1, <1>2, <2>1 DEF Ends
    <2>3. w[k] = v[k] /\ t[k + 1] = s[k + 1] /\ k + 1 \in 0 .. Len(s)
        BY <1>0, <1>4, <2>1
    <2>4. w[k + 1] = v[k + 1]
        BY <2>2, <2>3
    <2> QED BY <2>3, <2>4
<1> HIDE DEF S
<1>5. w[Len(s)] = v[Len(s)]
    <2>1. 0 .. Len(s) \subseteq S
        BY <1>0, <1>3, <1>4, Counting!UpTo
    <2> QED BY <1>0, <2>1 DEF S
<1>6. FlattenSeq(t) = FlattenSeq(s) \o r
    <2>1. Len(t) \in 1 .. Len(t) /\ Len(t) - 1 = Len(s)
        BY <1>0
    <2> QED BY <1>0, <1>1, <1>2, <1>5, <2>1 DEF Ends
<1>7. FlattenSeq(s) \in Seq(E)
    <2>1. Len(s) \in 0 .. Len(s)
        BY <1>0
    <2> QED BY <1>1, <2>1 DEF Ends
<1>8. FlattenSeq(<<>>) = <<>>
    BY DEF FlattenSeq
<1> QED BY <1>6, <1>7, <1>8 DEF t

\* Sequences laid down one lot after the other.
THEOREM FlattenConcat ==
    ASSUME NEW E, NEW s \in Seq(Seq(E)), NEW r \in Seq(Seq(E))
    PROVE  FlattenSeq(s \o r) = FlattenSeq(s) \o FlattenSeq(r)
<1> DEFINE S == {q \in Seq(Seq(E)) : FlattenSeq(s \o q) = FlattenSeq(s) \o FlattenSeq(q)}
<1>1. <<>> \in S
    <2>1. s \o <<>> = s /\ <<>> \in Seq(Seq(E)) /\ FlattenSeq(s) \in Seq(E)
        BY ConcatEmptySeq, EmptySeq, FlattenAppend
    <2>2. FlattenSeq(<<>>) = <<>>
        BY DEF FlattenSeq
    <2>3. FlattenSeq(s) \o <<>> = FlattenSeq(s)
        BY <2>1, ConcatEmptySeq
    <2> QED BY <2>1, <2>2, <2>3
<1>2. ASSUME NEW q \in S, NEW e \in Seq(E) PROVE Append(q, e) \in S
    <2>1. q \in Seq(Seq(E)) /\ Append(q, e) \in Seq(Seq(E)) /\ s \o q \in Seq(Seq(E))
        BY <1>2, AppendProperties, ConcatProperties
    <2>2. FlattenSeq(s \o Append(q, e)) = FlattenSeq(s \o q) \o e
        <3>1. s \o Append(q, e) = Append(s \o q, e)
            BY <2>1, ConcatAppend
        <3>2. FlattenSeq(Append(s \o q, e)) = FlattenSeq(s \o q) \o e
            BY <2>1, FlattenAppend
        <3> QED BY <3>1, <3>2
    <2>3. FlattenSeq(s \o q) = FlattenSeq(s) \o FlattenSeq(q)
        BY <1>2
    <2>4. /\ FlattenSeq(Append(q, e)) = FlattenSeq(q) \o e
          /\ FlattenSeq(s) \in Seq(E) /\ FlattenSeq(q) \in Seq(E)
        BY <2>1, FlattenAppend
    <2>5. (FlattenSeq(s) \o FlattenSeq(q)) \o e = FlattenSeq(s) \o (FlattenSeq(q) \o e)
        BY <2>4, ConcatAssociative
    <2> QED BY <2>1, <2>2, <2>3, <2>4, <2>5
<1> HIDE DEF S
<1>3. S = Seq(Seq(E))
    <2>1. S \in SUBSET Seq(Seq(E))
        BY DEF S
    <2> QED BY <1>1, <1>2, <2>1, Sequencing
<1> QED BY <1>3 DEF S

-----------------------------------------------------------------------------
\* The sums are folds.
LEMMA CutOfFolds == \A job : CutOf(job) = Cutting!Folded(job, Uncut, job)
  BY SMT DEF CutOf, MoreText, Cutting!Folded, FoldLeft, MapThenFoldSet, Max,
             Cutting!MapThenFoldSet, Cutting!Max

\* Items counts by a fold, too.
LEMMA ItemsFolds == \A s : Items(s) = Counting!Folded(0, 0, s)
  BY SMT DEF Items, MoreItems, Counting!Folded, FoldLeft, MapThenFoldSet, Max,
             Counting!MapThenFoldSet, Counting!Max

\* So does Longest,
LEMMA LongestFolds == \A r : Longest(r) = Reading!Folded(0, 0, r.values)
  BY SMT DEF Longest, MoreTokens, Reading!Folded, FoldLeft, MapThenFoldSet, Max,
             Reading!MapThenFoldSet, Reading!Max

\* and LongestOf.
LEMMA LongestOfFolds == \A s : LongestOf(s) = Measuring!Folded(0, 0, s)
  BY SMT DEF LongestOf, MoreLength, Measuring!Folded, FoldLeft, MapThenFoldSet, Max,
             Measuring!MapThenFoldSet, Measuring!Max

\* What a request holds.
LEMMA RequestShape ==
    ASSUME NEW r \in Request
    PROVE  /\ r.values \in Seq(Text) /\ Len(r.values) \in Nat
           /\ r.reply \in Callers \cup {Nobody}
           /\ \A i \in 1 .. Len(r.values) : r.values[i] \in Text /\ r.values[i].tokens \in Nat
<1>1. r.values \in Seq(Text) /\ r.reply \in Callers \cup {Nobody}
      BY DEF Request
<1>2. Len(r.values) \in Nat /\ \A i \in 1 .. Len(r.values) : r.values[i] \in Text
      BY <1>1, LenProperties, ElementOfSeq
<1>3. \A text \in Text : text.tokens \in Nat
      BY DEF Text
<1> QED
  BY <1>1, <1>2, <1>3

\* The longest text of a request is one of its texts.
LEMMA LongestIsAText ==
    ASSUME NEW r \in Request
    PROVE  /\ Longest(r) \in Nat
           /\ \/ Longest(r) = 0
              \/ \E i \in 1 .. Len(r.values) : r.values[i].tokens = Longest(r)
<1> DEFINE s == r.values
           G == {p \in Nat \X Nat : \/ p[2] = 0
                                     \/ \E i \in 1 .. Len(s) : s[i].tokens = p[2]}
<1>1. Reading!Steps(0, Nat, Text, 0)
      BY DEF Reading!Steps, MoreTokens, Longer, Text
<1>2. s \in Seq(Text)
      BY RequestShape
<1>3. <<0, 0>> \in G
      OBVIOUS
<1>4. ASSUME NEW k \in 1 .. Len(s), NEW t \in Nat, <<k - 1, t>> \in G
      PROVE  <<k, MoreTokens(0, t, s[k])>> \in G
  <2>1. s[k].tokens \in Nat
        BY RequestShape
  <2>2. CASE Longer(t, s[k].tokens) = t
        BY <1>4, <2>2 DEF MoreTokens
  <2>3. CASE Longer(t, s[k].tokens) = s[k].tokens
        BY <2>1, <2>3 DEF MoreTokens
  <2> QED
    BY <2>2, <2>3 DEF Longer, MoreTokens
<1> HIDE DEF G, s
<1>5. <<Len(s), Reading!Folded(0, 0, s)>> \in G
      BY <1>1, <1>2, <1>3, <1>4, Reading!FoldKeeps
<1> QED
  BY <1>5, LongestFolds DEF G, s

\* Counting the texts of one more request, and the longest of them.
LEMMA SizesStep ==
    Counting!Steps(0, Nat, Request, 0) /\ Measuring!Steps(0, Nat, Request, 0)
  BY RequestShape, LongestIsAText
     DEF Counting!Steps, Measuring!Steps, MoreItems, MoreLength, Longer

\* One request more adds its texts and its longest one.
LEMMA SizesAppend ==
    ASSUME NEW s \in Seq(Request), NEW r \in Request
    PROVE  /\ Items(s) \in Nat /\ Items(<<>>) = 0
           /\ Items(Append(s, r)) = Items(s) + Len(r.values)
           /\ LongestOf(s) \in Nat /\ LongestOf(<<>>) = 0
           /\ LongestOf(Append(s, r)) = Longer(LongestOf(s), Longest(r))
<1>1. /\ Counting!Folded(0, 0, s) \in Nat
      /\ Counting!Folded(0, 0, Append(s, r)) = MoreItems(0, Counting!Folded(0, 0, s), r)
      /\ Counting!Folded(0, 0, <<>>) = 0
      BY SizesStep, Counting!FoldAppend
<1>2. /\ Measuring!Folded(0, 0, s) \in Nat
      /\ Measuring!Folded(0, 0, Append(s, r)) = MoreLength(0, Measuring!Folded(0, 0, s), r)
      /\ Measuring!Folded(0, 0, <<>>) = 0
      BY SizesStep, Measuring!FoldAppend
<1> QED
  BY <1>1, <1>2, ItemsFolds, LongestOfFolds DEF MoreItems, MoreLength

\* Who waits for a request does not matter to its size.
LEMMA SizesAgree ==
    ASSUME NEW s \in Seq(Request), NEW t \in Seq(Request), Len(t) = Len(s),
           \A k \in 1 .. Len(s) : t[k].values = s[k].values
    PROVE  Items(t) = Items(s) /\ LongestOf(t) = LongestOf(s)
<1>1. Counting!Alike(0, Nat, s, t)
      BY DEF Counting!Alike, MoreItems
<1>2. Measuring!Alike(0, Nat, s, t)
  <2>1. \A k \in 1 .. Len(s) : Longest(t[k]) = Longest(s[k])
        BY LongestFolds
  <2> QED
    BY <2>1 DEF Measuring!Alike, MoreLength
<1>3. Counting!Folded(0, 0, t) = Counting!Folded(0, 0, s)
      BY <1>1, SizesStep, Counting!FoldAgrees
<1>4. Measuring!Folded(0, 0, t) = Measuring!Folded(0, 0, s)
      BY <1>2, SizesStep, Measuring!FoldAgrees
<1> QED
  BY <1>3, <1>4, ItemsFolds, LongestOfFolds

-----------------------------------------------------------------------------
(* A whole job.                                                            *)

\* The loop over a job's first texts, and one more.
LEMMA FirstTexts ==
    ASSUME NEW job \in Seq(Tokens), NEW k \in 1 .. Len(job)
    PROVE  /\ SubSeq(job, 1, k) = Append(SubSeq(job, 1, k - 1), job[k])
           /\ SubSeq(job, 1, 0) = <<>>
           /\ SubSeq(job, 1, Len(job)) = job
  BY SMT

\* A job that is not rejected is cut to its end.
LEMMA JobIsCut ==
    ASSUME NEW job \in Seq(Tokens)
    PROVE  /\ CutOf(job) \in Cut
           /\ ~CutOf(job).rejected => \E s : CutInto(job, CutOf(job), s)
<1> DEFINE Read(n, c) == c.rejected \/ \E s : CutInto(SubSeq(job, 1, n), c, s)
           G == {p \in Nat \X Cut : Read(p[1], p[2])}
<1>0. Len(job) \in Nat /\ \A k \in 1 .. Len(job) : job[k] \in Tokens
      BY LenProperties, ElementOfSeq
<1>1. Cutting!Steps(job, Cut, Tokens, Uncut)
      BY TakeTextType, UncutCuts DEF Cutting!Steps, MoreText, CutInto, Tokens
<1>2. <<0, Uncut>> \in G
  <2>1. SubSeq(job, 1, 0) = <<>>
        BY <1>0, SubSeqEmpty
  <2>2. Read(0, Uncut)
        BY <2>1, UncutCuts
  <2> HIDE DEF Read
  <2> QED
    BY <2>2, UncutCuts DEF CutInto
<1>3. ASSUME NEW k \in 1 .. Len(job), NEW t \in Cut, <<k - 1, t>> \in G
      PROVE  <<k, MoreText(job, t, job[k])>> \in G
  <2> DEFINE d == TakeText(t, job[k])
  <2>1. d \in Cut /\ k \in Nat /\ job[k] \in Tokens
        BY <1>0, TakeTextType DEF Tokens
  <2>2. CASE t.rejected
    <3>1. d.rejected
          BY <2>2 DEF TakeText, Cut
    <3>2. Read(k, d)
          BY <3>1
    <3> HIDE DEF d, Read
    <3> QED
      BY <2>1, <3>2 DEF d, MoreText
  <2>3. CASE ~t.rejected
    <3>1. Read(k - 1, t)
          BY <1>3
    <3>2. PICK s : CutInto(SubSeq(job, 1, k - 1), t, s)
          BY <2>3, <3>1
    <3>3. SubSeq(job, 1, k) = Append(SubSeq(job, 1, k - 1), job[k])
          BY FirstTexts
    <3>4. CutInto(Append(SubSeq(job, 1, k - 1), job[k]), d,
                  StartsAfter(SubSeq(job, 1, k - 1), t, s, d))
          BY <2>1, <2>3, <3>2, TakeTextCuts
    <3>5. Read(k, d)
          BY <3>3, <3>4
    <3> HIDE DEF d, Read
    <3> QED
      BY <2>1, <3>5 DEF d, MoreText
  <2> QED
    BY <2>2, <2>3
<1> HIDE DEF G
<1>4. <<Len(job), CutOf(job)>> \in G
  <2>1. <<Len(job), Cutting!Folded(job, Uncut, job)>> \in G
        BY <1>1, <1>2, <1>3, Cutting!FoldKeeps
  <2> QED
    BY <2>1, CutOfFolds
<1>5. SubSeq(job, 1, Len(job)) = job
      BY SMT
<1> QED
  BY <1>4, <1>5 DEF G

\* What a call still has to send: its texts after the first `got` ones, in
\* requests that begin at s and each fit the model.
Planned(texts, plan, got, s) ==
    /\ plan \in Seq(Nat \ {0}) /\ s \in Seq(Nat \ {0})
    /\ Len(s) = Len(plan) + 1
    /\ s[1] = got + 1
    /\ \A k \in 1 .. Len(plan) :
          /\ s[k + 1] = s[k] + plan[k]
          /\ s[k + 1] <= Len(texts) + 1
          /\ plan[k] <= MaxItems
          /\ \A i \in s[k] .. s[k + 1] - 1 : plan[k] * texts[i].tokens <= MaxPaddedTokens
    /\ s[Len(s)] = Len(texts) + 1

\* The texts of a call are its job, in order.
LEMMA TextsShape ==
    ASSUME NEW c \in Callers, NEW job \in Seq(Tokens)
    PROVE  /\ TextsOf(c, job) \in Seq(Text)
           /\ Len(TextsOf(c, job)) = Len(job)
           /\ \A i \in 1 .. Len(job) : TextsOf(c, job)[i].tokens = job[i]
<1>1. /\ Len(job) \in Nat /\ DOMAIN job = 1 .. Len(job)
      /\ \A i \in 1 .. Len(job) : job[i] \in Nat
      BY LenProperties, ElementOfSeq DEF Tokens
<1>2. \A i \in 1 .. Len(job) : [owner |-> c, place |-> i, tokens |-> job[i]] \in Text
      BY <1>1 DEF Text
<1> QED
  BY <1>1, <1>2 DEF TextsOf

\* The plan of a job that is not rejected covers it.
LEMMA JobIsPlanned ==
    ASSUME NEW c \in Callers, NEW job \in Seq(Tokens), ~CutOf(job).rejected
    PROVE  \E s : Planned(TextsOf(c, job), Finished(CutOf(job)), 0, s)
<1>1. PICK d \in Cut : d = CutOf(job)
      BY JobIsCut
<1>2. PICK s : CutInto(job, d, s)
      BY <1>1, JobIsCut
<1>3. /\ d.batches \in Seq(Nat \ {0}) /\ d.items \in Nat /\ d.longest \in Nat
      /\ Len(d.batches) \in Nat /\ Len(job) \in Nat
      /\ s \in Seq(Tokens) /\ ~d.rejected
      BY <1>1, <1>2, LenProperties DEF Cut, CutInto
<1>4. /\ Len(s) = Len(d.batches) + 1 /\ s[1] = 1
      /\ s[Len(s)] + d.items = Len(job) + 1
      /\ d.items <= MaxItems /\ d.items * d.longest <= MaxPaddedTokens
      /\ \A i \in s[Len(s)] .. Len(job) : job[i] <= d.longest
      BY <1>2, <1>3 DEF CutInto
<1>5. \A k \in 1 .. Len(s) : s[k] \in Nat \ {0}
      BY <1>3, ElementOfSeq DEF Tokens
<1>6. /\ \A i \in 1 .. Len(job) : job[i] \in Nat /\ TextsOf(c, job)[i].tokens = job[i]
      /\ Len(TextsOf(c, job)) = Len(job)
      BY TextsShape, ElementOfSeq DEF Tokens
<1>7. ASSUME NEW k \in 1 .. Len(d.batches)
      PROVE  /\ s[k + 1] = s[k] + d.batches[k]
             /\ s[k + 1] <= Len(job) + 1
             /\ d.batches[k] <= MaxItems
             /\ \A i \in s[k] .. s[k + 1] - 1 :
                   d.batches[k] * TextsOf(c, job)[i].tokens <= MaxPaddedTokens
  <2>1. /\ s[k + 1] = s[k] + d.batches[k] /\ s[k + 1] <= Len(job)
        /\ Fitting(job, d, s, k)
        BY <1>2 DEF CutInto
  <2>2. s[k] \in Nat \ {0} /\ s[k + 1] \in Nat
        BY <1>3, <1>4, <1>5
  <2>3. \A i \in s[k] .. s[k + 1] - 1 : i \in 1 .. Len(job)
    <3>1. PICK a \in Nat \ {0}, b \in Nat : a = s[k] /\ b = s[k + 1] /\ b <= Len(job)
          BY <2>1, <2>2
    <3>2. PICK n \in Nat : n = Len(job) /\ b <= n
          BY <1>3, <3>1
    <3>3. \A i \in a .. b - 1 : i \in 1 .. n
          BY <3>2
    <3> QED
      BY <3>1, <3>2, <3>3
  <2> QED
    BY <1>3, <1>6, <2>1, <2>2, <2>3 DEF Fitting
<1>8. CASE d.items = 0
  <2>1. Finished(d) = d.batches
        BY <1>8 DEF Finished
  <2>2. Planned(TextsOf(c, job), d.batches, 0, s)
        BY <1>3, <1>4, <1>5, <1>6, <1>7, <1>8 DEF Planned, Tokens
  <2> QED
    BY <1>1, <2>1, <2>2
<1>9. CASE d.items # 0
  <2> DEFINE n == Len(d.batches) + 1
             plan == Append(d.batches, d.items)
             r == Append(s, Len(job) + 1)
  <2>1. Finished(d) = plan
        BY <1>3, <1>9 DEF Finished
  <2>2. /\ plan \in Seq(Nat \ {0}) /\ Len(plan) = n
        /\ \A k \in 1 .. Len(d.batches) : plan[k] = d.batches[k]
        /\ plan[n] = d.items
        BY <1>3, <1>9, AppendProperties
  <2>3. /\ r \in Seq(Nat \ {0}) /\ Len(r) = n + 1
        /\ \A k \in 1 .. n : r[k] = s[k]
        /\ r[n + 1] = Len(job) + 1
    <3>1. s \in Seq(Nat \ {0}) /\ Len(job) + 1 \in Nat \ {0}
          BY <1>3 DEF Tokens
    <3> QED
      BY <1>4, <3>1, AppendProperties
  <2> HIDE DEF plan, r
  <2>4. ASSUME NEW k \in 1 .. n
        PROVE  /\ r[k + 1] = r[k] + plan[k]
               /\ r[k + 1] <= Len(job) + 1
               /\ plan[k] <= MaxItems
               /\ \A i \in r[k] .. r[k + 1] - 1 :
                     plan[k] * TextsOf(c, job)[i].tokens <= MaxPaddedTokens
    <3>1. CASE k = n
      <4>1. /\ r[k] = s[n] /\ r[k + 1] = Len(job) + 1 /\ plan[k] = d.items
            /\ s[n] \in Nat \ {0} /\ s[n] + d.items = Len(job) + 1
            BY <1>3, <1>4, <1>5, <2>2, <2>3, <3>1
      <4>2. ASSUME NEW i \in s[n] .. Len(job)
            PROVE  d.items * TextsOf(c, job)[i].tokens <= MaxPaddedTokens
        <5>1. i \in 1 .. Len(job) /\ job[i] <= d.longest /\ job[i] \in Nat
              BY <1>3, <1>4, <1>6, <4>1
        <5>2. d.items * job[i] <= d.items * d.longest
              BY <1>3, <5>1, PaddedSizeMonotone
        <5>3. d.items * job[i] \in Nat /\ d.items * d.longest \in Nat
              BY <1>3, <5>1
        <5> QED
          BY <1>4, <1>6, <5>1, <5>2, <5>3, LimitsAssumption
      <4>3. r[k + 1] - 1 = Len(job)
            BY <1>3, <4>1
      <4> QED
        BY <1>3, <1>4, <4>1, <4>2, <4>3
    <3>2. CASE k # n
      <4>1. k \in 1 .. Len(d.batches) /\ k \in 1 .. n /\ k + 1 \in 1 .. n
            BY <1>3, <3>2
      <4> QED
        BY <1>7, <2>2, <2>3, <4>1
    <3> QED
      BY <3>1, <3>2
  <2>5. r[1] = 0 + 1 /\ r[Len(r)] = Len(job) + 1
    <3>1. 1 \in 1 .. n
          BY <1>3
    <3> QED
      BY <1>4, <2>3, <3>1
  <2>6. Planned(TextsOf(c, job), plan, 0, r)
        BY <1>6, <2>2, <2>3, <2>4, <2>5 DEF Planned
  <2> QED
    BY <1>1, <2>1, <2>6
<1> QED
  BY <1>8, <1>9

-----------------------------------------------------------------------------
(* Requests on their way.                                                  *)

\* A request of a class: it fits the model alone, its texts and its caller are of
\* that class.
RequestOf(class) ==
    {r \in Request :
        /\ Len(r.values) <= MaxItems
        /\ \A i \in 1 .. Len(r.values) :
              /\ Len(r.values) * r.values[i].tokens <= MaxPaddedTokens
              /\ ClassOf(r.values[i].owner) = class
        /\ r.reply \in Callers => ClassOf(r.reply) = class}

\* No request of the sequence answers c; one does, and it holds the texts v.
None(s, c) == \A k \in DOMAIN s : s[k].reply # c

One(s, c, v) ==
    \E k \in DOMAIN s :
        /\ s[k].reply = c /\ s[k].values = v
        /\ \A m \in DOMAIN s : s[m].reply = c => m = k

\* One request of three sequences answers c.
Once(a, b, d, c, v) ==
    \/ One(a, c, v) /\ None(b, c) /\ None(d, c)
    \/ None(a, c) /\ One(b, c, v) /\ None(d, c)
    \/ None(a, c) /\ None(b, c) /\ One(d, c, v)

\* An empty line carries nobody, a line of one request its caller.
LEMMA Nobodys ==
    ASSUME NEW c, NEW v, NEW r
    PROVE  /\ None(<<>>, c) /\ ~One(<<>>, c, v)
           /\ None(<<r>>, c) <=> r.reply # c
           /\ One(<<r>>, c, v) <=> r.reply = c /\ r.values = v
<1>1. DOMAIN <<>> = {} /\ DOMAIN <<r>> = {1} /\ <<r>>[1] = r
      OBVIOUS
<1> QED
  BY <1>1 DEF None, One

\* Whether one or none of two sequences laid end to end answers c.
LEMMA AnswersConcat ==
    ASSUME NEW s \in Seq(Request), NEW t \in Seq(Request), NEW c, NEW v
    PROVE  /\ None(s \o t, c) <=> None(s, c) /\ None(t, c)
           /\ One(s \o t, c, v) <=>
                 \/ One(s, c, v) /\ None(t, c)
                 \/ None(s, c) /\ One(t, c, v)
<1> DEFINE u == s \o t
<1>1. /\ Len(s) \in Nat /\ Len(t) \in Nat /\ u \in Seq(Request)
      /\ Len(u) = Len(s) + Len(t)
      /\ DOMAIN s = 1 .. Len(s) /\ DOMAIN t = 1 .. Len(t) /\ DOMAIN u = 1 .. Len(u)
      BY ConcatProperties, LenProperties
<1>2. /\ \A k \in DOMAIN s : k \in DOMAIN u /\ u[k] = s[k]
      /\ \A k \in DOMAIN t : Len(s) + k \in DOMAIN u /\ u[Len(s) + k] = t[k]
  <2>1. \A i \in 1 .. Len(s) + Len(t) : u[i] = IF i <= Len(s) THEN s[i] ELSE t[i - Len(s)]
        BY ConcatProperties
  <2> HIDE DEF u
  <2>2. \A k \in DOMAIN s : k \in DOMAIN u /\ u[k] = s[k]
        BY <1>1, <2>1
  <2>3. ASSUME NEW k \in DOMAIN t PROVE Len(s) + k \in DOMAIN u /\ u[Len(s) + k] = t[k]
    <3>1. /\ Len(s) + k \in 1 .. Len(s) + Len(t) /\ ~(Len(s) + k <= Len(s))
          /\ (Len(s) + k) - Len(s) = k
          BY <1>1
    <3> QED
      BY <1>1, <2>1, <3>1
  <2> QED
    BY <2>2, <2>3
<1> HIDE DEF u
<1>3. \A m \in DOMAIN u : m \in DOMAIN s \/ \E k \in DOMAIN t : m = Len(s) + k
  <2> TAKE m \in DOMAIN u
  <2>1. CASE m <= Len(s)
        BY <1>1, <2>1
  <2>2. CASE ~(m <= Len(s))
    <3>1. m - Len(s) \in DOMAIN t /\ m = Len(s) + (m - Len(s))
          BY <1>1, <2>2
    <3> QED
      BY <3>1
  <2> QED
    BY <2>1, <2>2
<1>4. None(u, c) <=> None(s, c) /\ None(t, c)
  <2>1. None(u, c) => None(s, c) /\ None(t, c)
        BY <1>2 DEF None
  <2>2. None(s, c) /\ None(t, c) => None(u, c)
        BY <1>2, <1>3 DEF None
  <2> QED
    BY <2>1, <2>2
<1>5. ASSUME One(s, c, v), None(t, c) PROVE One(u, c, v)
  <2>1. PICK k \in DOMAIN s : /\ s[k].reply = c /\ s[k].values = v
                              /\ \A m \in DOMAIN s : s[m].reply = c => m = k
        BY <1>5 DEF One
  <2>2. \A m \in DOMAIN u : u[m].reply = c => m = k
        BY <1>2, <1>3, <1>5, <2>1 DEF None
  <2> QED
    BY <1>2, <2>1, <2>2 DEF One
<1>6. ASSUME None(s, c), One(t, c, v) PROVE One(u, c, v)
  <2>1. PICK k \in DOMAIN t : /\ t[k].reply = c /\ t[k].values = v
                              /\ \A m \in DOMAIN t : t[m].reply = c => m = k
        BY <1>6 DEF One
  <2>2. \A m \in DOMAIN u : u[m].reply = c => m = Len(s) + k
        BY <1>2, <1>3, <1>6, <2>1 DEF None
  <2> QED
    BY <1>2, <2>1, <2>2 DEF One
<1>7. ASSUME One(u, c, v)
      PROVE  \/ One(s, c, v) /\ None(t, c)
             \/ None(s, c) /\ One(t, c, v)
  <2>1. PICK k \in DOMAIN u : /\ u[k].reply = c /\ u[k].values = v
                              /\ \A m \in DOMAIN u : u[m].reply = c => m = k
        BY <1>7 DEF One
  <2>2. CASE k \in DOMAIN s
    <3>1. \A m \in DOMAIN t : Len(s) + m # k
          BY <1>1, <2>2
    <3>2. None(t, c)
          BY <1>2, <2>1, <3>1 DEF None
    <3> QED
      BY <1>2, <2>1, <2>2, <3>2 DEF One
  <2>3. ASSUME NEW j \in DOMAIN t, k = Len(s) + j
        PROVE  None(s, c) /\ One(t, c, v)
    <3>1. \A m \in DOMAIN s : m # k
          BY <1>1, <2>3
    <3>2. None(s, c)
          BY <1>2, <2>1, <3>1 DEF None
    <3>3. \A m \in DOMAIN t : Len(s) + m = Len(s) + j => m = j
          BY <1>1
    <3>4. \A m \in DOMAIN t : t[m].reply = c => m = j
          BY <1>2, <2>1, <2>3, <3>3
    <3>5. t[j].reply = c /\ t[j].values = v
          BY <1>2, <2>1, <2>3
    <3> QED
      BY <3>2, <3>4, <3>5 DEF One
  <2> QED
    BY <1>3, <2>2, <2>3
<1> QED
  BY <1>4, <1>5, <1>6, <1>7 DEF u

\* One request more at the end.
LEMMA AnswersAppend ==
    ASSUME NEW s \in Seq(Request), NEW r \in Request, NEW c, NEW v
    PROVE  /\ None(Append(s, r), c) <=> None(s, c) /\ r.reply # c
           /\ One(Append(s, r), c, v) <=>
                 \/ One(s, c, v) /\ r.reply # c
                 \/ None(s, c) /\ r.reply = c /\ r.values = v
<1>1. Append(s, r) = s \o <<r>> /\ <<r>> \in Seq(Request)
      OBVIOUS
<1>2. /\ None(s \o <<r>>, c) <=> None(s, c) /\ None(<<r>>, c)
      /\ One(s \o <<r>>, c, v) <=>
            \/ One(s, c, v) /\ None(<<r>>, c)
            \/ None(s, c) /\ One(<<r>>, c, v)
      BY <1>1, AnswersConcat
<1>3. /\ None(<<r>>, c) <=> r.reply # c
      /\ One(<<r>>, c, v) <=> r.reply = c /\ r.values = v
      BY Nobodys
<1> QED
  BY <1>1, <1>2, <1>3, Zenon

\* The first request and the others.
LEMMA AnswersHead ==
    ASSUME NEW s \in Seq(Request), s # <<>>, NEW c, NEW v
    PROVE  /\ Head(s) \in Request /\ Tail(s) \in Seq(Request)
           /\ None(s, c) <=> Head(s).reply # c /\ None(Tail(s), c)
           /\ One(s, c, v) <=>
                 \/ Head(s).reply = c /\ Head(s).values = v /\ None(Tail(s), c)
                 \/ Head(s).reply # c /\ One(Tail(s), c, v)
<1>1. /\ Head(s) \in Request /\ Tail(s) \in Seq(Request)
      /\ <<Head(s)>> \in Seq(Request) /\ s = <<Head(s)>> \o Tail(s)
      OBVIOUS
<1> DEFINE first == <<Head(s)>>
<1> HIDE DEF first
<1>2. /\ None(first \o Tail(s), c) <=> None(first, c) /\ None(Tail(s), c)
      /\ One(first \o Tail(s), c, v) <=>
            \/ One(first, c, v) /\ None(Tail(s), c)
            \/ None(first, c) /\ One(Tail(s), c, v)
      BY <1>1, AnswersConcat DEF first
<1>3. /\ None(first, c) <=> Head(s).reply # c
      /\ One(first, c, v) <=> Head(s).reply = c /\ Head(s).values = v
      BY Nobodys DEF first
<1>4. s = first \o Tail(s)
      BY <1>1 DEF first
<1>5. /\ None(s, c) <=> None(first, c) /\ None(Tail(s), c)
      /\ One(s, c, v) <=>
            \/ One(first, c, v) /\ None(Tail(s), c)
            \/ None(first, c) /\ One(Tail(s), c, v)
      BY <1>2, <1>4, Zenon
<1> QED
  BY <1>1, <1>3, <1>5

\* A caller that goes takes back its requests' reply and nobody else's.
LEMMA CancelledAnswers ==
    ASSUME NEW class, NEW s \in Seq(RequestOf(class)), NEW gone \in Callers
    PROVE  LET t == Unanswerable(s, gone) IN
           /\ t \in Seq(RequestOf(class)) /\ s \in Seq(Request)
           /\ Len(t) = Len(s) /\ \A k \in 1 .. Len(s) : t[k].values = s[k].values
           /\ None(t, gone)
           /\ \A c \in Callers \ {gone} :
                 /\ None(t, c) <=> None(s, c)
                 /\ \A v : One(t, c, v) <=> One(s, c, v)
<1> DEFINE t == Unanswerable(s, gone)
<1>1. /\ Len(s) \in Nat /\ DOMAIN s = 1 .. Len(s) /\ DOMAIN t = 1 .. Len(s)
      /\ \A k \in 1 .. Len(s) : s[k] \in RequestOf(class)
      BY LenProperties, ElementOfSeq DEF Unanswerable
<1>2. \A k \in 1 .. Len(s) :
          t[k] = IF s[k].reply = gone THEN [s[k] EXCEPT !.reply = Nobody] ELSE s[k]
      BY <1>1 DEF Unanswerable
<1>3. \A r \in RequestOf(class) :
          /\ [r EXCEPT !.reply = Nobody] \in RequestOf(class)
          /\ [r EXCEPT !.reply = Nobody].values = r.values
          /\ [r EXCEPT !.reply = Nobody].reply = Nobody
  <2> TAKE r \in RequestOf(class)
  <2> DEFINE q == [r EXCEPT !.reply = Nobody]
  <2>1. q \in Request /\ q.values = r.values /\ q.reply = Nobody
        BY DEF RequestOf, Request
  <2> HIDE DEF q
  <2>2. q \in RequestOf(class)
        BY <2>1, ExecutorAssumption DEF RequestOf
  <2> QED
    BY <2>1, <2>2 DEF q
<1>4. \A k \in 1 .. Len(s) : /\ t[k] \in RequestOf(class)
                              /\ t[k].values = s[k].values
                              /\ t[k].reply = IF s[k].reply = gone THEN Nobody ELSE s[k].reply
  <2> HIDE DEF t
  <2> TAKE k \in 1 .. Len(s)
  <2>1. CASE s[k].reply = gone
    <3>1. t[k] = [s[k] EXCEPT !.reply = Nobody]
          BY <1>2, <2>1
    <3> QED
      BY <1>1, <1>3, <2>1, <3>1
  <2>2. CASE s[k].reply # gone
        BY <1>1, <1>2, <2>2
  <2> QED
    BY <2>1, <2>2
<1>5. t \in Seq(RequestOf(class)) /\ Len(t) = Len(s)
      BY <1>1, <1>4 DEF Unanswerable
<1> HIDE DEF t
<1>6. s \in Seq(Request)
      BY <1>1 DEF RequestOf
<1>7. None(t, gone)
      BY <1>1, <1>4, ExecutorAssumption DEF None
<1>8. ASSUME NEW c \in Callers \ {gone}
      PROVE  /\ None(t, c) <=> None(s, c)
             /\ \A v : One(t, c, v) <=> One(s, c, v)
  <2>1. \A k \in 1 .. Len(s) : t[k].reply = c <=> s[k].reply = c
        BY <1>4, ExecutorAssumption
  <2> QED
    BY <1>1, <1>4, <2>1 DEF None, One
<1> QED
  BY <1>4, <1>5, <1>6, <1>7, <1>8 DEF t

-----------------------------------------------------------------------------
(* Calls.                                                                  *)

\* The texts of a call's next request.
Part(call) ==
    SubSeq(call.texts, Len(call.output) + 1, Len(call.output) + Head(call.plan))

\* A caller's call: its texts are its own, what came back is where its texts
\* begin, and what is left is planned.
CallOf(c) ==
    {call \in Call :
        /\ \A i \in 1 .. Len(call.texts) : call.texts[i].owner = c
        /\ Len(call.output) <= Len(call.texts)
        /\ \A i \in 1 .. Len(call.output) : call.output[i] = call.texts[i]
        /\ call.status \in {"sending", "awaiting"} =>
              /\ call.plan # <<>>
              /\ \E s : Planned(call.texts, call.plan, Len(call.output), s)
        /\ call.status = "done" => Len(call.output) = Len(call.texts)}

\* What a call is made of.
LEMMA CallShape ==
    ASSUME NEW call \in Call
    PROVE  /\ call.texts \in Seq(Text) /\ Len(call.texts) \in Nat
           /\ call.output \in Seq(Text) /\ Len(call.output) \in Nat
           /\ call.plan \in Seq(Nat)
           /\ \A i \in 1 .. Len(call.texts) : call.texts[i] \in Text
<1>1. call.texts \in Seq(Text) /\ call.output \in Seq(Text) /\ call.plan \in Seq(Nat)
      BY DEF Call
<1> QED
  BY <1>1, LenProperties, ElementOfSeq

\* A part of a sequence.
LEMMA Slice ==
    ASSUME NEW S, NEW s \in Seq(S), NEW m \in Nat, NEW n \in Nat, m + n <= Len(s)
    PROVE  /\ SubSeq(s, m + 1, m + n) \in Seq(S)
           /\ Len(SubSeq(s, m + 1, m + n)) = n
           /\ \A i \in 1 .. n : SubSeq(s, m + 1, m + n)[i] = s[m + i]
<1>1. Len(s) \in Nat /\ \A i \in m + 1 .. m + n : s[i] \in S
  <2>1. Len(s) \in Nat /\ \A i \in m + 1 .. m + n : i \in 1 .. Len(s)
        BY LenProperties
  <2> QED
    BY <2>1, ElementOfSeq
<1> DEFINE part == SubSeq(s, m + 1, m + n)
<1>2. PICK lo \in Int, hi \in Int : lo = m + 1 /\ hi = m + n
      OBVIOUS
<1>3. /\ SubSeq(s, lo, hi) \in Seq(S)
      /\ Len(SubSeq(s, lo, hi)) = IF lo <= hi THEN hi - lo + 1 ELSE 0
      /\ \A i \in 1 .. hi - lo + 1 : SubSeq(s, lo, hi)[i] = s[lo + i - 1]
      BY <1>1, <1>2, SubSeqProperties
<1>4. hi - lo + 1 = n /\ (n = 0 => ~(lo <= hi)) /\ (n # 0 => lo <= hi)
      BY <1>2
<1>5. \A i \in 1 .. n : lo + i - 1 = m + i
      BY <1>2
<1> QED
  BY <1>2, <1>3, <1>4, <1>5

\* The next request is of the caller's class, fits and takes texts that are there.
LEMMA PartFits ==
    ASSUME NEW c \in Callers, NEW call \in CallOf(c),
           call.status \in {"sending", "awaiting"}
    PROVE  /\ call.plan \in Seq(Nat \ {0}) /\ call.plan # <<>>
           /\ Head(call.plan) \in Nat \ {0} /\ call.plan[1] = Head(call.plan)
           /\ Len(call.output) + Head(call.plan) <= Len(call.texts)
           /\ Part(call) \in Seq(Text) /\ Len(Part(call)) = Head(call.plan)
           /\ \A i \in 1 .. Head(call.plan) : Part(call)[i] = call.texts[Len(call.output) + i]
           /\ [values |-> Part(call), reply |-> c] \in RequestOf(ClassOf(c))
<1>1. call \in Call /\ call.plan # <<>>
      BY DEF CallOf
<1>2. PICK s : Planned(call.texts, call.plan, Len(call.output), s)
      BY DEF CallOf
<1> DEFINE n == Head(call.plan)
           got == Len(call.output)
           part == Part(call)
<1>3. /\ call.plan \in Seq(Nat \ {0}) /\ Len(call.plan) \in Nat /\ 1 \in 1 .. Len(call.plan)
      /\ n \in Nat \ {0} /\ call.plan[1] = n
      /\ s \in Seq(Nat \ {0})
  <2>1. call.plan \in Seq(Nat \ {0}) /\ s \in Seq(Nat \ {0})
        BY <1>2 DEF Planned
  <2>2. Len(call.plan) \in Nat /\ Len(call.plan) # 0 /\ call.plan[1] = n
        BY <1>1, <2>1
  <2>3. n \in Nat \ {0}
        BY <1>1, <2>1, HeadTailProperties
  <2> QED
    BY <2>1, <2>2, <2>3
<1>4. /\ s[1] = got + 1 /\ s[1 + 1] = s[1] + call.plan[1]
      /\ s[1 + 1] <= Len(call.texts) + 1 /\ call.plan[1] <= MaxItems
      /\ \A i \in s[1] .. s[1 + 1] - 1 : call.plan[1] * call.texts[i].tokens <= MaxPaddedTokens
      BY <1>2, <1>3 DEF Planned
<1>5. got \in Nat /\ Len(call.texts) \in Nat
      BY <1>1, CallShape
<1> HIDE DEF n, got, part
<1>6. /\ n <= MaxItems /\ got + n <= Len(call.texts)
      /\ \A i \in got + 1 .. got + n : n * call.texts[i].tokens <= MaxPaddedTokens
  <2>1. s[1] = got + 1 /\ s[1 + 1] = got + 1 + n
        BY <1>3, <1>4, <1>5
  <2>2. s[1 + 1] - 1 = got + n
        BY <1>3, <1>5, <2>1
  <2> QED
    BY <1>3, <1>4, <1>5, <2>1, <2>2
<1>7. \A i \in got + 1 .. got + n : i \in 1 .. Len(call.texts) /\ call.texts[i] \in Text
  <2>1. \A i \in got + 1 .. got + n : i \in 1 .. Len(call.texts)
        BY <1>3, <1>5, <1>6
  <2> QED
    BY <1>1, <2>1, CallShape
<1>8. /\ part \in Seq(Text) /\ Len(part) = n
      /\ \A i \in 1 .. n : part[i] = call.texts[got + i]
  <2>1. part = SubSeq(call.texts, got + 1, got + n)
        BY DEF part, Part, got, n
  <2> QED
    BY <1>1, <1>3, <1>5, <1>6, <2>1, CallShape, Slice
<1>9. [values |-> part, reply |-> c] \in RequestOf(ClassOf(c))
  <2> DEFINE r == [values |-> part, reply |-> c]
  <2>1. r \in Request /\ r.values = part /\ r.reply = c
        BY <1>8 DEF Request
  <2>2. ASSUME NEW i \in 1 .. n
        PROVE  n * part[i].tokens <= MaxPaddedTokens /\ part[i].owner = c
    <3>0. got + i \in got + 1 .. got + n
          BY <1>3, <1>5
    <3>1. got + i \in got + 1 .. got + n /\ part[i] = call.texts[got + i]
          BY <1>8, <3>0
    <3>2. \A j \in 1 .. Len(call.texts) : call.texts[j].owner = c
          BY DEF CallOf
    <3> QED
      BY <1>6, <1>7, <3>1, <3>2
  <2> HIDE DEF r
  <2> QED
    BY <1>6, <1>8, <2>1, <2>2 DEF RequestOf, r
<1> QED
  BY <1>1, <1>3, <1>6, <1>8, <1>9 DEF n, got, part

\* A call that gets back the texts it sent goes on with the next ones, or is done
\* when there are none.
LEMMA OutputKeepsCall ==
    ASSUME NEW c \in Callers, NEW call \in CallOf(c), call.status = "awaiting"
    PROVE  WithOutput(call, Part(call)) \in CallOf(c)
<1> DEFINE next == WithOutput(call, Part(call))
           n == Head(call.plan)
           got == Len(call.output)
           part == Part(call)
<1>1. call \in Call
      BY DEF CallOf
<1>2. /\ call.plan \in Seq(Nat \ {0}) /\ call.plan # <<>> /\ n \in Nat \ {0}
      /\ got + n <= Len(call.texts) /\ part \in Seq(Text) /\ Len(part) = n
      /\ call.plan[1] = n
      /\ \A i \in 1 .. n : part[i] = call.texts[got + i]
      BY PartFits
<1>3. /\ call.texts \in Seq(Text) /\ Len(call.texts) \in Nat
      /\ call.output \in Seq(Text) /\ got \in Nat
      /\ \A i \in 1 .. got : call.output[i] = call.texts[i]
      /\ \A i \in 1 .. Len(call.texts) : call.texts[i].owner = c
      BY <1>1, CallShape DEF CallOf
<1>4. /\ next.output = call.output \o part /\ next.plan = Tail(call.plan)
      /\ next.texts = call.texts
      /\ next.status = IF Len(call.plan) = 1 THEN "done" ELSE "sending"
      BY <1>1 DEF WithOutput, Call
<1>5. \A a \in Seq(Text), b \in Seq(Nat), e \in {"done", "sending"} :
          [call EXCEPT !.output = a, !.plan = b, !.status = e] \in Call
      BY <1>1 DEF Call
<1> HIDE DEF next, n, got, part
<1>6. /\ Tail(call.plan) \in Seq(Nat \ {0}) /\ Tail(call.plan) \in Seq(Nat)
      /\ Len(call.plan) \in Nat \ {0} /\ Len(Tail(call.plan)) = Len(call.plan) - 1
      /\ \A k \in 1 .. Len(call.plan) - 1 : Tail(call.plan)[k] = call.plan[k + 1]
  <2>1. /\ Tail(call.plan) \in Seq(Nat \ {0}) /\ Len(Tail(call.plan)) = Len(call.plan) - 1
        /\ \A k \in 1 .. Len(Tail(call.plan)) : Tail(call.plan)[k] = call.plan[k + 1]
        BY <1>2, HeadTailProperties
  <2>2. Len(call.plan) \in Nat \ {0}
        BY <1>2
  <2> QED
    BY <2>1, <2>2
<1>7. /\ next.output \in Seq(Text) /\ Len(next.output) = got + n
      /\ \A i \in 1 .. got + n : next.output[i] = call.texts[i]
  <2>1. PICK a \in Seq(Text) : a = call.output /\ Len(a) = got
        BY <1>3 DEF got
  <2>2. /\ a \o part \in Seq(Text) /\ Len(a \o part) = got + n
        /\ \A i \in 1 .. got + n : (a \o part)[i] = IF i <= got THEN a[i] ELSE part[i - got]
    <3>1. PICK b \in Seq(Text) : b = part
          BY <1>2
    <3>2. /\ a \o b \in Seq(Text) /\ Len(a \o b) = Len(a) + Len(b)
          /\ \A i \in 1 .. Len(a) + Len(b) :
                 (a \o b)[i] = IF i <= Len(a) THEN a[i] ELSE b[i - Len(a)]
          BY ConcatProperties
    <3> QED
      BY <1>2, <2>1, <3>1, <3>2
  <2>3. ASSUME NEW i \in 1 .. got + n PROVE (a \o part)[i] = call.texts[i]
    <3>1. CASE i <= got
      <4>1. i \in 1 .. got
            BY <1>2, <1>3, <3>1
      <4> QED
        BY <1>3, <2>1, <2>2, <3>1, <4>1
    <3>2. CASE ~(i <= got)
      <4>1. i - got \in 1 .. n /\ got + (i - got) = i
            BY <1>2, <1>3, <3>2
      <4> QED
        BY <1>2, <2>2, <3>2, <4>1
    <3> QED
      BY <3>1, <3>2
  <2> QED
    BY <1>4, <2>1, <2>2, <2>3
<1>8. next \in Call
  <2>1. PICK a \in Seq(Text), b \in Seq(Nat), e \in {"done", "sending"} :
            /\ a = call.output \o part /\ b = Tail(call.plan)
            /\ e = IF Len(call.plan) = 1 THEN "done" ELSE "sending"
        BY <1>4, <1>6, <1>7
  <2>2. next = [call EXCEPT !.output = a, !.plan = b, !.status = e]
        BY <2>1 DEF next, WithOutput, part
  <2> QED
    BY <1>5, <2>2
<1>9. PICK s : Planned(call.texts, call.plan, got, s)
      BY DEF CallOf, got
<1>10. /\ s \in Seq(Nat \ {0}) /\ Len(s) = Len(call.plan) + 1
       /\ s[1] = got + 1 /\ s[2] = got + n + 1 /\ s[Len(s)] = Len(call.texts) + 1
  <2>1. /\ s \in Seq(Nat \ {0}) /\ Len(s) = Len(call.plan) + 1
        /\ s[1] = got + 1 /\ s[Len(s)] = Len(call.texts) + 1
        BY <1>9 DEF Planned
  <2>2. 1 \in 1 .. Len(call.plan) /\ 1 + 1 = 2
        BY <1>6
  <2>3. s[1 + 1] = s[1] + call.plan[1]
        BY <1>9, <2>2 DEF Planned
  <2> QED
    BY <1>2, <1>3, <2>1, <2>2, <2>3
<1>11. CASE Len(call.plan) = 1
  <2>1. got + n = Len(call.texts)
    <3>1. Len(s) = 2
          BY <1>10, <1>11
    <3>2. s[2] = Len(call.texts) + 1
          BY <1>10, <3>1
    <3>3. got + n + 1 = Len(call.texts) + 1
          BY <1>10, <3>2
    <3> QED
      BY <1>2, <1>3, <3>3
  <2>2. /\ Len(next.output) = Len(next.texts) /\ next.status = "done"
        /\ Len(next.output) <= Len(next.texts)
        BY <1>3, <1>4, <1>7, <1>11, <2>1
  <2>3. next \in CallOf(c)
        BY <1>3, <1>4, <1>7, <1>8, <2>2 DEF CallOf
  <2> QED
    BY <2>3 DEF next
<1>12. CASE Len(call.plan) # 1
  <2> DEFINE t == Tail(s)
             plan == Tail(call.plan)
  <2>1. /\ t \in Seq(Nat \ {0}) /\ Len(t) = Len(call.plan)
        /\ \A k \in 1 .. Len(call.plan) : t[k] = s[k + 1]
    <3>1. s # <<>>
          BY <1>6, <1>10
    <3>2. /\ t \in Seq(Nat \ {0}) /\ Len(t) = Len(s) - 1
          /\ \A k \in 1 .. Len(t) : t[k] = s[k + 1]
          BY <1>10, <3>1, HeadTailProperties
    <3>3. Len(s) - 1 = Len(call.plan)
          BY <1>6, <1>10
    <3> QED
      BY <3>2, <3>3
  <2> HIDE DEF t
  <2>2. plan # <<>>
    <3>1. Len(plan) # 0 /\ Len(<<>>) = 0
          BY <1>6, <1>12
    <3> QED
      BY <3>1
  <2>3. ASSUME NEW k \in 1 .. Len(plan)
        PROVE  /\ t[k + 1] = t[k] + plan[k]
               /\ t[k + 1] <= Len(call.texts) + 1
               /\ plan[k] <= MaxItems
               /\ \A i \in t[k] .. t[k + 1] - 1 :
                     plan[k] * call.texts[i].tokens <= MaxPaddedTokens
    <3>1. k + 1 \in 1 .. Len(call.plan) /\ k \in 1 .. Len(call.plan) /\ k \in 1 .. Len(call.plan) - 1
          BY <1>6
    <3>2. t[k] = s[k + 1] /\ t[k + 1] = s[k + 1 + 1] /\ plan[k] = call.plan[k + 1]
          BY <1>6, <2>1, <3>1
    <3> QED
      BY <1>9, <3>1, <3>2 DEF Planned
  <2>4. t[1] = got + n + 1 /\ t[Len(t)] = Len(call.texts) + 1
    <3>1. 1 \in 1 .. Len(call.plan) /\ Len(call.plan) \in 1 .. Len(call.plan) /\ 1 + 1 = 2
          BY <1>6
    <3> QED
      BY <1>10, <2>1, <3>1
  <2>5. Len(t) = Len(plan) + 1
        BY <1>6, <2>1
  <2>6. Planned(call.texts, plan, got + n, t)
        BY <1>6, <2>1, <2>3, <2>4, <2>5 DEF Planned
  <2> HIDE DEF plan
  <2>7. \E u : Planned(next.texts, next.plan, Len(next.output), u)
        BY <1>4, <1>7, <2>6 DEF plan
  <2>8. next.plan # <<>> /\ next.status = "sending" /\ Len(next.output) <= Len(next.texts)
        BY <1>2, <1>4, <1>7, <1>12, <2>2 DEF plan
  <2> QED
    BY <1>3, <1>4, <1>7, <1>8, <2>7, <2>8 DEF CallOf, next
<1> QED
  BY <1>11, <1>12

-----------------------------------------------------------------------------
(* What inference answers.                                                 *)

\* Draining the vectors of the requests before it leaves a request its own.
LEMMA DrainedIsOwn ==
    ASSUME batch \in Seq(Request), NEW k \in DOMAIN batch
    PROVE  Drained(k) = batch[k].values
<1> DEFINE s == [m \in DOMAIN batch |-> batch[m].values]
<1>1. /\ Len(batch) \in Nat /\ DOMAIN batch = 1 .. Len(batch)
      /\ \A m \in 1 .. Len(batch) : batch[m] \in Request /\ batch[m].values \in Seq(Text)
      BY LenProperties, ElementOfSeq, RequestShape
<1>2. /\ s \in Seq(Seq(Text)) /\ Len(s) = Len(batch)
      /\ \A m \in 1 .. Len(batch) : s[m] = batch[m].values
      BY <1>1
<1> HIDE DEF s
<1>3. PICK ends : Ends(Text, s, ends)
      BY <1>2, FlattenVisits
<1> DEFINE S == {m \in 0 .. Len(batch) : Len(ends[m]) = Items(SubSeq(batch, 1, m))}
<1>4. 0 \in S
  <2>1. SubSeq(batch, 1, 0) = <<>> /\ ends[0] = <<>> /\ Len(<<>>) = 0
        BY <1>3, SubSeqEmpty DEF Ends
  <2>2. Items(<<>>) = 0
    <3>1. batch[k] \in Request
          BY <1>1
    <3> QED
      BY <3>1, SizesAppend
  <2>3. Len(ends[0]) = Items(SubSeq(batch, 1, 0)) /\ 0 \in 0 .. Len(batch)
    <3>1. Len(ends[0]) = 0 /\ Items(SubSeq(batch, 1, 0)) = 0
          BY <2>1, <2>2
    <3> QED
      BY <1>1, <3>1
  <2> QED
    BY <2>3
<1>5. ASSUME NEW m \in 0 .. Len(batch) - 1, m \in S PROVE m + 1 \in S
  <2>1. /\ m \in Nat /\ m + 1 \in 1 .. Len(batch) /\ m + 1 \in 0 .. Len(batch)
        /\ m \in 0 .. Len(batch) /\ (m + 1) - 1 = m /\ 0 + m <= Len(batch)
        BY <1>1
  <2>2. ends[m + 1] = ends[m] \o s[m + 1] /\ ends[m] \in Seq(Text)
        BY <1>2, <1>3, <2>1 DEF Ends
  <2>3. Len(ends[m + 1]) = Len(ends[m]) + Len(batch[m + 1].values)
    <3>1. PICK a \in Seq(Text), b \in Seq(Text) : a = ends[m] /\ b = s[m + 1] /\ ends[m + 1] = a \o b
          BY <1>1, <1>2, <2>1, <2>2
    <3>2. Len(a \o b) = Len(a) + Len(b)
          BY ConcatProperties
    <3> QED
      BY <1>2, <2>1, <3>1, <3>2
  <2>4. SubSeq(batch, 1, m) \in Seq(Request)
    <3>1. SubSeq(batch, 0 + 1, 0 + m) \in Seq(Request)
          BY <2>1, Slice
    <3>2. 0 + 1 = 1 /\ 0 + m = m
          BY <2>1
    <3> QED
      BY <3>1, <3>2
  <2>5. SubSeq(batch, 1, m + 1) = Append(SubSeq(batch, 1, m), batch[m + 1])
        BY <1>1, <2>1
  <2>6. Items(SubSeq(batch, 1, m + 1)) = Items(SubSeq(batch, 1, m)) + Len(batch[m + 1].values)
        BY <1>1, <2>1, <2>4, <2>5, SizesAppend
  <2> QED
    BY <1>5, <2>1, <2>3, <2>6
<1> HIDE DEF S
<1>6. 0 .. Len(batch) \subseteq S
      BY <1>1, <1>4, <1>5, Counting!UpTo
<1>7. k - 1 \in 0 .. Len(batch) /\ k \in 1 .. Len(batch)
      BY <1>1
<1>8. Len(ends[k - 1]) = Items(SubSeq(batch, 1, k - 1))
      BY <1>6, <1>7 DEF S
<1>9. SubSeq(FlattenSeq(s), Len(ends[k - 1]) + 1, Len(ends[k - 1]) + Len(s[k])) = s[k]
  <2>1. k \in 1 .. Len(s)
        BY <1>2, <1>7
  <2> QED
    BY <1>2, <1>3, <2>1, FlattenSlice
<1>10. Vectors = FlattenSeq(s)
      BY DEF Vectors, s
<1> QED
  BY <1>2, <1>7, <1>8, <1>9, <1>10 DEF Drained

-----------------------------------------------------------------------------
(* The executor's invariant.                                               *)

\* Every request is of the class of its line and fits the model alone.
RequestsOfClass ==
    /\ \A class \in Classes : /\ queue[class] \in Seq(RequestOf(class))
                              /\ deferred[class] \in Seq(RequestOf(class))
    /\ batch \in Seq(RequestOf(serving))

\* One deferred request at most, and none while a batch is filled.
OneDeferred ==
    /\ phase = "select" <=> batch = <<>>
    /\ phase = "merge" => \A class \in Classes : deferred[class] = <<>>
    /\ \A class \in Classes : Len(deferred[class]) <= 1
    /\ deferred["query"] = <<>> \/ deferred["bulk"] = <<>>

\* A caller waits exactly while one request can answer it.
WaitsOnce(c) ==
    /\ calls[c].status = "awaiting" =>
          Once(batch, deferred[ClassOf(c)], queue[ClassOf(c)], c, Part(calls[c]))
    /\ calls[c].status # "awaiting" =>
          None(batch, c) /\ None(deferred[ClassOf(c)], c) /\ None(queue[ClassOf(c)], c)

ExecutorInv ==
    /\ TypeOK
    /\ \A c \in Callers : calls[c] \in CallOf(c)
    /\ RequestsOfClass
    /\ OneDeferred
    /\ BatchFits
    /\ \A c \in Callers : WaitsOnce(c)

\* Every caller has a class.
LEMMA ClassOfCaller == \A c : ClassOf(c) \in Classes
  BY DEF ClassOf, Classes

\* Requests of a class are requests.
LEMMA RequestsOfClassAre ==
    ASSUME NEW class, NEW s \in Seq(RequestOf(class))
    PROVE  s \in Seq(Request)
<1>1. /\ Len(s) \in Nat /\ DOMAIN s = 1 .. Len(s)
      /\ \A k \in 1 .. Len(s) : s[k] \in RequestOf(class)
      BY LenProperties, ElementOfSeq
<1> QED
  BY <1>1 DEF RequestOf

\* What the lines hold, for a proof about one of them.
LEMMA LinesShape ==
    ASSUME ExecutorInv
    PROVE  /\ \A class \in Classes : /\ queue[class] \in Seq(Request)
                                     /\ deferred[class] \in Seq(Request)
           /\ batch \in Seq(Request)
           /\ serving \in Classes
  BY RequestsOfClassAre DEF ExecutorInv, RequestsOfClass, TypeOK

\* A request of another class answers nobody of this one.
LEMMA OtherClass ==
    ASSUME NEW c \in Callers, NEW class, class # ClassOf(c), NEW r \in RequestOf(class)
    PROVE  r.reply # c
  BY DEF RequestOf

\* A request that fits alone makes a batch that fits.
LEMMA AloneFits ==
    ASSUME NEW class, NEW r \in RequestOf(class)
    PROVE  /\ r \in Request
           /\ Fits(Items(<<r>>), LongestOf(<<r>>))
<1>1. /\ r \in Request /\ Len(r.values) <= MaxItems
      /\ \A i \in 1 .. Len(r.values) : Len(r.values) * r.values[i].tokens <= MaxPaddedTokens
      BY DEF RequestOf
<1>2. /\ Longest(r) \in Nat /\ Len(r.values) \in Nat
      /\ \/ Longest(r) = 0
         \/ \E i \in 1 .. Len(r.values) : r.values[i].tokens = Longest(r)
      BY <1>1, LongestIsAText, RequestShape
<1>3. Append(<<>>, r) = <<r>> /\ <<>> \in Seq(Request)
      OBVIOUS
<1>4. /\ Items(<<r>>) = 0 + Len(r.values)
      /\ LongestOf(<<r>>) = Longer(0, Longest(r))
  <2>1. /\ Items(<<>>) = 0 /\ LongestOf(<<>>) = 0
        /\ Items(Append(<<>>, r)) = Items(<<>>) + Len(r.values)
        /\ LongestOf(Append(<<>>, r)) = Longer(LongestOf(<<>>), Longest(r))
        BY <1>1, <1>3, SizesAppend
  <2> QED
    BY <1>3, <2>1
<1>5. Items(<<r>>) = Len(r.values) /\ LongestOf(<<r>>) = Longest(r)
      BY <1>2, <1>4 DEF Longer
<1>6. Len(r.values) * Longest(r) <= MaxPaddedTokens
  <2>1. CASE Longest(r) = 0
        BY <1>2, <2>1, LimitsAssumption
  <2>2. CASE \E i \in 1 .. Len(r.values) : r.values[i].tokens = Longest(r)
        BY <1>1, <2>2
  <2> QED
    BY <1>2, <2>1, <2>2
<1> QED
  BY <1>1, <1>5, <1>6 DEF Fits

-----------------------------------------------------------------------------
(* Callers keep it.                                                        *)

\* A job is a sequence of token counts.
LEMMA JobsAreTokens == \A job \in Jobs : job \in Seq(Tokens)
  BY ExecutorAssumption DEF Tokens

\* A new call is planned, rejected or done.
LEMMA CallEmbedCall ==
    ASSUME NEW c \in Callers, NEW job \in Jobs, CallEmbed(c, job), TypeOK
    PROVE  calls'[c] \in CallOf(c) /\ calls'[c].status # "awaiting"
<1> DEFINE plan == Finished(CutOf(job))
           texts == TextsOf(c, job)
<1>1. /\ job \in Seq(Tokens) /\ CutOf(job) \in Cut
      /\ texts \in Seq(Text) /\ Len(texts) = Len(job) /\ Len(job) \in Nat
      BY JobsAreTokens, JobIsCut, TextsShape, LenProperties
<1>2. \A i \in 1 .. Len(texts) : texts[i].owner = c
  <2>1. DOMAIN job = 1 .. Len(job)
        BY <1>1, LenProperties
  <2> QED
    BY <1>1, <2>1 DEF TextsOf
<1>3. calls'[c] = [status |-> IF CutOf(job).rejected THEN "failed"
                              ELSE IF plan = <<>> THEN "done" ELSE "sending",
                   texts |-> texts,
                   plan |-> IF CutOf(job).rejected THEN <<>> ELSE plan,
                   output |-> <<>>]
      BY DEF CallEmbed, TypeOK
<1>4. plan \in Seq(Nat)
      BY <1>1 DEF Finished, Cut
<1>5. <<>> \in Seq(Text) /\ <<>> \in Seq(Nat) /\ Len(<<>>) = 0 /\ 1 .. 0 = {}
      OBVIOUS
<1> HIDE DEF plan, texts
<1>6. CASE CutOf(job).rejected
  <2>1. calls'[c] = [status |-> "failed", texts |-> texts, plan |-> <<>>, output |-> <<>>]
        BY <1>3, <1>6
  <2> QED
    BY <1>1, <1>2, <1>5, <2>1 DEF CallOf, Call
<1>7. CASE ~CutOf(job).rejected
  <2>1. PICK s : Planned(texts, plan, 0, s)
        BY <1>1, <1>7, JobIsPlanned DEF texts, plan
  <2>2. CASE plan = <<>>
    <3>1. calls'[c] = [status |-> "done", texts |-> texts, plan |-> plan, output |-> <<>>]
          BY <1>3, <1>7, <2>2
    <3>2. Len(texts) = 0
      <4>1. Len(s) = 1 /\ s[1] = 1 /\ s[Len(s)] = Len(texts) + 1
            BY <1>5, <2>1, <2>2 DEF Planned
      <4> QED
        BY <1>1, <4>1
    <3> QED
      BY <1>1, <1>2, <1>4, <1>5, <3>1, <3>2 DEF CallOf, Call
  <2>3. CASE plan # <<>>
    <3>1. calls'[c] = [status |-> "sending", texts |-> texts, plan |-> plan, output |-> <<>>]
          BY <1>3, <1>7, <2>3
    <3>2. \E u : Planned(texts, plan, Len(<<>>), u)
          BY <1>5, <2>1
    <3> QED
      BY <1>1, <1>2, <1>4, <1>5, <2>3, <3>1, <3>2 DEF CallOf, Call
  <2> QED
    BY <2>2, <2>3
<1> QED
  BY <1>6, <1>7

\* embed: a call that begins, or is rejected, keeps the invariant.
LEMMA CallEmbedKeeps ==
    ASSUME ExecutorInv, NEW c \in Callers, NEW job \in Jobs, CallEmbed(c, job)
    PROVE  ExecutorInv'
<1>1. /\ UNCHANGED <<queue, deferred, batch, burst, serving, phase>>
      /\ calls[c].status # "awaiting" /\ TypeOK
      BY DEF CallEmbed, Busy, executor, ExecutorInv
<1>2. calls'[c] \in CallOf(c) /\ calls'[c].status # "awaiting"
      BY <1>1, CallEmbedCall
<1>3. \A d \in Callers \ {c} : calls'[d] = calls[d]
      BY <1>1 DEF CallEmbed, TypeOK
<1>4. \A d \in Callers : calls'[d] \in CallOf(d)
      BY <1>2, <1>3 DEF ExecutorInv
<1>5. TypeOK'
  <2>1. calls' \in [Callers -> Call]
    <3>1. calls' = [d \in Callers |-> calls'[d]]
          BY <1>1 DEF CallEmbed, TypeOK
    <3>2. \A d \in Callers : calls'[d] \in Call
          BY <1>4 DEF CallOf
    <3> QED
      BY <3>1, <3>2
  <2> QED
    BY <1>1, <2>1 DEF TypeOK
<1>6. RequestsOfClass' /\ OneDeferred' /\ BatchFits'
      BY <1>1 DEF ExecutorInv, RequestsOfClass, OneDeferred, BatchFits
<1>7. \A d \in Callers : WaitsOnce(d)'
  <2> TAKE d \in Callers
  <2>1. CASE d = c
        BY <1>1, <1>2, <2>1 DEF ExecutorInv, WaitsOnce
  <2>2. CASE d # c
        BY <1>1, <1>3, <2>2 DEF ExecutorInv, WaitsOnce
  <2> QED
    BY <2>1, <2>2
<1> QED
  BY <1>4, <1>5, <1>6, <1>7 DEF ExecutorInv

\* The next request joins the line of its class.
LEMMA SubmitKeeps ==
    ASSUME ExecutorInv, NEW c \in Callers, Submit(c)
    PROVE  ExecutorInv'
<1> DEFINE class == ClassOf(c)
           r == [values |-> Part(calls[c]), reply |-> c]
<1>1. /\ UNCHANGED <<deferred, batch, burst, serving, phase>> /\ TypeOK
      /\ calls[c].status = "sending" /\ calls[c] \in CallOf(c) /\ calls[c] \in Call
      /\ calls' = [calls EXCEPT ![c].status = "awaiting"]
      /\ queue' = [queue EXCEPT ![class] = Append(queue[class], r)]
      /\ class \in Classes
      BY ClassOfCaller DEF Submit, executor, NextTexts, Part, ExecutorInv, CallOf
<1>2. r \in RequestOf(class) /\ r \in Request /\ r.reply = c /\ r.values = Part(calls[c])
      BY <1>1, PartFits DEF RequestOf
<1> HIDE DEF r, class
<1>3. /\ calls'[c] = [calls[c] EXCEPT !.status = "awaiting"]
      /\ calls'[c].status = "awaiting" /\ calls'[c].texts = calls[c].texts
      /\ calls'[c].plan = calls[c].plan /\ calls'[c].output = calls[c].output
      /\ calls'[c] \in Call
      /\ \A d \in Callers \ {c} : calls'[d] = calls[d]
      BY <1>1 DEF TypeOK, Call
<1>4. calls'[c] \in CallOf(c) /\ Part(calls'[c]) = Part(calls[c])
      BY <1>1, <1>3 DEF CallOf, Part
<1>5. \A d \in Callers : calls'[d] \in CallOf(d)
      BY <1>3, <1>4 DEF ExecutorInv
<1>6. /\ queue'[class] = Append(queue[class], r)
      /\ \A k \in Classes \ {class} : queue'[k] = queue[k]
      /\ queue' = [k \in Classes |-> queue'[k]]
      BY <1>1 DEF TypeOK
<1>7. /\ queue[class] \in Seq(Request) /\ queue[class] \in Seq(RequestOf(class))
      /\ \A k \in Classes : queue[k] \in Seq(Request)
      BY <1>1, LinesShape DEF ExecutorInv, RequestsOfClass
<1>8. /\ queue'[class] \in Seq(Request) /\ queue'[class] \in Seq(RequestOf(class))
      BY <1>2, <1>6, <1>7
<1>9. TypeOK'
  <2>1. calls' \in [Callers -> Call]
        BY <1>1, <1>3 DEF TypeOK
  <2>2. queue' \in [Classes -> Seq(Request)]
        BY <1>6, <1>7, <1>8
  <2> QED
    BY <1>1, <2>1, <2>2 DEF TypeOK
<1>10. RequestsOfClass'
  <2>1. \A k \in Classes : queue'[k] \in Seq(RequestOf(k))
        BY <1>6, <1>8 DEF ExecutorInv, RequestsOfClass
  <2> QED
    BY <1>1, <2>1 DEF ExecutorInv, RequestsOfClass
<1>11. OneDeferred' /\ BatchFits'
       BY <1>1 DEF ExecutorInv, OneDeferred, BatchFits
<1>12. \A d \in Callers : WaitsOnce(d)'
  <2>1. ASSUME NEW d \in Callers, d = c PROVE WaitsOnce(d)'
    <3>1. None(batch, c) /\ None(deferred[class], c) /\ None(queue[class], c)
          BY <1>1 DEF ExecutorInv, WaitsOnce, class
    <3>2. One(queue'[class], c, Part(calls[c]))
          BY <1>2, <1>6, <1>7, <3>1, AnswersAppend
    <3>3. Once(batch', deferred'[class], queue'[class], c, Part(calls'[c]))
          BY <1>1, <1>4, <3>1, <3>2 DEF Once
    <3> QED
      BY <1>3, <2>1, <3>3 DEF WaitsOnce, class
  <2>2. ASSUME NEW d \in Callers, d # c PROVE WaitsOnce(d)'
    <3>1. calls'[d] = calls[d] /\ WaitsOnce(d) /\ ClassOf(d) \in Classes
          BY <1>3, <2>2, ClassOfCaller DEF ExecutorInv
    <3>2. /\ None(queue'[ClassOf(d)], d) <=> None(queue[ClassOf(d)], d)
          /\ One(queue'[ClassOf(d)], d, Part(calls[d]))
                <=> One(queue[ClassOf(d)], d, Part(calls[d]))
      <4>1. CASE ClassOf(d) = class
        <5>1. /\ None(Append(queue[class], r), d) <=> None(queue[class], d) /\ r.reply # d
              /\ One(Append(queue[class], r), d, Part(calls[d])) <=>
                    \/ One(queue[class], d, Part(calls[d])) /\ r.reply # d
                    \/ None(queue[class], d) /\ r.reply = d /\ r.values = Part(calls[d])
              BY <1>2, <1>7, AnswersAppend
        <5>2. r.reply # d
              BY <1>2, <2>2
        <5>3. queue'[ClassOf(d)] = Append(queue[class], r) /\ queue[ClassOf(d)] = queue[class]
              BY <1>6, <4>1
        <5> QED
          BY <5>1, <5>2, <5>3
      <4>2. CASE ClassOf(d) # class
            BY <1>6, <3>1, <4>2
      <4> QED
        BY <4>1, <4>2
    <3>3. deferred'[ClassOf(d)] = deferred[ClassOf(d)] /\ batch' = batch
          BY <1>1
    <3> QED
      BY <3>1, <3>2, <3>3 DEF WaitsOnce, Once
  <2> QED
    BY <2>1, <2>2
<1> QED
  BY <1>5, <1>9, <1>10, <1>11, <1>12 DEF ExecutorInv

\* A caller that goes takes nobody else's request with it.
LEMMA CancelKeeps ==
    ASSUME ExecutorInv, NEW c \in Callers, Cancel(c)
    PROVE  ExecutorInv'
<1>1. /\ UNCHANGED <<burst, serving, phase>> /\ TypeOK
      /\ calls' = [calls EXCEPT ![c] = Idle]
      /\ queue' = [class \in Classes |-> Unanswerable(queue[class], c)]
      /\ deferred' = [class \in Classes |-> Unanswerable(deferred[class], c)]
      /\ batch' = Unanswerable(batch, c)
      BY DEF Cancel, ExecutorInv
<1>2. /\ \A class \in Classes : /\ queue[class] \in Seq(RequestOf(class))
                                /\ deferred[class] \in Seq(RequestOf(class))
      /\ batch \in Seq(RequestOf(serving)) /\ serving \in Classes
      BY LinesShape DEF ExecutorInv, RequestsOfClass
<1>3. /\ calls'[c] = Idle /\ \A d \in Callers \ {c} : calls'[d] = calls[d]
      BY <1>1 DEF TypeOK
<1>4. Idle \in CallOf(c) /\ Idle \in Call /\ Idle.status # "awaiting"
      BY DEF Idle, CallOf, Call
<1>5. \A class \in Classes :
         /\ queue'[class] = Unanswerable(queue[class], c)
         /\ deferred'[class] = Unanswerable(deferred[class], c)
      BY <1>1
<1>6. \A class \in Classes :
         /\ queue'[class] \in Seq(RequestOf(class)) /\ None(queue'[class], c)
         /\ deferred'[class] \in Seq(RequestOf(class)) /\ None(deferred'[class], c)
         /\ Len(deferred'[class]) = Len(deferred[class])
         /\ \A d \in Callers \ {c} :
               /\ None(queue'[class], d) <=> None(queue[class], d)
               /\ None(deferred'[class], d) <=> None(deferred[class], d)
               /\ \A v : One(queue'[class], d, v) <=> One(queue[class], d, v)
               /\ \A v : One(deferred'[class], d, v) <=> One(deferred[class], d, v)
  <2> TAKE class \in Classes
  <2>1. /\ queue'[class] \in Seq(RequestOf(class)) /\ None(queue'[class], c)
        /\ \A d \in Callers \ {c} :
              /\ None(queue'[class], d) <=> None(queue[class], d)
              /\ \A v : One(queue'[class], d, v) <=> One(queue[class], d, v)
        BY <1>2, <1>5, CancelledAnswers
  <2>2. /\ deferred'[class] \in Seq(RequestOf(class)) /\ None(deferred'[class], c)
        /\ Len(deferred'[class]) = Len(deferred[class])
        /\ \A d \in Callers \ {c} :
              /\ None(deferred'[class], d) <=> None(deferred[class], d)
              /\ \A v : One(deferred'[class], d, v) <=> One(deferred[class], d, v)
        BY <1>2, <1>5, CancelledAnswers
  <2> QED
    BY <2>1, <2>2
<1>7. /\ batch' \in Seq(RequestOf(serving)) /\ None(batch', c)
      /\ batch \in Seq(Request) /\ Len(batch') = Len(batch)
      /\ \A k \in 1 .. Len(batch) : batch'[k].values = batch[k].values
      /\ \A d \in Callers \ {c} :
            /\ None(batch', d) <=> None(batch, d)
            /\ \A v : One(batch', d, v) <=> One(batch, d, v)
      BY <1>1, <1>2, CancelledAnswers
<1>8. \A d \in Callers : calls'[d] \in CallOf(d)
      BY <1>3, <1>4 DEF ExecutorInv
<1>9. TypeOK'
  <2>1. calls' \in [Callers -> Call]
        BY <1>1, <1>4 DEF TypeOK
  <2>2. \A class \in Classes : queue'[class] \in Seq(Request) /\ deferred'[class] \in Seq(Request)
        BY <1>6, RequestsOfClassAre
  <2>3. /\ queue' \in [Classes -> Seq(Request)] /\ deferred' \in [Classes -> Seq(Request)]
        BY <1>1, <2>2
  <2>4. batch' \in Seq(Request)
        BY <1>7, RequestsOfClassAre
  <2> QED
    BY <1>1, <2>1, <2>3, <2>4 DEF TypeOK
<1>10. RequestsOfClass'
       BY <1>1, <1>6, <1>7 DEF RequestsOfClass
<1>11. /\ batch' = <<>> <=> batch = <<>>
       /\ \A class \in Classes : deferred'[class] = <<>> <=> deferred[class] = <<>>
  <2>1. batch' = <<>> <=> batch = <<>>
        BY <1>7
  <2>2. \A class \in Classes : deferred'[class] = <<>> <=> deferred[class] = <<>>
        BY <1>2, <1>6
  <2> QED
    BY <2>1, <2>2
<1>12. OneDeferred'
       BY <1>1, <1>6, <1>11 DEF ExecutorInv, OneDeferred, Classes
<1>13. BatchFits'
  <2>1. batch' \in Seq(Request)
        BY <1>9 DEF TypeOK
  <2>2. Items(batch') = Items(batch) /\ LongestOf(batch') = LongestOf(batch)
        BY <1>7, <2>1, SizesAgree
  <2> QED
    BY <1>11, <2>2 DEF ExecutorInv, BatchFits
<1>14. \A d \in Callers : WaitsOnce(d)'
  <2> TAKE d \in Callers
  <2>1. ClassOf(d) \in Classes
        BY ClassOfCaller
  <2>2. CASE d = c
        BY <1>3, <1>4, <1>6, <1>7, <2>1, <2>2 DEF WaitsOnce
  <2>3. CASE d # c
    <3>1. calls'[d] = calls[d] /\ WaitsOnce(d)
          BY <1>3, <2>3 DEF ExecutorInv
    <3> QED
      BY <1>6, <1>7, <2>1, <2>3, <3>1 DEF WaitsOnce, Once
  <2> QED
    BY <2>2, <2>3
<1> QED
  BY <1>8, <1>9, <1>10, <1>12, <1>13, <1>14 DEF ExecutorInv

-----------------------------------------------------------------------------
(* The executor's loop keeps it.                                           *)

\* A deferred request begins a batch: it was measured against another one, and
\* fits because it fits alone.
LEMMA SelectDeferredKeeps ==
    ASSUME ExecutorInv, SelectDeferred
    PROVE  ExecutorInv'
<1>1. PICK class \in Classes :
         /\ deferred[class] # <<>>
         /\ StartBatch(class, Head(deferred[class]))
         /\ deferred' = [deferred EXCEPT ![class] = <<>>]
      BY DEF SelectDeferred
<1> DEFINE r == Head(deferred[class])
<1>2. /\ phase = "select" /\ batch = <<>> /\ TypeOK
      /\ batch' = <<r>> /\ serving' = class /\ phase' = "merge"
      /\ burst' = (IF class = "query" THEN Min2(burst + 1, QueryBurst) ELSE 0)
      /\ UNCHANGED <<calls, queue>>
      BY <1>1 DEF SelectDeferred, StartBatch, ExecutorInv, OneDeferred
<1>3. /\ deferred'[class] = <<>> /\ \A k \in Classes \ {class} : deferred'[k] = deferred[k]
      /\ deferred' \in [Classes -> Seq(Request)]
      BY <1>1, <1>2 DEF TypeOK
<1>4. /\ deferred[class] \in Seq(RequestOf(class)) /\ deferred[class] \in Seq(Request)
      /\ Len(deferred[class]) <= 1
      BY LinesShape DEF ExecutorInv, RequestsOfClass, OneDeferred
<1>5. r \in RequestOf(class) /\ Tail(deferred[class]) = <<>>
      BY <1>1, <1>4
<1> HIDE DEF r
<1>6. \A k \in Classes : deferred'[k] = <<>>
  <2>1. \A k \in Classes \ {class} : deferred[k] = <<>>
        BY <1>1 DEF ExecutorInv, OneDeferred, Classes
  <2> QED
    BY <1>3, <2>1
<1>7. r \in Request /\ Fits(Items(<<r>>), LongestOf(<<r>>))
      BY <1>5, AloneFits
<1>8. TypeOK'
  <2>1. burst' \in 0 .. QueryBurst
        BY <1>2, ExecutorAssumption DEF TypeOK, Min2
  <2>2. batch' \in Seq(Request)
        BY <1>2, <1>7
  <2> QED
    BY <1>2, <1>3, <2>1, <2>2 DEF TypeOK
<1>9. RequestsOfClass'
  <2>1. batch' \in Seq(RequestOf(class))
        BY <1>2, <1>5
  <2>2. \A k \in Classes : deferred'[k] \in Seq(RequestOf(k))
    <3>1. \A k \in Classes : <<>> \in Seq(RequestOf(k))
          BY EmptySeq
    <3> QED
      BY <1>6, <3>1
  <2> QED
    BY <1>2, <2>1, <2>2 DEF ExecutorInv, RequestsOfClass
<1>10. OneDeferred'
  <2>1. batch' # <<>> /\ Len(<<>>) <= 1
        BY <1>2
  <2> QED
    BY <1>2, <1>6, <2>1 DEF OneDeferred, Classes
<1>11. BatchFits'
       BY <1>2, <1>7 DEF BatchFits
<1>12. ASSUME NEW c \in Callers PROVE WaitsOnce(c)'
  <2> DEFINE v == Part(calls[c])
             k == ClassOf(c)
  <2>1. k \in Classes /\ WaitsOnce(c) /\ calls'[c] = calls[c] /\ queue'[k] = queue[k]
        BY <1>2, ClassOfCaller DEF ExecutorInv
  <2>2. /\ None(<<r>>, c) <=> r.reply # c
        /\ One(<<r>>, c, v) <=> r.reply = c /\ r.values = v
        /\ None(<<>>, c) /\ ~One(<<>>, c, v)
        BY Nobodys
  <2> HIDE DEF v
  <2>3. CASE class = k
    <3>1. /\ None(deferred[k], c) <=> r.reply # c
          /\ One(deferred[k], c, v) <=> r.reply = c /\ r.values = v
      <4>1. /\ None(deferred[class], c) <=> r.reply # c /\ None(Tail(deferred[class]), c)
            /\ One(deferred[class], c, v) <=>
                  \/ r.reply = c /\ r.values = v /\ None(Tail(deferred[class]), c)
                  \/ r.reply # c /\ One(Tail(deferred[class]), c, v)
            BY <1>1, <1>4, AnswersHead DEF r
      <4>2. Tail(deferred[class]) = <<>>
            BY <1>5
      <4> QED
        BY <2>2, <2>3, <4>1, <4>2
    <3> QED
      BY <1>2, <1>6, <2>1, <2>2, <3>1 DEF WaitsOnce, Once, v
  <2>4. CASE class # k
    <3>1. r.reply # c
          BY <1>5, <2>4, OtherClass
    <3>2. deferred'[k] = deferred[k]
          BY <1>3, <2>1, <2>4
    <3> QED
      BY <1>2, <2>1, <2>2, <3>1, <3>2 DEF WaitsOnce, Once, v
  <2> QED
    BY <2>3, <2>4
<1> QED
  BY <1>2, <1>8, <1>9, <1>10, <1>11, <1>12 DEF ExecutorInv

\* The first request of a queue begins a batch.
LEMMA SelectQueuedKeeps ==
    ASSUME ExecutorInv, SelectQueued
    PROVE  ExecutorInv'
<1>1. PICK class \in Classes : class = NextClass
      BY DEF NextClass, Classes
<1> DEFINE r == Head(queue[class])
<1>2. /\ phase = "select" /\ batch = <<>> /\ TypeOK /\ queue[class] # <<>>
      /\ batch' = <<r>> /\ serving' = class /\ phase' = "merge"
      /\ burst' = (IF class = "query" THEN Min2(burst + 1, QueryBurst) ELSE 0)
      /\ queue' = [queue EXCEPT ![class] = Tail(queue[class])]
      /\ UNCHANGED <<calls, deferred>>
      /\ \A k \in Classes : deferred[k] = <<>>
      BY <1>1 DEF SelectQueued, StartBatch, ExecutorInv, OneDeferred
<1>3. /\ queue[class] \in Seq(RequestOf(class)) /\ queue[class] \in Seq(Request)
      BY LinesShape DEF ExecutorInv, RequestsOfClass
<1>4. /\ r \in RequestOf(class) /\ Tail(queue[class]) \in Seq(RequestOf(class))
      /\ Tail(queue[class]) \in Seq(Request)
      BY <1>2, <1>3
<1> HIDE DEF r
<1>5. /\ queue'[class] = Tail(queue[class])
      /\ \A k \in Classes \ {class} : queue'[k] = queue[k]
      /\ queue' \in [Classes -> Seq(Request)]
      BY <1>2, <1>4 DEF TypeOK
<1>6. r \in Request /\ Fits(Items(<<r>>), LongestOf(<<r>>))
      BY <1>4, AloneFits
<1>7. TypeOK'
  <2>1. burst' \in 0 .. QueryBurst
        BY <1>2, ExecutorAssumption DEF TypeOK, Min2
  <2>2. batch' \in Seq(Request)
        BY <1>2, <1>6
  <2> QED
    BY <1>2, <1>5, <2>1, <2>2 DEF TypeOK
<1>8. RequestsOfClass'
  <2>1. batch' \in Seq(RequestOf(class))
        BY <1>2, <1>4
  <2>2. \A k \in Classes : queue'[k] \in Seq(RequestOf(k))
        BY <1>4, <1>5 DEF ExecutorInv, RequestsOfClass
  <2> QED
    BY <1>2, <2>1, <2>2 DEF ExecutorInv, RequestsOfClass
<1>9. OneDeferred'
  <2>1. batch' # <<>> /\ Len(<<>>) <= 1
        BY <1>2
  <2> QED
    BY <1>2, <2>1 DEF OneDeferred, Classes
<1>10. BatchFits'
       BY <1>2, <1>6 DEF BatchFits
<1>11. ASSUME NEW c \in Callers PROVE WaitsOnce(c)'
  <2> DEFINE v == Part(calls[c])
             k == ClassOf(c)
  <2>1. k \in Classes /\ WaitsOnce(c) /\ calls'[c] = calls[c] /\ deferred'[k] = deferred[k]
        BY <1>2, ClassOfCaller DEF ExecutorInv
  <2>2. /\ None(<<r>>, c) <=> r.reply # c
        /\ One(<<r>>, c, v) <=> r.reply = c /\ r.values = v
        /\ None(<<>>, c) /\ ~One(<<>>, c, v)
        BY Nobodys
  <2> HIDE DEF v
  <2>3. CASE class = k
    <3>1. /\ None(queue[k], c) <=> r.reply # c /\ None(queue'[k], c)
          /\ One(queue[k], c, v) <=>
                \/ r.reply = c /\ r.values = v /\ None(queue'[k], c)
                \/ r.reply # c /\ One(queue'[k], c, v)
      <4>1. /\ None(queue[class], c) <=> r.reply # c /\ None(Tail(queue[class]), c)
            /\ One(queue[class], c, v) <=>
                  \/ r.reply = c /\ r.values = v /\ None(Tail(queue[class]), c)
                  \/ r.reply # c /\ One(Tail(queue[class]), c, v)
            BY <1>2, <1>3, AnswersHead DEF r
      <4> QED
        BY <1>5, <2>3, <4>1
    <3> QED
      BY <1>2, <2>1, <2>2, <3>1 DEF WaitsOnce, Once, v
  <2>4. CASE class # k
    <3>1. r.reply # c
          BY <1>4, <2>4, OtherClass
    <3>2. queue'[k] = queue[k]
          BY <1>5, <2>1, <2>4
    <3> QED
      BY <1>2, <2>1, <2>2, <3>1, <3>2 DEF WaitsOnce, Once, v
  <2> QED
    BY <2>3, <2>4
<1> QED
  BY <1>2, <1>7, <1>8, <1>9, <1>10, <1>11 DEF ExecutorInv

\* A request that fits the batch joins it; one that does not is deferred.
LEMMA MergeKeeps ==
    ASSUME ExecutorInv, Merge
    PROVE  ExecutorInv'
<1> DEFINE r == Head(queue[serving])
<1>1. /\ phase = "merge" /\ queue[serving] # <<>> /\ TypeOK
      /\ UNCHANGED <<calls, burst, serving>> /\ serving \in Classes
      /\ queue' = [queue EXCEPT ![serving] = Tail(queue[serving])]
      BY DEF Merge, Defer, MergeSource, ExecutorInv, TypeOK
<1>2. \/ /\ MayMerge(r) /\ batch' = Append(batch, r) /\ UNCHANGED <<deferred, phase>>
      \/ /\ deferred' = [deferred EXCEPT ![serving] = <<r>>]
         /\ phase' = "infer" /\ UNCHANGED batch
      BY DEF Merge, Defer, MergeSource
<1>3. /\ queue[serving] \in Seq(RequestOf(serving)) /\ queue[serving] \in Seq(Request)
      /\ batch \in Seq(RequestOf(serving)) /\ batch \in Seq(Request) /\ batch # <<>>
      /\ \A k \in Classes : deferred[k] = <<>>
      BY <1>1, LinesShape DEF ExecutorInv, RequestsOfClass, OneDeferred
<1>4. /\ r \in RequestOf(serving) /\ Tail(queue[serving]) \in Seq(RequestOf(serving))
      /\ Tail(queue[serving]) \in Seq(Request)
      BY <1>1, <1>3
<1>5. r \in Request
      BY <1>4, AloneFits
<1> HIDE DEF r
<1>6. /\ queue'[serving] = Tail(queue[serving])
      /\ \A k \in Classes \ {serving} : queue'[k] = queue[k]
      /\ queue' \in [Classes -> Seq(Request)]
      BY <1>1, <1>4 DEF TypeOK
<1>7. \A k \in Classes : queue'[k] \in Seq(RequestOf(k))
      BY <1>4, <1>6 DEF ExecutorInv, RequestsOfClass
<1>8. ASSUME NEW c \in Callers
      PROVE  /\ ClassOf(c) = serving =>
                   /\ None(queue[serving], c) <=> r.reply # c /\ None(queue'[serving], c)
                   /\ One(queue[serving], c, Part(calls[c])) <=>
                         \/ /\ r.reply = c /\ r.values = Part(calls[c])
                            /\ None(queue'[serving], c)
                         \/ r.reply # c /\ One(queue'[serving], c, Part(calls[c]))
             /\ ClassOf(c) # serving => r.reply # c /\ queue'[ClassOf(c)] = queue[ClassOf(c)]
  <2> DEFINE v == Part(calls[c])
  <2> HIDE DEF v
  <2>1. /\ None(queue[serving], c) <=> r.reply # c /\ None(Tail(queue[serving]), c)
        /\ One(queue[serving], c, v) <=>
              \/ r.reply = c /\ r.values = v /\ None(Tail(queue[serving]), c)
              \/ r.reply # c /\ One(Tail(queue[serving]), c, v)
        BY <1>1, <1>3, AnswersHead DEF r
  <2>2. ClassOf(c) # serving => r.reply # c
        BY <1>4, OtherClass
  <2> QED
    BY <1>6, <2>1, <2>2, ClassOfCaller DEF v
<1>9. CASE MayMerge(r) /\ batch' = Append(batch, r) /\ UNCHANGED <<deferred, phase>>
  <2>1. TypeOK'
    <3>1. batch' \in Seq(Request)
          BY <1>3, <1>5, <1>9
    <3> QED
      BY <1>1, <1>6, <1>9, <3>1 DEF TypeOK
  <2>2. RequestsOfClass'
    <3>1. batch' \in Seq(RequestOf(serving))
          BY <1>3, <1>4, <1>9
    <3> QED
      BY <1>1, <1>7, <1>9, <3>1 DEF ExecutorInv, RequestsOfClass
  <2>3. OneDeferred'
    <3>1. batch' # <<>>
          BY <1>3, <1>5, <1>9
    <3> QED
      BY <1>1, <1>9, <3>1 DEF ExecutorInv, OneDeferred
  <2>4. BatchFits'
    <3>1. /\ Items(Append(batch, r)) = Items(batch) + Len(r.values)
          /\ LongestOf(Append(batch, r)) = Longer(LongestOf(batch), Longest(r))
          BY <1>3, <1>5, SizesAppend
    <3> QED
      BY <1>9, <3>1 DEF MayMerge, BatchFits
  <2>5. ASSUME NEW c \in Callers PROVE WaitsOnce(c)'
    <3>1. /\ WaitsOnce(c) /\ calls'[c] = calls[c] /\ ClassOf(c) \in Classes
          /\ deferred'[ClassOf(c)] = deferred[ClassOf(c)]
          BY <1>1, <1>9, ClassOfCaller DEF ExecutorInv
    <3> DEFINE v == Part(calls[c])
    <3> HIDE DEF v
    <3>2. /\ None(batch', c) <=> None(batch, c) /\ r.reply # c
          /\ One(batch', c, v) <=>
                \/ One(batch, c, v) /\ r.reply # c
                \/ None(batch, c) /\ r.reply = c /\ r.values = v
          BY <1>3, <1>5, <1>9, AnswersAppend
    <3>3. CASE ClassOf(c) = serving
          BY <1>8, <3>1, <3>2, <3>3 DEF WaitsOnce, Once, v
    <3>4. CASE ClassOf(c) # serving
          BY <1>8, <3>1, <3>2, <3>4 DEF WaitsOnce, Once, v
    <3> QED
      BY <3>3, <3>4
  <2> QED
    BY <1>1, <2>1, <2>2, <2>3, <2>4, <2>5 DEF ExecutorInv
<1>10. CASE /\ deferred' = [deferred EXCEPT ![serving] = <<r>>]
            /\ phase' = "infer" /\ UNCHANGED batch
  <2>1. /\ deferred'[serving] = <<r>>
        /\ \A k \in Classes \ {serving} : deferred'[k] = <<>>
        /\ deferred' \in [Classes -> Seq(Request)]
    <3>1. deferred \in [Classes -> Seq(Request)]
          BY <1>1 DEF TypeOK
    <3> QED
      BY <1>1, <1>3, <1>5, <1>10, <3>1
  <2>2. TypeOK'
        BY <1>1, <1>6, <1>10, <2>1 DEF TypeOK
  <2>3. RequestsOfClass'
    <3>1. \A k \in Classes : deferred'[k] \in Seq(RequestOf(k))
      <4>1. <<r>> \in Seq(RequestOf(serving)) /\ \A k \in Classes : <<>> \in Seq(RequestOf(k))
            BY <1>4, EmptySeq
      <4> TAKE k \in Classes
      <4>2. CASE k = serving
            BY <2>1, <4>1, <4>2
      <4>3. CASE k # serving
            BY <2>1, <4>1, <4>3
      <4> QED
        BY <4>2, <4>3
    <3> QED
      BY <1>1, <1>3, <1>7, <1>10, <3>1 DEF RequestsOfClass
  <2>4. OneDeferred'
    <3>1. Len(<<r>>) = 1 /\ Len(<<>>) = 0
          OBVIOUS
    <3>2. \A k \in Classes : Len(deferred'[k]) <= 1
      <4> TAKE k \in Classes
      <4>1. Len(deferred'[k]) = 1 \/ Len(deferred'[k]) = 0
        <5>1. CASE k = serving
              BY <2>1, <3>1, <5>1
        <5>2. CASE k # serving
              BY <2>1, <3>1, <5>2
        <5> QED
          BY <5>1, <5>2
      <4>2. \A n : n = 1 \/ n = 0 => n <= 1
            OBVIOUS
      <4> QED
        BY <4>1, <4>2
    <3>3. deferred'["query"] = <<>> \/ deferred'["bulk"] = <<>>
          BY <2>1 DEF Classes
    <3> QED
      BY <1>3, <1>10, <3>2, <3>3 DEF OneDeferred
  <2>5. BatchFits'
        BY <1>10 DEF ExecutorInv, BatchFits
  <2>6. ASSUME NEW c \in Callers PROVE WaitsOnce(c)'
    <3> DEFINE v == Part(calls[c])
    <3>1. /\ WaitsOnce(c) /\ calls'[c] = calls[c] /\ ClassOf(c) \in Classes
          BY <1>1, ClassOfCaller DEF ExecutorInv
    <3>2. /\ None(<<r>>, c) <=> r.reply # c
          /\ One(<<r>>, c, v) <=> r.reply = c /\ r.values = v
          /\ None(<<>>, c) /\ ~One(<<>>, c, v)
          BY Nobodys
    <3> HIDE DEF v
    <3>3. deferred[ClassOf(c)] = <<>> /\ batch' = batch
          BY <1>3, <1>10, <3>1
    <3>4. CASE ClassOf(c) = serving
      <4>1. deferred'[ClassOf(c)] = <<r>>
            BY <2>1, <3>4
      <4> QED
        BY <1>8, <3>1, <3>2, <3>3, <3>4, <4>1 DEF WaitsOnce, Once, v
    <3>5. CASE ClassOf(c) # serving
      <4>1. deferred'[ClassOf(c)] = <<>>
            BY <2>1, <3>1, <3>5
      <4> QED
        BY <1>8, <3>1, <3>2, <3>3, <3>5, <4>1 DEF WaitsOnce, Once, v
    <3> QED
      BY <3>4, <3>5
  <2> QED
    BY <1>1, <2>2, <2>3, <2>4, <2>5, <2>6 DEF ExecutorInv
<1> QED
  BY <1>2, <1>9, <1>10

\* A batch that is closed is as it was.
LEMMA StopMergingKeeps ==
    ASSUME ExecutorInv, StopMerging
    PROVE  ExecutorInv'
<1>1. /\ phase = "merge" /\ phase' = "infer"
      /\ UNCHANGED <<calls, queue, deferred, batch, burst, serving>>
      BY DEF StopMerging
<1>2. TypeOK' /\ RequestsOfClass' /\ BatchFits'
      BY <1>1 DEF ExecutorInv, TypeOK, RequestsOfClass, BatchFits
<1>3. OneDeferred'
      BY <1>1 DEF ExecutorInv, OneDeferred
<1>4. \A c \in Callers : WaitsOnce(c)'
      BY <1>1 DEF ExecutorInv, WaitsOnce
<1> QED
  BY <1>1, <1>2, <1>3, <1>4 DEF ExecutorInv

\* The end of a batch, whatever it answers to whom.
LEMMA EndBatchKeeps ==
    ASSUME ExecutorInv, phase = "infer", EndBatch,
           calls' = [c \in Callers |-> calls'[c]],
           \A c \in Callers :
               /\ calls'[c] \in CallOf(c)
               /\ None(batch, c) => calls'[c] = calls[c]
               /\ ~None(batch, c) => calls'[c].status # "awaiting"
    PROVE  ExecutorInv'
<1>1. batch' = <<>> /\ phase' = "select" /\ UNCHANGED <<queue, deferred, burst, serving>>
      BY DEF EndBatch
<1>2. TypeOK'
  <2>1. \A c \in Callers : calls'[c] \in Call
        BY DEF CallOf
  <2>2. calls' \in [Callers -> Call]
        BY <2>1
  <2> QED
    BY <1>1, <2>2 DEF ExecutorInv, TypeOK
<1>3. RequestsOfClass' /\ BatchFits'
      BY <1>1 DEF ExecutorInv, RequestsOfClass, BatchFits
<1>4. OneDeferred'
      BY <1>1 DEF ExecutorInv, OneDeferred
<1>5. ASSUME NEW c \in Callers PROVE WaitsOnce(c)'
  <2> DEFINE v == Part(calls[c])
  <2>1. None(<<>>, c) /\ ~One(<<>>, c, v)
        BY Nobodys
  <2>2. WaitsOnce(c)
        BY DEF ExecutorInv
  <2>3. CASE None(batch, c)
    <3>1. ~One(batch, c, v)
          BY <2>3 DEF None, One
    <3> QED
      BY <1>1, <2>1, <2>2, <2>3, <3>1 DEF WaitsOnce, Once
  <2>4. CASE ~None(batch, c)
        BY <1>1, <2>1, <2>2, <2>4 DEF WaitsOnce, Once
  <2> QED
    BY <2>3, <2>4
<1> QED
  BY <1>2, <1>3, <1>4, <1>5 DEF ExecutorInv

\* A caller with a request in the batch waits for it.
LEMMA InBatchWaits ==
    ASSUME ExecutorInv, NEW c \in Callers, ~None(batch, c)
    PROVE  calls[c].status = "awaiting" /\ One(batch, c, Part(calls[c]))
<1>1. WaitsOnce(c)
      BY DEF ExecutorInv
<1> QED
  BY <1>1 DEF WaitsOnce, Once

\* Every caller in the batch gets its own texts.
LEMMA InferKeeps ==
    ASSUME ExecutorInv, Infer
    PROVE  ExecutorInv'
<1>1. /\ phase = "infer" /\ EndBatch /\ batch \in Seq(Request)
      BY LinesShape DEF Infer
<1>2. calls' = [c \in Callers |->
                   IF \E k \in DOMAIN batch : batch[k].reply = c
                   THEN WithOutput(calls[c],
                            Drained(CHOOSE k \in DOMAIN batch : batch[k].reply = c))
                   ELSE calls[c]]
      BY DEF Infer
<1>3. ASSUME NEW c \in Callers
      PROVE  /\ calls'[c] \in CallOf(c)
             /\ None(batch, c) => calls'[c] = calls[c]
             /\ ~None(batch, c) => calls'[c].status # "awaiting"
  <2>1. CASE None(batch, c)
        BY <1>2, <2>1 DEF None, ExecutorInv
  <2>2. CASE ~None(batch, c)
    <3>1. /\ calls[c].status = "awaiting" /\ One(batch, c, Part(calls[c]))
          /\ calls[c] \in CallOf(c)
          BY <2>2, InBatchWaits DEF ExecutorInv
    <3>2. PICK k \in DOMAIN batch : /\ batch[k].reply = c /\ batch[k].values = Part(calls[c])
                                    /\ \A m \in DOMAIN batch : batch[m].reply = c => m = k
          BY <3>1 DEF One
    <3>3. (CHOOSE m \in DOMAIN batch : batch[m].reply = c) = k
          BY <3>2
    <3>4. calls'[c] = WithOutput(calls[c], Drained(k))
          BY <1>2, <3>2, <3>3
    <3>5. Drained(k) = Part(calls[c])
          BY <1>1, <3>2, DrainedIsOwn
    <3>6. calls'[c] = WithOutput(calls[c], Part(calls[c]))
          BY <3>4, <3>5
    <3>7. calls[c] \in Call
          BY <3>1 DEF CallOf
    <3>8. calls'[c].status # "awaiting"
          BY <3>6, <3>7 DEF WithOutput, Call
    <3> QED
      BY <2>2, <3>1, <3>6, <3>8, OutputKeepsCall
  <2> QED
    BY <2>1, <2>2
<1>4. calls' = [c \in Callers |-> calls'[c]]
      BY <1>2
<1> QED
  BY <1>1, <1>3, <1>4, EndBatchKeeps

\* Every caller in the batch fails.
LEMMA InferFailsKeeps ==
    ASSUME ExecutorInv, InferFails
    PROVE  ExecutorInv'
<1>1. /\ phase = "infer" /\ EndBatch
      /\ calls' = [c \in Callers |->
                      IF \E k \in DOMAIN batch : batch[k].reply = c
                      THEN FailedCall(calls[c]) ELSE calls[c]]
      BY DEF InferFails
<1>2. ASSUME NEW c \in Callers
      PROVE  /\ calls'[c] \in CallOf(c)
             /\ None(batch, c) => calls'[c] = calls[c]
             /\ ~None(batch, c) => calls'[c].status # "awaiting"
  <2>1. CASE None(batch, c)
        BY <1>1, <2>1 DEF None, ExecutorInv
  <2>2. CASE ~None(batch, c)
    <3>1. calls'[c] = FailedCall(calls[c]) /\ calls[c] \in CallOf(c)
          BY <1>1, <2>2 DEF None, ExecutorInv
    <3>2. calls[c] \in Call
          BY <3>1 DEF CallOf
    <3>3. /\ calls'[c] \in Call /\ calls'[c].status = "failed"
          /\ calls'[c].texts = calls[c].texts /\ calls'[c].output = calls[c].output
      <4>1. PICK call \in Call : call = calls[c]
            BY <3>2
      <4>2. <<>> \in Seq(Nat)
            OBVIOUS
      <4>3. FailedCall(call) = [call EXCEPT !.status = "failed", !.plan = <<>>]
            BY DEF FailedCall
      <4>4. /\ FailedCall(call) \in Call /\ FailedCall(call).status = "failed"
            /\ FailedCall(call).texts = call.texts /\ FailedCall(call).output = call.output
            BY <4>2, <4>3 DEF Call
      <4> QED
        BY <3>1, <4>1, <4>4
    <3> QED
      BY <2>2, <3>1, <3>3 DEF CallOf
  <2> QED
    BY <2>1, <2>2
<1>3. calls' = [c \in Callers |-> calls'[c]]
      BY <1>1
<1> QED
  BY <1>1, <1>2, <1>3, EndBatchKeeps

-----------------------------------------------------------------------------
(* What the executor promises its callers.                                 *)

\* The invariant holds whatever callers, jobs, limits and queues there are.
THEOREM ExecutorConsistent == Spec => []ExecutorInv
<1>1. ASSUME Init PROVE ExecutorInv
  <2>1. /\ \A c \in Callers : calls[c] = Idle
        /\ \A class \in Classes : queue[class] = <<>> /\ deferred[class] = <<>>
        /\ batch = <<>> /\ burst = 0 /\ serving = "query" /\ phase = "select"
        BY <1>1 DEF Init
  <2>2. \A c \in Callers : Idle \in CallOf(c) /\ Idle \in Call /\ Idle.status # "awaiting"
        BY DEF Idle, CallOf, Call
  <2>3. TypeOK
    <3>1. calls \in [Callers -> Call]
          BY <1>1, <2>2 DEF Init
    <3>2. /\ queue \in [Classes -> Seq(Request)] /\ deferred \in [Classes -> Seq(Request)]
          /\ batch \in Seq(Request)
          BY <1>1, EmptySeq DEF Init
    <3>3. burst \in 0 .. QueryBurst
          BY <2>1, ExecutorAssumption
    <3> QED
      BY <2>1, <3>1, <3>2, <3>3 DEF TypeOK, Classes
  <2>4. RequestsOfClass
    <3>1. \A class : <<>> \in Seq(RequestOf(class))
          BY EmptySeq
    <3> QED
      BY <2>1, <3>1 DEF RequestsOfClass
  <2>5. OneDeferred /\ BatchFits
        BY <2>1 DEF OneDeferred, BatchFits, Classes
  <2>6. \A c \in Callers : WaitsOnce(c)
    <3> TAKE c \in Callers
    <3>1. None(<<>>, c) /\ ClassOf(c) \in Classes
          BY Nobodys, ClassOfCaller
    <3> QED
      BY <2>1, <2>2, <3>1 DEF WaitsOnce
  <2> QED
    BY <2>1, <2>2, <2>3, <2>4, <2>5, <2>6 DEF ExecutorInv
<1>2. ASSUME ExecutorInv, [Next]_vars PROVE ExecutorInv'
  <2>1. CASE UNCHANGED vars
        BY <1>2, <2>1 DEF vars, ExecutorInv, TypeOK, RequestsOfClass, OneDeferred,
                          BatchFits, WaitsOnce
  <2>2. CASE Run
        BY <1>2, <2>2, SelectDeferredKeeps, SelectQueuedKeeps, MergeKeeps,
           StopMergingKeeps, InferKeeps, InferFailsKeeps DEF Run
  <2>3. ASSUME NEW c \in Callers, CallerStep(c) PROVE ExecutorInv'
        BY <1>2, <2>3, CallEmbedKeeps, SubmitKeeps, CancelKeeps DEF CallerStep
  <2> QED
    BY <1>2, <2>1, <2>2, <2>3 DEF Next
<1> QED
  BY <1>1, <1>2, PTL DEF Spec

\* The state keeps its types.
THEOREM ExecutorTypes == Spec => []TypeOK
<1>1. ExecutorInv => TypeOK
      BY DEF ExecutorInv
<1> QED
  BY <1>1, ExecutorConsistent, PTL

\* No batch is larger than the model can take, its first request included: every
\* request fits alone, because its job was cut that way.
THEOREM BatchesAlwaysFit == Spec => []BatchFits
<1>1. ExecutorInv => BatchFits
      BY DEF ExecutorInv
<1> QED
  BY <1>1, ExecutorConsistent, PTL

\* Queries are never merged with bulk work, and one request at most is held back.
THEOREM ClassesAreApart == Spec => []ClassesStayApart
<1>1. ASSUME ExecutorInv PROVE ClassesStayApart
  <2>1. ASSUME NEW k \in DOMAIN batch, NEW i \in DOMAIN batch[k].values
        PROVE  ClassOf(batch[k].values[i].owner) = serving
    <3>1. batch \in Seq(RequestOf(serving))
          BY <1>1 DEF ExecutorInv, RequestsOfClass
    <3>2. batch[k] \in RequestOf(serving)
          BY <3>1, LenProperties, ElementOfSeq
    <3>3. DOMAIN batch[k].values = 1 .. Len(batch[k].values)
          BY <3>2, RequestShape, LenProperties DEF RequestOf
    <3> QED
      BY <3>2, <3>3 DEF RequestOf
  <2>2. Len(deferred["query"]) + Len(deferred["bulk"]) <= 1
    <3>1. /\ Len(deferred["query"]) \in Nat /\ Len(deferred["bulk"]) \in Nat
          /\ Len(deferred["query"]) <= 1 /\ Len(deferred["bulk"]) <= 1
          BY <1>1, LinesShape, LenProperties DEF ExecutorInv, OneDeferred, Classes
    <3>2. Len(deferred["query"]) = 0 \/ Len(deferred["bulk"]) = 0
          BY <1>1 DEF ExecutorInv, OneDeferred
    <3>3. \A m, n \in Nat : m <= 1 /\ n <= 1 /\ (m = 0 \/ n = 0) => m + n <= 1
          OBVIOUS
    <3> QED
      BY <3>1, <3>2, <3>3
  <2> QED
    BY <2>1, <2>2 DEF ClassesStayApart
<1> QED
  BY <1>1, ExecutorConsistent, PTL

\* A caller waits exactly while one request can still answer it, and that request
\* holds the texts it asked for.
THEOREM OneRequestPerWaiter == Spec => []WaitsForOneRequest
<1>1. ASSUME ExecutorInv, NEW c \in Callers
      PROVE  LET waiting == batch \o Line(ClassOf(c)) IN
             IF calls[c].status = "awaiting"
             THEN \E k \in DOMAIN waiting :
                     /\ Unanswered(waiting, c) = {k}
                     /\ waiting[k].values = NextTexts(c)
             ELSE Unanswered(waiting, c) = {}
  <2> DEFINE d == deferred[ClassOf(c)]
             q == queue[ClassOf(c)]
             waiting == batch \o Line(ClassOf(c))
             v == Part(calls[c])
  <2>1. d \in Seq(Request) /\ q \in Seq(Request) /\ batch \in Seq(Request)
        BY <1>1, LinesShape, ClassOfCaller
  <2>2. WaitsOnce(c) /\ v = NextTexts(c)
        BY <1>1 DEF ExecutorInv, Part, NextTexts
  <2>3. waiting = batch \o (d \o q) /\ d \o q \in Seq(Request)
        BY <2>1, ConcatProperties DEF Line
  <2> HIDE DEF d, q, waiting, v
  <2>4. /\ None(waiting, c) <=> None(batch, c) /\ None(d, c) /\ None(q, c)
        /\ One(waiting, c, v) <=> Once(batch, d, q, c, v)
    <3>1. /\ None(d \o q, c) <=> None(d, c) /\ None(q, c)
          /\ One(d \o q, c, v) <=>
                \/ One(d, c, v) /\ None(q, c)
                \/ None(d, c) /\ One(q, c, v)
          BY <2>1, AnswersConcat
    <3>2. PICK dq \in Seq(Request) : dq = d \o q
          BY <2>3
    <3>3. /\ None(batch \o dq, c) <=> None(batch, c) /\ None(dq, c)
          /\ One(batch \o dq, c, v) <=>
                \/ One(batch, c, v) /\ None(dq, c)
                \/ None(batch, c) /\ One(dq, c, v)
          BY <2>1, AnswersConcat
    <3>4. waiting = batch \o dq
          BY <2>3, <3>2
    <3> QED
      BY <3>1, <3>2, <3>3, <3>4 DEF Once
  <2>5. CASE calls[c].status = "awaiting"
    <3>1. One(waiting, c, v)
          BY <2>2, <2>4, <2>5 DEF WaitsOnce, d, q, v
    <3>2. PICK k \in DOMAIN waiting :
             /\ waiting[k].reply = c /\ waiting[k].values = v
             /\ \A m \in DOMAIN waiting : waiting[m].reply = c => m = k
          BY <3>1 DEF One
    <3>3. Unanswered(waiting, c) = {k}
          BY <3>2 DEF Unanswered
    <3> QED
      BY <2>2, <2>5, <3>2, <3>3 DEF waiting
  <2>6. CASE calls[c].status # "awaiting"
    <3>1. None(waiting, c)
          BY <2>2, <2>4, <2>6 DEF WaitsOnce, d, q
    <3>2. Unanswered(waiting, c) = {}
          BY <3>1 DEF None, Unanswered
    <3> QED
      BY <2>6, <3>2 DEF waiting
  <2> QED
    BY <2>5, <2>6
<1>2. ExecutorInv => WaitsForOneRequest
      BY <1>1 DEF WaitsForOneRequest
<1> QED
  BY <1>2, ExecutorConsistent, PTL

\* Whatever its requests were merged with, a caller gets back its own texts, each
\* once and in its order; a finished job is complete.
THEOREM AnswersAreInOrder == Spec => []AnswersInCallerOrder
<1>1. ASSUME ExecutorInv, NEW c \in Callers
      PROVE  /\ IsPrefix(calls[c].output, calls[c].texts)
             /\ calls[c].status = "done" => calls[c].output = calls[c].texts
  <2>1. PICK x : x = calls[c]
        OBVIOUS
  <2>2. x \in CallOf(c) /\ x \in Call
        BY <1>1, <2>1 DEF ExecutorInv, CallOf
  <2>3. /\ x.texts \in Seq(Text) /\ x.output \in Seq(Text)
        /\ Len(x.texts) \in Nat /\ Len(x.output) \in Nat
        /\ Len(x.output) <= Len(x.texts)
        /\ \A i \in 1 .. Len(x.output) : x.output[i] = x.texts[i]
        BY <2>2, CallShape DEF CallOf
  <2>4. x.output = SubSeq(x.texts, 1, Len(x.output))
    <3>1. PICK n \in Nat : n = Len(x.output)
          BY <2>3
    <3>2. /\ SubSeq(x.texts, 0 + 1, 0 + n) \in Seq(Text)
          /\ Len(SubSeq(x.texts, 0 + 1, 0 + n)) = n
          /\ \A i \in 1 .. n : SubSeq(x.texts, 0 + 1, 0 + n)[i] = x.texts[0 + i]
          BY <2>3, <3>1, Slice
    <3>3. PICK part \in Seq(Text) :
             /\ part = SubSeq(x.texts, 1, n) /\ Len(part) = n
             /\ \A i \in 1 .. n : part[i] = x.texts[i]
      <4>1. 0 + 1 = 1 /\ 0 + n = n /\ \A i \in 1 .. n : 0 + i = i
            BY <3>1
      <4> QED
        BY <3>2, <4>1
    <3>4. x.output = part
          BY <2>3, <3>1, <3>3, SeqEqual
    <3> QED
      BY <3>1, <3>3, <3>4
  <2>5. IsPrefix(x.output, x.texts)
        BY <2>3, <2>4 DEF IsPrefix
  <2>6. x.status = "done" => x.output = x.texts
        BY <2>2, <2>3, SeqEqual DEF CallOf
  <2> QED
    BY <2>1, <2>5, <2>6
<1>2. ExecutorInv => AnswersInCallerOrder
      BY <1>1 DEF AnswersInCallerOrder
<1> QED
  BY <1>2, ExecutorConsistent, PTL

-----------------------------------------------------------------------------
(* Requests are served in the order of their lines.                        *)

\* A line that grows at its end begins with what it was.
LEMMA LongerLine ==
    ASSUME NEW x \in Seq(Request), NEW y \in Seq(Request)
    PROVE  /\ Values(x) \in Seq(Seq(Text)) /\ Values(y) \in Seq(Seq(Text))
           /\ Values(x \o y) = Values(x) \o Values(y)
           /\ IsPrefix(Values(x), Values(x \o y))
<1> DEFINE u == Values(x)
           v == Values(y)
<1>1. /\ Len(x) \in Nat /\ DOMAIN x = 1 .. Len(x) /\ \A k \in 1 .. Len(x) : x[k] \in Request
      /\ Len(y) \in Nat /\ DOMAIN y = 1 .. Len(y) /\ \A k \in 1 .. Len(y) : y[k] \in Request
      BY LenProperties, ElementOfSeq
<1>2. \A r \in Request : r.values \in Seq(Text)
      BY DEF Request
<1>3. /\ u \in Seq(Seq(Text)) /\ Len(u) = Len(x) /\ \A k \in 1 .. Len(x) : u[k] = x[k].values
      /\ v \in Seq(Seq(Text)) /\ Len(v) = Len(y) /\ \A k \in 1 .. Len(y) : v[k] = y[k].values
      BY <1>1, <1>2, IsASeq DEF Values
<1>4. /\ x \o y \in Seq(Request) /\ Len(x \o y) = Len(x) + Len(y)
      /\ \A k \in 1 .. Len(x) + Len(y) :
            (x \o y)[k] = IF k <= Len(x) THEN x[k] ELSE y[k - Len(x)]
      BY <1>1, ConcatProperties
<1> DEFINE w == Values(x \o y)
<1>5. /\ DOMAIN (x \o y) = 1 .. Len(x) + Len(y)
      /\ \A k \in 1 .. Len(x) + Len(y) : (x \o y)[k] \in Request
      BY <1>1, <1>4, LenProperties, ElementOfSeq
<1>6. /\ w \in Seq(Seq(Text)) /\ Len(w) = Len(x) + Len(y)
      /\ \A k \in 1 .. Len(x) + Len(y) : w[k] = (x \o y)[k].values
      BY <1>1, <1>2, <1>5, IsASeq DEF Values
<1> HIDE DEF u, v, w
<1>7. /\ u \o v \in Seq(Seq(Text)) /\ Len(u \o v) = Len(x) + Len(y)
      /\ \A k \in 1 .. Len(x) + Len(y) :
            (u \o v)[k] = IF k <= Len(x) THEN u[k] ELSE v[k - Len(x)]
  <2>1. PICK E : E = Seq(Text) /\ u \in Seq(E) /\ v \in Seq(E)
        BY <1>3
  <2>2. /\ u \o v \in Seq(E) /\ Len(u \o v) = Len(u) + Len(v)
        /\ \A k \in 1 .. Len(u) + Len(v) :
              (u \o v)[k] = IF k <= Len(u) THEN u[k] ELSE v[k - Len(u)]
        BY <2>1, ConcatProperties
  <2> QED
    BY <1>3, <2>1, <2>2
<1>8. ASSUME NEW k \in 1 .. Len(x) + Len(y) PROVE w[k] = (u \o v)[k]
  <2>1. CASE k <= Len(x)
    <3>1. k \in 1 .. Len(x)
          BY <1>1, <2>1
    <3> QED
      BY <1>3, <1>4, <1>6, <1>7, <2>1, <3>1
  <2>2. CASE ~(k <= Len(x))
    <3>1. k - Len(x) \in 1 .. Len(y)
          BY <1>1, <2>2
    <3> QED
      BY <1>3, <1>4, <1>6, <1>7, <2>2, <3>1
  <2> QED
    BY <2>1, <2>2
<1>9. w = u \o v
      BY <1>6, <1>7, <1>8, SeqEqual
<1>10. IsPrefix(u, w)
  <2>1. /\ Len(u) \in Nat /\ Len(u) <= Len(w) /\ Len(w) \in Nat
        BY <1>1, <1>3, <1>6
  <2>2. SubSeq(u, 1, Len(u)) = u
        BY <1>3, SubSeqFull
  <2>3. SubSeq(u \o v, 1, Len(u)) = u
    <3>1. PICK n, part : n \in Nat /\ n = Len(u) /\ part = SubSeq(u \o v, 1, n)
          BY <2>1
    <3>2. \A i \in 1 .. n : (u \o v)[i] \in Seq(Text) /\ (u \o v)[i] = u[i] /\ 1 + i - 1 = i
          BY <1>1, <1>3, <1>7, <3>1, ElementOfSeq
    <3>3. /\ SubSeq(u \o v, 1, n) \in Seq(Seq(Text))
          /\ Len(SubSeq(u \o v, 1, n)) = IF 1 <= n THEN n - 1 + 1 ELSE 0
          /\ \A i \in 1 .. n - 1 + 1 : SubSeq(u \o v, 1, n)[i] = (u \o v)[1 + i - 1]
          BY <3>1, <3>2, SubSeqProperties
    <3>4. /\ part \in Seq(Seq(Text)) /\ Len(part) = n
          /\ \A i \in 1 .. n : part[i] = u[i]
          BY <3>1, <3>2, <3>3
    <3>5. part = u
          BY <1>3, <3>1, <3>4, SeqEqual
    <3> QED
      BY <3>1, <3>5
  <2> QED
    BY <1>9, <2>1, <2>2, <2>3 DEF IsPrefix
<1> QED
  BY <1>3, <1>9, <1>10 DEF u, v, w

\* A line that stays as it is, too.
LEMMA SameLine ==
    ASSUME NEW x \in Seq(Request)
    PROVE  IsPrefix(Values(x), Values(x))
<1>1. x \o <<>> = x /\ <<>> \in Seq(Request)
      BY ConcatEmptySeq, EmptySeq
<1> QED
  BY <1>1, LongerLine

\* A caller that goes leaves its texts where they are.
LEMMA TextsRemain ==
    ASSUME NEW x \in Seq(Request), NEW c
    PROVE  Unanswerable(x, c) \in Seq(Request) /\ Values(Unanswerable(x, c)) = Values(x)
<1> DEFINE y == Unanswerable(x, c)
<1>1. /\ Len(x) \in Nat /\ DOMAIN x = 1 .. Len(x)
      /\ \A k \in 1 .. Len(x) : x[k] \in Request
      BY LenProperties, ElementOfSeq
<1>2. \A r \in Request : /\ [r EXCEPT !.reply = Nobody] \in Request
                         /\ [r EXCEPT !.reply = Nobody].values = r.values
      BY DEF Request
<1>3. /\ DOMAIN y = 1 .. Len(x)
      /\ \A k \in 1 .. Len(x) : y[k] \in Request /\ y[k].values = x[k].values
      BY <1>1, <1>2 DEF Unanswerable
<1>4. y \in Seq(Request)
  <2>1. y = [k \in 1 .. Len(x) |-> y[k]]
        BY <1>1 DEF Unanswerable
  <2> HIDE DEF y
  <2>2. [k \in 1 .. Len(x) |-> y[k]] \in Seq(Request)
        BY <1>1, <1>3, IsASeq
  <2> QED
    BY <2>1, <2>2
<1> HIDE DEF y
<1>5. Values(y) = Values(x)
      BY <1>1, <1>3 DEF Values
<1> QED
  BY <1>4, <1>5 DEF y

\* A line that is not empty is its first request and the rest.
LEMMA FirstAndRest ==
    ASSUME NEW x \in Seq(Request), x # <<>>
    PROVE  /\ Head(x) \in Request /\ Tail(x) \in Seq(Request)
           /\ x = <<Head(x)>> \o Tail(x)
  OBVIOUS

\* Three stretches of a line, in either order of joining.
LEMMA LinesAssociate ==
    ASSUME NEW x \in Seq(Request), NEW y \in Seq(Request), NEW z \in Seq(Request)
    PROVE  (x \o y) \o z = x \o (y \o z)
  BY ConcatAssociative

\* What is ahead of a class is a sequence of requests.
LEMMA AheadShape ==
    ASSUME ExecutorInv, NEW class \in Classes
    PROVE  /\ Line(class) \in Seq(Request) /\ Ahead(class) \in Seq(Request)
           /\ serving = class => Ahead(class) = batch \o Line(class)
           /\ serving # class => Ahead(class) = Line(class)
<1>1. /\ queue[class] \in Seq(Request) /\ deferred[class] \in Seq(Request)
      /\ batch \in Seq(Request) /\ <<>> \in Seq(Request)
      BY LinesShape, EmptySeq
<1>2. Line(class) \in Seq(Request)
      BY <1>1, ConcatProperties DEF Line
<1>3. <<>> \o Line(class) = Line(class) /\ batch \o Line(class) \in Seq(Request)
      BY <1>1, <1>2, ConcatEmptySeq, ConcatProperties
<1> QED
  BY <1>2, <1>3 DEF Ahead

\* Requests that begin a batch stay ahead of the rest of their line.
LEMMA StartKeepsOrder ==
    ASSUME ExecutorInv, ExecutorInv', phase = "select", NEW first \in Classes, NEW r \in Request,
           batch' = <<r>>, serving' = first, Line(first) = <<r>> \o Line(first)',
           \A class \in Classes \ {first} : Line(class)' = Line(class),
           NEW class \in Classes
    PROVE  IsPrefix(Values(Ahead(class)), Values(Ahead(class)'))
<1>1. batch = <<>>
      BY DEF ExecutorInv, OneDeferred
<1>2. /\ Line(class) \in Seq(Request) /\ Ahead(class) \in Seq(Request)
      /\ Ahead(class) = Line(class)
  <2>1. <<>> \o Line(class) = Line(class)
        BY AheadShape, ConcatEmptySeq
  <2> QED
    BY <1>1, <2>1, AheadShape
<1>3. Ahead(class)' = Ahead(class)
  <2>1. CASE class = first
        BY <1>2, <2>1 DEF Ahead
  <2>2. CASE class # first
    <3>1. Ahead(class)' = <<>> \o Line(class)
          BY <2>2 DEF Ahead
    <3> QED
      BY <1>2, <3>1, ConcatEmptySeq
  <2> QED
    BY <2>1, <2>2
<1> QED
  BY <1>2, <1>3, SameLine

\* A batch is begun with the request that is first in its line.
LEMMA SelectKeepsOrder ==
    ASSUME ExecutorInv, ExecutorInv', SelectDeferred \/ SelectQueued, NEW class \in Classes
    PROVE  IsPrefix(Values(Ahead(class)), Values(Ahead(class)'))
<1>1. /\ \A k \in Classes : queue[k] \in Seq(Request) /\ deferred[k] \in Seq(Request)
      /\ queue = [k \in Classes |-> queue[k]] /\ deferred = [k \in Classes |-> deferred[k]]
      BY LinesShape DEF ExecutorInv, TypeOK
<1>2. CASE SelectDeferred
  <2>1. PICK first \in Classes :
           /\ deferred[first] # <<>> /\ StartBatch(first, Head(deferred[first]))
           /\ deferred' = [deferred EXCEPT ![first] = <<>>]
        BY <1>2 DEF SelectDeferred
  <2>2. queue' = queue /\ phase = "select"
        BY <1>2 DEF SelectDeferred
  <2>3. PICK r \in Request : deferred[first] = <<r>> /\ Head(deferred[first]) = r
    <3>1. Len(deferred[first]) <= 1 /\ Len(deferred[first]) \in Nat
          BY <1>1, LenProperties DEF ExecutorInv, OneDeferred
    <3>2. Len(deferred[first]) = 1 /\ deferred[first][1] \in Request
      <4>1. PICK d \in Seq(Request) : d = deferred[first]
            BY <1>1, <2>1
      <4>2. Len(d) \in Nat /\ Len(d) # 0 /\ Len(d) <= 1
            BY <2>1, <3>1, <4>1, EmptySeq
      <4>3. Len(d) = 1 /\ 1 \in 1 .. Len(d)
        <5>1. \A n \in Nat : n # 0 /\ n <= 1 => n = 1 /\ 1 \in 1 .. n
              OBVIOUS
        <5> QED
          BY <4>2, <5>1
      <4>4. d[1] \in Request
            BY <4>1, <4>3, ElementOfSeq
      <4> QED
        BY <4>1, <4>3, <4>4
    <3>3. deferred[first] = <<deferred[first][1]>>
          BY <1>1, <3>2
    <3> QED
      BY <3>2, <3>3
  <2>4. Line(first) = <<r>> \o queue[first]
        BY <2>3 DEF Line
  <2>5. Line(first)' = queue[first]
    <3>1. Line(first)' = <<>> \o queue[first]
          BY <1>1, <2>1, <2>2 DEF Line
    <3> QED
      BY <1>1, <3>1, ConcatEmptySeq
  <2>6. \A k \in Classes \ {first} : Line(k)' = Line(k)
        BY <1>1, <2>1, <2>2 DEF Line
  <2>7. batch' = <<r>> /\ serving' = first
        BY <2>1, <2>3 DEF StartBatch
  <2> QED
    BY <2>2, <2>4, <2>5, <2>6, <2>7, StartKeepsOrder
<1>3. CASE SelectQueued
  <2>0. PICK first \in Classes : first = NextClass
        BY DEF NextClass, Classes
  <2>1. /\ first \in Classes /\ phase = "select" /\ queue[first] # <<>>
        /\ \A k \in Classes : deferred[k] = <<>>
        /\ StartBatch(first, Head(queue[first]))
        /\ queue' = [queue EXCEPT ![first] = Tail(queue[first])] /\ deferred' = deferred
        BY <1>3, <2>0 DEF SelectQueued
  <2>2. PICK r \in Request : /\ Head(queue[first]) = r /\ Tail(queue[first]) \in Seq(Request)
                             /\ queue[first] = <<r>> \o Tail(queue[first])
        BY <1>1, <2>1, FirstAndRest
  <2>3. \A k \in Classes : Line(k) = queue[k] /\ Line(k)' = queue'[k]
    <3> TAKE k \in Classes
    <3>1. queue'[k] \in Seq(Request)
          BY <1>1, <2>1, <2>2
    <3>2. <<>> \o queue[k] = queue[k] /\ <<>> \o queue'[k] = queue'[k]
          BY <1>1, <3>1, ConcatEmptySeq
    <3> QED
      BY <2>1, <3>2 DEF Line
  <2>4. /\ queue'[first] = Tail(queue[first])
        /\ \A k \in Classes \ {first} : queue'[k] = queue[k]
        BY <1>1, <2>1
  <2>5. /\ Line(first) = <<r>> \o Line(first)'
        /\ \A k \in Classes \ {first} : Line(k)' = Line(k)
    <3>1. Line(first) = queue[first] /\ Line(first)' = queue'[first]
          BY <2>1, <2>3
    <3>2. \A k \in Classes \ {first} : Line(k) = queue[k] /\ Line(k)' = queue'[k]
          BY <2>3
    <3>3. Line(first) = <<r>> \o Line(first)'
          BY <2>2, <2>4, <3>1
    <3>4. \A k \in Classes \ {first} : Line(k)' = Line(k)
          BY <2>4, <3>2
    <3> QED
      BY <3>3, <3>4
  <2>6. batch' = <<r>> /\ serving' = first
        BY <2>1, <2>2 DEF StartBatch
  <2> QED
    BY <2>1, <2>2, <2>5, <2>6, StartKeepsOrder
<1> QED
  BY <1>2, <1>3

\* One try_recv: the first request of the line joins the batch, or is held back
\* before the rest of its line.
LEMMA MergeKeepsOrder ==
    ASSUME ExecutorInv, ExecutorInv', Merge, NEW class \in Classes
    PROVE  IsPrefix(Values(Ahead(class)), Values(Ahead(class)'))
<1>1. /\ \A k \in Classes : queue[k] \in Seq(Request) /\ deferred[k] \in Seq(Request)
      /\ batch \in Seq(Request) /\ serving \in Classes
      /\ queue = [k \in Classes |-> queue[k]] /\ deferred = [k \in Classes |-> deferred[k]]
      BY LinesShape DEF ExecutorInv, TypeOK
<1>2. /\ phase = "merge" /\ serving' = serving /\ queue[serving] # <<>>
      /\ queue' = [queue EXCEPT ![serving] = Tail(queue[serving])]
      /\ \/ batch' = Append(batch, Head(queue[serving])) /\ deferred' = deferred
         \/ /\ deferred' = [deferred EXCEPT ![serving] = <<Head(queue[serving])>>]
            /\ batch' = batch
      BY DEF Merge, MergeSource, Defer
<1>3. \A k \in Classes : deferred[k] = <<>>
      BY <1>2 DEF ExecutorInv, OneDeferred
<1>4. Line(class) \in Seq(Request) /\ Ahead(class) \in Seq(Request)
      BY AheadShape
<1>5. CASE class # serving
  <2>1. queue'[class] = queue[class] /\ deferred'[class] = deferred[class]
        BY <1>1, <1>2, <1>5
  <2>2. Ahead(class)' = Ahead(class)
        BY <1>2, <1>5, <2>1 DEF Ahead, Line
  <2> QED
    BY <1>4, <2>2, SameLine
<1>6. CASE class = serving
  <2>1. PICK r \in Request, rest \in Seq(Request) :
           Head(queue[class]) = r /\ Tail(queue[class]) = rest /\ queue[class] = <<r>> \o rest
        BY <1>1, <1>2, <1>6, FirstAndRest
  <2>2. /\ queue'[class] = rest
        /\ \/ batch' = Append(batch, r) /\ deferred'[class] = <<>>
           \/ batch' = batch /\ deferred'[class] = <<r>>
        BY <1>1, <1>2, <1>3, <1>6, <2>1
  <2>3. Line(class) = <<r>> \o rest /\ <<r>> \in Seq(Request) /\ <<>> \o rest = rest
    <3>1. Line(class) = <<>> \o queue[class]
          BY <1>3 DEF Line
    <3> QED
      BY <1>1, <2>1, <3>1, ConcatEmptySeq
  <2>4. Ahead(class) = batch \o (<<r>> \o rest)
        BY <1>6, <2>3, AheadShape
  <2>5. Ahead(class)' = Ahead(class)
    <3>1. CASE batch' = Append(batch, r) /\ deferred'[class] = <<>>
      <4>1. Ahead(class)' = Append(batch, r) \o rest
            BY <1>2, <1>6, <2>2, <2>3, <3>1 DEF Ahead, Line
      <4>2. Append(batch, r) = batch \o <<r>>
            BY <1>1, AppendIsConcat
      <4>3. (batch \o <<r>>) \o rest = batch \o (<<r>> \o rest)
            BY <1>1, <2>3, LinesAssociate
      <4> QED
        BY <2>4, <4>1, <4>2, <4>3
    <3>2. CASE batch' = batch /\ deferred'[class] = <<r>>
          BY <1>2, <1>6, <2>2, <2>4, <3>2 DEF Ahead, Line
    <3> QED
      BY <2>2, <3>1, <3>2
  <2> QED
    BY <1>4, <2>5, SameLine
<1> QED
  BY <1>5, <1>6

\* A request that is accepted comes behind all others of its class.
LEMMA SubmitKeepsOrder ==
    ASSUME ExecutorInv, ExecutorInv', NEW c \in Callers, Submit(c), NEW class \in Classes
    PROVE  IsPrefix(Values(Ahead(class)), Values(Ahead(class)'))
<1>1. /\ queue[class] \in Seq(Request) /\ deferred[class] \in Seq(Request)
      /\ batch \in Seq(Request) /\ queue = [k \in Classes |-> queue[k]]
      /\ Line(class) \in Seq(Request) /\ Ahead(class) \in Seq(Request)
      BY AheadShape, LinesShape DEF ExecutorInv, TypeOK
<1>2. UNCHANGED <<deferred, batch, serving>>
      BY DEF Submit, executor
<1>3. CASE class # ClassOf(c)
  <2>1. queue'[class] = queue[class]
        BY <1>1, <1>3 DEF Submit
  <2>2. Ahead(class)' = Ahead(class)
        BY <1>2, <2>1 DEF Ahead, Line
  <2> QED
    BY <1>1, <2>2, SameLine
<1>4. CASE class = ClassOf(c)
  <2>1. PICK r : queue'[class] = Append(queue[class], r)
        BY <1>1, <1>4 DEF Submit
  <2>2. r \in Request
    <3>1. queue'[class] \in Seq(Request) /\ Len(queue[class]) \in Nat
          BY <1>1, LinesShape DEF ExecutorInv, TypeOK
    <3>2. Append(queue[class], r) \in Seq(Request)
          BY <2>1, <3>1
    <3>3. /\ Len(Append(queue[class], r)) = Len(queue[class]) + 1
          /\ Append(queue[class], r)[Len(queue[class]) + 1] = r
          BY <1>1, <3>1
    <3> QED
      BY <3>1, <3>2, <3>3, ElementOfSeq
  <2>3. /\ <<r>> \in Seq(Request) /\ queue'[class] = queue[class] \o <<r>>
        BY <1>1, <2>1, <2>2, AppendIsConcat
  <2>4. Line(class)' = Line(class) \o <<r>>
    <3>1. (deferred[class] \o queue[class]) \o <<r>> = deferred[class] \o (queue[class] \o <<r>>)
          BY <1>1, <2>3, LinesAssociate
    <3> QED
      BY <1>2, <2>3, <3>1 DEF Line
  <2>5. Ahead(class)' = Ahead(class) \o <<r>>
    <3>1. PICK x \in Seq(Request) : x = IF serving = class THEN batch ELSE <<>>
          BY <1>1, EmptySeq
    <3>2. (x \o Line(class)) \o <<r>> = x \o (Line(class) \o <<r>>)
          BY <1>1, <2>3, LinesAssociate
    <3> QED
      BY <1>2, <2>4, <3>1, <3>2 DEF Ahead
  <2> QED
    BY <1>1, <2>3, <2>5, LongerLine
<1> QED
  BY <1>3, <1>4

\* A dropped caller's request keeps its place.
LEMMA CancelKeepsOrder ==
    ASSUME ExecutorInv, ExecutorInv', NEW c \in Callers, Cancel(c), NEW class \in Classes
    PROVE  IsPrefix(Values(Ahead(class)), Values(Ahead(class)'))
<1>1. /\ queue[class] \in Seq(Request) /\ deferred[class] \in Seq(Request)
      /\ batch \in Seq(Request) /\ <<>> \in Seq(Request)
      /\ Ahead(class) \in Seq(Request)
      BY AheadShape, LinesShape, EmptySeq
<1>2. /\ queue'[class] = Unanswerable(queue[class], c) /\ batch' = Unanswerable(batch, c)
      /\ deferred'[class] = Unanswerable(deferred[class], c) /\ serving' = serving
      BY DEF Cancel
<1>3. /\ queue'[class] \in Seq(Request) /\ Values(queue'[class]) = Values(queue[class])
      /\ deferred'[class] \in Seq(Request) /\ Values(deferred'[class]) = Values(deferred[class])
      /\ batch' \in Seq(Request) /\ Values(batch') = Values(batch)
      BY <1>1, <1>2, TextsRemain
<1>4. /\ Line(class) = deferred[class] \o queue[class]
      /\ Line(class)' = deferred'[class] \o queue'[class]
      BY DEF Line
<1>5. /\ Line(class) \in Seq(Request) /\ Line(class)' \in Seq(Request)
      /\ Values(Line(class)') = Values(Line(class))
  <2>1. /\ Values(deferred[class] \o queue[class])
             = Values(deferred[class]) \o Values(queue[class])
        /\ Values(deferred'[class] \o queue'[class])
             = Values(deferred'[class]) \o Values(queue'[class])
        BY <1>1, <1>3, LongerLine
  <2> QED
    BY <1>1, <1>3, <1>4, <2>1, ConcatProperties
<1>6. PICK x \in Seq(Request), y \in Seq(Request) :
         /\ x = (IF serving = class THEN batch ELSE <<>>) /\ Ahead(class) = x \o Line(class)
         /\ y = (IF serving = class THEN batch' ELSE <<>>) /\ Ahead(class)' = y \o Line(class)'
         /\ Values(y) = Values(x)
      BY <1>1, <1>2, <1>3 DEF Ahead
<1>7. /\ Values(x \o Line(class)) = Values(x) \o Values(Line(class))
      /\ Values(y \o Line(class)') = Values(y) \o Values(Line(class)')
      BY <1>5, <1>6, LongerLine
<1>8. Values(Ahead(class)') = Values(Ahead(class))
      BY <1>5, <1>6, <1>7
<1> QED
  BY <1>1, <1>8, SameLine

\* Requests of a class are inferred in the order in which they were accepted: no
\* step of a caller or of the loop takes one before another of its line.
THEOREM LinesAlwaysKeepOrder == Spec => LinesKeepOrder
<1> DEFINE Kept(class) == IsPrefix(Values(Ahead(class)), Values(Ahead(class)'))
           Settles == phase = "infer" /\ phase' = "select"
           Ordered(class) == IF Settles THEN Values(Line(class))' = Values(Line(class))
                             ELSE Kept(class)
<1>1. ASSUME ExecutorInv, ExecutorInv', [Next]_vars, NEW class \in Classes
      PROVE  Ordered(class)
  <2>1. /\ Line(class) \in Seq(Request) /\ Ahead(class) \in Seq(Request)
        /\ serving = class => Ahead(class) = batch \o Line(class)
        /\ serving # class => Ahead(class) = Line(class)
        /\ \A k \in Classes : queue[k] \in Seq(Request) /\ deferred[k] \in Seq(Request)
        /\ batch \in Seq(Request) /\ serving \in Classes
        /\ queue = [k \in Classes |-> queue[k]] /\ deferred = [k \in Classes |-> deferred[k]]
        BY <1>1, AheadShape, LinesShape DEF ExecutorInv, TypeOK
  <2>2. ASSUME UNCHANGED <<queue, deferred, batch, serving, phase>> PROVE Ordered(class)
    <3>1. Ahead(class)' = Ahead(class) /\ ~Settles
          BY <2>2 DEF Ahead, Line
    <3>2. Kept(class)
          BY <2>1, <3>1, SameLine
    <3> QED
      BY <3>1, <3>2
  <2>3. CASE UNCHANGED vars
        BY <2>2, <2>3 DEF vars
  <2>4. CASE SelectDeferred \/ SelectQueued
    <3>1. ~Settles
          BY <2>4 DEF SelectDeferred, SelectQueued
    <3>2. Kept(class)
          BY <1>1, <2>4, SelectKeepsOrder
    <3> QED
      BY <3>1, <3>2
  <2>5. CASE Merge
        BY <1>1, <2>5, MergeKeepsOrder DEF Merge
  <2>6. CASE StopMerging
    <3>1. /\ UNCHANGED <<queue, deferred, batch, serving>> /\ phase' = "infer"
          BY <2>6 DEF StopMerging
    <3>2. Ahead(class)' = Ahead(class) /\ ~Settles
          BY <3>1 DEF Ahead, Line
    <3>3. Kept(class)
          BY <2>1, <3>2, SameLine
    <3> QED
      BY <3>2, <3>3
  <2>7. CASE Infer \/ InferFails
    <3>1. /\ UNCHANGED <<queue, deferred>> /\ Settles
          BY <2>7 DEF Infer, InferFails, EndBatch
    <3>2. Values(Line(class))' = Values(Line(class))
          BY <3>1 DEF Values, Line
    <3> QED
      BY <3>1, <3>2
  <2>8. ASSUME NEW c \in Callers, CallerStep(c) PROVE Ordered(class)
    <3>1. CASE \E job \in Jobs : CallEmbed(c, job)
          BY <2>2, <3>1 DEF CallEmbed, executor
    <3>2. CASE Submit(c)
          BY <1>1, <3>2, SubmitKeepsOrder DEF Submit, executor
    <3>3. CASE Cancel(c)
          BY <1>1, <3>3, CancelKeepsOrder DEF Cancel
    <3> QED
      BY <2>8, <3>1, <3>2, <3>3 DEF CallerStep
  <2> QED
    BY <1>1, <2>3, <2>4, <2>5, <2>6, <2>7, <2>8 DEF Next, Run
<1>2. ASSUME ExecutorInv, ExecutorInv', [Next]_vars
      PROVE  [\A class \in Classes :
                 IF phase = "infer" /\ phase' = "select"
                 THEN Values(Line(class))' = Values(Line(class))
                 ELSE IsPrefix(Values(Ahead(class)), Values(Ahead(class)'))]_vars
      BY <1>1, <1>2
<1> QED
  BY <1>2, ExecutorConsistent, PTL DEF Spec, LinesKeepOrder

-----------------------------------------------------------------------------
(* How a text is chunked.                                                  *)

Word == [place : Nat, part : Nat, width : Nat]

\* A unit is a sentence or a word; a chunk that fits is one, and no larger than
\* the limit.
Unit == Seq(Word) \ {<<>>}
FittingChunk == {chunk \in Unit : Width(chunk) <= Limit}

MoreWidth(context, sum, word) == sum + word.width
Widening == INSTANCE FoldLemmas WITH step <- MoreWidth

MoreUnits(text, state, k) == TakeUnit(state, text.units[k], text.pieces[k])
Chopping == INSTANCE FoldLemmas WITH step <- MoreUnits

MoreSections(context, state, section) == TakeSection(state, section)
Sectioning == INSTANCE FoldLemmas WITH step <- MoreSections

Splitting == INSTANCE FoldLemmas WITH step <- ReadWord

\* The folds of Chunking and MCText, as instances of FoldLemmas.
LEMMA WidthsFold == \A words : Widths(words) = Widening!Folded(0, 0, words)
  BY SMT DEF Widths, MoreWidth, Widening!Folded, FoldLeft, MapThenFoldSet, Max,
             Widening!MapThenFoldSet, Widening!Max

\* chunk_units as a fold over the places of its units.
LEMMA ChunkUnitsFolds ==
    \A units, pieces :
        LET end == Chopping!Folded([units |-> units, pieces |-> pieces],
                                   [chunks |-> <<>>, pending |-> <<>>],
                                   [k \in DOMAIN units |-> k])
        IN ChunkUnits(units, pieces) = FlushUnits(end.chunks, end.pending)
  BY SMT DEF ChunkUnits, MoreUnits, Chopping!Folded, FoldLeft, MapThenFoldSet, Max,
             Chopping!MapThenFoldSet, Chopping!Max

\* chunk_markdown as a fold over its sections.
LEMMA ChunkMarkdownFolds ==
    \A sections :
        LET end == Sectioning!Folded(0, [chunks |-> <<>>, pending |-> <<>>], sections)
        IN ChunkMarkdown(sections) =
              IF end.pending = <<>> THEN end.chunks ELSE Append(end.chunks, end.pending)
  BY SMT DEF ChunkMarkdown, MoreSections, Sectioning!Folded, FoldLeft, MapThenFoldSet, Max,
             Sectioning!MapThenFoldSet, Sectioning!Max

\* The sentences of a text of the run as a fold over its words.
LEMMA SentencesFold ==
    \A ends : Sentences(ends) = Splitting!Folded(ends, <<>>, Words)
  BY SMT DEF Sentences, Splitting!Folded, FoldLeft, MapThenFoldSet, Max,
             Splitting!MapThenFoldSet, Splitting!Max

\* A text has a width; that of one word is the word's.
LEMMA WidthIsNumber ==
    /\ \A words \in Seq(Word) : Width(words) \in Nat
    /\ \A word \in Word : Width(<<word>>) = word.width
    /\ Width(<<>>) = 0
<1>1. Widening!Steps(0, Nat, Word, 0)
      BY DEF Widening!Steps, MoreWidth, Word
<1>2. ASSUME NEW words \in Seq(Word) PROVE Width(words) \in Nat
  <2>1. [place |-> 0, part |-> 0, width |-> 0] \in Word
        BY DEF Word
  <2>2. Widths(words) \in Nat
        BY <1>1, <2>1, Widening!FoldAppend, WidthsFold
  <2>3. words # <<>> => Len(words) \in Nat \ {0}
        BY EmptySeq
  <2> QED
    BY <2>2, <2>3 DEF Width
<1>3. ASSUME NEW word \in Word PROVE Width(<<word>>) = word.width
  <2>0. <<>> \in Seq(Word) /\ <<word>> \in Seq(Word)
        BY EmptySeq
  <2>1. PICK s \in Seq(Word) : s = <<>> /\ Append(s, word) = <<word>>
        BY <2>0, AppendIsConcat, ConcatEmptySeq, Zenon
  <2>2. /\ Widening!Folded(0, 0, <<>>) = 0
        /\ Widening!Folded(0, 0, Append(s, word))
              = MoreWidth(0, Widening!Folded(0, 0, s), word)
        BY <1>1, Widening!FoldAppend
  <2>3. Widths(<<word>>) = word.width /\ word.width \in Nat
        BY <2>1, <2>2, WidthsFold DEF MoreWidth, Word
  <2>4. <<word>> # <<>> /\ Len(<<word>>) = 1
        OBVIOUS
  <2> QED
    BY <2>3, <2>4 DEF Width
<1>4. Width(<<>>) = 0
      BY DEF Width
<1> QED
  BY <1>2, <1>3, <1>4

\* Units laid end to end.
LEMMA UnitsJoin ==
    ASSUME NEW units \in Seq(Unit)
    PROVE  /\ FlattenSeq(units) \in Seq(Word)
           /\ units # <<>> => FlattenSeq(units) \in Unit
           /\ JoinedLen(units) \in Nat
<1>1. units \in Seq(Seq(Word)) /\ Len(units) \in Nat
      BY SeqMonotonic, LenProperties DEF Unit
<1>2. PICK ends : Ends(Word, units, ends)
      BY <1>1, FlattenVisits
<1>3. FlattenSeq(units) \in Seq(Word)
      BY <1>1, FlattenAppend, EmptySeq
<1>4. ASSUME units # <<>> PROVE FlattenSeq(units) \in Unit
  <2>1. Len(units) \in 1 .. Len(units) /\ Len(units) - 1 \in 0 .. Len(units)
        BY <1>1, <1>4, EmptySeq
  <2>2. PICK a \in Seq(Word), b \in Unit : FlattenSeq(units) = a \o b
        BY <1>2, <2>1, ElementOfSeq DEF Ends
  <2>3. a \o b # <<>>
        BY <2>2, ConcatEqualIffEmpty DEF Unit
  <2> QED
    BY <1>3, <2>2, <2>3 DEF Unit
<1> QED
  BY <1>3, <1>4, WidthIsNumber DEF JoinedLen

\* A unit alone is its words.
LEMMA OneUnit ==
    ASSUME NEW unit \in Unit
    PROVE  FlattenSeq(<<unit>>) = unit /\ <<unit>> \in Seq(Unit)
<1>1. <<unit>> \in Seq(Unit) /\ Len(<<unit>>) = 1 /\ <<unit>>[1] = unit
      OBVIOUS
<1>2. PICK ends : Ends(Word, <<unit>>, ends)
      BY <1>1, SeqMonotonic, FlattenVisits DEF Unit
<1>3. ends[1] = <<>> \o unit /\ FlattenSeq(<<unit>>) = ends[1]
  <2>1. 1 \in 1 .. 1 /\ 1 - 1 = 0
        OBVIOUS
  <2>2. \A k \in 1 .. 1 : ends[k] = ends[k - 1] \o <<unit>>[k]
        BY <1>1, <1>2 DEF Ends
  <2>3. ends[0] = <<>> /\ FlattenSeq(<<unit>>) = ends[1]
        BY <1>1, <1>2 DEF Ends
  <2>4. ends[1] = ends[0] \o unit
        BY <1>1, <2>1, <2>2
  <2> QED
    BY <2>3, <2>4
<1> QED
  BY <1>1, <1>3, ConcatEmptySeq DEF Unit

\* What is flushed fits.
LEMMA FlushFits ==
    ASSUME NEW chunks \in Seq(FittingChunk), NEW pending \in Seq(Unit), JoinedLen(pending) <= Limit
    PROVE  FlushUnits(chunks, pending) \in Seq(FittingChunk)
<1> DEFINE chunk == FlattenSeq(pending)
           Joins == /\ chunks # <<>>
                    /\ Width(chunk) < ShortChunk
                    /\ Width(Last(chunks) \o chunk) <= Limit
<1>1. CASE pending = <<>>
      BY <1>1 DEF FlushUnits
<1>2. CASE pending # <<>>
  <2>1. chunk \in FittingChunk
        BY <1>2, UnitsJoin DEF FittingChunk, JoinedLen
  <2> HIDE DEF chunk
  <2>2. CASE Joins
    <3>1. Len(chunks) \in Nat \ {0} /\ Len(chunks) \in 1 .. Len(chunks)
          BY <2>2, EmptySeq
    <3>2. Last(chunks) \in FittingChunk
          BY <3>1, ElementOfSeq DEF Last
    <3>3. Last(chunks) \o chunk \in FittingChunk
      <4>1. Last(chunks) \in Seq(Word) /\ chunk \in Seq(Word) /\ chunk # <<>>
            BY <2>1, <3>2 DEF FittingChunk, Unit
      <4>2. Last(chunks) \o chunk \in Seq(Word) /\ Last(chunks) \o chunk # <<>>
            BY <4>1, ConcatProperties, ConcatEqualIffEmpty
      <4> QED
        BY <2>2, <4>2 DEF FittingChunk, Unit
    <3>4. Front(chunks) \in Seq(FittingChunk)
      <4>1. \A i \in 1 .. Len(chunks) - 1 : chunks[i] \in FittingChunk
            BY <3>1, ElementOfSeq
      <4> QED
        BY <3>1, <4>1, SubSeqProperties DEF Front
    <3>5. Front(chunks) \o <<Last(chunks) \o chunk>> \in Seq(FittingChunk)
          BY <3>3, <3>4, ConcatProperties
    <3>6. FlushUnits(chunks, pending) = Front(chunks) \o <<Last(chunks) \o chunk>>
          BY <1>2, <2>2 DEF FlushUnits, chunk
    <3> QED
      BY <3>5, <3>6
  <2>3. CASE ~Joins
    <3>1. FlushUnits(chunks, pending) = Append(chunks, chunk)
          BY <1>2, <2>3 DEF FlushUnits, chunk
    <3> QED
      BY <2>1, <3>1, AppendProperties
  <2> QED
    BY <2>2, <2>3
<1> QED
  BY <1>1, <1>2

\* What is kept of the units flushed are units.
LEMMA RetainedAreUnits ==
    ASSUME NEW pending \in Seq(Unit)
    PROVE  RetainOverlap(pending) \in Seq(Unit)
<1> DEFINE n == Len(pending)
           Within(k) == JoinedLen(SubSeq(pending, k, n)) <= OverlapBudget
           S == {k \in 1 .. n + 1 : Within(k)}
<1>1. n \in Nat
      BY LenProperties
<1>2. OverlapBudget \in Nat
  <2>1. Limit \div 2 \in Nat /\ Overlap \in Nat
        BY ChunkLimitsAssumption
  <2> QED
    BY <2>1 DEF OverlapBudget
<1>3. n + 1 \in S
  <2>1. SubSeq(pending, n + 1, n) = <<>>
        BY <1>1, SubSeqEmpty
  <2>2. JoinedLen(<<>>) = 0
    <3>1. FlattenSeq(<<>>) = <<>>
          BY DEF FlattenSeq
    <3> QED
      BY <3>1, WidthIsNumber DEF JoinedLen
  <2>3. JoinedLen(SubSeq(pending, n + 1, n)) = 0
        BY <2>1, <2>2, Zenon
  <2>4. n + 1 \in 1 .. n + 1
        BY <1>1
  <2> QED
    BY <1>2, <2>3, <2>4
<1>4. Min(S) \in 1 .. n + 1
  <2>1. S \in SUBSET Nat /\ S # {} /\ S \subseteq 1 .. n + 1
        BY <1>3
  <2> HIDE DEF S
  <2>2. PICK k \in S : \A m \in S : ~(m < k)
        BY <2>1, Widening!LeastNumber
  <2>3. \A m \in S : k <= m
        BY <2>1, <2>2
  <2> QED
    BY <2>1, <2>3 DEF Min
<1>5. RetainOverlap(pending) = SubSeq(pending, Min(S), n)
      BY DEF RetainOverlap
<1> HIDE DEF S
<1>6. \A i \in Min(S) .. n : pending[i] \in Unit
      BY <1>1, <1>4, ElementOfSeq
<1> QED
  BY <1>1, <1>4, <1>5, <1>6, SubSeqProperties

\* The state of chunk_units' loop.
Chopped ==
    {state \in [chunks : Seq(FittingChunk), pending : Seq(Unit)] :
        JoinedLen(state.pending) <= Limit}

\* One more unit, whose pieces fit.
LEMMA TakeUnitFits ==
    ASSUME NEW state \in Chopped, NEW unit \in Unit, NEW pieces \in Seq(FittingChunk)
    PROVE  TakeUnit(state, unit, pieces) \in Chopped
<1> DEFINE flushed == FlushUnits(state.chunks, state.pending)
           kept == RetainOverlap(state.pending)
<1>1. /\ state.chunks \in Seq(FittingChunk) /\ state.pending \in Seq(Unit)
      /\ JoinedLen(state.pending) <= Limit
      BY DEF Chopped
<1>2. flushed \in Seq(FittingChunk) /\ kept \in Seq(Unit)
      BY <1>1, FlushFits, RetainedAreUnits
<1>3. Width(unit) \in Nat /\ Limit \in Nat
      BY WidthIsNumber, ChunkLimitsAssumption DEF Unit
<1>4. JoinedLen(<<>>) <= Limit /\ <<>> \in Seq(Unit)
  <2>1. FlattenSeq(<<>>) = <<>>
        BY DEF FlattenSeq
  <2> QED
    BY <1>3, <2>1, WidthIsNumber, EmptySeq DEF JoinedLen
<1> HIDE DEF flushed, kept
<1>5. CASE Width(unit) > Limit
  <2>1. TakeUnit(state, unit, pieces) = [chunks |-> flushed \o pieces, pending |-> <<>>]
        BY <1>3, <1>5 DEF TakeUnit, flushed
  <2>2. flushed \o pieces \in Seq(FittingChunk)
        BY <1>2, ConcatProperties
  <2> QED
    BY <1>4, <2>1, <2>2 DEF Chopped
<1>6. CASE Width(unit) <= Limit /\ JoinedLen(Append(state.pending, unit)) <= Limit
  <2> DEFINE grown == Append(state.pending, unit)
  <2>1. TakeUnit(state, unit, pieces) = [state EXCEPT !.pending = grown]
        BY <1>3, <1>6 DEF TakeUnit
  <2>2. grown \in Seq(Unit) /\ JoinedLen(grown) <= Limit
        BY <1>1, <1>6, AppendProperties
  <2> HIDE DEF grown
  <2>3. TakeUnit(state, unit, pieces) = [chunks |-> state.chunks, pending |-> grown]
        BY <2>1 DEF Chopped
  <2> QED
    BY <1>1, <2>2, <2>3 DEF Chopped
<1>7. CASE Width(unit) <= Limit /\ ~(JoinedLen(Append(state.pending, unit)) <= Limit)
  <2> DEFINE rest == IF JoinedLen(Append(kept, unit)) <= Limit
                     THEN Append(kept, unit) ELSE <<unit>>
  <2>1. TakeUnit(state, unit, pieces) = [chunks |-> flushed, pending |-> rest]
        BY <1>3, <1>7 DEF TakeUnit, flushed, kept
  <2>2. rest \in Seq(Unit) /\ JoinedLen(rest) <= Limit
    <3>1. CASE JoinedLen(Append(kept, unit)) <= Limit
          BY <1>2, <3>1, AppendProperties
    <3>2. CASE ~(JoinedLen(Append(kept, unit)) <= Limit)
          BY <1>7, <3>2, OneUnit DEF JoinedLen
    <3> QED
      BY <3>1, <3>2
  <2> HIDE DEF rest
  <2> QED
    BY <1>2, <2>1, <2>2 DEF Chopped
<1> QED
  BY <1>3, <1>5, <1>6, <1>7

\* Chunks of units whose pieces fit.
LEMMA UnitsFit ==
    ASSUME NEW units \in Seq(Unit), NEW pieces \in [DOMAIN units -> Seq(FittingChunk)]
    PROVE  ChunkUnits(units, pieces) \in Seq(FittingChunk)
<1> DEFINE text == [units |-> units, pieces |-> pieces]
           empty == [chunks |-> <<>>, pending |-> <<>>]
           order == [k \in DOMAIN units |-> k]
           end == Chopping!Folded(text, empty, order)
<1>1. DOMAIN units = 1 .. Len(units) /\ Len(units) \in Nat
      /\ \A k \in 1 .. Len(units) : units[k] \in Unit
      BY LenProperties, ElementOfSeq
<1>2. empty \in Chopped
  <2>1. FlattenSeq(<<>>) = <<>>
        BY DEF FlattenSeq
  <2>2. JoinedLen(<<>>) <= Limit
        BY <2>1, WidthIsNumber, ChunkLimitsAssumption DEF JoinedLen
  <2>3. <<>> \in Seq(FittingChunk) /\ <<>> \in Seq(Unit)
        BY EmptySeq
  <2> QED
    BY <2>2, <2>3 DEF Chopped
<1>3. \A state \in Chopped, k \in DOMAIN units : MoreUnits(text, state, k) \in Chopped
      BY <1>1, TakeUnitFits DEF MoreUnits
<1>4. order \in Seq(DOMAIN units)
      BY <1>1, IsASeq
<1> HIDE DEF text, empty, order
<1>5. Chopping!Steps(text, Chopped, DOMAIN units, empty)
      BY <1>2, <1>3 DEF Chopping!Steps
<1>6. PICK values : Chopping!Visits(text, Chopped, empty, order, values)
      BY <1>4, <1>5, Chopping!FoldVisits
<1>7. end \in Chopped
  <2>1. Len(order) \in 0 .. Len(order)
        BY <1>4, LenProperties
  <2> QED
    BY <1>6, <2>1 DEF Chopping!Visits
<1>8. ChunkUnits(units, pieces) = FlushUnits(end.chunks, end.pending)
      BY ChunkUnitsFolds DEF text, empty, order
<1> HIDE DEF end
<1> QED
  BY <1>7, <1>8, FlushFits DEF Chopped

\* A word of another width is a word.
LEMMA WidthChanges ==
    ASSUME NEW word \in Word, NEW w \in Nat
    PROVE  [word EXCEPT !.width = w] \in Word /\ [word EXCEPT !.width = w].width = w
<1>1. [word EXCEPT !.width = w] = [place |-> word.place, part |-> word.part, width |-> w]
      BY DEF Word
<1>2. [place |-> word.place, part |-> word.part, width |-> w] \in Word
      BY DEF Word
<1> QED
  BY <1>1, <1>2

\* The parts of a word: of the same place, numbered, within the limit, and
\* together as wide as the word.
LEMMA PartsShape ==
    ASSUME NEW word \in Word
    PROVE  /\ Parts(word) \in Seq(Word) /\ Len(Parts(word)) \in Nat
           /\ DOMAIN Parts(word) = 1 .. Len(Parts(word))
           /\ \A k \in 1 .. Len(Parts(word)) :
                 /\ Parts(word)[k].place = word.place /\ Parts(word)[k].part = k
                 /\ Parts(word)[k].width <= Limit
<1> DEFINE whole == word.width \div Limit
           rest == word.width % Limit
           n == whole + (IF rest = 0 THEN 0 ELSE 1)
           Wide(k) == IF k <= whole THEN Limit ELSE rest
           OnePart(k) == [place |-> word.place, part |-> k, width |-> Wide(k)]
<1>1. Limit \in Nat \ {0} /\ word.width \in Nat
      BY ChunkLimitsAssumption DEF Word
<1>2. whole \in Nat /\ rest \in 0 .. Limit - 1
  <2>1. PICK w \in Nat, m \in Nat \ {0} : w = word.width /\ m = Limit
        BY <1>1
  <2>2. w \div m \in Nat /\ w % m \in 0 .. m - 1
        OBVIOUS
  <2> QED
    BY <2>1, <2>2
<1>3. n \in Nat
      BY <1>2
<1>4. Parts(word) = [k \in 1 .. n |-> OnePart(k)]
      BY DEF Parts
<1>5. \A k \in 1 .. n : Wide(k) \in Nat /\ Wide(k) <= Limit
      BY <1>1, <1>2
<1> HIDE DEF whole, rest, n, Wide
<1>6. ASSUME NEW k \in 1 .. n
      PROVE  /\ OnePart(k) \in Word /\ OnePart(k).place = word.place
             /\ OnePart(k).part = k /\ OnePart(k).width = Wide(k)
  <2>1. k \in Nat /\ word.place \in Nat /\ Wide(k) \in Nat
        BY <1>3, <1>5 DEF Word
  <2> QED
    BY <2>1 DEF Word
<1> HIDE DEF OnePart
<1>7. Parts(word) \in Seq(Word)
      BY <1>3, <1>4, <1>6, IsASeq
<1>8. Len(Parts(word)) = n /\ DOMAIN Parts(word) = 1 .. n
      BY <1>3, <1>4, <1>7, LenProperties
<1>9. \A k \in 1 .. n : Parts(word)[k] = OnePart(k)
      BY <1>4
<1> QED
  BY <1>3, <1>5, <1>6, <1>7, <1>8, <1>9

\* What a word is cut into fits.
LEMMA FixedWidthFits ==
    ASSUME NEW word \in Word
    PROVE  FixedWidth(word) \in Seq(FittingChunk)
<1> DEFINE parts == Parts(word)
<1>1. /\ DOMAIN parts = 1 .. Len(parts) /\ Len(parts) \in Nat
      /\ \A k \in 1 .. Len(parts) : parts[k] \in Word /\ parts[k].width <= Limit
      BY PartsShape, ElementOfSeq
<1>2. FixedWidth(word) = [k \in 1 .. Len(parts) |-> <<parts[k]>>]
      BY <1>1 DEF FixedWidth
<1> HIDE DEF parts
<1>3. ASSUME NEW k \in 1 .. Len(parts) PROVE <<parts[k]>> \in FittingChunk
  <2>1. PICK part \in Word : part = parts[k] /\ part.width <= Limit
        BY <1>1
  <2>2. <<part>> \in Seq(Word) /\ <<part>> # <<>>
        OBVIOUS
  <2>3. Width(<<part>>) <= Limit
        BY <2>1, WidthIsNumber
  <2> QED
    BY <2>1, <2>2, <2>3 DEF FittingChunk, Unit
<1> QED
  BY <1>1, <1>2, <1>3, IsASeq

\* A sentence that is too long is cut into chunks that fit.
LEMMA SplitSentenceFits ==
    ASSUME NEW words \in Unit
    PROVE  SplitSentence(words) \in Seq(FittingChunk)
<1> DEFINE pieces == [k \in DOMAIN words |-> FixedWidth(words[k])]
           units == [k \in DOMAIN words |-> <<words[k]>>]
<1>1. /\ DOMAIN words = 1 .. Len(words) /\ Len(words) \in Nat \ {0}
      /\ \A k \in 1 .. Len(words) : words[k] \in Word
      BY LenProperties, ElementOfSeq, EmptySeq DEF Unit
<1>2. pieces \in [DOMAIN words -> Seq(FittingChunk)]
      BY <1>1, FixedWidthFits
<1>3. units \in Seq(Unit) /\ DOMAIN units = DOMAIN words
  <2>1. \A k \in 1 .. Len(words) : <<words[k]>> \in Unit
    <3>1. \A word \in Word : <<word>> \in Seq(Word) /\ <<word>> # <<>>
          OBVIOUS
    <3> QED
      BY <1>1, <3>1 DEF Unit
  <2> QED
    BY <1>1, <2>1, IsASeq
<1>4. SplitSentence(words) = IF Len(words) = 1 THEN pieces[1] ELSE ChunkUnits(units, pieces)
      BY DEF SplitSentence
<1> HIDE DEF pieces, units
<1>5. ChunkUnits(units, pieces) \in Seq(FittingChunk)
      BY <1>2, <1>3, UnitsFit
<1>6. pieces[1] \in Seq(FittingChunk)
  <2>1. 1 \in DOMAIN words
        BY <1>1
  <2> QED
    BY <1>2, <2>1
<1> QED
  BY <1>4, <1>5, <1>6

\* No chunk of a plain text is larger than the limit, and none is empty, however
\* long its sentences and words are.
THEOREM PlainChunksFit ==
    ASSUME NEW sentences \in Seq(Unit)
    PROVE  ChunkPlain(sentences) \in Seq(FittingChunk)
<1> DEFINE pieces == [k \in DOMAIN sentences |-> SplitSentence(sentences[k])]
<1>1. \A k \in DOMAIN sentences : sentences[k] \in Unit
      BY LenProperties, ElementOfSeq
<1>2. pieces \in [DOMAIN sentences -> Seq(FittingChunk)]
      BY <1>1, SplitSentenceFits
<1>3. ChunkPlain(sentences) = ChunkUnits(sentences, pieces)
      BY DEF ChunkPlain
<1> HIDE DEF pieces
<1> QED
  BY <1>2, <1>3, UnitsFit

\* A section below a blank line is still a unit.
LEMMA UnderBlankLineIsUnit ==
    ASSUME NEW words \in Unit PROVE UnderBlankLine(words) \in Unit
<1>1. words \in Seq(Word) /\ Len(words) \in Nat \ {0}
      BY EmptySeq DEF Unit
<1>2. 1 \in 1 .. Len(words) /\ words[1] \in Word /\ DOMAIN words = 1 .. Len(words)
      BY <1>1, ElementOfSeq, LenProperties
<1>3. PICK first \in Word : first = [words[1] EXCEPT !.width = @ + 1]
  <2>1. words[1].width + 1 \in Nat
        BY <1>2 DEF Word
  <2> QED
    BY <1>2, <2>1, WidthChanges
<1>4. UnderBlankLine(words) = [words EXCEPT ![1] = first]
      BY <1>2, <1>3 DEF UnderBlankLine
<1>5. [words EXCEPT ![1] = first] \in Seq(Word) /\ Len([words EXCEPT ![1] = first]) = Len(words)
      BY <1>1, <1>2, ExceptSeq
<1>6. UnderBlankLine(words) # <<>>
      BY <1>1, <1>4, <1>5, EmptySeq
<1> QED
  BY <1>4, <1>5, <1>6 DEF Unit

\* A repeated heading fits, or is not repeated.
LEMMA WithHeadingFits ==
    ASSUME NEW split \in Seq(FittingChunk), NEW heading \in Word
    PROVE  WithHeading(split, heading) \in Seq(FittingChunk)
<1>1. DOMAIN split = 1 .. Len(split) /\ Len(split) \in Nat
      /\ \A k \in 1 .. Len(split) : split[k] \in FittingChunk
      BY LenProperties, ElementOfSeq
<1> DEFINE Candidate(k) == <<heading>> \o UnderBlankLine(split[k])
           Headed(k) == IF k > 1 /\ Width(Candidate(k)) <= Limit /\ split[k][1] # heading
                        THEN Candidate(k) ELSE split[k]
<1>2. ASSUME NEW k \in 1 .. Len(split) PROVE Headed(k) \in FittingChunk
  <2>1. Candidate(k) \in Unit
    <3>1. PICK below \in Unit : below = UnderBlankLine(split[k])
          BY <1>1, UnderBlankLineIsUnit DEF FittingChunk
    <3>2. <<heading>> \in Seq(Word) /\ below \in Seq(Word) /\ <<heading>> # <<>>
          BY DEF Unit
    <3>3. <<heading>> \o below \in Seq(Word) /\ <<heading>> \o below # <<>>
          BY <3>2, ConcatProperties, ConcatEqualIffEmpty
    <3> QED
      BY <3>1, <3>3 DEF Unit
  <2> HIDE DEF Candidate
  <2>2. CASE Width(Candidate(k)) <= Limit
        BY <1>1, <2>1, <2>2 DEF FittingChunk
  <2>3. CASE ~(Width(Candidate(k)) <= Limit)
        BY <1>1, <2>3
  <2> QED
    BY <2>2, <2>3
<1>3. WithHeading(split, heading) = [k \in 1 .. Len(split) |-> Headed(k)]
      BY <1>1 DEF WithHeading
<1> HIDE DEF Headed
<1> QED
  BY <1>1, <1>2, <1>3, IsASeq

\* The state of chunk_markdown's loop, and a section.
Sectioned == [chunks : Seq(FittingChunk), pending : FittingChunk \cup {<<>>}]
Section == [heading : BOOLEAN, sentences : Seq(Unit) \ {<<>>}]

\* One iteration of chunk_markdown keeps what it holds within the limit.
LEMMA TakeSectionFits ==
    ASSUME NEW state \in Sectioned, NEW section \in Section
    PROVE  TakeSection(state, section) \in Sectioned
<1> DEFINE words == FlattenSeq(section.sentences)
           split == ChunkPlain(section.sentences)
           joined == state.pending \o UnderBlankLine(words)
           pushed == IF state.pending = <<>> THEN state.chunks
                     ELSE Append(state.chunks, state.pending)
           parts == pushed \o (IF section.heading THEN WithHeading(split, words[1]) ELSE split)
<1>1. /\ state.chunks \in Seq(FittingChunk)
      /\ state.pending \in FittingChunk \/ state.pending = <<>>
      /\ section.sentences \in Seq(Unit) /\ section.sentences # <<>>
      BY DEF Sectioned, Section
<1>2. words \in Unit /\ words[1] \in Word
  <2>1. words \in Unit
        BY <1>1, UnitsJoin
  <2> HIDE DEF words
  <2>2. 1 \in 1 .. Len(words)
        BY <2>1, EmptySeq DEF Unit
  <2> QED
    BY <2>1, <2>2, ElementOfSeq DEF Unit
<1>3. split \in Seq(FittingChunk)
      BY <1>1, PlainChunksFit
<1>4. pushed \in Seq(FittingChunk)
      BY <1>1, AppendProperties
<1>5. Width(words) \in Nat /\ Limit \in Nat
      BY <1>2, WidthIsNumber, ChunkLimitsAssumption DEF Unit
<1>6. joined \in Unit
  <2> HIDE DEF words
  <2>1. PICK below \in Unit : below = UnderBlankLine(words)
        BY <1>2, UnderBlankLineIsUnit
  <2>2. state.pending \in Seq(Word)
        BY <1>1, EmptySeq DEF FittingChunk, Unit
  <2>3. state.pending \o below \in Seq(Word) /\ state.pending \o below # <<>>
        BY <2>2, ConcatProperties, ConcatEqualIffEmpty DEF Unit
  <2> QED
    BY <2>1, <2>3 DEF Unit
<1> HIDE DEF words, split, joined, pushed
<1>7. CASE Width(words) > Limit
  <2>1. TakeSection(state, section) = [chunks |-> parts, pending |-> <<>>]
        BY <1>5, <1>7 DEF TakeSection, words, split, pushed
  <2>2. WithHeading(split, words[1]) \in Seq(FittingChunk)
        BY <1>2, <1>3, WithHeadingFits
  <2>3. parts \in Seq(FittingChunk)
        BY <1>3, <1>4, <2>2, ConcatProperties
  <2> HIDE DEF parts
  <2> QED
    BY <2>1, <2>3 DEF Sectioned
<1>8. CASE Width(words) <= Limit /\ state.pending # <<>> /\ Width(joined) <= Limit
  <2>1. TakeSection(state, section) = [state EXCEPT !.pending = joined]
        BY <1>5, <1>8 DEF TakeSection, words, joined
  <2>2. joined \in FittingChunk
        BY <1>6, <1>8 DEF FittingChunk
  <2> QED
    BY <2>1, <2>2 DEF Sectioned
<1>9. CASE Width(words) <= Limit /\ ~(state.pending # <<>> /\ Width(joined) <= Limit)
  <2>1. TakeSection(state, section) = [chunks |-> pushed, pending |-> words]
        BY <1>5, <1>9 DEF TakeSection, words, joined, pushed
  <2>2. words \in FittingChunk
        BY <1>2, <1>9 DEF FittingChunk
  <2> QED
    BY <1>4, <2>1, <2>2 DEF Sectioned
<1> QED
  BY <1>5, <1>7, <1>8, <1>9

\* No chunk of a text with headings is larger than the limit either, with the
\* heading it repeats.
THEOREM MarkdownChunksFit ==
    ASSUME NEW sections \in Seq(Section)
    PROVE  ChunkMarkdown(sections) \in Seq(FittingChunk)
<1> DEFINE empty == [chunks |-> <<>>, pending |-> <<>>]
           end == Sectioning!Folded(0, empty, sections)
<1>1. empty \in Sectioned
      BY EmptySeq DEF Sectioned
<1> HIDE DEF empty
<1>2. Sectioning!Steps(0, Sectioned, Section, empty)
      BY <1>1, TakeSectionFits DEF Sectioning!Steps, MoreSections
<1>3. PICK values : Sectioning!Visits(0, Sectioned, empty, sections, values)
      BY <1>2, Sectioning!FoldVisits
<1>4. end \in Sectioned
  <2>1. Len(sections) \in 0 .. Len(sections)
        BY LenProperties
  <2> QED
    BY <1>3, <2>1 DEF Sectioning!Visits
<1>5. ChunkMarkdown(sections) =
         IF end.pending = <<>> THEN end.chunks ELSE Append(end.chunks, end.pending)
      BY ChunkMarkdownFolds DEF empty
<1> HIDE DEF end
<1> QED
  BY <1>4, <1>5, AppendProperties DEF Sectioned

\* The texts the run cuts: the words read so far, sentences ending anywhere.
LEMMA SentencesAreUnits ==
    ASSUME LoopTypeOK, NEW ends
    PROVE  Sentences(ends) \in Seq(Unit)
<1>1. Words \in Seq(Word)
  <2>1. /\ DOMAIN lengths = 1 .. Len(lengths) /\ Len(lengths) \in Nat
        /\ \A k \in 1 .. Len(lengths) : lengths[k] \in Nat
        BY LenProperties, ElementOfSeq, TokenCountsAssumption DEF LoopTypeOK
  <2>2. \A k \in 1 .. Len(lengths) : [place |-> k, part |-> 1, width |-> lengths[k]] \in Word
        BY <2>1 DEF Word
  <2> QED
    BY <2>1, <2>2, IsASeq DEF Words
<1>2. ASSUME NEW sentences \in Seq(Unit), NEW word \in Word
      PROVE  ReadWord(ends, sentences, word) \in Seq(Unit)
  <2>1. <<word>> \in Unit
        BY DEF Unit
  <2>2. CASE sentences = <<>> \/ word.place - 1 \in ends
        BY <2>1, <2>2, AppendProperties DEF ReadWord
  <2>3. CASE ~(sentences = <<>> \/ word.place - 1 \in ends)
    <3>1. Len(sentences) \in Nat \ {0} /\ Len(sentences) \in 1 .. Len(sentences)
          BY <2>3, EmptySeq
    <3>2. Last(sentences) \in Unit
          BY <3>1, ElementOfSeq DEF Last
    <3>3. Append(Last(sentences), word) \in Unit
          BY <3>2, AppendProperties DEF Unit
    <3>4. \A i \in 1 .. Len(sentences) - 1 : sentences[i] \in Unit
          BY <3>1, ElementOfSeq
    <3>5. Front(sentences) \in Seq(Unit)
          BY <3>1, <3>4, SubSeqProperties DEF Front
    <3> QED
      BY <2>3, <3>3, <3>5, AppendProperties DEF ReadWord
  <2> QED
    BY <2>2, <2>3
<1>3. Splitting!Steps(ends, Seq(Unit), Word, <<>>)
      BY <1>2, EmptySeq DEF Splitting!Steps
<1>4. PICK values : Splitting!Visits(ends, Seq(Unit), <<>>, Words, values)
      BY <1>1, <1>3, Splitting!FoldVisits
<1>5. Len(Words) \in 0 .. Len(Words)
      BY <1>1, LenProperties
<1> QED
  BY <1>4, <1>5, SentencesFold DEF Splitting!Visits

\* So is every text of the run chunked, as plain text and with headings.
THEOREM ChunksAlwaysFit == LoopSpec => []ChunksFit
<1>1. LoopTypeOK => ChunksFit
  <2> SUFFICES ASSUME LoopTypeOK, NEW ends \in Endings, NEW chunks \in Chunkings(ends)
               PROVE  \A k \in DOMAIN chunks : chunks[k] # <<>> /\ Width(chunks[k]) <= Limit
        BY DEF ChunksFit
  <2> DEFINE sentences == Sentences(ends)
             Sections(headed) == [k \in DOMAIN sentences |->
                                     [heading |-> headed, sentences |-> <<sentences[k]>>]]
  <2>1. sentences \in Seq(Unit)
        BY SentencesAreUnits
  <2>2. /\ DOMAIN sentences = 1 .. Len(sentences) /\ Len(sentences) \in Nat
        /\ \A k \in 1 .. Len(sentences) : sentences[k] \in Unit
    <3> HIDE DEF sentences
    <3> QED
      BY <2>1, LenProperties, ElementOfSeq
  <2>3. \/ chunks = ChunkPlain(sentences)
        \/ \E headed \in BOOLEAN : chunks = ChunkMarkdown(Sections(headed))
        BY DEF Chunkings
  <2> HIDE DEF sentences
  <2>4. ASSUME NEW headed \in BOOLEAN PROVE Sections(headed) \in Seq(Section)
    <3>1. ASSUME NEW k \in 1 .. Len(sentences)
          PROVE  [heading |-> headed, sentences |-> <<sentences[k]>>] \in Section
      <4>0. sentences[k] \in Unit
            BY <2>2
      <4>1. PICK whole \in Seq(Unit) : whole = <<sentences[k]>> /\ whole # <<>>
        <5>1. <<sentences[k]>> \in Seq(Unit) /\ <<sentences[k]>> # <<>>
              BY <4>0, OneUnit
        <5> QED
          BY <5>1
      <4> QED
        BY <4>1 DEF Section
    <3> QED
      BY <2>2, <3>1, IsASeq
  <2> HIDE DEF Sections
  <2>5. chunks \in Seq(FittingChunk)
        BY <2>1, <2>3, <2>4, PlainChunksFit, MarkdownChunksFit
  <2>6. \A k \in DOMAIN chunks : chunks[k] \in FittingChunk
        BY <2>5, LenProperties, ElementOfSeq
  <2> QED
    BY <2>6 DEF FittingChunk, Unit
<1>2. LoopInv => LoopTypeOK
      BY DEF LoopInv
<1> QED
  BY <1>1, <1>2, LoopConsistent, PTL

-----------------------------------------------------------------------------
(* That the chunks are the text.                                           *)

\* Widths with a space after each word add up.
Size(words) == Widths(words) + Len(words)

\* A size is a sum over the words: one word more.
LEMMA SizeAppend ==
    ASSUME NEW words \in Seq(Word), NEW word \in Word
    PROVE  /\ Widths(words) \in Nat /\ Widths(<<>>) = 0
           /\ Widths(Append(words, word)) = Widths(words) + word.width
           /\ Size(words) \in Nat /\ Size(<<>>) = 0
           /\ Size(Append(words, word)) = Size(words) + word.width + 1
<1>1. Widening!Steps(0, Nat, Word, 0)
      BY DEF Widening!Steps, MoreWidth, Word
<1>2. /\ Widening!Folded(0, 0, words) \in Nat
      /\ Widening!Folded(0, 0, Append(words, word)) = MoreWidth(0, Widening!Folded(0, 0, words), word)
      /\ Widening!Folded(0, 0, <<>>) = 0
      BY <1>1, Widening!FoldAppend
<1>3. /\ Widths(words) \in Nat /\ Widths(<<>>) = 0
      /\ Widths(Append(words, word)) = Widths(words) + word.width
      BY <1>2, WidthsFold DEF MoreWidth
<1>4. Len(words) \in Nat /\ Len(Append(words, word)) = Len(words) + 1 /\ Len(<<>>) = 0
      BY LenProperties, AppendProperties
<1> QED
  BY <1>3, <1>4 DEF Size, Word

\* Two stretches laid end to end.
LEMMA SizesAdd ==
    ASSUME NEW x \in Seq(Word), NEW y \in Seq(Word)
    PROVE  Size(x \o y) = Size(x) + Size(y) /\ Size(x) \in Nat /\ Size(y) \in Nat
<1>0. [place |-> 0, part |-> 0, width |-> 0] \in Word
      BY DEF Word
<1>1. /\ \A words \in Seq(Word) : Size(words) \in Nat
      /\ \A words \in Seq(Word), word \in Word :
            Size(Append(words, word)) = Size(words) + word.width + 1
      /\ Size(<<>>) = 0
      BY <1>0, SizeAppend
<1> DEFINE S == {z \in Seq(Word) : Size(x \o z) = Size(x) + Size(z)}
<1>2. <<>> \in S
  <2>1. x \o <<>> = x /\ <<>> \in Seq(Word)
        BY ConcatEmptySeq, EmptySeq
  <2> QED
    BY <1>1, <2>1
<1>3. ASSUME NEW z \in S, NEW word \in Word PROVE Append(z, word) \in S
  <2>1. z \in Seq(Word) /\ x \o z \in Seq(Word) /\ Append(z, word) \in Seq(Word)
        BY <1>3, ConcatProperties, AppendProperties
  <2>2. x \o Append(z, word) = Append(x \o z, word)
        BY <2>1, ConcatAppend
  <2>3. /\ Size(Append(x \o z, word)) = Size(x \o z) + word.width + 1
        /\ Size(Append(z, word)) = Size(z) + word.width + 1
        /\ Size(x \o z) = Size(x) + Size(z)
        BY <1>1, <1>3, <2>1
  <2>4. Size(x) \in Nat /\ Size(z) \in Nat /\ word.width \in Nat
        BY <1>1, <2>1 DEF Word
  <2>5. Size(x \o Append(z, word)) = Size(x) + Size(Append(z, word))
        BY <2>2, <2>3, <2>4
  <2> QED
    BY <2>1, <2>5
<1> HIDE DEF S
<1>4. S = Seq(Word)
  <2>1. S \in SUBSET Seq(Word)
        BY DEF S
  <2> QED
    BY <1>2, <1>3, <2>1, Sequencing
<1>5. y \in S
      BY <1>4
<1>6. Size(x \o y) = Size(x) + Size(y)
      BY <1>5 DEF S
<1> QED
  BY <1>1, <1>6

\* The width of joined words is their size without the last separator.
LEMMA WidthBySize ==
    ASSUME NEW words \in Seq(Word)
    PROVE  Width(words) = IF words = <<>> THEN 0 ELSE Size(words) - 1
<1>1. [place |-> 0, part |-> 0, width |-> 0] \in Word
      BY DEF Word
<1>2. Widths(words) \in Nat /\ Len(words) \in Nat
      BY <1>1, SizeAppend, LenProperties
<1> QED
  BY <1>2 DEF Width, Size

\* A text is wider than what it ends with.
LEMMA WidthGrows ==
    ASSUME NEW x \in Seq(Word), NEW y \in Seq(Word)
    PROVE  Width(y) <= Width(x \o y) /\ Width(x) <= Width(x \o y)
<1>1. x \o y \in Seq(Word) /\ (x \o y = <<>> <=> x = <<>> /\ y = <<>>)
      BY ConcatProperties, ConcatEqualIffEmpty
<1>2. Size(x \o y) = Size(x) + Size(y) /\ Size(x) \in Nat /\ Size(y) \in Nat
      BY SizesAdd
<1>3. \A z \in Seq(Word) : z # <<>> => Size(z) >= 1
  <2> TAKE z \in Seq(Word)
  <2>1. Size(z) = Widths(z) + Len(z)
        BY DEF Size
  <2>2. [place |-> 0, part |-> 0, width |-> 0] \in Word
        BY DEF Word
  <2>3. Widths(z) \in Nat
        BY <2>2, SizeAppend
  <2> QED
    BY <2>1, <2>3, EmptySeq
<1>4. /\ Width(x \o y) = IF x \o y = <<>> THEN 0 ELSE Size(x \o y) - 1
      /\ Width(x) = IF x = <<>> THEN 0 ELSE Size(x) - 1
      /\ Width(y) = IF y = <<>> THEN 0 ELSE Size(y) - 1
      BY <1>1, WidthBySize
<1>5. CASE x \o y = <<>>
      BY <1>1, <1>4, <1>5
<1>6. CASE x \o y # <<>>
  <2>1. Width(x \o y) = Size(x) + Size(y) - 1
        BY <1>2, <1>4, <1>6
  <2>2. Size(x) + Size(y) - 1 >= 0
        BY <1>1, <1>2, <1>3, <1>6
  <2> QED
    BY <1>2, <1>4, <2>1, <2>2
<1> QED
  BY <1>5, <1>6

-----------------------------------------------------------------------------
\* Each word and part of a text is found at one place.
Distinct(text) == text \in Seq(Word) /\ \A i, j \in 1 .. Len(text) : text[i] = text[j] => i = j

\* What a slice holds.
LEMMA SliceShape ==
    ASSUME NEW text \in Seq(Word), NEW f \in 1 .. Len(text), NEW t \in f .. Len(text)
    PROVE  LET slice == SubSeq(text, f, t)
           IN /\ slice \in Unit /\ Len(slice) = t - f + 1
              /\ \A i \in 1 .. t - f + 1 : slice[i] = text[f + i - 1]
<1> DEFINE slice == SubSeq(text, f, t)
<1>1. Len(text) \in Nat /\ \A i \in f .. t : text[i] \in Word
      BY LenProperties, ElementOfSeq
<1>2. /\ slice \in Seq(Word) /\ Len(slice) = t - f + 1
      /\ \A i \in 1 .. t - f + 1 : slice[i] = text[f + i - 1]
      BY <1>1, SubSeqProperties
<1> HIDE DEF slice
<1>3. slice # <<>>
      BY <1>1, <1>2, EmptySeq
<1>4. /\ slice \in Unit /\ Len(slice) = t - f + 1
      /\ \A i \in 1 .. t - f + 1 : slice[i] = text[f + i - 1]
      BY <1>2, <1>3 DEF Unit
<1> QED
  BY <1>4 DEF slice

\* A slice of one word.
LEMMA SliceOfOne ==
    ASSUME NEW text \in Seq(Word), NEW f \in 1 .. Len(text)
    PROVE  SubSeq(text, f, f) = <<text[f]>>
<1> DEFINE slice == SubSeq(text, f, f)
<1>1. Len(text) \in Nat /\ f \in f .. Len(text)
      BY LenProperties
<1>2. /\ slice \in Seq(Word) /\ Len(slice) = f - f + 1
      /\ \A i \in 1 .. f - f + 1 : slice[i] = text[f + i - 1]
      BY <1>1, SliceShape DEF Unit
<1> HIDE DEF slice
<1>3. f - f + 1 = 1 /\ f + 1 - 1 = f /\ 1 \in 1 .. 1
      BY <1>1
<1>4. Len(slice) = 1 /\ slice[1] = text[f]
      BY <1>2, <1>3
<1>5. slice = <<text[f]>>
      BY <1>2, <1>4
<1> QED
  BY <1>5 DEF slice

\* A slice is found where it was cut.
LEMMA SliceFound ==
    ASSUME NEW text, Distinct(text), NEW f \in 1 .. Len(text), NEW t \in f .. Len(text)
    PROVE  Start(text, SubSeq(text, f, t)) = f /\ End(text, SubSeq(text, f, t)) = t
<1>1. text \in Seq(Word) /\ Len(text) \in Nat /\ DOMAIN text = 1 .. Len(text)
      BY LenProperties DEF Distinct
<1> DEFINE slice == SubSeq(text, f, t)
<1>2. Len(slice) = t - f + 1 /\ slice[1] = text[f]
  <2>1. /\ Len(slice) = t - f + 1
        /\ \A i \in 1 .. t - f + 1 : slice[i] = text[f + i - 1]
        BY <1>1, SliceShape
  <2>2. 1 \in 1 .. t - f + 1 /\ f + 1 - 1 = f
        BY <1>1
  <2> QED
    BY <2>1, <2>2
<1> HIDE DEF slice
<1>3. \A k \in DOMAIN text : text[k] = slice[1] <=> k = f
      BY <1>1, <1>2 DEF Distinct
<1>4. f \in DOMAIN text
      BY <1>1
<1>5. Start(text, slice) = f
      BY <1>3, <1>4 DEF Start
<1>6. End(text, slice) = t
      BY <1>1, <1>2, <1>5 DEF End
<1> QED
  BY <1>5, <1>6 DEF slice

\* The budget of an overlap is no more than the limit.
LEMMA BudgetIsNumber == OverlapBudget \in Nat /\ OverlapBudget <= Limit
<1>1. Limit \div 2 \in Nat /\ Limit \div 2 <= Limit /\ Overlap \in Nat
      BY ChunkLimitsAssumption
<1> QED
  BY <1>1, ChunkLimitsAssumption DEF OverlapBudget

-----------------------------------------------------------------------------
\* Chunks that cover a stretch, and chunks that cover the next one.
LEMMA CoversConcat ==
    ASSUME NEW text, Distinct(text), NEW x \in Seq(Unit), NEW y \in Seq(Unit),
           NEW a \in Nat, NEW b \in a .. Len(text), NEW c \in b .. Len(text),
           Covers(text, x, a, b), Covers(text, y, b, c)
    PROVE  Covers(text, x \o y, a, c)
<1> DEFINE z == x \o y
           n == Len(x)
           m == Len(y)
<1>1. /\ n \in Nat /\ m \in Nat /\ Len(text) \in Nat
      /\ DOMAIN x = 1 .. n /\ DOMAIN y = 1 .. m
      BY LenProperties DEF Distinct
<1>2. /\ z \in Seq(Unit) /\ Len(z) = n + m /\ DOMAIN z = 1 .. n + m
      /\ \A k \in 1 .. n + m : z[k] = IF k <= n THEN x[k] ELSE y[k - n]
      BY ConcatProperties, LenProperties
<1>3. /\ x = <<>> <=> n = 0
      /\ y = <<>> <=> m = 0
      /\ z = <<>> <=> n + m = 0
      BY <1>2, EmptySeq
<1> HIDE DEF z, n, m
<1>4. /\ \A k \in 1 .. n : k \in 1 .. n + m /\ z[k] = x[k]
      /\ \A k \in 1 .. m : n + k \in 1 .. n + m /\ z[n + k] = y[k]
      BY <1>1, <1>2
<1>5. ASSUME NEW k \in 1 .. n + m
      PROVE  /\ z[k] # <<>>
             /\ Start(text, z[k]) \in a + 1 .. c
             /\ End(text, z[k]) \in Start(text, z[k]) .. c
             /\ z[k] = SubSeq(text, Start(text, z[k]), End(text, z[k]))
  <2>1. CASE k <= n
    <3>1. k \in DOMAIN x /\ z[k] = x[k]
          BY <1>1, <1>2, <2>1
    <3>2. /\ x[k] # <<>>
          /\ Start(text, x[k]) \in a + 1 .. b /\ End(text, x[k]) \in Start(text, x[k]) .. b
          /\ x[k] = SubSeq(text, Start(text, x[k]), End(text, x[k]))
          BY <3>1 DEF Covers
    <3> QED
      BY <1>1, <3>1, <3>2
  <2>2. CASE ~(k <= n)
    <3>1. k - n \in DOMAIN y /\ z[k] = y[k - n]
          BY <1>1, <1>2, <2>2
    <3>2. /\ y[k - n] # <<>>
          /\ Start(text, y[k - n]) \in b + 1 .. c
          /\ End(text, y[k - n]) \in Start(text, y[k - n]) .. c
          /\ y[k - n] = SubSeq(text, Start(text, y[k - n]), End(text, y[k - n]))
          BY <3>1 DEF Covers
    <3> QED
      BY <1>1, <3>1, <3>2
  <2> QED
    BY <2>1, <2>2
<1>6. z = <<>> => a = c
      BY <1>1, <1>3 DEF Covers
<1>7. ASSUME z # <<>> PROVE Start(text, z[1]) = a + 1 /\ End(text, z[n + m]) = c
  <2>1. Start(text, z[1]) = a + 1
    <3>1. CASE n = 0
      <4>1. z[1] = y[1] /\ a = b /\ y # <<>>
            BY <1>1, <1>3, <1>4, <1>7, <3>1 DEF Covers
      <4> QED
        BY <4>1 DEF Covers
    <3>2. CASE n # 0
      <4>1. z[1] = x[1] /\ x # <<>>
            BY <1>1, <1>3, <1>4, <3>2
      <4> QED
        BY <4>1 DEF Covers
    <3> QED
      BY <3>1, <3>2
  <2>2. End(text, z[n + m]) = c
    <3>1. CASE m = 0
      <4>1. z[n + m] = x[n] /\ b = c /\ x # <<>>
            BY <1>1, <1>3, <1>4, <1>7, <3>1 DEF Covers
      <4> QED
        BY <4>1 DEF Covers, Last, n
    <3>2. CASE m # 0
      <4>1. z[n + m] = y[m] /\ y # <<>>
            BY <1>1, <1>3, <1>4, <3>2
      <4> QED
        BY <4>1 DEF Covers, Last, m
    <3> QED
      BY <3>1, <3>2
  <2> QED
    BY <2>1, <2>2
<1>8. ASSUME NEW k \in 1 .. n + m - 1 PROVE Follows(text, z[k], z[k + 1])
  <2>1. CASE k < n
    <3>1. k \in 1 .. n - 1 /\ z[k] = x[k] /\ z[k + 1] = x[k + 1]
          BY <1>1, <1>4, <2>1
    <3> QED
      BY <3>1 DEF Covers, n
  <2>2. CASE k = n
    <3>1. z[k] = x[n] /\ z[k + 1] = y[1] /\ x # <<>> /\ y # <<>> /\ 1 \in DOMAIN y
          BY <1>1, <1>3, <1>4, <2>2
    <3>2. /\ End(text, z[k]) = b /\ Start(text, z[k + 1]) = b + 1
          /\ End(text, z[k + 1]) \in b + 1 .. c
          BY <3>1 DEF Covers, Last, n
    <3>3. SubSeq(text, b + 1, b) = <<>>
          BY SubSeqEmpty
    <3>4. Width(<<>>) <= OverlapBudget
          BY WidthIsNumber, BudgetIsNumber
    <3>5. Width(SubSeq(text, Start(text, z[k + 1]), End(text, z[k]))) <= OverlapBudget
          BY <3>2, <3>3, <3>4
    <3>6. Start(text, z[k + 1]) <= End(text, z[k]) + 1 /\ End(text, z[k]) < End(text, z[k + 1])
          BY <3>2
    <3> QED
      BY <3>5, <3>6 DEF Follows
  <2>3. CASE k > n
    <3>1. PICK j \in 1 .. m - 1 : k = n + j
      <4>1. k - n \in 1 .. m - 1 /\ k = n + (k - n)
            BY <1>1, <2>3
      <4> QED
        BY <4>1
    <3>2. j \in 1 .. m /\ j + 1 \in 1 .. m /\ k + 1 = n + (j + 1)
          BY <1>1, <3>1
    <3>3. z[k] = y[j] /\ z[k + 1] = y[j + 1]
          BY <1>4, <3>1, <3>2
    <3> QED
      BY <3>1, <3>3 DEF Covers, m
  <2> QED
    BY <1>1, <2>1, <2>2, <2>3
<1>9. Covers(text, z, a, c)
  <2>1. z # <<>> => Start(text, z[1]) = a + 1 /\ End(text, Last(z)) = c
        BY <1>2, <1>7 DEF Last
  <2>2. ASSUME NEW k \in 1 .. Len(z) - 1 PROVE Follows(text, z[k], z[k + 1])
    <3>1. k \in 1 .. n + m - 1
          BY <1>1, <1>2
    <3> QED
      BY <1>8, <3>1
  <2> QED
    BY <1>2, <1>5, <1>6, <2>1, <2>2 DEF Covers
<1> QED
  BY <1>9 DEF z

\* One chunk more, that repeats no more than it may.
LEMMA CoversAppend ==
    ASSUME NEW text, Distinct(text), NEW x \in Seq(Unit),
           NEW a \in Nat, NEW p \in a .. Len(text), NEW b \in p + 1 .. Len(text),
           NEW f \in a + 1 .. p + 1, Covers(text, x, a, p),
           x # <<>> => Width(SubSeq(text, f, p)) <= OverlapBudget
    PROVE  Covers(text, Append(x, SubSeq(text, f, b)), a, b)
<1> DEFINE slice == SubSeq(text, f, b)
           z == Append(x, slice)
           n == Len(x)
<1>1. /\ n \in Nat /\ Len(text) \in Nat /\ text \in Seq(Word)
      /\ DOMAIN x = 1 .. n /\ f \in 1 .. Len(text) /\ b \in f .. Len(text)
      BY LenProperties DEF Distinct
<1>2. slice \in Unit /\ Start(text, slice) = f /\ End(text, slice) = b
      BY <1>1, SliceShape, SliceFound
<1>3. /\ z \in Seq(Unit) /\ Len(z) = n + 1 /\ DOMAIN z = 1 .. n + 1 /\ z # <<>>
      /\ \A k \in 1 .. n : z[k] = x[k]
      /\ z[n + 1] = slice
  <2> HIDE DEF slice
  <2> QED
    BY <1>2, AppendProperties, LenProperties
<1>4. x = <<>> <=> n = 0
      BY EmptySeq
<1>5. slice = SubSeq(text, Start(text, slice), End(text, slice))
      BY <1>2
<1> HIDE DEF z, n, slice
<1>6. ASSUME NEW k \in 1 .. n + 1
      PROVE  /\ z[k] # <<>>
             /\ Start(text, z[k]) \in a + 1 .. b
             /\ End(text, z[k]) \in Start(text, z[k]) .. b
             /\ z[k] = SubSeq(text, Start(text, z[k]), End(text, z[k]))
  <2>1. CASE k <= n
    <3>1. k \in DOMAIN x /\ z[k] = x[k]
          BY <1>1, <1>3, <2>1
    <3>2. /\ x[k] # <<>>
          /\ Start(text, x[k]) \in a + 1 .. p /\ End(text, x[k]) \in Start(text, x[k]) .. p
          /\ x[k] = SubSeq(text, Start(text, x[k]), End(text, x[k]))
          BY <3>1 DEF Covers
    <3> QED
      BY <1>1, <3>1, <3>2
  <2>2. CASE ~(k <= n)
    <3>1. z[k] = slice
          BY <1>1, <1>3, <2>2
    <3>2. slice # <<>> /\ Start(text, slice) \in a + 1 .. b
          /\ End(text, slice) \in Start(text, slice) .. b
          BY <1>1, <1>2 DEF Unit
    <3> QED
      BY <1>5, <3>1, <3>2
  <2> QED
    BY <2>1, <2>2
<1>7. Start(text, z[1]) = a + 1 /\ End(text, z[n + 1]) = b
  <2>1. CASE n = 0
    <3>1. z[1] = slice /\ p = a
          BY <1>1, <1>3, <1>4, <2>1 DEF Covers
    <3>2. f = a + 1
          BY <1>1, <3>1
    <3> QED
      BY <1>2, <1>3, <2>1, <3>1, <3>2
  <2>2. CASE n # 0
    <3>1. z[1] = x[1] /\ x # <<>>
          BY <1>1, <1>3, <1>4, <2>2
    <3> QED
      BY <1>2, <1>3, <3>1 DEF Covers
  <2> QED
    BY <2>1, <2>2
<1>8. ASSUME NEW k \in 1 .. n PROVE Follows(text, z[k], z[k + 1])
  <2>1. CASE k < n
    <3>1. k \in 1 .. n - 1 /\ z[k] = x[k] /\ z[k + 1] = x[k + 1]
          BY <1>1, <1>3, <2>1
    <3> QED
      BY <3>1 DEF Covers, n
  <2>2. CASE k = n
    <3>1. z[k] = x[n] /\ z[k + 1] = slice /\ x # <<>>
          BY <1>1, <1>3, <1>4, <2>2
    <3>2. End(text, z[k]) = p
          BY <3>1 DEF Covers, Last, n
    <3>3. Width(SubSeq(text, f, p)) <= OverlapBudget
          BY <3>1
    <3> QED
      BY <1>1, <1>2, <3>1, <3>2, <3>3 DEF Follows
  <2> QED
    BY <1>1, <2>1, <2>2
<1>9. n + 1 - 1 = n
      BY <1>1
<1>10. Covers(text, z, a, b)
  <2>1. Start(text, z[1]) = a + 1 /\ End(text, Last(z)) = b
        BY <1>3, <1>7 DEF Last
  <2>2. ASSUME NEW k \in 1 .. Len(z) - 1 PROVE Follows(text, z[k], z[k + 1])
    <3>1. k \in 1 .. n
          BY <1>1, <1>3
    <3> QED
      BY <1>8, <3>1
  <2> QED
    BY <1>3, <1>6, <2>1, <2>2 DEF Covers
<1> QED
  BY <1>10 DEF z, slice

\* The last chunk goes on.
LEMMA CoversExtend ==
    ASSUME NEW text, Distinct(text), NEW x \in Seq(Unit), x # <<>>,
           NEW a \in Nat, NEW p \in a .. Len(text), NEW b \in p + 1 .. Len(text),
           Covers(text, x, a, p)
    PROVE  Covers(text, Front(x) \o <<Last(x) \o SubSeq(text, p + 1, b)>>, a, b)
<1> DEFINE n == Len(x)
           f == Start(text, x[n])
           slice == SubSeq(text, f, b)
           z == Front(x) \o <<slice>>
<1>1. /\ n \in Nat \ {0} /\ Len(text) \in Nat /\ text \in Seq(Word)
      /\ DOMAIN x = 1 .. n /\ n \in DOMAIN x
      BY EmptySeq, LenProperties DEF Distinct
<1>2. /\ f \in a + 1 .. p /\ End(text, x[n]) = p
      /\ x[n] = SubSeq(text, f, End(text, x[n]))
      BY <1>1 DEF Covers, Last
<1> HIDE DEF f
<1>3. /\ f \in 1 .. Len(text) /\ b \in f .. Len(text)
      /\ f \in 1 .. Len(text) + 1 /\ p \in f - 1 .. Len(text) /\ b \in p .. Len(text)
      BY <1>1, <1>2
<1>4. Last(x) \o SubSeq(text, p + 1, b) = slice
      BY <1>1, <1>2, <1>3, ConcatAdjacentSubSeq DEF Last
<1>5. slice \in Unit /\ Start(text, slice) = f /\ End(text, slice) = b
      BY <1>1, <1>3, SliceShape, SliceFound
<1>6. slice = SubSeq(text, Start(text, slice), End(text, slice))
      BY <1>5
<1> HIDE DEF slice
<1>7. /\ z \in Seq(Unit) /\ Len(z) = n /\ DOMAIN z = 1 .. n /\ z # <<>>
      /\ \A k \in 1 .. n - 1 : z[k] = x[k]
      /\ z[n] = slice
  <2>1. \A i \in 1 .. n - 1 : x[i] \in Unit
        BY <1>1, ElementOfSeq
  <2>2. /\ Front(x) \in Seq(Unit) /\ Len(Front(x)) = n - 1
        /\ \A i \in 1 .. n - 1 : Front(x)[i] = x[i]
        BY <1>1, <2>1, SubSeqProperties DEF Front
  <2>3. <<slice>> \in Seq(Unit) /\ Len(<<slice>>) = 1 /\ <<slice>>[1] = slice
        BY <1>5
  <2>4. /\ z \in Seq(Unit) /\ Len(z) = n
        /\ \A k \in 1 .. n : z[k] = IF k <= n - 1 THEN Front(x)[k] ELSE <<slice>>[k - (n - 1)]
    <3>1. PICK u \in Seq(Unit), v \in Seq(Unit) :
             u = Front(x) /\ v = <<slice>> /\ Len(u) = n - 1 /\ Len(v) = 1
          BY <2>2, <2>3
    <3>2. /\ u \o v \in Seq(Unit) /\ Len(u \o v) = Len(u) + Len(v)
          /\ \A k \in 1 .. Len(u) + Len(v) :
                (u \o v)[k] = IF k <= Len(u) THEN u[k] ELSE v[k - Len(u)]
          BY ConcatProperties
    <3>3. n - 1 + 1 = n
          BY <1>1
    <3> QED
      BY <3>1, <3>2, <3>3
  <2> HIDE DEF z
  <2>5. z[n] = <<slice>>[1]
        BY <1>1, <2>4
  <2>6. \A k \in 1 .. n - 1 : z[k] = x[k]
        BY <1>1, <2>2, <2>4
  <2> QED
    BY <1>1, <2>3, <2>4, <2>5, <2>6, LenProperties, EmptySeq
<1> HIDE DEF z, n
<1>8. ASSUME NEW k \in 1 .. n
      PROVE  /\ z[k] # <<>>
             /\ Start(text, z[k]) \in a + 1 .. b
             /\ End(text, z[k]) \in Start(text, z[k]) .. b
             /\ z[k] = SubSeq(text, Start(text, z[k]), End(text, z[k]))
  <2>1. CASE k # n
    <3>1. k \in DOMAIN x /\ z[k] = x[k]
          BY <1>1, <1>7, <2>1
    <3>2. /\ x[k] # <<>>
          /\ Start(text, x[k]) \in a + 1 .. p /\ End(text, x[k]) \in Start(text, x[k]) .. p
          /\ x[k] = SubSeq(text, Start(text, x[k]), End(text, x[k]))
          BY <3>1 DEF Covers
    <3> QED
      BY <1>1, <3>1, <3>2
  <2>2. CASE k = n
        BY <1>1, <1>2, <1>5, <1>6, <1>7, <2>2 DEF Unit
  <2> QED
    BY <2>1, <2>2
<1>9. Start(text, z[1]) = a + 1 /\ End(text, z[n]) = b
  <2>1. Start(text, x[1]) = a + 1
        BY DEF Covers
  <2>2. CASE n = 1
        BY <1>5, <1>7, <2>1, <2>2 DEF f
  <2>3. CASE n # 1
    <3>1. z[1] = x[1]
          BY <1>1, <1>7, <2>3
    <3> QED
      BY <1>5, <1>7, <2>1, <3>1
  <2> QED
    BY <2>2, <2>3
<1>10. ASSUME NEW k \in 1 .. n - 1 PROVE Follows(text, z[k], z[k + 1])
  <2>1. Follows(text, x[k], x[k + 1])
        BY <1>10 DEF Covers, n
  <2>2. CASE k + 1 # n
    <3>1. z[k] = x[k] /\ z[k + 1] = x[k + 1]
          BY <1>1, <1>7, <2>2
    <3> QED
      BY <2>1, <3>1
  <2>3. CASE k + 1 = n
    <3>1. z[k] = x[k] /\ z[k + 1] = slice /\ x[k + 1] = x[n]
          BY <1>1, <1>7, <2>3
    <3>2. k \in DOMAIN x
          BY <1>1
    <3>3. End(text, x[k]) \in Nat /\ Start(text, slice) = Start(text, x[n])
      <4>1. Start(text, x[k]) \in a + 1 .. p /\ End(text, x[k]) \in Start(text, x[k]) .. p
            BY <3>2 DEF Covers
      <4> QED
        BY <1>5, <4>1 DEF f
    <3>4. End(text, x[k]) < End(text, slice)
          BY <1>2, <1>5, <2>1, <3>1, <3>3 DEF Follows
    <3> QED
      BY <2>1, <3>1, <3>3, <3>4 DEF Follows
  <2> QED
    BY <2>2, <2>3
<1>11. Covers(text, z, a, b)
      BY <1>7, <1>8, <1>9, <1>10 DEF Covers, Last
<1> QED
  BY <1>4, <1>11 DEF z

-----------------------------------------------------------------------------
\* What is pending after place b of the text, when the text after a is chunked: it
\* begins where the chunks end, or overlaps the last one and is too long to be
\* joined to it.
Open(text, chunks, pending, a, b, p, f) ==
    /\ FlattenSeq(pending) = SubSeq(text, f, b)
    /\ Covers(text, chunks, a, p)
    /\ chunks # <<>> => Width(SubSeq(text, f, p)) <= OverlapBudget
    /\ f <= p => Width(Last(chunks) \o FlattenSeq(pending)) > Limit

Chops(text, state, a, b) ==
    IF state.pending = <<>> THEN Covers(text, state.chunks, a, b)
    ELSE \E p \in a .. b - 1 : \E f \in a + 1 .. p + 1 :
             Open(text, state.chunks, state.pending, a, b, p, f)

\* Chunks that fit are units, and units are sequences of words.
LEMMA ChunksAreUnits ==
    /\ \A chunks \in Seq(FittingChunk) : chunks \in Seq(Unit)
    /\ \A units \in Seq(Unit) : units \in Seq(Seq(Word))
<1>1. FittingChunk \subseteq Unit /\ Unit \subseteq Seq(Word)
      BY DEF FittingChunk, Unit
<1> QED
  BY <1>1, SeqMonotonic

\* A part of a sequence, possibly empty, is one of the same elements.
LEMMA PartOfSeq ==
    ASSUME NEW S, NEW s \in Seq(S), NEW m \in 1 .. Len(s) + 1, NEW n \in m - 1 .. Len(s)
    PROVE  SubSeq(s, m, n) \in Seq(S)
<1>1. Len(s) \in Nat
      BY LenProperties
<1>2. \A i \in m .. n : s[i] \in S
      BY <1>1, ElementOfSeq
<1> QED
  BY <1>1, <1>2, SubSeqProperties

\* A sequence that is not empty is its front and its last element.
LEMMA FrontAndLast ==
    ASSUME NEW S, NEW s \in Seq(S), s # <<>>
    PROVE  Front(s) \in Seq(S) /\ Last(s) \in S /\ Len(s) \in Nat \ {0}
<1>1. Len(s) \in Nat \ {0}
      BY EmptySeq
<1>2. Last(s) \in S
      BY <1>1, ElementOfSeq DEF Last
<1>3. Front(s) \in Seq(S)
  <2>1. 1 \in 1 .. Len(s) + 1 /\ Len(s) - 1 \in 1 - 1 .. Len(s)
        BY <1>1
  <2> QED
    BY <2>1, PartOfSeq DEF Front
<1> QED
  BY <1>1, <1>2, <1>3

\* What is flushed covers the text, and ends with what was pending.
LEMMA FlushCovers ==
    ASSUME NEW text, Distinct(text), NEW state \in Chopped,
           NEW a \in Nat, NEW b \in a .. Len(text), Chops(text, state, a, b)
    PROVE  LET flushed == FlushUnits(state.chunks, state.pending)
           IN /\ Covers(text, flushed, a, b)
              /\ state.pending # <<>> =>
                    /\ flushed # <<>>
                    /\ \E x \in Seq(Word) : Last(flushed) = x \o FlattenSeq(state.pending)
<1> DEFINE flushed == FlushUnits(state.chunks, state.pending)
           chunk == FlattenSeq(state.pending)
           Joins == /\ state.chunks # <<>>
                    /\ Width(chunk) < ShortChunk
                    /\ Width(Last(state.chunks) \o chunk) <= Limit
<1>1. /\ state.chunks \in Seq(Unit) /\ state.pending \in Seq(Unit)
      /\ text \in Seq(Word) /\ Len(text) \in Nat
      BY ChunksAreUnits, LenProperties DEF Chopped, Distinct
<1>2. CASE state.pending = <<>>
      BY <1>2 DEF FlushUnits, Chops
<1>3. CASE state.pending # <<>>
  <2>0. PICK p \in a .. b - 1 : \E f \in a + 1 .. p + 1 :
           Open(text, state.chunks, state.pending, a, b, p, f)
        BY <1>3 DEF Chops
  <2>1. PICK f \in a + 1 .. p + 1 :
           Open(text, state.chunks, state.pending, a, b, p, f)
        BY <2>0
  <2>2. /\ p \in Nat /\ p \in a .. Len(text) /\ b \in p + 1 .. Len(text)
        /\ f \in 1 .. Len(text) /\ b \in f .. Len(text)
        BY <1>1, <2>1
  <2>3. chunk = SubSeq(text, f, b) /\ chunk \in Unit
        BY <1>1, <2>1, <2>2, SliceShape DEF Open
  <2>4. Covers(text, state.chunks, a, p)
        BY <2>1 DEF Open
  <2> HIDE DEF chunk
  <2>5. CASE Joins
    <3>1. flushed = Front(state.chunks) \o <<Last(state.chunks) \o chunk>>
          BY <1>3, <2>5 DEF FlushUnits, chunk
    <3>2. f = p + 1
      <4>1. ~(f <= p)
        <5>1. Last(state.chunks) \o chunk \in Seq(Word)
          <6>2. Last(state.chunks) \in Seq(Word)
                BY <1>1, <2>5, FrontAndLast DEF Unit
          <6> QED
            BY <2>3, <6>2, ConcatProperties DEF Unit
        <5>2. Width(Last(state.chunks) \o chunk) \in Nat /\ Limit \in Nat
              BY <5>1, WidthIsNumber, ChunkLimitsAssumption
        <5> QED
          BY <2>1, <2>5, <5>2 DEF Open, chunk
      <4> QED
        BY <2>1, <2>2, <4>1
    <3>3. Covers(text, flushed, a, b)
          BY <1>1, <2>2, <2>3, <2>4, <2>5, <3>1, <3>2, CoversExtend
    <3>4. /\ flushed # <<>>
          /\ \E x \in Seq(Word) : Last(flushed) = x \o chunk
      <4>1. Front(state.chunks) \in Seq(Unit) /\ Last(state.chunks) \in Seq(Word)
            BY <1>1, <2>5, FrontAndLast DEF Unit
      <4>2. PICK x \in Seq(Word) : x = Last(state.chunks)
            BY <4>1
      <4>4. PICK front \in Seq(Unit) : front = Front(state.chunks)
            BY <4>1
      <4>5. PICK whole \in Seq(Word) : whole = x \o chunk /\ whole # <<>>
            BY <2>3, ConcatProperties, ConcatEqualIffEmpty DEF Unit
      <4>6. flushed = Append(front, whole) /\ whole \in Unit
        <5>1. whole \in Unit
              BY <4>5 DEF Unit
        <5>2. Append(front, whole) = front \o <<whole>>
              BY <5>1, AppendIsConcat
        <5> QED
          BY <3>1, <4>2, <4>4, <4>5, <5>1, <5>2
      <4>7. flushed # <<>> /\ Last(flushed) = whole
        <5>1. /\ Append(front, whole) # <<>>
              /\ Len(Append(front, whole)) = Len(front) + 1
              /\ Append(front, whole)[Len(front) + 1] = whole
              BY <4>6, AppendProperties
        <5> QED
          BY <4>6, <5>1 DEF Last
      <4> QED
        BY <4>5, <4>7
    <3> QED
      BY <3>3, <3>4 DEF chunk
  <2>6. CASE ~Joins
    <3>1. flushed = Append(state.chunks, chunk)
          BY <1>3, <2>6 DEF FlushUnits, chunk
    <3>2. Covers(text, flushed, a, b)
      <4>1. state.chunks # <<>> => Width(SubSeq(text, f, p)) <= OverlapBudget
            BY <2>1 DEF Open
      <4> QED
        BY <1>1, <2>1, <2>2, <2>3, <2>4, <3>1, <4>1, CoversAppend
    <3>3. flushed # <<>> /\ Last(flushed) = chunk
      <4>1. /\ Append(state.chunks, chunk) # <<>>
            /\ Len(Append(state.chunks, chunk)) = Len(state.chunks) + 1
            /\ Append(state.chunks, chunk)[Len(state.chunks) + 1] = chunk
        <5>1. PICK c \in Unit : c = chunk
              BY <2>3
        <5>2. /\ Append(state.chunks, c) # <<>>
              /\ Len(Append(state.chunks, c)) = Len(state.chunks) + 1
              /\ Append(state.chunks, c)[Len(state.chunks) + 1] = c
              BY <1>1, AppendProperties
        <5> QED
          BY <5>1, <5>2
      <4> QED
        BY <3>1, <4>1 DEF Last
    <3>4. <<>> \in Seq(Word) /\ chunk = <<>> \o chunk
          BY <2>3, EmptySeq, ConcatEmptySeq DEF Unit
    <3> QED
      BY <3>2, <3>3, <3>4 DEF chunk
  <2> QED
    BY <2>5, <2>6
<1> QED
  BY <1>2, <1>3

\* What is kept for the next chunk is the end of what was flushed, within the budget.
LEMMA RetainedIsTail ==
    ASSUME NEW pending \in Seq(Unit)
    PROVE  LET kept == RetainOverlap(pending)
           IN /\ JoinedLen(kept) <= OverlapBudget
              /\ \E x \in Seq(Word) : FlattenSeq(pending) = x \o FlattenSeq(kept)
<1> DEFINE n == Len(pending)
           Within(k) == JoinedLen(SubSeq(pending, k, n)) <= OverlapBudget
           S == {k \in 1 .. n + 1 : Within(k)}
<1>1. n \in Nat
      BY LenProperties
<1>2. OverlapBudget \in Nat
      BY BudgetIsNumber
<1>3. n + 1 \in S
  <2>1. SubSeq(pending, n + 1, n) = <<>>
        BY <1>1, SubSeqEmpty
  <2>2. JoinedLen(<<>>) = 0
    <3>1. FlattenSeq(<<>>) = <<>>
          BY DEF FlattenSeq
    <3> QED
      BY <3>1, WidthIsNumber DEF JoinedLen
  <2>3. JoinedLen(SubSeq(pending, n + 1, n)) = 0
        BY <2>1, <2>2, Zenon
  <2>4. n + 1 \in 1 .. n + 1
        BY <1>1
  <2> QED
    BY <1>2, <2>3, <2>4
<1>4. PICK m \in S : Min(S) = m
  <2>1. S \in SUBSET Nat /\ S # {}
        BY <1>3
  <2> HIDE DEF S
  <2>2. PICK k \in S : \A i \in S : ~(i < k)
        BY <2>1, Widening!LeastNumber
  <2>3. \A i \in S : k <= i
        BY <2>1, <2>2
  <2> QED
    BY <2>1, <2>3 DEF Min
<1>5. RetainOverlap(pending) = SubSeq(pending, m, n)
      BY <1>4 DEF RetainOverlap
<1>6. m \in 1 .. n + 1 /\ Within(m)
      BY <1>4
<1> HIDE DEF S
<1>7. SubSeq(pending, 1, m - 1) \o SubSeq(pending, m, n) = pending
  <2>1. m - 1 + 1 = m /\ 1 \in 1 .. n + 1 /\ m - 1 \in 1 - 1 .. n /\ n \in m - 1 .. n
        BY <1>1, <1>6
  <2>2. SubSeq(pending, 1, m - 1) \o SubSeq(pending, m - 1 + 1, n) = SubSeq(pending, 1, n)
        BY <2>1, ConcatAdjacentSubSeq
  <2> QED
    BY <2>1, <2>2, SubSeqFull
<1>8. PICK u \in Seq(Unit), v \in Seq(Unit) :
         u = SubSeq(pending, 1, m - 1) /\ v = SubSeq(pending, m, n)
  <2>1. /\ 1 \in 1 .. n + 1 /\ m - 1 \in 1 - 1 .. n
        /\ n \in m - 1 .. n
        BY <1>1, <1>6
  <2> QED
    BY <1>6, <2>1, PartOfSeq
<1>9. FlattenSeq(u \o v) = FlattenSeq(u) \o FlattenSeq(v) /\ FlattenSeq(u) \in Seq(Word)
  <2>1. u \in Seq(Seq(Word)) /\ v \in Seq(Seq(Word))
        BY ChunksAreUnits
  <2>2. FlattenSeq(u \o v) = FlattenSeq(u) \o FlattenSeq(v)
        BY <2>1, FlattenConcat
  <2> QED
    BY <2>2, UnitsJoin
<1> QED
  BY <1>5, <1>6, <1>7, <1>8, <1>9

\* One more unit.
LEMMA TakeUnitCovers ==
    ASSUME NEW text, Distinct(text), NEW state \in Chopped,
           NEW a \in Nat, NEW b \in a .. Len(text), NEW c \in b + 1 .. Len(text),
           NEW unit \in Unit, NEW pieces \in Seq(FittingChunk),
           Chops(text, state, a, b),
           Width(unit) <= Limit => unit = SubSeq(text, b + 1, c),
           Width(unit) > Limit => Covers(text, pieces, b, c)
    PROVE  Chops(text, TakeUnit(state, unit, pieces), a, c)
<1> DEFINE flushed == FlushUnits(state.chunks, state.pending)
           kept == RetainOverlap(state.pending)
           grown == Append(state.pending, unit)
<1>1. /\ state.chunks \in Seq(Unit) /\ state.chunks \in Seq(FittingChunk)
      /\ state.pending \in Seq(Unit) /\ JoinedLen(state.pending) <= Limit
      /\ pieces \in Seq(Unit) /\ unit \in Seq(Word) /\ unit # <<>>
      /\ text \in Seq(Word) /\ Len(text) \in Nat
      BY ChunksAreUnits, LenProperties DEF Chopped, Distinct, Unit
<1>2. /\ b \in Nat /\ c \in Nat /\ b < c /\ a <= b
      BY <1>1
<1>3. Width(unit) \in Nat /\ Limit \in Nat
      BY <1>1, WidthIsNumber, ChunkLimitsAssumption
<1>4. /\ flushed \in Seq(Unit) /\ Covers(text, flushed, a, b)
      /\ state.pending # <<>> =>
            /\ flushed # <<>>
            /\ \E x \in Seq(Word) : Last(flushed) = x \o FlattenSeq(state.pending)
  <2>1. flushed \in Seq(FittingChunk)
        BY <1>1, FlushFits
  <2> QED
    BY <2>1, ChunksAreUnits, FlushCovers
<1>5. \A units \in Seq(Unit) :
         FlattenSeq(Append(units, unit)) = FlattenSeq(units) \o unit
         /\ FlattenSeq(units) \in Seq(Word)
  <2> TAKE units \in Seq(Unit)
  <2>1. units \in Seq(Seq(Word))
        BY ChunksAreUnits
  <2>2. FlattenSeq(Append(units, unit)) = FlattenSeq(units) \o unit
        BY <1>1, <2>1, FlattenAppend
  <2> QED
    BY <2>2, UnitsJoin
<1>6. CASE Width(unit) > Limit
  <2>1. TakeUnit(state, unit, pieces) = [chunks |-> flushed \o pieces, pending |-> <<>>]
        BY <1>3, <1>6 DEF TakeUnit
  <2> HIDE DEF flushed
  <2>2. c \in b .. Len(text)
        BY <1>2
  <2>3. Covers(text, flushed \o pieces, a, c)
        BY <1>1, <1>4, <1>6, <2>2, CoversConcat
  <2> QED
    BY <2>1, <2>3 DEF Chops
<1>7. CASE Width(unit) <= Limit /\ JoinedLen(grown) <= Limit
  <2>1. TakeUnit(state, unit, pieces) = [state EXCEPT !.pending = grown]
        BY <1>3, <1>7 DEF TakeUnit
  <2>2. grown # <<>> /\ FlattenSeq(grown) = FlattenSeq(state.pending) \o unit
    <3>1. FlattenSeq(grown) = FlattenSeq(state.pending) \o unit
          BY <1>1, <1>5
    <3>2. grown # <<>>
      <4>1. PICK s \in Seq(Unit) : s = state.pending
            BY <1>1
      <4>2. Append(s, unit) # <<>>
            BY AppendProperties
      <4> QED
        BY <4>1, <4>2
    <3> QED
      BY <3>1, <3>2
  <2> HIDE DEF grown
  <2>3. /\ TakeUnit(state, unit, pieces).pending = grown
        /\ TakeUnit(state, unit, pieces).chunks = state.chunks
        BY <2>1 DEF Chopped
  <2>4. unit = SubSeq(text, b + 1, c)
        BY <1>7
  <2>5. CASE state.pending = <<>>
    <3>1. FlattenSeq(grown) = SubSeq(text, b + 1, c)
      <4>1. FlattenSeq(<<>>) = <<>>
            BY DEF FlattenSeq
      <4>2. <<>> \o unit = unit
            BY <1>1, ConcatEmptySeq
      <4> QED
        BY <2>2, <2>4, <2>5, <4>1, <4>2
    <3>2. Covers(text, state.chunks, a, b)
          BY <2>5 DEF Chops
    <3>3. Width(SubSeq(text, b + 1, b)) <= OverlapBudget
      <4>1. SubSeq(text, b + 1, b) = <<>>
            BY <1>2, SubSeqEmpty
      <4>2. Width(<<>>) <= OverlapBudget
            BY WidthIsNumber, BudgetIsNumber
      <4> QED
        BY <4>1, <4>2
    <3>4. ~(b + 1 <= b) /\ b \in a .. c - 1 /\ b + 1 \in a + 1 .. b + 1
          BY <1>2
    <3>5. Open(text, state.chunks, grown, a, c, b, b + 1)
          BY <3>1, <3>2, <3>3, <3>4 DEF Open
    <3> QED
      BY <2>2, <2>3, <3>4, <3>5 DEF Chops
  <2>6. CASE state.pending # <<>>
    <3>1. PICK p \in a .. b - 1 : \E f \in a + 1 .. p + 1 :
             Open(text, state.chunks, state.pending, a, b, p, f)
          BY <2>6 DEF Chops
    <3>2. PICK f \in a + 1 .. p + 1 : Open(text, state.chunks, state.pending, a, b, p, f)
          BY <3>1
    <3>3. FlattenSeq(grown) = SubSeq(text, f, c)
      <4>1. /\ f \in 1 .. Len(text) + 1 /\ b \in f - 1 .. Len(text) /\ c \in b .. Len(text)
            BY <1>1, <1>2, <3>1, <3>2
      <4>2. SubSeq(text, f, b) \o SubSeq(text, b + 1, c) = SubSeq(text, f, c)
            BY <1>1, <4>1, ConcatAdjacentSubSeq
      <4> QED
        BY <2>2, <2>4, <3>2, <4>2 DEF Open
    <3>4. p \in a .. c - 1
          BY <1>2, <3>1
    <3>5. ASSUME f <= p PROVE Width(Last(state.chunks) \o FlattenSeq(grown)) > Limit
      <4>1. state.chunks # <<>>
        <5>1. SUFFICES ASSUME state.chunks = <<>> PROVE FALSE
              OBVIOUS
        <5>2. a = p
              BY <3>2, <5>1 DEF Open, Covers
        <5> QED
          BY <1>2, <3>1, <3>2, <3>5, <5>2
      <4>2. Last(state.chunks) \in Seq(Word)
            BY <1>1, <4>1, FrontAndLast DEF Unit
      <4>3. PICK x \in Seq(Word), y \in Seq(Word) :
               x = Last(state.chunks) /\ y = FlattenSeq(state.pending)
            BY <1>1, <1>5, <4>2
      <4>4. Width(x \o y) > Limit
            BY <3>2, <3>5, <4>3 DEF Open
      <4>5. /\ x \o (y \o unit) = (x \o y) \o unit
            /\ x \o y \in Seq(Word) /\ (x \o y) \o unit \in Seq(Word)
        <5>1. x \o y \in Seq(Word)
              BY ConcatProperties
        <5>2. (x \o y) \o unit \in Seq(Word)
              BY <1>1, <5>1, ConcatProperties
        <5>3. (x \o y) \o unit = x \o (y \o unit)
          <6>1. PICK z \in Seq(Word) : z = unit
                BY <1>1
          <6>2. (x \o y) \o z = x \o (y \o z)
                BY ConcatAssociative
          <6> QED
            BY <6>1, <6>2
        <5> QED
          BY <5>1, <5>2, <5>3
      <4>6. Width(x \o y) <= Width((x \o y) \o unit)
            BY <1>1, <4>5, WidthGrows
      <4>7. Width(x \o y) \in Nat /\ Width((x \o y) \o unit) \in Nat
            BY <4>5, WidthIsNumber
      <4>8. Width((x \o y) \o unit) > Limit
            BY <1>3, <4>4, <4>6, <4>7
      <4> QED
        BY <2>2, <4>3, <4>5, <4>8
    <3>6. Open(text, state.chunks, grown, a, c, p, f)
          BY <3>2, <3>3, <3>5 DEF Open
    <3> QED
      BY <2>2, <2>3, <3>2, <3>4, <3>6 DEF Chops
  <2> QED
    BY <2>5, <2>6
<1>8. CASE Width(unit) <= Limit /\ ~(JoinedLen(grown) <= Limit)
  <2> DEFINE rest == IF JoinedLen(Append(kept, unit)) <= Limit
                     THEN Append(kept, unit) ELSE <<unit>>
  <2>1. TakeUnit(state, unit, pieces) = [chunks |-> flushed, pending |-> rest]
        BY <1>3, <1>8 DEF TakeUnit
  <2>2. unit = SubSeq(text, b + 1, c)
        BY <1>8
  <2>3. state.pending # <<>>
    <3>1. SUFFICES ASSUME state.pending = <<>> PROVE FALSE
          OBVIOUS
    <3>2. FlattenSeq(<<>>) = <<>> /\ <<>> \o unit = unit
      <4>1. FlattenSeq(<<>>) = <<>>
            BY DEF FlattenSeq
      <4> QED
        BY <1>1, <4>1, ConcatEmptySeq
    <3>3. FlattenSeq(grown) = unit
          BY <1>1, <1>5, <3>1, <3>2
    <3> QED
      BY <1>8, <3>3 DEF JoinedLen
  <2>4. PICK p \in a .. b - 1 : \E f \in a + 1 .. p + 1 :
             Open(text, state.chunks, state.pending, a, b, p, f)
        BY <2>3 DEF Chops
  <2>5. PICK f \in a + 1 .. p + 1 : Open(text, state.chunks, state.pending, a, b, p, f)
        BY <2>4
  <2>6. /\ kept \in Seq(Unit) /\ JoinedLen(kept) <= OverlapBudget
        /\ \E x \in Seq(Word) : FlattenSeq(state.pending) = x \o FlattenSeq(kept)
        BY <1>1, RetainedAreUnits, RetainedIsTail
  <2>7. PICK x \in Seq(Word), tail \in Seq(Word) :
           tail = FlattenSeq(kept) /\ FlattenSeq(state.pending) = x \o tail
        BY <1>5, <2>6
  <2>8. PICK end \in Seq(Word) : flushed # <<>> /\ Last(flushed) = end \o (x \o tail)
        BY <1>4, <2>3, <2>7
  <2>9. Width((x \o tail) \o unit) > Limit
    <3>1. FlattenSeq(grown) = (x \o tail) \o unit
          BY <1>1, <1>5, <2>7
    <3>2. (x \o tail) \o unit \in Seq(Word)
          BY <1>1, ConcatProperties
    <3>3. Width((x \o tail) \o unit) \in Nat /\ ~(Width((x \o tail) \o unit) <= Limit)
          BY <1>8, <3>1, <3>2, WidthIsNumber DEF JoinedLen
    <3> QED
      BY <1>3, <3>3
  <2>10. rest # <<>> /\ rest \in Seq(Unit)
    <3>1. Append(kept, unit) # <<>> /\ Append(kept, unit) \in Seq(Unit)
          BY <2>6, AppendProperties
    <3>2. <<unit>> # <<>> /\ <<unit>> \in Seq(Unit)
          BY OneUnit
    <3> QED
      BY <3>1, <3>2
  <2> HIDE DEF flushed, kept, grown, rest
  <2>11. PICK g \in f .. b + 1 : tail = SubSeq(text, g, b)
    <3>1. f \in 1 .. Len(text) /\ b \in f .. Len(text) /\ f \in Nat /\ Len(x) \in Nat /\ Len(tail) \in Nat
          BY <1>1, <1>2, <2>4, <2>5, LenProperties
    <3>2. x \o tail = SubSeq(text, f, b)
          BY <2>5, <2>7 DEF Open
    <3>3. Len(x) + Len(tail) = b - f + 1
      <4>1. Len(x \o tail) = Len(x) + Len(tail)
            BY ConcatProperties
      <4>2. Len(SubSeq(text, f, b)) = b - f + 1
            BY <1>1, <3>1, SliceShape
      <4> QED
        BY <3>2, <4>1, <4>2
    <3>4. f + Len(x) \in f .. b + 1 /\ f + Len(x) \in 1 .. Len(text) + 1
          BY <1>1, <3>1, <3>3
    <3>5. tail = SubSeq(text, f + Len(x), b)
      <4> DEFINE g == f + Len(x)
                 slice == SubSeq(text, g, b)
      <4>1. b \in g - 1 .. Len(text)
            BY <1>1, <3>1, <3>4
      <4>2. \A i \in g .. b : text[i] \in Word
            BY <1>1, <3>1, <3>4, ElementOfSeq
      <4>3. slice \in Seq(Word) /\ Len(slice) = Len(tail)
            /\ \A i \in 1 .. b - g + 1 : slice[i] = text[g + i - 1]
        <5>1. /\ slice \in Seq(Word) /\ Len(slice) = IF g <= b THEN b - g + 1 ELSE 0
              /\ \A i \in 1 .. b - g + 1 : slice[i] = text[g + i - 1]
              BY <3>1, <4>2, SubSeqProperties
        <5> HIDE DEF slice
        <5>2. CASE g <= b
          <6>1. b - g + 1 = Len(tail)
                BY <1>2, <3>1, <3>3
          <6> QED
            BY <5>1, <5>2, <6>1
        <5>3. CASE ~(g <= b)
          <6>1. Len(tail) = 0
                BY <1>2, <3>1, <3>3, <3>4, <5>3
          <6> QED
            BY <5>1, <5>3, <6>1
        <5> QED
          BY <5>1, <5>2, <5>3
      <4>4. ASSUME NEW i \in 1 .. Len(tail) PROVE tail[i] = slice[i]
        <5>1. Len(x) + i \in 1 .. Len(x) + Len(tail) /\ ~(Len(x) + i <= Len(x))
              /\ Len(x) + i - Len(x) = i /\ Len(x) + i \in 1 .. b - f + 1
              BY <3>1, <3>3
        <5>2. (x \o tail)[Len(x) + i] = tail[i]
              BY <5>1, ConcatProperties
        <5>3. SubSeq(text, f, b)[Len(x) + i] = text[f + (Len(x) + i) - 1]
              BY <1>1, <3>1, <5>1, SliceShape
        <5>4. i \in 1 .. b - g + 1 /\ f + (Len(x) + i) - 1 = g + i - 1
              BY <3>1, <3>3
        <5>5. slice[i] = text[g + i - 1]
              BY <4>3, <5>4
        <5> QED
          BY <3>2, <5>2, <5>3, <5>4, <5>5
      <4> HIDE DEF slice
      <4>5. tail = slice
            BY <4>3, <4>4, SeqEqual
      <4> QED
        BY <4>5 DEF slice
    <3> QED
      BY <3>4, <3>5
  <2>12. PICK h \in {g, b + 1} : FlattenSeq(rest) = SubSeq(text, h, c) /\ (h # b + 1 => h = g /\ FlattenSeq(rest) = tail \o unit)
    <3>1. CASE rest = Append(kept, unit)
      <4>1. FlattenSeq(rest) = tail \o unit
            BY <1>5, <2>6, <2>7, <3>1
      <4>2. /\ g \in 1 .. Len(text) + 1 /\ b \in g - 1 .. Len(text) /\ c \in b .. Len(text)
            BY <1>1, <1>2, <2>4, <2>5, <2>11
      <4>3. SubSeq(text, g, b) \o SubSeq(text, b + 1, c) = SubSeq(text, g, c)
            BY <1>1, <4>2, ConcatAdjacentSubSeq
      <4> QED
        BY <2>2, <2>11, <4>1, <4>3
    <3>2. CASE rest = <<unit>>
          BY <2>2, <3>2, OneUnit
    <3> QED
      BY <3>1, <3>2 DEF rest
  <2>13. h \in a + 1 .. b + 1 /\ b \in a .. c - 1
        BY <1>2, <2>4, <2>5, <2>11, <2>12
  <2>14. Width(SubSeq(text, h, b)) <= OverlapBudget
    <3>1. CASE h = g
          BY <2>6, <2>7, <2>11, <3>1 DEF JoinedLen
    <3>2. CASE h = b + 1
      <4>1. SubSeq(text, h, b) = <<>>
            BY <1>2, <3>2, SubSeqEmpty
      <4>2. Width(<<>>) <= OverlapBudget
            BY WidthIsNumber, BudgetIsNumber
      <4> QED
        BY <4>1, <4>2
    <3> QED
      BY <2>12, <3>1, <3>2
  <2>15. ASSUME h <= b PROVE Width(Last(flushed) \o FlattenSeq(rest)) > Limit
    <3>0. h # b + 1
          BY <1>2, <2>13, <2>15
    <3>1. FlattenSeq(rest) = tail \o unit
          BY <2>12, <3>0
    <3>2. /\ x \o tail \in Seq(Word) /\ end \o (x \o tail) \in Seq(Word)
          /\ tail \o unit \in Seq(Word) /\ (x \o tail) \o unit \in Seq(Word)
          BY <1>1, ConcatProperties
    <3> DEFINE whole == (end \o (x \o tail)) \o (tail \o unit)
    <3>3. whole \in Seq(Word)
          BY <3>2, ConcatProperties
    <3>4. Size(whole) = Size(end \o (x \o tail)) + Size(tail \o unit)
          BY <3>2, SizesAdd
    <3>5. /\ Size(end \o (x \o tail)) = Size(end) + Size(x \o tail)
          /\ Size(tail \o unit) = Size(tail) + Size(unit)
          /\ Size((x \o tail) \o unit) = Size(x \o tail) + Size(unit)
          /\ Size(end) \in Nat /\ Size(tail) \in Nat /\ Size(unit) \in Nat /\ Size(x \o tail) \in Nat
          BY <1>1, <3>2, SizesAdd
    <3>6. Size(whole) >= Size((x \o tail) \o unit)
          BY <3>4, <3>5
    <3>7. whole # <<>> /\ (x \o tail) \o unit # <<>>
      <4>1. tail \o unit # <<>>
            BY <1>1, ConcatEqualIffEmpty
      <4> QED
        BY <1>1, <3>2, <4>1, ConcatEqualIffEmpty
    <3>8. Width(whole) = Size(whole) - 1 /\ Width((x \o tail) \o unit) = Size((x \o tail) \o unit) - 1
          BY <3>2, <3>3, <3>7, WidthBySize
    <3>9. Width(whole) > Limit
      <4>1. Size(whole) \in Nat /\ Size((x \o tail) \o unit) \in Nat
            BY <3>4, <3>5
      <4> QED
        BY <1>3, <2>9, <3>6, <3>8, <4>1
    <3> QED
      BY <2>8, <3>1, <3>9
  <2>16. Open(text, flushed, rest, a, c, b, h)
        BY <1>4, <2>12, <2>14, <2>15 DEF Open
  <2>17. \E p2 \in a .. c - 1 : \E f2 \in a + 1 .. p2 + 1 :
             Open(text, flushed, rest, a, c, p2, f2)
        BY <2>13, <2>16
  <2> QED
    BY <2>1, <2>10, <2>17 DEF Chops
<1> QED
  BY <1>3, <1>6, <1>7, <1>8

-----------------------------------------------------------------------------
\* Units that are slices of the text, and pieces that cover those too long.
LEMMA UnitsCover ==
    ASSUME NEW text, Distinct(text), NEW units \in Seq(Unit),
           NEW pieces \in [DOMAIN units -> Seq(FittingChunk)],
           NEW at \in [0 .. Len(units) -> 0 .. Len(text)],
           \A k \in 1 .. Len(units) :
              /\ at[k - 1] < at[k]
              /\ Width(units[k]) <= Limit => units[k] = SubSeq(text, at[k - 1] + 1, at[k])
              /\ Width(units[k]) > Limit => Covers(text, pieces[k], at[k - 1], at[k])
    PROVE  Covers(text, ChunkUnits(units, pieces), at[0], at[Len(units)])
<1> DEFINE input == [units |-> units, pieces |-> pieces]
           empty == [chunks |-> <<>>, pending |-> <<>>]
           order == [k \in DOMAIN units |-> k]
           n == Len(units)
           a == at[0]
           end == Chopping!Folded(input, empty, order)
           G == {e \in (0 .. n) \X Chopped : a <= at[e[1]] /\ Chops(text, e[2], a, at[e[1]])}
<1>1. /\ DOMAIN units = 1 .. n /\ n \in Nat
      /\ \A k \in 1 .. n : units[k] \in Unit
      BY LenProperties, ElementOfSeq
<1>2. Len(text) \in Nat /\ \A k \in 0 .. n : at[k] \in 0 .. Len(text)
      BY <1>1, LenProperties DEF Distinct
<1>3. empty \in Chopped
  <2>1. FlattenSeq(<<>>) = <<>>
        BY DEF FlattenSeq
  <2>2. JoinedLen(<<>>) <= Limit
        BY <2>1, WidthIsNumber, ChunkLimitsAssumption DEF JoinedLen
  <2>3. <<>> \in Seq(FittingChunk) /\ <<>> \in Seq(Unit)
        BY EmptySeq
  <2> QED
    BY <2>2, <2>3 DEF Chopped
<1>4. order \in Seq(DOMAIN units) /\ Len(order) = n /\ \A k \in 1 .. n : order[k] = k
  <2>1. order \in Seq(DOMAIN units)
        BY <1>1, IsASeq
  <2> QED
    BY <1>1, <2>1, LenProperties
<1>5. \A state \in Chopped, k \in DOMAIN units :
         /\ MoreUnits(input, state, k) = TakeUnit(state, units[k], pieces[k])
         /\ MoreUnits(input, state, k) \in Chopped
      BY <1>1, TakeUnitFits DEF MoreUnits
<1>6. <<0, empty>> \in G
  <2>1. 0 \in 0 .. n /\ a \in 0 .. Len(text) /\ a <= a
        BY <1>1, <1>2
  <2>2. Covers(text, <<>>, a, a)
    <3>1. DOMAIN <<>> = {} /\ 1 .. Len(<<>>) - 1 = {}
          OBVIOUS
    <3> QED
      BY <3>1 DEF Covers
  <2>3. Chops(text, empty, a, a)
        BY <2>2 DEF Chops
  <2> HIDE DEF empty, a
  <2>4. <<0, empty>> \in (0 .. n) \X Chopped
        BY <1>3, <2>1
  <2>5. <<0, empty>>[1] = 0 /\ <<0, empty>>[2] = empty
        OBVIOUS
  <2>6. a <= at[0] /\ Chops(text, empty, a, at[0])
        BY <2>1, <2>3 DEF a
  <2> QED
    BY <2>4, <2>5, <2>6
<1> HIDE DEF input, empty, order
<1>7. Chopping!Steps(input, Chopped, DOMAIN units, empty)
      BY <1>3, <1>5 DEF Chopping!Steps
<1>8. ASSUME NEW k \in 1 .. n, NEW state \in Chopped, <<k - 1, state>> \in G
      PROVE  <<k, MoreUnits(input, state, k)>> \in G
  <2> DEFINE next == TakeUnit(state, units[k], pieces[k])
  <2>1. a <= at[k - 1] /\ Chops(text, state, a, at[k - 1])
        BY <1>8
  <2>2. /\ k \in 0 .. n /\ k - 1 \in 0 .. n /\ k \in DOMAIN units
        /\ units[k] \in Unit /\ pieces[k] \in Seq(FittingChunk)
        BY <1>1
  <2>3. /\ a \in Nat /\ at[k - 1] \in a .. Len(text) /\ at[k] \in at[k - 1] + 1 .. Len(text)
        /\ at[k] \in Nat
    <3>1. at[0] \in 0 .. Len(text) /\ at[k - 1] \in 0 .. Len(text) /\ at[k] \in 0 .. Len(text)
          BY <1>1, <1>2, <2>2
    <3>2. at[k - 1] < at[k]
          OBVIOUS
    <3> QED
      BY <1>2, <2>1, <3>1, <3>2
  <2> HIDE DEF a
  <2>4. /\ Width(units[k]) <= Limit => units[k] = SubSeq(text, at[k - 1] + 1, at[k])
        /\ Width(units[k]) > Limit => Covers(text, pieces[k], at[k - 1], at[k])
        OBVIOUS
  <2>5. Chops(text, next, a, at[k])
        BY <2>1, <2>2, <2>3, <2>4, TakeUnitCovers
  <2>6. next = MoreUnits(input, state, k) /\ next \in Chopped
        BY <1>5, <2>2
  <2> HIDE DEF next
  <2>7. a <= at[k]
        BY <2>1, <2>3
  <2>8. <<k, next>> \in (0 .. n) \X Chopped /\ <<k, next>>[1] = k /\ <<k, next>>[2] = next
        BY <2>2, <2>6
  <2> QED
    BY <2>5, <2>6, <2>7, <2>8
<1> HIDE DEF G
<1>9. <<n, end>> \in G
  <2>1. \A k \in 1 .. Len(order), state \in Chopped :
           <<k - 1, state>> \in G => <<k, MoreUnits(input, state, order[k])>> \in G
        BY <1>4, <1>8
  <2>2. <<Len(order), end>> \in G
        BY <1>4, <1>6, <1>7, <2>1, Chopping!FoldKeeps
  <2> QED
    BY <1>4, <2>2
<1>10. ChunkUnits(units, pieces) = FlushUnits(end.chunks, end.pending)
      BY ChunkUnitsFolds DEF input, empty, order
<1> HIDE DEF end
<1>11. end \in Chopped /\ a <= at[n] /\ Chops(text, end, a, at[n])
      BY <1>9 DEF G
<1>12. a \in Nat /\ at[n] \in a .. Len(text)
  <2>1. at[0] \in 0 .. Len(text) /\ at[n] \in 0 .. Len(text)
        BY <1>1, <1>2
  <2> QED
    BY <1>2, <1>11, <2>1
<1> HIDE DEF a, n
<1>13. Covers(text, FlushUnits(end.chunks, end.pending), a, at[n])
      BY <1>11, <1>12, FlushCovers
<1> QED
  BY <1>10, <1>13 DEF a, n

-----------------------------------------------------------------------------
MoreParts(context, text, word) == text \o Parts(word)
Dividing == INSTANCE FoldLemmas WITH step <- MoreParts

\* Divided as an instance of FoldLemmas.
LEMMA DividedFolds == \A words : Divided(words) = Dividing!Folded(0, <<>>, words)
  BY SMT DEF Divided, MoreParts, Dividing!Folded, FoldLeft, MapThenFoldSet, Max,
             Dividing!MapThenFoldSet, Dividing!Max

\* One word more adds its parts at the end.
LEMMA DividedAppend ==
    ASSUME NEW words \in Seq(Word), NEW word \in Word
    PROVE  /\ Divided(words) \in Seq(Word) /\ Divided(<<>>) = <<>>
           /\ Divided(Append(words, word)) = Divided(words) \o Parts(word)
<1>1. ASSUME NEW text \in Seq(Word), NEW w \in Word
      PROVE  MoreParts(0, text, w) \in Seq(Word)
      BY PartsShape, ConcatProperties DEF MoreParts
<1>2. Dividing!Steps(0, Seq(Word), Word, <<>>)
      BY <1>1, EmptySeq DEF Dividing!Steps
<1>3. /\ Dividing!Folded(0, <<>>, words) \in Seq(Word)
      /\ Dividing!Folded(0, <<>>, Append(words, word))
            = MoreParts(0, Dividing!Folded(0, <<>>, words), word)
      /\ Dividing!Folded(0, <<>>, <<>>) = <<>>
      BY <1>2, Dividing!FoldAppend
<1> QED
  BY <1>3, DividedFolds DEF MoreParts

\* A divided text is a sequence of words.
LEMMA DividedIsText == \A words \in Seq(Word) : Divided(words) \in Seq(Word)
<1>1. [place |-> 0, part |-> 0, width |-> 0] \in Word
      BY DEF Word
<1> QED
  BY <1>1, DividedAppend

\* Three stretches, in either order of joining.
LEMMA TextsAssociate ==
    ASSUME NEW x \in Seq(Word), NEW y \in Seq(Word), NEW z \in Seq(Word)
    PROVE  (x \o y) \o z = x \o (y \o z)
  BY ConcatAssociative

\* Two texts are divided one after the other.
LEMMA DividedConcat ==
    ASSUME NEW x \in Seq(Word), NEW y \in Seq(Word)
    PROVE  Divided(x \o y) = Divided(x) \o Divided(y)
<1> DEFINE S == {z \in Seq(Word) : Divided(x \o z) = Divided(x) \o Divided(z)}
<1>1. <<>> \in S
  <2>1. <<>> \in Seq(Word) /\ x \o <<>> = x
        BY EmptySeq, ConcatEmptySeq
  <2>2. [place |-> 0, part |-> 0, width |-> 0] \in Word
        BY DEF Word
  <2>3. Divided(<<>>) = <<>> /\ Divided(x) \in Seq(Word)
        BY <2>2, DividedAppend
  <2>4. Divided(x) \o <<>> = Divided(x)
        BY <2>3, ConcatEmptySeq
  <2> QED
    BY <2>1, <2>3, <2>4
<1>2. ASSUME NEW z \in S, NEW word \in Word PROVE Append(z, word) \in S
  <2>1. z \in Seq(Word) /\ x \o z \in Seq(Word) /\ Append(z, word) \in Seq(Word)
        BY <1>2, ConcatProperties, AppendProperties
  <2>2. x \o Append(z, word) = Append(x \o z, word)
        BY <2>1, ConcatAppend
  <2>3. /\ Divided(Append(x \o z, word)) = Divided(x \o z) \o Parts(word)
        /\ Divided(Append(z, word)) = Divided(z) \o Parts(word)
        BY <2>1, DividedAppend
  <2>4. Divided(x \o z) = Divided(x) \o Divided(z)
        BY <1>2
  <2>5. PICK p \in Seq(Word), q \in Seq(Word), r \in Seq(Word) :
           p = Divided(x) /\ q = Divided(z) /\ r = Parts(word)
        BY <2>1, DividedIsText, PartsShape
  <2>6. (p \o q) \o r = p \o (q \o r)
        BY TextsAssociate
  <2> QED
    BY <2>1, <2>2, <2>3, <2>4, <2>5, <2>6
<1> HIDE DEF S
<1>3. S = Seq(Word)
  <2>1. S \in SUBSET Seq(Word)
        BY DEF S
  <2> QED
    BY <1>1, <1>2, <2>1, Sequencing
<1> QED
  BY <1>3 DEF S

\* The middle one of three stretches is found after the first.
LEMMA MiddleSlice ==
    ASSUME NEW x \in Seq(Word), NEW y \in Seq(Word), NEW z \in Seq(Word)
    PROVE  /\ SubSeq((x \o y) \o z, Len(x) + 1, Len(x) + Len(y)) = y
           /\ (x \o y) \o z \in Seq(Word)
           /\ Len((x \o y) \o z) = Len(x) + Len(y) + Len(z)
<1> DEFINE f == Len(x) + 1
           t == Len(x) + Len(y)
           whole == (x \o y) \o z
           slice == SubSeq(whole, f, t)
<1>1. Len(x) \in Nat /\ Len(y) \in Nat /\ Len(z) \in Nat
      BY LenProperties
<1>2. /\ x \o y \in Seq(Word) /\ Len(x \o y) = t
      /\ \A i \in 1 .. Len(y) : (x \o y)[Len(x) + i] = y[i]
  <2>1. /\ x \o y \in Seq(Word) /\ Len(x \o y) = t
        /\ \A i \in 1 .. t : (x \o y)[i] = IF i <= Len(x) THEN x[i] ELSE y[i - Len(x)]
        BY ConcatProperties
  <2>2. \A i \in 1 .. Len(y) : Len(x) + i \in 1 .. t /\ ~(Len(x) + i <= Len(x))
                               /\ Len(x) + i - Len(x) = i
        BY <1>1
  <2> QED
    BY <2>1, <2>2
<1>3. /\ whole \in Seq(Word) /\ Len(whole) = t + Len(z)
      /\ \A i \in 1 .. Len(y) : whole[Len(x) + i] = y[i]
  <2>0. PICK w \in Seq(Word) : w = x \o y
        BY <1>2
  <2>1. /\ w \o z \in Seq(Word) /\ Len(w \o z) = Len(w) + Len(z)
        /\ \A i \in 1 .. Len(w) + Len(z) : (w \o z)[i] = IF i <= Len(w) THEN w[i] ELSE z[i - Len(w)]
        BY ConcatProperties
  <2>2. \A i \in 1 .. Len(y) : Len(x) + i \in 1 .. t + Len(z) /\ Len(x) + i <= t
        BY <1>1
  <2> QED
    BY <1>2, <2>0, <2>1, <2>2
<1> HIDE DEF whole
<1>4. slice = y
  <2>1. \A i \in f .. t : whole[i] \in Word
    <3>1. \A i \in f .. t : i \in 1 .. Len(whole)
          BY <1>1, <1>3
    <3> QED
      BY <1>3, <3>1, ElementOfSeq
  <2>2. /\ slice \in Seq(Word) /\ Len(slice) = IF f <= t THEN t - f + 1 ELSE 0
        /\ \A i \in 1 .. t - f + 1 : slice[i] = whole[f + i - 1]
        BY <1>1, <2>1, SubSeqProperties
  <2> HIDE DEF slice
  <2>3. Len(slice) = Len(y)
        BY <1>1, <2>2
  <2>4. ASSUME NEW i \in 1 .. Len(y) PROVE slice[i] = y[i]
    <3>1. i \in 1 .. t - f + 1 /\ f + i - 1 = Len(x) + i
          BY <1>1
    <3> QED
      BY <1>3, <2>2, <3>1
  <2> QED
    BY <2>2, <2>3, <2>4, SeqEqual
<1> QED
  BY <1>3, <1>4 DEF whole

\* Where the words up to k end in the divided text.
Where(words, k) == Len(Divided(SubSeq(words, 1, k)))

\* What a slice of the words becomes is found between Where it begins and ends.
LEMMA DividedSlice ==
    ASSUME NEW words \in Seq(Word), NEW i \in 0 .. Len(words), NEW j \in i .. Len(words)
    PROVE  /\ Where(words, i) \in Nat /\ Where(words, j) \in Nat
           /\ Where(words, j) = Where(words, i) + Len(Divided(SubSeq(words, i + 1, j)))
           /\ Where(words, j) <= Len(Divided(words))
           /\ SubSeq(Divided(words), Where(words, i) + 1, Where(words, j))
                 = Divided(SubSeq(words, i + 1, j))
           /\ Where(words, 0) = 0 /\ Where(words, Len(words)) = Len(Divided(words))
<1> DEFINE n == Len(words)
<1>1. n \in Nat /\ i \in Nat /\ j \in Nat
      BY LenProperties
<1>2. /\ 1 \in 1 .. n + 1 /\ i \in 1 - 1 .. n
      /\ i + 1 \in 1 .. n + 1 /\ j \in i + 1 - 1 .. n
      /\ j + 1 \in 1 .. n + 1 /\ n \in j + 1 - 1 .. n
      /\ i \in 1 - 1 .. n /\ j \in i .. n /\ j \in 1 - 1 .. n /\ n \in j .. n
      BY <1>1
<1>3. /\ SubSeq(words, 1, i) \in Seq(Word)
      /\ SubSeq(words, i + 1, j) \in Seq(Word)
      /\ SubSeq(words, j + 1, n) \in Seq(Word)
      BY <1>2, PartOfSeq
<1>4. PICK x \in Seq(Word), y \in Seq(Word), z \in Seq(Word) :
         x = SubSeq(words, 1, i) /\ y = SubSeq(words, i + 1, j) /\ z = SubSeq(words, j + 1, n)
      BY <1>3
<1>5. x \o y = SubSeq(words, 1, j)
      BY <1>2, <1>4, ConcatAdjacentSubSeq
<1>6. (x \o y) \o z = words
  <2>1. SubSeq(words, 1, j) \o SubSeq(words, j + 1, n) = SubSeq(words, 1, n)
        BY <1>2, ConcatAdjacentSubSeq
  <2> QED
    BY <1>4, <1>5, <2>1, SubSeqFull
<1>7. PICK p \in Seq(Word), q \in Seq(Word), r \in Seq(Word) :
         p = Divided(x) /\ q = Divided(y) /\ r = Divided(z)
      BY DividedIsText
<1>8. Divided(SubSeq(words, 1, j)) = p \o q
  <2>1. Divided(x \o y) = Divided(x) \o Divided(y)
        BY DividedConcat
  <2> QED
    BY <1>5, <1>7, <2>1
<1>9. Divided(words) = (p \o q) \o r
  <2>1. x \o y \in Seq(Word)
        BY ConcatProperties
  <2>2. Divided((x \o y) \o z) = Divided(x \o y) \o Divided(z)
        BY <2>1, DividedConcat
  <2> QED
    BY <1>6, <1>7, <2>2, DividedConcat
<1>10. /\ SubSeq((p \o q) \o r, Len(p) + 1, Len(p) + Len(q)) = q
       /\ Len((p \o q) \o r) = Len(p) + Len(q) + Len(r)
       /\ Len(p) \in Nat /\ Len(q) \in Nat /\ Len(r) \in Nat
       /\ Len(p \o q) = Len(p) + Len(q)
      BY MiddleSlice, LenProperties, ConcatProperties
<1>11. Where(words, i) = Len(p) /\ Where(words, j) = Len(p) + Len(q)
      BY <1>4, <1>7, <1>8, <1>10 DEF Where
<1>12. Where(words, 0) = 0 /\ Where(words, n) = Len(Divided(words))
  <2>1. SubSeq(words, 1, 0) = <<>> /\ SubSeq(words, 1, n) = words
        BY SubSeqEmpty, SubSeqFull
  <2>2. [place |-> 0, part |-> 0, width |-> 0] \in Word
        BY DEF Word
  <2>3. Divided(<<>>) = <<>>
        BY <2>2, DividedAppend
  <2>4. Len(<<>>) = 0
        OBVIOUS
  <2> QED
    BY <2>1, <2>3, <2>4 DEF Where
<1>13. Len(Divided(words)) = Len(p) + Len(q) + Len(r)
      BY <1>9, <1>10
<1> QED
  BY <1>4, <1>7, <1>9, <1>10, <1>11, <1>12, <1>13

-----------------------------------------------------------------------------
\* A word that need not be cut is its only part.
Whole == {word \in Word : word.part = 1 /\ word.width \in 1 .. Limit}

\* A word that fits is not divided,
LEMMA WholeIsItsPart == \A word \in Whole : Parts(word) = <<word>>
<1> TAKE word \in Whole
<1> DEFINE whole == word.width \div Limit
           rest == word.width % Limit
           Wide(k) == IF k <= whole THEN Limit ELSE rest
           OnePart(k) == [place |-> word.place, part |-> k, width |-> Wide(k)]
           n == whole + (IF rest = 0 THEN 0 ELSE 1)
<1>1. PICK w \in Nat, m \in Nat \ {0} : w = word.width /\ m = Limit /\ w \in 1 .. m
      BY ChunkLimitsAssumption DEF Whole, Word
<1>2. n = 1 /\ Wide(1) = word.width
  <2>1. CASE w < m
    <3>1. w \div m = 0 /\ w % m = w
          BY <2>1
    <3>2. whole = 0 /\ rest = w /\ w # 0
          BY <1>1, <3>1
    <3> HIDE DEF whole, rest
    <3> QED
      BY <1>1, <3>2
  <2>2. CASE w = m
    <3>1. m \div m = 1 /\ m % m = 0
          OBVIOUS
    <3>2. whole = 1 /\ rest = 0
          BY <1>1, <2>2, <3>1
    <3> HIDE DEF whole, rest
    <3> QED
      BY <1>1, <2>2, <3>2
  <2> QED
    BY <1>1, <2>1, <2>2
<1> HIDE DEF Wide
<1>3. OnePart(1) = word
      BY <1>2 DEF Whole, Word
<1>4. Parts(word) = [k \in 1 .. n |-> OnePart(k)]
      BY DEF Parts, Wide
<1> HIDE DEF n, OnePart
<1>5. Parts(word) = [k \in 1 .. 1 |-> word]
      BY <1>2, <1>3, <1>4
<1>6. [k \in 1 .. 1 |-> word] = <<word>>
      OBVIOUS
<1> QED
  BY <1>5, <1>6

\* nor is a text of such words.
LEMMA WholeText == \A words \in Seq(Whole) : Divided(words) = words
<1> DEFINE S == {s \in Seq(Whole) : Divided(s) = s}
<1>1. Whole \subseteq Word /\ Seq(Whole) \subseteq Seq(Word)
      BY SeqMonotonic DEF Whole
<1>2. <<>> \in S
  <2>1. [place |-> 0, part |-> 0, width |-> 0] \in Word
        BY DEF Word
  <2> QED
    BY <2>1, DividedAppend, EmptySeq
<1>3. ASSUME NEW s \in S, NEW word \in Whole PROVE Append(s, word) \in S
  <2>1. s \in Seq(Whole) /\ Divided(s) = s
        BY <1>3
  <2>2. Divided(Append(s, word)) = Divided(s) \o Parts(word)
        BY <1>1, <2>1, DividedAppend
  <2>3. Append(s, word) = s \o <<word>> /\ Append(s, word) \in Seq(Whole)
        BY <2>1, AppendIsConcat, AppendProperties
  <2> QED
    BY <2>1, <2>2, <2>3, WholeIsItsPart
<1> HIDE DEF S
<1>4. S = Seq(Whole)
  <2>1. S \in SUBSET Seq(Whole)
        BY DEF S
  <2> QED
    BY <1>2, <1>3, <2>1, Sequencing
<1> QED
  BY <1>4 DEF S

\* A word that has a width has a part.
LEMMA SomePart ==
    ASSUME NEW word \in Word, word.width > 0
    PROVE  Len(Parts(word)) \in Nat \ {0}
<1> DEFINE whole == word.width \div Limit
           rest == word.width % Limit
           n == whole + (IF rest = 0 THEN 0 ELSE 1)
<1>1. PICK w \in Nat, m \in Nat \ {0} : w = word.width /\ m = Limit /\ w > 0
      BY ChunkLimitsAssumption DEF Word
<1>2. w \div m \in Nat /\ w % m \in 0 .. m - 1 /\ (w \div m = 0 => w % m = w)
      OBVIOUS
<1>3. n \in Nat \ {0}
  <2>1. whole \in Nat /\ rest \in Nat /\ (whole = 0 => rest # 0)
        BY <1>1, <1>2
  <2> HIDE DEF whole, rest
  <2> QED
    BY <2>1
<1>4. DOMAIN Parts(word) = 1 .. n
      BY DEF Parts
<1> HIDE DEF n
<1>5. DOMAIN Parts(word) = 1 .. Len(Parts(word)) /\ Len(Parts(word)) \in Nat
      BY PartsShape
<1>6. n \in 1 .. Len(Parts(word))
      BY <1>3, <1>4, <1>5
<1> QED
  BY <1>5, <1>6

\* A text's words: each in its place, whole, and wide.
Placed(words) ==
    /\ words \in Seq(Word)
    /\ \A k \in 1 .. Len(words) :
          words[k].place = k /\ words[k].part = 1 /\ words[k].width > 0

\* No two parts of a text with places are the same.
LEMMA DividedIsDistinct ==
    ASSUME NEW words, Placed(words)
    PROVE  Distinct(Divided(words))
<1> DEFINE n == Len(words)
           Prefix(k) == Divided(SubSeq(words, 1, k))
           Good(k) == /\ Distinct(Prefix(k))
                      /\ \A i \in 1 .. Len(Prefix(k)) : Prefix(k)[i].place <= k
           S == {k \in 0 .. n : Good(k)}
<1>1. /\ words \in Seq(Word) /\ n \in Nat
      /\ \A k \in 1 .. n : words[k] \in Word /\ words[k].place = k
      BY LenProperties, ElementOfSeq DEF Placed
<1>2. 0 \in S
  <2>1. SubSeq(words, 1, 0) = <<>>
        BY SubSeqEmpty
  <2>2. [place |-> 0, part |-> 0, width |-> 0] \in Word
        BY DEF Word
  <2>3. Prefix(0) = <<>>
        BY <2>1, <2>2, EmptySeq, DividedAppend
  <2>4. <<>> \in Seq(Word) /\ 1 .. Len(<<>>) = {} /\ 0 \in 0 .. n
        BY <1>1, EmptySeq
  <2>5. Good(0)
        BY <2>3, <2>4 DEF Distinct
  <2> QED
    BY <2>4, <2>5
<1>3. ASSUME NEW k \in 0 .. n - 1, k \in S PROVE k + 1 \in S
  <2>1. k \in 1 - 1 .. n /\ 1 \in 1 .. n + 1 /\ k + 1 \in 1 .. n /\ k \in Nat
        /\ k + 1 \in k .. n
        BY <1>1
  <2>2. PICK s \in Seq(Word), w \in Word : s = SubSeq(words, 1, k) /\ w = words[k + 1]
        BY <1>1, <2>1, PartOfSeq
  <2>3. SubSeq(words, 1, k + 1) = Append(s, w)
    <3>1. 1 \in 1 .. Len(words) /\ k + 1 \in 1 .. Len(words) /\ k + 1 - 1 = k
          BY <1>1, <2>1
    <3>2. SubSeq(words, 1, k + 1) = SubSeq(words, 1, k + 1 - 1) \o <<words[k + 1]>>
          BY <1>1, <3>1, SubSeqRecursiveSecond
    <3> QED
      BY <2>2, <3>1, <3>2, AppendIsConcat
  <2> DEFINE x == Divided(s)
             y == Parts(w)
             m == Len(x)
  <2>4. Prefix(k) = x /\ Prefix(k + 1) = x \o y
        BY <2>2, <2>3, DividedAppend
  <2>5. /\ x \in Seq(Word) /\ y \in Seq(Word) /\ m \in Nat /\ Len(y) \in Nat
        /\ \A i \in 1 .. Len(y) : y[i].place = k + 1 /\ y[i].part = i
        BY <1>1, <2>1, <2>2, DividedIsText, PartsShape, LenProperties
  <2>6. Distinct(x) /\ \A i \in 1 .. m : x[i].place <= k
        BY <1>3, <2>4
  <2> HIDE DEF x, y, Prefix
  <2>7. /\ x \o y \in Seq(Word) /\ Len(x \o y) = m + Len(y)
        /\ \A i \in 1 .. m + Len(y) : (x \o y)[i] = IF i <= m THEN x[i] ELSE y[i - m]
        BY <2>5, ConcatProperties
  <2> DEFINE z == x \o y
  <2> HIDE DEF m, z
  <2>8. \A i \in 1 .. m : x[i] \in Word /\ x[i].place \in Nat
    <3>1. \A i \in 1 .. Len(x) : x[i] \in Word
          BY <2>5, ElementOfSeq
    <3>2. \A v \in Word : v.place \in Nat
          BY DEF Word
    <3> QED
      BY <3>1, <3>2 DEF m
  <2>9. ASSUME NEW i \in 1 .. m + Len(y)
        PROVE  /\ i <= m => i \in 1 .. m /\ z[i] = x[i] /\ z[i].place <= k /\ z[i].place \in Nat
               /\ ~(i <= m) => z[i].place = k + 1 /\ z[i].part = i - m
    <3>1. CASE i <= m
      <4>1. i \in 1 .. m
            BY <2>5, <3>1 DEF m
      <4> QED
        BY <2>6, <2>7, <2>8, <3>1, <4>1 DEF z
    <3>2. CASE ~(i <= m)
      <4>1. i - m \in 1 .. Len(y)
            BY <2>5, <3>2 DEF m
      <4> QED
        BY <2>5, <2>7, <3>2, <4>1 DEF z
    <3> QED
      BY <3>1, <3>2
  <2>10. ASSUME NEW i \in 1 .. m + Len(y), NEW j \in 1 .. m + Len(y), z[i] = z[j]
         PROVE  i = j
    <3>0. m \in Nat /\ Len(y) \in Nat /\ k \in Nat
          BY <2>1, <2>5 DEF m
    <3>1. CASE i <= m /\ j <= m
          BY <2>6, <2>9, <2>10, <3>1 DEF Distinct, m
    <3>2. CASE ~(i <= m) /\ ~(j <= m)
      <4>1. i - m = j - m
            BY <2>9, <2>10, <3>2
      <4> QED
        BY <3>0, <4>1
    <3>3. CASE i <= m /\ ~(j <= m)
          BY <2>9, <2>10, <3>0, <3>3
    <3>4. CASE ~(i <= m) /\ j <= m
          BY <2>9, <2>10, <3>0, <3>4
    <3> QED
      BY <3>1, <3>2, <3>3, <3>4
  <2>11. \A i \in 1 .. m + Len(y) : z[i].place <= k + 1
    <3> TAKE i \in 1 .. m + Len(y)
    <3>1. CASE i <= m
          BY <2>1, <2>9, <3>1
    <3>2. CASE ~(i <= m)
          BY <2>1, <2>9, <3>2
    <3> QED
      BY <3>1, <3>2
  <2>12. Good(k + 1)
    <3>1. z \in Seq(Word) /\ Len(z) = m + Len(y) /\ Prefix(k + 1) = z
          BY <2>4, <2>7 DEF z
    <3> QED
      BY <2>10, <2>11, <3>1 DEF Distinct
  <2> HIDE DEF Good
  <2> QED
    BY <1>1, <2>1, <2>12
<1> HIDE DEF Good
<1>4. n \in S
  <2> HIDE DEF S
  <2>1. 0 .. n \subseteq S
        BY <1>1, <1>2, <1>3, Widening!UpTo
  <2> QED
    BY <1>1, <2>1
<1>5. Prefix(n) = Divided(words)
  <2>1. SubSeq(words, 1, n) = words
        BY <1>1, SubSeqFull
  <2> QED
    BY <2>1
<1> QED
  BY <1>4, <1>5 DEF Good

-----------------------------------------------------------------------------
\* Chunks of one part each.
LEMMA SinglesCover ==
    ASSUME NEW text, Distinct(text), NEW a \in Nat, NEW b \in a .. Len(text)
    PROVE  Covers(text, [k \in 1 .. b - a |-> <<text[a + k]>>], a, b)
<1> DEFINE chunks == [k \in 1 .. b - a |-> <<text[a + k]>>]
<1>1. text \in Seq(Word) /\ Len(text) \in Nat /\ b - a \in Nat /\ b \in Nat
      BY LenProperties DEF Distinct
<1>2. ASSUME NEW k \in 1 .. b - a
      PROVE  /\ chunks[k] = <<text[a + k]>> /\ chunks[k] \in Unit
             /\ Start(text, chunks[k]) = a + k /\ End(text, chunks[k]) = a + k
             /\ chunks[k] = SubSeq(text, a + k, a + k)
  <2>1. a + k \in 1 .. Len(text) /\ a + k \in a + k .. Len(text)
        BY <1>1
  <2>2. PICK w \in Word : w = text[a + k]
        BY <1>1, <2>1, ElementOfSeq
  <2>3. chunks[k] = <<w>> /\ <<w>> \in Unit
    <3>1. <<w>> \in Seq(Word) /\ <<w>> # <<>>
          OBVIOUS
    <3> QED
      BY <2>2, <3>1 DEF Unit
  <2>4. SubSeq(text, a + k, a + k) = <<w>>
        BY <1>1, <2>1, <2>2, SliceOfOne
  <2>5. Start(text, <<w>>) = a + k /\ End(text, <<w>>) = a + k
        BY <2>1, <2>4, SliceFound
  <2> QED
    BY <2>2, <2>3, <2>4, <2>5
<1>3. chunks \in Seq(Unit) /\ Len(chunks) = b - a /\ DOMAIN chunks = 1 .. b - a
  <2> DEFINE Single(k) == <<text[a + k]>>
             m == b - a
  <2>1. \A k \in 1 .. m : Single(k) \in Unit
        BY <1>2
  <2>2. m \in Nat /\ chunks = [k \in 1 .. m |-> Single(k)]
        BY <1>1
  <2> HIDE DEF Single, m, chunks
  <2>3. chunks \in Seq(Unit) /\ Len(chunks) = m /\ DOMAIN chunks = 1 .. m
    <3>1. chunks \in Seq(Unit)
          BY <2>1, <2>2, IsASeq
    <3> QED
      BY <2>2, <3>1, LenProperties
  <2> QED
    BY <2>3 DEF m
<1> HIDE DEF chunks
<1>4. ASSUME NEW k \in 1 .. b - a
      PROVE  /\ chunks[k] # <<>>
             /\ Start(text, chunks[k]) \in a + 1 .. b
             /\ End(text, chunks[k]) \in Start(text, chunks[k]) .. b
             /\ chunks[k] = SubSeq(text, Start(text, chunks[k]), End(text, chunks[k]))
  <2>1. a + k \in a + 1 .. b /\ a + k \in a + k .. b
        BY <1>1
  <2> QED
    BY <1>2, <2>1 DEF Unit
<1>5. chunks = <<>> <=> a = b
  <2>1. chunks = <<>> <=> b - a = 0
        BY <1>3, EmptySeq
  <2> QED
    BY <1>1, <2>1
<1>6. chunks # <<>> => Start(text, chunks[1]) = a + 1 /\ End(text, Last(chunks)) = b
  <2>1. ASSUME chunks # <<>> PROVE Start(text, chunks[1]) = a + 1 /\ End(text, Last(chunks)) = b
    <3>1. 1 \in 1 .. b - a /\ b - a \in 1 .. b - a /\ a + (b - a) = b
          BY <1>1, <1>5, <2>1
    <3> QED
      BY <1>2, <1>3, <3>1 DEF Last
  <2> QED
    BY <2>1
<1>7. ASSUME NEW k \in 1 .. b - a - 1 PROVE Follows(text, chunks[k], chunks[k + 1])
  <2>1. k \in 1 .. b - a /\ k + 1 \in 1 .. b - a /\ k \in Nat
        BY <1>1
  <2>2. /\ Start(text, chunks[k + 1]) = a + (k + 1) /\ End(text, chunks[k + 1]) = a + (k + 1)
        /\ End(text, chunks[k]) = a + k
        BY <1>2, <2>1
  <2>3. a + (k + 1) = a + k + 1 /\ a + k < a + k + 1 /\ a + k + 1 <= a + k + 1
        BY <2>1
  <2>4. SubSeq(text, a + k + 1, a + k) = <<>>
        BY <2>1, SubSeqEmpty
  <2>5. Width(<<>>) <= OverlapBudget
        BY WidthIsNumber, BudgetIsNumber
  <2> QED
    BY <2>2, <2>3, <2>4, <2>5 DEF Follows
<1>8. Covers(text, chunks, a, b)
      BY <1>3, <1>4, <1>5, <1>6, <1>7 DEF Covers
<1> QED
  BY <1>8 DEF chunks

\* A word, cut where it must be, is all there.
LEMMA FixedWidthCovers ==
    ASSUME NEW words, Placed(words), NEW i \in 1 .. Len(words)
    PROVE  /\ Where(words, i - 1) < Where(words, i)
           /\ SubSeq(Divided(words), Where(words, i - 1) + 1, Where(words, i)) = Parts(words[i])
           /\ Covers(Divided(words), FixedWidth(words[i]), Where(words, i - 1), Where(words, i))
<1> DEFINE text == Divided(words)
           a == Where(words, i - 1)
           b == Where(words, i)
           parts == Parts(words[i])
<1>1. /\ words \in Seq(Word) /\ Len(words) \in Nat /\ i - 1 \in 0 .. Len(words)
      /\ i \in i - 1 .. Len(words) /\ i - 1 + 1 = i /\ i \in 0 .. Len(words)
      BY LenProperties DEF Placed
<1>2. PICK w \in Word : w = words[i] /\ w.width > 0
      BY <1>1, ElementOfSeq DEF Placed
<1>3. Divided(SubSeq(words, i, i)) = parts
  <2>1. SubSeq(words, i, i) = <<w>>
        BY <1>1, <1>2, SliceOfOne
  <2>2. Append(<<>>, w) = <<w>> /\ <<>> \in Seq(Word)
        BY EmptySeq, AppendIsConcat, ConcatEmptySeq
  <2>3. Divided(<<w>>) = <<>> \o Parts(w)
        BY <2>2, DividedAppend
  <2>4. <<>> \o Parts(w) = Parts(w)
        BY PartsShape, ConcatEmptySeq
  <2> QED
    BY <1>2, <2>1, <2>3, <2>4
<1>4. /\ a \in Nat /\ b \in Nat /\ b = a + Len(parts) /\ b <= Len(text)
      /\ SubSeq(text, a + 1, b) = parts
      BY <1>1, <1>3, DividedSlice
<1>5. /\ Len(parts) \in Nat \ {0} /\ DOMAIN parts = 1 .. Len(parts)
      BY <1>2, SomePart, PartsShape
<1>6. Distinct(text)
      BY DividedIsDistinct
<1>7. \A k \in 1 .. Len(parts) : parts[k] = text[a + k]
  <2>1. text \in Seq(Word) /\ Len(text) \in Nat
        BY <1>6, LenProperties DEF Distinct
  <2> HIDE DEF text, a, b, parts
  <2>2. a + 1 \in 1 .. Len(text) /\ b \in a + 1 .. Len(text)
        BY <1>4, <1>5, <2>1
  <2>3. \A k \in 1 .. b - (a + 1) + 1 : SubSeq(text, a + 1, b)[k] = text[a + 1 + k - 1]
        BY <2>1, <2>2, SliceShape
  <2>4. b - (a + 1) + 1 = Len(parts) /\ \A k \in 1 .. Len(parts) : a + 1 + k - 1 = a + k
        BY <1>4, <1>5
  <2> QED
    BY <1>4, <2>3, <2>4
<1>8. FixedWidth(words[i]) = [k \in 1 .. b - a |-> <<text[a + k]>>]
  <2>1. b - a = Len(parts)
        BY <1>4, <1>5
  <2>2. FixedWidth(words[i]) = [k \in 1 .. Len(parts) |-> <<parts[k]>>]
        BY <1>5 DEF FixedWidth
  <2> HIDE DEF a, b, parts, text
  <2> QED
    BY <1>7, <2>1, <2>2
<1> HIDE DEF text, a, b, parts
<1>9. a < b /\ b \in a .. Len(text)
  <2>1. Len(text) \in Nat
        BY <1>6, LenProperties DEF Distinct
  <2> QED
    BY <1>4, <1>5, <2>1
<1>10. Covers(text, FixedWidth(words[i]), a, b)
      BY <1>4, <1>6, <1>8, <1>9, SinglesCover
<1> QED
  BY <1>4, <1>9, <1>10 DEF text, a, b, parts

-----------------------------------------------------------------------------
\* No word of a sentence that fits is too long.
LEMMA WordsWithin ==
    ASSUME NEW words \in Seq(Word), Width(words) <= Limit, NEW k \in 1 .. Len(words)
    PROVE  words[k].width <= Limit
<1> DEFINE n == Len(words)
<1>1. n \in Nat /\ words[k] \in Word /\ Limit \in Nat
      BY LenProperties, ElementOfSeq, ChunkLimitsAssumption
<1>2. /\ k \in 1 .. n + 1 /\ n \in k - 1 .. n /\ k - 1 \in 0 .. n /\ 1 \in 1 .. n + 1
      /\ k - 1 \in 1 - 1 .. n /\ n \in k - 1 .. n /\ k - 1 + 1 = k
      /\ k + 1 \in 1 .. n + 1 /\ n \in k + 1 - 1 .. n
      BY <1>1
<1>3. PICK x \in Seq(Word), y \in Seq(Word), z \in Seq(Word), w \in Word :
         /\ x = SubSeq(words, 1, k - 1) /\ y = SubSeq(words, k, n)
         /\ z = SubSeq(words, k + 1, n) /\ w = words[k]
  <2>1. /\ SubSeq(words, 1, k - 1) \in Seq(Word) /\ SubSeq(words, k, n) \in Seq(Word)
        /\ SubSeq(words, k + 1, n) \in Seq(Word)
        BY <1>2, PartOfSeq
  <2> QED
    BY <1>1, <2>1
<1>4. x \o y = words
  <2>1. SubSeq(words, 1, k - 1) \o SubSeq(words, k - 1 + 1, n) = SubSeq(words, 1, n)
        BY <1>2, ConcatAdjacentSubSeq
  <2> QED
    BY <1>2, <1>3, <2>1, SubSeqFull
<1>5. y = <<w>> \o z
  <2>1. k \in 1 .. n /\ n \in k .. n
        BY <1>1
  <2> QED
    BY <1>3, <2>1, SubSeqRecursiveFirst
<1>6. Width(<<w>>) <= Width(y) /\ Width(y) <= Width(words)
  <2>1. <<w>> \in Seq(Word)
        OBVIOUS
  <2> QED
    BY <1>4, <1>5, <2>1, WidthGrows
<1>7. Width(<<w>>) = w.width /\ w.width \in Nat /\ Width(y) \in Nat /\ Width(words) \in Nat
      BY WidthIsNumber DEF Word
<1> QED
  BY <1>1, <1>3, <1>6, <1>7

\* A slice of the words that fits is a slice of the divided text.
LEMMA FittingSlice ==
    ASSUME NEW words, Placed(words), NEW i \in 0 .. Len(words), NEW j \in i .. Len(words),
           Width(SubSeq(words, i + 1, j)) <= Limit
    PROVE  SubSeq(words, i + 1, j)
              = SubSeq(Divided(words), Where(words, i) + 1, Where(words, j))
<1> DEFINE slice == SubSeq(words, i + 1, j)
<1>1. /\ words \in Seq(Word) /\ Len(words) \in Nat /\ i \in Nat /\ j \in Nat
      /\ i + 1 \in 1 .. Len(words) + 1 /\ j \in i + 1 - 1 .. Len(words)
      BY LenProperties DEF Placed
<1>2. /\ slice \in Seq(Word) /\ Len(slice) = IF i + 1 <= j THEN j - (i + 1) + 1 ELSE 0
      /\ \A k \in 1 .. j - (i + 1) + 1 : slice[k] = words[i + 1 + k - 1]
  <2>1. \A k \in i + 1 .. j : words[k] \in Word
        BY <1>1, ElementOfSeq
  <2> QED
    BY <1>1, <2>1, SubSeqProperties
<1> HIDE DEF slice
<1>3. ASSUME NEW k \in 1 .. Len(slice) PROVE slice[k] \in Whole
  <2>1. k \in 1 .. j - (i + 1) + 1 /\ i + 1 + k - 1 \in 1 .. Len(words)
        BY <1>1, <1>2
  <2>2. PICK w \in Word : w = slice[k] /\ w.part = 1 /\ w.width > 0
    <3>1. PICK p \in 1 .. Len(words) : p = i + 1 + k - 1 /\ slice[k] = words[p]
          BY <1>2, <2>1
    <3>2. words[p] \in Word /\ words[p].part = 1 /\ words[p].width > 0
          BY <1>1, ElementOfSeq DEF Placed
    <3> QED
      BY <3>1, <3>2
  <2>3. Width(slice) <= Limit
        BY DEF slice
  <2>4. w.width <= Limit /\ w.width \in Nat /\ Limit \in Nat
        BY <1>2, <2>2, <2>3, WordsWithin, ChunkLimitsAssumption DEF Word
  <2> QED
    BY <2>2, <2>4 DEF Whole
<1>4. slice \in Seq(Whole)
  <2>1. Len(slice) \in Nat /\ slice = [k \in 1 .. Len(slice) |-> slice[k]]
        BY <1>2, LenProperties
  <2>2. [k \in 1 .. Len(slice) |-> slice[k]] \in Seq(Whole)
        BY <1>3, <2>1, IsASeq
  <2> QED
    BY <2>1, <2>2
<1>5. Divided(slice) = slice
      BY <1>4, WholeText
<1>6. SubSeq(Divided(words), Where(words, i) + 1, Where(words, j)) = Divided(slice)
      BY <1>1, DividedSlice DEF slice
<1> QED
  BY <1>5, <1>6 DEF slice

\* Where stretches of words lie in the divided text.
LEMMA WhereGrows ==
    ASSUME NEW words, Placed(words)
    PROVE  /\ \A k \in 0 .. Len(words) : Where(words, k) \in 0 .. Len(Divided(words))
           /\ \A i, j \in 0 .. Len(words) : i < j => Where(words, i) < Where(words, j)
<1> DEFINE n == Len(words)
<1>1. words \in Seq(Word) /\ n \in Nat
      BY LenProperties DEF Placed
<1>2. Len(Divided(words)) \in Nat
      BY <1>1, DividedIsText, LenProperties
<1>3. ASSUME NEW k \in 0 .. n PROVE Where(words, k) \in 0 .. Len(Divided(words))
  <2>1. k \in k .. n
        BY <1>1
  <2> QED
    BY <1>1, <1>2, <2>1, DividedSlice
<1>4. ASSUME NEW i \in 0 .. n, NEW j \in 0 .. n, i < j
      PROVE  Where(words, i) < Where(words, j)
  <2>1. /\ i + 1 \in 1 .. n /\ i + 1 \in 0 .. n /\ j \in i + 1 .. n /\ i + 1 - 1 = i
        BY <1>1, <1>4
  <2>2. Where(words, i + 1 - 1) < Where(words, i + 1)
        BY <2>1, FixedWidthCovers
  <2>3. Where(words, i + 1) <= Where(words, j)
    <3>1. /\ Where(words, i + 1) \in Nat
          /\ Where(words, j)
                = Where(words, i + 1) + Len(Divided(SubSeq(words, i + 1 + 1, j)))
          BY <1>1, <2>1, DividedSlice
    <3>2. SubSeq(words, i + 1 + 1, j) \in Seq(Word)
      <4>1. i + 1 + 1 \in 1 .. n + 1 /\ j \in i + 1 + 1 - 1 .. n
            BY <1>1, <2>1
      <4> QED
        BY <1>1, <4>1, PartOfSeq
    <3>3. Len(Divided(SubSeq(words, i + 1 + 1, j))) \in Nat
          BY <3>2, DividedIsText, LenProperties
    <3> QED
      BY <3>1, <3>3
  <2>4. /\ Where(words, i) \in Nat /\ Where(words, i + 1) \in Nat /\ Where(words, j) \in Nat
        BY <1>2, <1>3, <2>1
  <2> QED
    BY <2>1, <2>2, <2>3, <2>4
<1> QED
  BY <1>3, <1>4

\* A sentence, cut between words, is all there.
LEMMA SplitSentenceCovers ==
    ASSUME NEW words, Placed(words), NEW i \in 0 .. Len(words), NEW j \in i + 1 .. Len(words)
    PROVE  Covers(Divided(words), SplitSentence(SubSeq(words, i + 1, j)),
                  Where(words, i), Where(words, j))
<1> DEFINE sentence == SubSeq(words, i + 1, j)
           m == j - i
           text == Divided(words)
           Piece(k) == FixedWidth(sentence[k])
           pieces == [k \in DOMAIN sentence |-> Piece(k)]
           Single(k) == <<sentence[k]>>
           units == [k \in DOMAIN sentence |-> Single(k)]
           at == [k \in 0 .. m |-> Where(words, i + k)]
<1>1. /\ words \in Seq(Word) /\ Len(words) \in Nat /\ i \in Nat /\ j \in Nat /\ m \in Nat \ {0}
      BY LenProperties DEF Placed
<1>2. /\ sentence \in Unit /\ Len(sentence) = m /\ DOMAIN sentence = 1 .. m
      /\ \A k \in 1 .. m : /\ i + k \in 1 .. Len(words) /\ sentence[k] = words[i + k]
                           /\ sentence[k] \in Word
  <2>1. PICK f \in 1 .. Len(words) : f = i + 1 /\ j \in f .. Len(words) /\ j - f + 1 = m
        BY <1>1
  <2>2. /\ SubSeq(words, f, j) \in Unit /\ Len(SubSeq(words, f, j)) = j - f + 1
        /\ \A k \in 1 .. j - f + 1 : SubSeq(words, f, j)[k] = words[f + k - 1]
        BY <1>1, <2>1, SliceShape
  <2>3. \A k \in 1 .. m : f + k - 1 = i + k /\ i + k \in 1 .. Len(words)
        BY <1>1, <2>1
  <2>4. sentence \in Unit /\ Len(sentence) = m /\ \A k \in 1 .. m : sentence[k] = words[i + k]
        BY <2>1, <2>2, <2>3
  <2> HIDE DEF sentence
  <2>5. DOMAIN sentence = 1 .. m
        BY <2>4, LenProperties DEF Unit
  <2> QED
    BY <1>1, <2>3, <2>4, <2>5, ElementOfSeq
<1>3. SplitSentence(sentence) = IF m = 1 THEN pieces[1] ELSE ChunkUnits(units, pieces)
  <2>1. Len(sentence) = m
        BY <1>2
  <2> HIDE DEF sentence, m
  <2> QED
    BY <2>1 DEF SplitSentence
<1>4. ASSUME NEW k \in 1 .. m
      PROVE  /\ Where(words, i + k - 1) < Where(words, i + k)
             /\ Covers(text, Piece(k), Where(words, i + k - 1), Where(words, i + k))
             /\ Piece(k) \in Seq(FittingChunk)
  <2>1. PICK p \in 1 .. Len(words) : p = i + k /\ sentence[k] = words[p]
        BY <1>2
  <2>2. /\ Where(words, p - 1) < Where(words, p)
        /\ Covers(text, FixedWidth(words[p]), Where(words, p - 1), Where(words, p))
        BY FixedWidthCovers
  <2>3. FixedWidth(sentence[k]) \in Seq(FittingChunk)
        BY <1>2, FixedWidthFits
  <2> QED
    BY <2>1, <2>2, <2>3
<1>5. ASSUME NEW k \in 1 .. m, Width(Single(k)) <= Limit
      PROVE  Single(k) = SubSeq(text, Where(words, i + k - 1) + 1, Where(words, i + k))
  <2>1. PICK p \in 1 .. Len(words) : p = i + k /\ sentence[k] = words[p] /\ words[p] \in Word
        BY <1>2
  <2>2. SubSeq(text, Where(words, p - 1) + 1, Where(words, p)) = Parts(words[p])
        BY FixedWidthCovers
  <2>3. words[p] \in Whole
    <3>1. PICK w \in Word : w = words[p]
          BY <2>1
    <3>2. w.width <= Limit /\ w.width \in Nat /\ w.part = 1 /\ w.width > 0 /\ Limit \in Nat
          BY <1>5, <2>1, <3>1, WidthIsNumber, ChunkLimitsAssumption DEF Placed, Word
    <3> QED
      BY <3>1, <3>2 DEF Whole
  <2>4. Parts(words[p]) = <<words[p]>>
        BY <2>3, WholeIsItsPart
  <2>5. Single(k) = <<words[p]>> /\ i + k - 1 = p - 1 /\ i + k = p
        BY <2>1
  <2> HIDE DEF Single, text
  <2> QED
    BY <2>2, <2>4, <2>5
<1>6. units \in Seq(Unit) /\ DOMAIN units = 1 .. m /\ Len(units) = m
      /\ \A k \in 1 .. m : units[k] = Single(k)
  <2>1. \A w \in Word : <<w>> \in Seq(Word) /\ <<w>> # <<>>
        OBVIOUS
  <2>2. \A k \in 1 .. m : Single(k) \in Unit
        BY <1>2, <2>1 DEF Unit
  <2>3. units = [k \in 1 .. m |-> Single(k)]
        BY <1>2
  <2> HIDE DEF units, Single, m, sentence
  <2>4. units \in Seq(Unit)
        BY <1>1, <2>2, <2>3, IsASeq
  <2> QED
    BY <1>1, <2>3, <2>4, LenProperties
<1>7. /\ pieces \in [1 .. m -> Seq(FittingChunk)] /\ \A k \in 1 .. m : pieces[k] = Piece(k)
      BY <1>2, <1>4
<1>8. at \in [0 .. m -> 0 .. Len(text)] /\ at[0] = Where(words, i) /\ at[m] = Where(words, j)
      /\ \A k \in 1 .. m : at[k - 1] = Where(words, i + k - 1) /\ at[k] = Where(words, i + k)
  <2>1. \A k \in 0 .. m : i + k \in 0 .. Len(words)
        BY <1>1
  <2>2. \A k \in 0 .. m : Where(words, i + k) \in 0 .. Len(text)
        BY <2>1, WhereGrows
  <2>3. i + 0 = i /\ i + m = j /\ 0 \in 0 .. m /\ m \in 0 .. m
        BY <1>1
  <2>4. \A k \in 1 .. m : k \in 0 .. m /\ k - 1 \in 0 .. m /\ i + (k - 1) = i + k - 1
        BY <1>1
  <2> HIDE DEF m, text
  <2> QED
    BY <2>2, <2>3, <2>4
<1>9. Distinct(text)
      BY DividedIsDistinct
<1> HIDE DEF units, pieces, at, text, m, Single, Piece, sentence
<1>10. CASE m = 1
  <2>1. 1 \in 1 .. m /\ pieces[1] = Piece(1) /\ i + 1 - 1 = i
        BY <1>1, <1>7, <1>10
  <2>2. Covers(text, Piece(1), Where(words, i + 1 - 1), Where(words, i + 1))
        BY <1>4, <2>1
  <2>3. Where(words, i + 1) = Where(words, j)
    <3>1. 1 - 1 = 0
          OBVIOUS
    <3> QED
      BY <1>8, <1>10, <2>1
  <2> QED
    BY <1>3, <1>10, <2>1, <2>2, <2>3 DEF sentence, text
<1>11. CASE m # 1
  <2>1. \A k \in 1 .. Len(units) :
           /\ at[k - 1] < at[k]
           /\ Width(units[k]) <= Limit => units[k] = SubSeq(text, at[k - 1] + 1, at[k])
           /\ Width(units[k]) > Limit => Covers(text, pieces[k], at[k - 1], at[k])
        BY <1>4, <1>5, <1>6, <1>7, <1>8
  <2>2. Covers(text, ChunkUnits(units, pieces), at[0], at[Len(units)])
        BY <1>6, <1>7, <1>8, <1>9, <2>1, UnitsCover
  <2> QED
    BY <1>3, <1>6, <1>8, <1>11, <2>2 DEF sentence, text
<1> QED
  BY <1>10, <1>11

\* The chunks of a plain text cover it, for every text, however long its
\* sentences and words are: chunk_units never drops, repeats or reorders a word.
THEOREM PlainChunksCover ==
    ASSUME NEW sentences \in Seq(Unit), Placed(FlattenSeq(sentences))
    PROVE  LET text == Divided(FlattenSeq(sentences))
           IN Covers(text, ChunkPlain(sentences), 0, Len(text))
<1> DEFINE words == FlattenSeq(sentences)
           text == Divided(words)
           n == Len(sentences)
           Piece(k) == SplitSentence(sentences[k])
           pieces == [k \in DOMAIN sentences |-> Piece(k)]
<1>1. /\ DOMAIN sentences = 1 .. n /\ n \in Nat
      /\ \A k \in 1 .. n : sentences[k] \in Unit /\ sentences[k] \in Seq(Word)
      BY LenProperties, ElementOfSeq DEF Unit
<1>2. sentences \in Seq(Seq(Word))
      BY ChunksAreUnits
<1>3. words = FlattenSeq(sentences)
      OBVIOUS
<1> HIDE DEF words
<1>4. PICK ends : Ends(Word, sentences, ends)
      BY <1>2, FlattenVisits
<1>5. /\ words \in Seq(Word) /\ Len(words) \in Nat /\ Placed(words)
      BY LenProperties DEF Placed, words
<1> DEFINE e(k) == Len(ends[k])
<1>6. /\ e(0) = 0 /\ e(n) = Len(words)
      /\ \A k \in 0 .. n : e(k) \in 0 .. Len(words)
  <2>1. /\ ends[0] = <<>> /\ ends[n] = words /\ \A k \in 0 .. n : ends[k] \in Seq(Word)
        BY <1>1, <1>3, <1>4 DEF Ends
  <2>2. \A k \in 0 .. n : e(k) <= Len(words)
        BY <1>2, <1>3, <1>4, EndsExtend
  <2> QED
    BY <1>5, <2>1, <2>2, LenProperties
<1>7. ASSUME NEW k \in 1 .. n
      PROVE  /\ k - 1 \in 0 .. n /\ k \in 0 .. n
             /\ e(k - 1) < e(k)
             /\ sentences[k] = SubSeq(words, e(k - 1) + 1, e(k))
  <2>1. k - 1 \in 0 .. n /\ k \in 0 .. n
        BY <1>1
  <2>2. PICK x \in Seq(Word), y \in Unit : x = ends[k - 1] /\ y = sentences[k] /\ ends[k] = x \o y
        BY <1>1, <1>4, <2>1 DEF Ends
  <2>3. Len(x \o y) = Len(x) + Len(y) /\ Len(x) \in Nat /\ Len(y) \in Nat \ {0}
    <3>1. PICK z \in Seq(Word) : z = y /\ z # <<>>
          BY DEF Unit
    <3> QED
      BY <3>1, ConcatProperties, LenProperties, EmptySeq
  <2>4. SubSeq(words, e(k - 1) + 1, e(k - 1) + Len(sentences[k])) = sentences[k]
        BY <1>2, <1>3, <1>4, FlattenSlice
  <2>5. e(k - 1) = Len(x) /\ e(k) = Len(x) + Len(y) /\ Len(sentences[k]) = Len(y)
        BY <2>2, <2>3
  <2> HIDE DEF e
  <2>6. e(k - 1) < e(k)
        BY <2>3, <2>5
  <2> QED
    BY <2>1, <2>4, <2>5, <2>6
<1> HIDE DEF e
<1> DEFINE at == [k \in 0 .. n |-> Where(words, e(k))]
<1>8. /\ at \in [0 .. n -> 0 .. Len(text)]
      /\ \A k \in 0 .. n : at[k] = Where(words, e(k))
  <2>1. \A k \in 0 .. n : Where(words, e(k)) \in 0 .. Len(text)
        BY <1>5, <1>6, WhereGrows
  <2> HIDE DEF text
  <2> QED
    BY <2>1
<1>9. at[0] = 0 /\ at[n] = Len(text)
  <2>1. 0 \in 0 .. n /\ n \in 0 .. n
        BY <1>1
  <2>2. Where(words, 0) = 0 /\ Where(words, Len(words)) = Len(text)
    <3>1. 0 \in 0 .. Len(words) /\ 0 \in 0 .. Len(words)
          BY <1>5
    <3> QED
      BY <1>5, <3>1, DividedSlice
  <2> HIDE DEF at, text
  <2> QED
    BY <1>6, <1>8, <2>1, <2>2
<1> HIDE DEF at
<1>10. ASSUME NEW k \in 1 .. n
       PROVE  /\ at[k - 1] < at[k]
              /\ Width(sentences[k]) <= Limit =>
                    sentences[k] = SubSeq(text, at[k - 1] + 1, at[k])
              /\ Covers(text, Piece(k), at[k - 1], at[k])
              /\ Piece(k) \in Seq(FittingChunk)
  <2>1. PICK i \in 0 .. Len(words), j \in 0 .. Len(words) : i = e(k - 1) /\ j = e(k)
        BY <1>6, <1>7
  <2>2. i < j /\ i \in Nat /\ j \in Nat /\ sentences[k] = SubSeq(words, i + 1, j)
    <3>1. e(k - 1) < e(k) /\ sentences[k] = SubSeq(words, e(k - 1) + 1, e(k))
          BY <1>7
    <3>2. i \in Nat /\ j \in Nat
          BY <1>5
    <3> QED
      BY <2>1, <3>1, <3>2
  <2>3. j \in i + 1 .. Len(words) /\ j \in i .. Len(words)
        BY <1>5, <2>2
  <2>4. at[k - 1] = Where(words, i) /\ at[k] = Where(words, j)
        BY <1>7, <1>8, <2>1
  <2>5. Where(words, i) < Where(words, j)
        BY <1>5, <2>2, WhereGrows
  <2>6. Covers(text, SplitSentence(SubSeq(words, i + 1, j)), Where(words, i), Where(words, j))
        BY <1>5, <2>3, SplitSentenceCovers
  <2>7. Width(SubSeq(words, i + 1, j)) <= Limit =>
           SubSeq(words, i + 1, j) = SubSeq(text, Where(words, i) + 1, Where(words, j))
        BY <1>5, <2>3, FittingSlice
  <2>8. SplitSentence(sentences[k]) \in Seq(FittingChunk)
        BY <1>1, SplitSentenceFits
  <2> HIDE DEF text
  <2> QED
    BY <2>2, <2>4, <2>5, <2>6, <2>7, <2>8
<1>11. ChunkPlain(sentences) = ChunkUnits(sentences, pieces)
      BY DEF ChunkPlain
<1>12. /\ pieces \in [DOMAIN sentences -> Seq(FittingChunk)]
       /\ \A k \in 1 .. n : pieces[k] = Piece(k)
      BY <1>1, <1>10
<1>13. Distinct(text)
      BY <1>5, DividedIsDistinct
<1> HIDE DEF text, pieces, Piece
<1>14. Covers(text, ChunkUnits(sentences, pieces), at[0], at[n])
      BY <1>8, <1>10, <1>12, <1>13, UnitsCover
<1> QED
  BY <1>9, <1>11, <1>14 DEF text, words

\* A word's parts are together as wide as the word.
LEMMA PartsAddUp == \A word \in Word : Widths(Parts(word)) = word.width
<1> TAKE word \in Word
<1> DEFINE whole == word.width \div Limit
           rest == word.width % Limit
           n == whole + (IF rest = 0 THEN 0 ELSE 1)
           Wide(k) == IF k <= whole THEN Limit ELSE rest
           parts == Parts(word)
<1>1. PICK w \in Nat, m \in Nat \ {0} : w = word.width /\ m = Limit
      BY ChunkLimitsAssumption DEF Word
<1>2. whole \in Nat /\ rest \in Nat /\ (whole * m) + rest = w
  <2>1. w \div m \in Nat /\ w % m \in Nat /\ ((w \div m) * m) + (w % m) = w
        OBVIOUS
  <2> QED
    BY <1>1, <2>1
<1>3. /\ parts \in Seq(Word) /\ DOMAIN parts = 1 .. n /\ Len(parts) = n /\ n \in Nat
      /\ \A k \in 1 .. n : parts[k].width = Wide(k)
  <2>1. /\ DOMAIN parts = 1 .. n /\ \A k \in 1 .. n : parts[k].width = Wide(k)
        BY DEF Parts
  <2>2. n \in Nat
        BY <1>2
  <2> HIDE DEF n
  <2> QED
    BY <2>1, <2>2, PartsShape, LenProperties
<1> HIDE DEF whole, rest, parts
<1>4. Widening!Steps(0, Nat, Word, 0)
      BY DEF Widening!Steps, MoreWidth, Word
<1>5. PICK values : Widening!Visits(0, Nat, 0, parts, values)
      BY <1>3, <1>4, Widening!FoldVisits
<1>6. /\ values[0] = 0 /\ values[n] = Widths(parts)
      /\ \A k \in 1 .. n : values[k] = values[k - 1] + Wide(k)
      BY <1>3, <1>5, WidthsFold DEF Widening!Visits, MoreWidth
<1> DEFINE S == {k \in 0 .. whole : values[k] = k * m}
<1>7. 0 .. whole \subseteq S
  <2>1. 0 \in S
    <3>1. 0 * m = 0
          OBVIOUS
    <3> QED
      BY <1>2, <1>6, <3>1
  <2>2. ASSUME NEW k \in 0 .. whole - 1, k \in S PROVE k + 1 \in S
    <3>1. k + 1 \in 1 .. n /\ k + 1 \in 0 .. whole /\ k + 1 - 1 = k /\ k \in Nat
          BY <1>2
    <3>2. values[k + 1] = k * m + m
      <4>1. values[k + 1] = values[k] + Wide(k + 1)
            BY <1>6, <3>1
      <4>2. Wide(k + 1) = m
            BY <1>1, <3>1
      <4> QED
        BY <2>2, <4>1, <4>2
    <3>3. k * m + m = (k + 1) * m
          BY <3>1
    <3> QED
      BY <3>1, <3>2, <3>3
  <2> HIDE DEF S
  <2> QED
    BY <1>2, <2>1, <2>2, Widening!UpTo
<1>8. values[whole] = whole * m
      BY <1>2, <1>7
<1>9. values[n] = w
  <2>1. CASE rest = 0
        BY <1>2, <1>8, <2>1
  <2>2. CASE rest # 0
    <3>1. n = whole + 1 /\ n \in 1 .. n /\ n - 1 = whole /\ ~(n <= whole)
          BY <1>2, <2>2
    <3>2. values[n] = values[whole] + rest
          BY <1>6, <3>1
    <3> QED
      BY <1>2, <1>8, <3>2
  <2> QED
    BY <2>1, <2>2
<1> QED
  BY <1>1, <1>6, <1>9 DEF parts

-----------------------------------------------------------------------------
\* The words of a run's text are in their places, and its sentences are the text.
LEMMA WordsArePlaced ==
    ASSUME LoopTypeOK
    PROVE  Placed(Words) /\ Len(Words) = Len(lengths) /\ \A k \in DOMAIN lengths :
               k \in 1 .. Len(Words) /\ Words[k].width = lengths[k]
<1> DEFINE n == Len(lengths)
           Read(k) == [place |-> k, part |-> 1, width |-> lengths[k]]
<1>1. /\ DOMAIN lengths = 1 .. n /\ n \in Nat
      /\ \A k \in 1 .. n : lengths[k] \in Nat /\ lengths[k] > 0
  <2>1. lengths \in Seq(TokenCounts)
        BY DEF LoopTypeOK
  <2>2. /\ DOMAIN lengths = 1 .. n /\ n \in Nat
        /\ \A k \in 1 .. n : lengths[k] \in TokenCounts
        BY <2>1, LenProperties, ElementOfSeq
  <2>3. \A tokens \in TokenCounts : tokens \in Nat /\ tokens > 0
        BY TokenCountsAssumption
  <2> HIDE DEF n
  <2> QED
    BY <2>2, <2>3
<1>2. \A k \in 1 .. n : /\ Read(k) \in Word /\ Read(k).place = k
                        /\ Read(k).part = 1 /\ Read(k).width = lengths[k]
      BY <1>1 DEF Word
<1>3. Words = [k \in 1 .. n |-> Read(k)]
      BY <1>1 DEF Words
<1> HIDE DEF n, Read
<1>4. Words \in Seq(Word)
      BY <1>1, <1>2, <1>3, IsASeq
<1>5. Len(Words) = n
      BY <1>1, <1>3, <1>4, LenProperties
<1>6. \A k \in 1 .. n : Words[k] = Read(k)
      BY <1>3
<1>7. Placed(Words)
      BY <1>1, <1>2, <1>4, <1>5, <1>6 DEF Placed
<1> QED
  BY <1>1, <1>2, <1>5, <1>6, <1>7 DEF n

\* The sentences of a text of the run, laid end to end, are its words.
LEMMA SentencesJoin ==
    ASSUME LoopTypeOK, NEW ends
    PROVE  FlattenSeq(Sentences(ends)) = Words
<1> DEFINE n == Len(Words)
           G == {e \in (0 .. n) \X Seq(Unit) : FlattenSeq(e[2]) = SubSeq(Words, 1, e[1])}
<1>1. Words \in Seq(Word) /\ n \in Nat
      BY WordsArePlaced, LenProperties DEF Placed
<1>2. ASSUME NEW sentences \in Seq(Unit), NEW word \in Word
      PROVE  /\ ReadWord(ends, sentences, word) \in Seq(Unit)
             /\ FlattenSeq(ReadWord(ends, sentences, word))
                   = FlattenSeq(sentences) \o <<word>>
  <2>0. <<word>> \in Seq(Word) /\ <<word>> # <<>> /\ <<word>> \in Unit
        BY DEF Unit
  <2>1. \A units \in Seq(Unit), s \in Seq(Word) :
           FlattenSeq(Append(units, s)) = FlattenSeq(units) \o s
    <3> TAKE units \in Seq(Unit), s \in Seq(Word)
    <3>1. units \in Seq(Seq(Word))
          BY ChunksAreUnits
    <3> QED
      BY <3>1, FlattenAppend
  <2>2. CASE sentences = <<>> \/ word.place - 1 \in ends
    <3>1. ReadWord(ends, sentences, word) = Append(sentences, <<word>>)
          BY <2>2 DEF ReadWord
    <3>2. Append(sentences, <<word>>) \in Seq(Unit)
          BY <2>0, AppendProperties
    <3>3. FlattenSeq(Append(sentences, <<word>>)) = FlattenSeq(sentences) \o <<word>>
          BY <2>0, <2>1
    <3> QED
      BY <3>1, <3>2, <3>3
  <2>3. CASE ~(sentences = <<>> \/ word.place - 1 \in ends)
    <3>1. PICK front \in Seq(Unit), end \in Seq(Word) :
             front = Front(sentences) /\ end = Last(sentences) /\ end \in Unit
          BY <2>3, FrontAndLast DEF Unit
    <3>2. sentences = Append(front, end)
      <4>1. Len(sentences) \in 1 .. Len(sentences) /\ 1 \in 1 .. Len(sentences)
        <5>1. Len(sentences) \in Nat \ {0}
              BY <2>3, FrontAndLast
        <5> QED
          BY <5>1
      <4>2. SubSeq(sentences, 1, Len(sentences))
               = SubSeq(sentences, 1, Len(sentences) - 1) \o <<sentences[Len(sentences)]>>
            BY <4>1, SubSeqRecursiveSecond
      <4>3. SubSeq(sentences, 1, Len(sentences)) = sentences
            BY SubSeqFull
      <4>4. sentences = front \o <<end>>
            BY <3>1, <4>2, <4>3 DEF Front, Last
      <4> QED
        BY <3>1, <4>4, AppendIsConcat
    <3>3. Append(end, word) = end \o <<word>> /\ Append(end, word) \in Unit
      <4>1. Append(end, word) \in Seq(Word) /\ Append(end, word) # <<>>
            BY AppendProperties
      <4> QED
        BY <4>1, AppendIsConcat DEF Unit
    <3>4. ReadWord(ends, sentences, word) = Append(front, Append(end, word))
          BY <2>3, <3>1 DEF ReadWord
    <3>5. Append(front, Append(end, word)) \in Seq(Unit)
          BY <3>3, AppendProperties
    <3>6. FlattenSeq(Append(front, Append(end, word))) = FlattenSeq(front) \o (end \o <<word>>)
      <4>1. Append(end, word) \in Seq(Word)
            BY <3>3 DEF Unit
      <4> QED
        BY <2>1, <3>3, <4>1
    <3>7. FlattenSeq(sentences) = FlattenSeq(front) \o end
          BY <2>1, <3>2
    <3>8. PICK x \in Seq(Word), z \in Seq(Word) : x = FlattenSeq(front) /\ z = <<word>>
          BY <2>0, UnitsJoin
    <3>9. (x \o end) \o z = x \o (end \o z)
          BY TextsAssociate
    <3> QED
      BY <3>4, <3>5, <3>6, <3>7, <3>8, <3>9
  <2> QED
    BY <2>2, <2>3
<1>3. Splitting!Steps(ends, Seq(Unit), Word, <<>>)
      BY <1>2, EmptySeq DEF Splitting!Steps
<1>4. <<0, <<>>>> \in G
  <2>1. FlattenSeq(<<>>) = <<>> /\ SubSeq(Words, 1, 0) = <<>>
        BY SubSeqEmpty DEF FlattenSeq
  <2>2. <<>> \in Seq(Unit) /\ 0 \in 0 .. n
        BY <1>1, EmptySeq
  <2> QED
    BY <2>1, <2>2
<1>5. ASSUME NEW k \in 1 .. n, NEW sentences \in Seq(Unit), <<k - 1, sentences>> \in G
      PROVE  <<k, ReadWord(ends, sentences, Words[k])>> \in G
  <2>1. FlattenSeq(sentences) = SubSeq(Words, 1, k - 1)
        BY <1>5
  <2>2. PICK word \in Word : word = Words[k]
        BY <1>1, ElementOfSeq
  <2>3. PICK next \in Seq(Unit) : /\ next = ReadWord(ends, sentences, word)
                                  /\ FlattenSeq(next) = FlattenSeq(sentences) \o <<word>>
        BY <1>2
  <2>4. SubSeq(Words, 1, k) = SubSeq(Words, 1, k - 1) \o <<word>>
    <3>1. 1 \in 1 .. n /\ k \in 1 .. n
          BY <1>1
    <3> QED
      BY <1>1, <2>2, <3>1, SubSeqRecursiveSecond
  <2>5. FlattenSeq(next) = SubSeq(Words, 1, k) /\ k \in 0 .. n
        BY <1>1, <2>1, <2>3, <2>4
  <2>6. <<k, next>> \in (0 .. n) \X Seq(Unit) /\ <<k, next>>[1] = k /\ <<k, next>>[2] = next
        BY <2>5
  <2> QED
    BY <2>2, <2>3, <2>5, <2>6
<1> HIDE DEF G
<1>6. <<n, Splitting!Folded(ends, <<>>, Words)>> \in G
      BY <1>1, <1>3, <1>4, <1>5, Splitting!FoldKeeps
<1>7. FlattenSeq(Sentences(ends)) = SubSeq(Words, 1, n)
      BY <1>6, SentencesFold DEF G
<1> QED
  BY <1>1, <1>7, SubSeqFull

\* So do the chunks of every text of the run, and its words' parts are the words.
THEOREM ChunksAlwaysCover == LoopSpec => []ChunksCoverTheText
<1>1. LoopTypeOK => ChunksCoverTheText
  <2> SUFFICES ASSUME LoopTypeOK PROVE ChunksCoverTheText
      OBVIOUS
  <2>1. ASSUME NEW k \in DOMAIN lengths PROVE Widths(Parts(Words[k])) = lengths[k]
    <3>1. Words[k] \in Word /\ Words[k].width = lengths[k]
          BY WordsArePlaced, ElementOfSeq DEF Placed
    <3> QED
      BY <3>1, PartsAddUp
  <2>2. ASSUME NEW ends \in Endings
        PROVE  Covers(Divided(Words), ChunkPlain(Sentences(ends)), 0, Len(Divided(Words)))
    <3>1. Sentences(ends) \in Seq(Unit) /\ FlattenSeq(Sentences(ends)) = Words /\ Placed(Words)
          BY SentencesAreUnits, SentencesJoin, WordsArePlaced
    <3> HIDE DEF Words
    <3>2. PICK sentences \in Seq(Unit) :
             sentences = Sentences(ends) /\ FlattenSeq(sentences) = Words
          BY <3>1
    <3> QED
      BY <3>1, <3>2, PlainChunksCover
  <2> QED
    BY <2>1, <2>2 DEF ChunksCoverTheText
<1>2. LoopInv => LoopTypeOK
      BY DEF LoopInv
<1> QED
  BY <1>1, <1>2, LoopConsistent, PTL
================================================================================
