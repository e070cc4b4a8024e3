--------------------------- MODULE MessagesProofs ---------------------------
(***************************************************************************)
(* Proof that nothing is lost, doubled or misnamed on the way from a       *)
(* message to updates, for any accounts, names and number of items.        *)
(*                                                                         *)
(* What a message leads to is computed by recursion over its items.  That  *)
(* a recursive definition means what it says, and what it computes, is     *)
(* shown by induction on sets of numbers (Induction): the numbers for      *)
(* which a claim holds contain 0, and with each the next.                  *)
(***************************************************************************)
EXTENDS Messages, SequenceTheorems, FiniteSetTheorems, NaturalsInduction,
        WellFoundedInduction, TLAPS

-----------------------------------------------------------------------------
(* Numbers and recursion.                                                    *)

\* A set with 0 that is closed under the successor, up to n, has all numbers up to n.
LEMMA Induction ==
    ASSUME NEW n \in Nat, NEW S, 0 \in S, \A m \in 0 .. n - 1 : m \in S => m + 1 \in S
    PROVE  \A m \in 0 .. n : m \in S
<1> DEFINE R == {ss \in Nat \X Nat : ss[1] < ss[2]}
           T == {m \in 0 .. n : m \notin S}
<1>1. IsWellFoundedOn(R, Nat)
  BY NatLessThanWellFounded DEF OpToRel
<1>2. \A a, b \in Nat : a < b => <<a, b>> \in R
  OBVIOUS
<1>3. SUFFICES ASSUME T # {} PROVE FALSE
  OBVIOUS
<1>4. T \subseteq Nat
  OBVIOUS
<1> HIDE DEF R
<1>5. PICK t \in T : \A s \in T : ~(<<s, t>> \in R)
  BY <1>1, <1>3, <1>4, WFMin
<1>6. t \in 0 .. n /\ t # 0
  BY <1>5
<1>7. t - 1 \in Nat /\ t - 1 \in 0 .. n - 1 /\ t - 1 < t /\ (t - 1) + 1 = t
  BY <1>6
<1>8. t - 1 \in T
  BY <1>5, <1>7
<1> QED
  BY <1>2, <1>4, <1>5, <1>7, <1>8

\* The loop of a handler is defined: work[m] is what the items up to m have made of start.
LEMMA LoopSteps ==
    ASSUME NEW handler, NEW start, NEW items, Len(items) \in Nat
    PROVE  \E work :
              /\ Loop(handler, start, items) = work[Len(items)]
              /\ work[0] = start
              /\ \A m \in 0 .. Len(items) - 1 :
                    work[m + 1] = OneItem(handler, work[m], items[m + 1])
<1> DEFINE n == Len(items)
           Step(f, k) == IF k = 0 THEN start ELSE OneItem(handler, f[k - 1], items[k])
           S == {m \in 0 .. n : \E f : f = [k \in 0 .. m |-> Step(f, k)]}
<1>1. 0 \in S
  <2> DEFINE g == [k \in 0 .. 0 |-> start]
  <2>1. g = [k \in 0 .. 0 |-> Step(g, k)]
    OBVIOUS
  <2>2. 0 \in 0 .. n
    OBVIOUS
  <2> HIDE DEF g
  <2> QED
    BY <2>1, <2>2
<1>2. ASSUME NEW m \in 0 .. n - 1, m \in S PROVE m + 1 \in S
  <2>1. PICK f : f = [k \in 0 .. m |-> Step(f, k)]
    BY <1>2
  <2> DEFINE g == [k \in 0 .. m + 1 |-> IF k = m + 1 THEN OneItem(handler, f[m], items[m + 1]) ELSE f[k]]
  <2>2. \A k \in 0 .. m : g[k] = f[k]
    OBVIOUS
  <2>3. ASSUME NEW k \in 0 .. m + 1 PROVE g[k] = Step(g, k)
    <3>1. CASE k = m + 1
      BY <2>2, <3>1
    <3>2. CASE k = 0
      BY <2>1, <2>2, <3>2
    <3>3. CASE k \in 1 .. m
      <4>1. k - 1 \in 0 .. m /\ k \in 0 .. m /\ k # 0
        BY <3>3
      <4> QED
        BY <2>1, <2>2, <4>1
    <3> QED
      BY <3>1, <3>2, <3>3
  <2>4. g = [k \in 0 .. m + 1 |-> Step(g, k)]
    BY <2>3
  <2>5. m + 1 \in 0 .. n
    OBVIOUS
  <2> HIDE DEF g
  <2> QED
    BY <2>4, <2>5
<1>3. \E f : f = [k \in 0 .. n |-> Step(f, k)]
  <2>1. n \in Nat /\ n \in 0 .. n
    OBVIOUS
  <2> HIDE DEF n, S
  <2>2. n \in S
    BY <1>1, <1>2, <2>1, Induction
  <2> QED
    BY <2>2 DEF S
<1> DEFINE work == CHOOSE f : f = [k \in 0 .. n |-> Step(f, k)]
<1>4. work = [k \in 0 .. n |-> Step(work, k)]
  BY <1>3
<1>5. Loop(handler, start, items) = work[n]
  BY DEF Loop
<1> HIDE DEF work
<1>6. work[0] = start
  BY <1>4
<1>7. ASSUME NEW m \in 0 .. n - 1 PROVE work[m + 1] = OneItem(handler, work[m], items[m + 1])
  <2>1. m + 1 \in 0 .. n /\ m + 1 # 0 /\ (m + 1) - 1 = m
    OBVIOUS
  <2> QED
    BY <1>4, <2>1
<1> QED
  BY <1>5, <1>6, <1>7

-----------------------------------------------------------------------------
(* Sequences.                                                                *)

\* FlattenSeq puts one sequence behind the other.
LEMMA FlattenSteps ==
    ASSUME NEW S, NEW seqs \in Seq(Seq(S))
    PROVE  \E flat :
              /\ FlattenSeq(seqs) = flat[Len(seqs)]
              /\ flat[0] = <<>>
              /\ \A m \in 0 .. Len(seqs) - 1 : flat[m + 1] = flat[m] \o seqs[m + 1]
<1> DEFINE n == Len(seqs)
           Step(f, k) == IF k = 1 THEN seqs[k] ELSE f[k - 1] \o seqs[k]
           T == {m \in 0 .. n : \E f : f = [k \in 1 .. m |-> Step(f, k)]}
<1>1. n \in Nat /\ \A k \in 1 .. n : seqs[k] \in Seq(S)
  BY LenProperties
<1>2. CASE n = 0
  <2>1. FlattenSeq(seqs) = seqs /\ seqs = <<>>
    BY <1>2, EmptySeq DEF FlattenSeq
  <2> DEFINE flat == [k \in {0} |-> <<>>]
  <2>2. flat[0] = <<>> /\ FlattenSeq(seqs) = flat[Len(seqs)] /\ 0 .. Len(seqs) - 1 = {}
    BY <1>2, <2>1
  <2> HIDE DEF flat
  <2> QED
    BY <2>2
<1>3. CASE n > 0
  <2>1. 0 \in T
    <3> DEFINE g == [k \in 1 .. 0 |-> 0]
    <3>1. g = [k \in 1 .. 0 |-> Step(g, k)] /\ 0 \in 0 .. n
      BY <1>1
    <3> HIDE DEF g
    <3> QED
      BY <3>1
  <2>2. ASSUME NEW m \in 0 .. n - 1, m \in T PROVE m + 1 \in T
    <3>1. PICK f : f = [k \in 1 .. m |-> Step(f, k)]
      BY <2>2
    <3> DEFINE g == [k \in 1 .. m + 1 |-> IF k <= m THEN f[k] ELSE Step(f, m + 1)]
    <3>2. \A k \in 1 .. m : g[k] = f[k]
      BY <1>1
    <3>3. ASSUME NEW k \in 1 .. m + 1 PROVE g[k] = Step(g, k)
      <4>1. CASE k = 1 /\ k <= m
        BY <1>1, <3>1, <3>2, <4>1
      <4>2. CASE k # 1 /\ k <= m
        <5>1. k \in 1 .. m /\ k - 1 \in 1 .. m
          BY <1>1, <4>2
        <5> QED
          BY <3>1, <3>2, <4>2, <5>1
      <4>3. CASE k = m + 1 /\ m = 0
        BY <1>1, <4>3
      <4>4. CASE k = m + 1 /\ m # 0
        <5>1. m \in 1 .. m /\ k # 1 /\ k - 1 = m /\ ~(k <= m)
          BY <1>1, <4>4
        <5> QED
          BY <3>2, <4>4, <5>1
      <4> QED
        BY <1>1, <4>1, <4>2, <4>3, <4>4
    <3>4. g = [k \in 1 .. m + 1 |-> Step(g, k)]
      BY <3>3
    <3>5. m + 1 \in 0 .. n
      BY <1>1
    <3> HIDE DEF g
    <3> QED
      BY <3>4, <3>5
  <2>3. \E f : f = [k \in 1 .. n |-> Step(f, k)]
    <3>1. n \in 0 .. n
      BY <1>1
    <3> HIDE DEF n, T
    <3>2. n \in T
      BY <1>1, <2>1, <2>2, <3>1, Induction
    <3> QED
      BY <3>2 DEF T
  <2> DEFINE flatten == CHOOSE f : f = [k \in 1 .. n |-> Step(f, k)]
             flat == [k \in 0 .. n |-> IF k = 0 THEN <<>> ELSE flatten[k]]
  <2>4. flatten = [k \in 1 .. n |-> Step(flatten, k)]
    BY <2>3
  <2>5. FlattenSeq(seqs) = flatten[n]
    BY <1>3 DEF FlattenSeq
  <2> HIDE DEF flatten
  <2>6. FlattenSeq(seqs) = flat[n] /\ flat[0] = <<>>
    BY <1>1, <1>3, <2>5
  <2>7. ASSUME NEW m \in 0 .. n - 1 PROVE flat[m + 1] = flat[m] \o seqs[m + 1]
    <3>1. m + 1 \in 1 .. n /\ flat[m + 1] = flatten[m + 1] /\ seqs[m + 1] \in Seq(S)
      BY <1>1
    <3>2. CASE m = 0
      <4>1. flat[m] = <<>> /\ flatten[m + 1] = seqs[m + 1]
        BY <1>1, <2>4, <3>1, <3>2
      <4> QED
        BY <3>1, <4>1, ConcatEmptySeq
    <3>3. CASE m # 0
      <4>1. m \in 0 .. n /\ m + 1 # 1 /\ (m + 1) - 1 = m
        BY <1>1, <3>3
      <4>2. flatten[m + 1] = flatten[m] \o seqs[m + 1]
        BY <2>4, <3>1, <4>1
      <4> QED
        BY <3>1, <3>3, <4>1, <4>2
    <3> QED
      BY <3>2, <3>3
  <2> HIDE DEF flat
  <2> QED
    BY <2>6, <2>7
<1>4. n = 0 \/ n > 0
  BY <1>1
<1> QED
  BY <1>2, <1>3, <1>4

\* What is added comes behind what was there.
LEMMA FlattenAppend ==
    ASSUME NEW S, NEW seqs \in Seq(Seq(S)), NEW s \in Seq(S)
    PROVE  /\ FlattenSeq(seqs) \in Seq(S)
           /\ FlattenSeq(Append(seqs, s)) = FlattenSeq(seqs) \o s
           /\ FlattenSeq(<<>>) = <<>>
<1> DEFINE n == Len(seqs)
           t == Append(seqs, s)
<1>1. n \in Nat /\ (\A k \in 1 .. n : seqs[k] \in Seq(S))
  BY LenProperties
<1>2. t \in Seq(Seq(S)) /\ Len(t) = n + 1 /\ (\A k \in 1 .. n : t[k] = seqs[k]) /\ t[n + 1] = s
  BY AppendProperties
<1>3. PICK f : /\ FlattenSeq(seqs) = f[n]
               /\ f[0] = <<>>
               /\ \A m \in 0 .. n - 1 : f[m + 1] = f[m] \o seqs[m + 1]
  BY FlattenSteps
<1>4. PICK g : /\ FlattenSeq(t) = g[Len(t)]
               /\ g[0] = <<>>
               /\ \A m \in 0 .. Len(t) - 1 : g[m + 1] = g[m] \o t[m + 1]
  BY <1>2, FlattenSteps
<1> DEFINE T == {m \in 0 .. n : f[m] = g[m] /\ f[m] \in Seq(S)}
<1>5. 0 \in T
  <2>1. 0 \in 0 .. n
    BY <1>1
  <2>2. f[0] = g[0] /\ f[0] \in Seq(S)
    BY <1>3, <1>4, EmptySeq
  <2> QED
    BY <2>1, <2>2
<1>6. ASSUME NEW m \in 0 .. n - 1, m \in T PROVE m + 1 \in T
  <2>1. m + 1 \in 1 .. n /\ m + 1 \in 0 .. n /\ m \in 0 .. Len(t) - 1
    BY <1>1, <1>2
  <2>2. f[m + 1] = f[m] \o seqs[m + 1] /\ g[m + 1] = g[m] \o seqs[m + 1]
    BY <1>2, <1>3, <1>4, <2>1
  <2>3. f[m] = g[m] /\ f[m] \in Seq(S)
    BY <1>6
  <2>4. seqs[m + 1] \in Seq(S)
    BY <1>1, <2>1
  <2>5. f[m] \o seqs[m + 1] \in Seq(S)
    BY <2>3, <2>4, ConcatProperties
  <2> QED
    BY <2>1, <2>2, <2>3, <2>5
<1>7. n \in T
  <2>1. n \in 0 .. n
    BY <1>1
  <2> HIDE DEF n, T
  <2> QED
    BY <1>1, <1>5, <1>6, <2>1, Induction
<1>8. FlattenSeq(t) = g[n] \o s
  <2>1. n \in 0 .. Len(t) - 1
    BY <1>1, <1>2
  <2> QED
    BY <1>2, <1>4, <2>1
<1>9. FlattenSeq(<<>>) = <<>>
  BY DEF FlattenSeq
<1> QED
  BY <1>3, <1>7, <1>8, <1>9

\* A sequence is a prefix of another if the latter begins with its elements.
LEMMA PrefixElements ==
    ASSUME NEW S, NEW s \in Seq(S), NEW t \in Seq(S)
    PROVE  IsPrefix(s, t) <=> Len(s) <= Len(t) /\ \A i \in 1 .. Len(s) : s[i] = t[i]
<1>1. /\ Len(s) \in Nat /\ Len(t) \in Nat
      /\ \A i \in 1 .. Len(s) : s[i] \in S
      /\ \A i \in 1 .. Len(t) : t[i] \in S
  BY LenProperties
<1>2. ASSUME Len(s) <= Len(t)
      PROVE  SubSeq(s, 1, Len(s)) = SubSeq(t, 1, Len(s)) <=> \A i \in 1 .. Len(s) : s[i] = t[i]
  <2>1. SubSeq(s, 1, Len(s)) = s
    BY SubSeqFull
  <2>2. \A i \in 1 .. Len(s) : t[i] \in S
    BY <1>1, <1>2
  <2> DEFINE u == SubSeq(t, 1, Len(s))
  <2>3. u \in Seq(S) /\ Len(u) = Len(s) /\ \A i \in 1 .. Len(s) : u[i] = t[i]
    <3>1. /\ u \in Seq(S)
          /\ Len(u) = IF 1 <= Len(s) THEN Len(s) - 1 + 1 ELSE 0
          /\ \A i \in 1 .. Len(s) - 1 + 1 : u[i] = t[1 + i - 1]
      BY <1>1, <2>2, SubSeqProperties
    <3> HIDE DEF u
    <3> QED
      BY <1>1, <3>1
  <2> HIDE DEF u
  <2>4. s = u <=> \A i \in 1 .. Len(s) : s[i] = u[i]
    BY <2>3, SeqEqual
  <2>5. (\A i \in 1 .. Len(s) : s[i] = u[i]) <=> (\A i \in 1 .. Len(s) : s[i] = t[i])
    BY <2>3
  <2> QED
    BY <2>1, <2>4, <2>5 DEF u
<1> QED
  BY <1>2 DEF IsPrefix

\* A sequence is a prefix of itself, and of whatever is appended to what it is a prefix of.
LEMMA PrefixGrows ==
    ASSUME NEW S, NEW s \in Seq(S), NEW t \in Seq(S), NEW e \in S
    PROVE  /\ IsPrefix(s, s)
           /\ IsPrefix(s, t) => IsPrefix(s, Append(t, e))
<1>1. IsPrefix(s, s)
  BY PrefixElements, LenProperties
<1>2. ASSUME IsPrefix(s, t) PROVE IsPrefix(s, Append(t, e))
  <2>1. /\ Append(t, e) \in Seq(S) /\ Len(Append(t, e)) = Len(t) + 1
        /\ \A i \in 1 .. Len(t) : Append(t, e)[i] = t[i]
    BY AppendProperties
  <2>2. Len(s) \in Nat /\ Len(t) \in Nat
    BY LenProperties
  <2>3. Len(s) <= Len(t) /\ \A i \in 1 .. Len(s) : s[i] = t[i]
    BY <1>2, PrefixElements
  <2>4. Len(s) <= Len(Append(t, e)) /\ \A i \in 1 .. Len(s) : s[i] = Append(t, e)[i]
    BY <2>1, <2>2, <2>3
  <2> QED
    BY <2>1, <2>4, PrefixElements
<1> QED
  BY <1>1, <1>2

\* And a first part of what is a prefix is one.
LEMMA PrefixOfPart ==
    ASSUME NEW S, NEW s \in Seq(S), NEW t \in Seq(S), NEW u \in Seq(S), IsPrefix(s \o t, u)
    PROVE  IsPrefix(s, u)
<1>1. /\ s \o t \in Seq(S) /\ Len(s \o t) = Len(s) + Len(t)
      /\ \A i \in 1 .. Len(s) + Len(t) : (s \o t)[i] = IF i <= Len(s) THEN s[i] ELSE t[i - Len(s)]
  BY ConcatProperties
<1>2. Len(s) \in Nat /\ Len(t) \in Nat /\ Len(u) \in Nat
  BY LenProperties
<1>3. Len(s \o t) <= Len(u) /\ \A i \in 1 .. Len(s \o t) : (s \o t)[i] = u[i]
  BY <1>1, PrefixElements
<1>4. Len(s) <= Len(u) /\ \A i \in 1 .. Len(s) : s[i] = u[i]
  BY <1>1, <1>2, <1>3
<1> QED
  BY <1>4, PrefixElements

\* An element behind the second part is an element behind both.
LEMMA ConcatAppend ==
    ASSUME NEW S, NEW s \in Seq(S), NEW t \in Seq(S), NEW e \in S
    PROVE  s \o Append(t, e) = Append(s \o t, e)
<1>1. <<e>> \in Seq(S) /\ s \o t \in Seq(S)
  BY ConcatProperties
<1>2. Append(t, e) = t \o <<e>> /\ Append(s \o t, e) = (s \o t) \o <<e>>
  BY <1>1, AppendIsConcat
<1> QED
  BY <1>1, <1>2, ConcatAssociative

-----------------------------------------------------------------------------
(* Items and updates, and the names in them.                                 *)

Owners == Accounts \cup {NoName}
ItemsOf(S) == [account : S, name : Names]
UpdatesOf(S) == [account : S, name : Names \cup {NoName}, content : Seq(ItemsOf(S))]

LEMMA NamesOf ==
    ASSUME NEW S, NEW c \in Seq(ItemsOf(S))
    PROVE  /\ Names_(c) \in Seq(Names)
           /\ Names_(<<>>) = <<>>
           /\ \A a \in S, x \in Names : Names_(Append(c, Item(a, x))) = Append(Names_(c), x)
<1>1. Len(c) \in Nat /\ DOMAIN c = 1 .. Len(c) /\ \A k \in 1 .. Len(c) : c[k] \in ItemsOf(S)
  BY LenProperties
<1>2. \A k \in 1 .. Len(c) : c[k].name \in Names
  BY <1>1 DEF ItemsOf
<1>3. Names_(c) \in Seq(Names) /\ Len(Names_(c)) = Len(c)
  BY <1>1, <1>2, IsASeq DEF Names_
<1>4. \A k \in 1 .. Len(c) : Names_(c)[k] = c[k].name
  BY <1>1 DEF Names_
<1>5. ASSUME NEW a \in S, NEW x \in Names
      PROVE  Names_(Append(c, Item(a, x))) = Append(Names_(c), x)
  <2> DEFINE d == Append(c, Item(a, x))
             e == Append(Names_(c), x)
  <2>1. Item(a, x) \in ItemsOf(S) /\ Item(a, x).name = x
    BY DEF Item, ItemsOf
  <2>2. /\ d \in Seq(ItemsOf(S)) /\ Len(d) = Len(c) + 1 /\ d[Len(c) + 1] = Item(a, x)
        /\ \A k \in 1 .. Len(c) : d[k] = c[k]
    BY <2>1, AppendProperties
  <2>3. /\ e \in Seq(Names) /\ Len(e) = Len(c) + 1 /\ e[Len(c) + 1] = x
        /\ \A k \in 1 .. Len(c) : e[k] = Names_(c)[k]
    BY <1>3, AppendProperties
  <2> HIDE DEF d, e
  <2>4. Len(d) \in Nat /\ DOMAIN d = 1 .. Len(d) /\ \A k \in 1 .. Len(d) : d[k] \in ItemsOf(S)
    BY <2>2, LenProperties
  <2>5. Names_(d) \in Seq(Names) /\ Len(Names_(d)) = Len(d)
    <3>1. \A k \in 1 .. Len(d) : d[k].name \in Names
      BY <2>4 DEF ItemsOf
    <3> QED
      BY <2>4, <3>1, IsASeq DEF Names_
  <2>6. \A k \in 1 .. Len(d) : Names_(d)[k] = d[k].name
    BY <2>4 DEF Names_
  <2>7. \A k \in 1 .. Len(d) : Names_(d)[k] = e[k]
    <3> SUFFICES ASSUME NEW k \in 1 .. Len(d) PROVE Names_(d)[k] = e[k]
      OBVIOUS
    <3>1. CASE k \in 1 .. Len(c)
      BY <1>4, <2>2, <2>3, <2>6, <3>1
    <3>2. CASE k = Len(c) + 1
      BY <2>1, <2>2, <2>3, <2>6, <3>2
    <3> QED
      BY <1>1, <2>2, <3>1, <3>2
  <2>8. Names_(d) = e
    BY <2>2, <2>3, <2>5, <2>7, SeqEqual
  <2> QED
    BY <2>8 DEF d, e
<1>6. Names_(<<>>) = <<>>
  BY DEF Names_
<1> QED
  BY <1>3, <1>5, <1>6

\* The names in a sequence of updates, one behind the other.
NamesIn(done) == [k \in DOMAIN done |-> Names_(done[k].content)]
Told(done) == FlattenSeq(NamesIn(done))

LEMMA ToldOf ==
    ASSUME NEW S, NEW done \in Seq(UpdatesOf(S))
    PROVE  /\ Told(done) \in Seq(Names)
           /\ Told(<<>>) = <<>>
           /\ \A u \in UpdatesOf(S) : Told(Append(done, u)) = Told(done) \o Names_(u.content)
<1>1. ASSUME NEW d \in Seq(UpdatesOf(S))
      PROVE  /\ NamesIn(d) \in Seq(Seq(Names)) /\ Len(NamesIn(d)) = Len(d)
             /\ \A k \in 1 .. Len(d) : NamesIn(d)[k] = Names_(d[k].content)
  <2>1. Len(d) \in Nat /\ DOMAIN d = 1 .. Len(d) /\ \A k \in 1 .. Len(d) : d[k] \in UpdatesOf(S)
    BY LenProperties
  <2>2. \A k \in 1 .. Len(d) : d[k].content \in Seq(ItemsOf(S))
    BY <2>1 DEF UpdatesOf
  <2>3. \A k \in 1 .. Len(d) : Names_(d[k].content) \in Seq(Names)
    BY <2>2, NamesOf
  <2>4. NamesIn(d) \in Seq(Seq(Names)) /\ Len(NamesIn(d)) = Len(d)
    BY <2>1, <2>3, IsASeq DEF NamesIn
  <2> QED
    BY <2>1, <2>4 DEF NamesIn
<1>2. Told(done) \in Seq(Names)
  <2>1. <<>> \in Seq(Names)
    BY EmptySeq
  <2> QED
    BY <1>1, <2>1, FlattenAppend DEF Told
<1>3. Told(<<>>) = <<>>
  <2>1. NamesIn(<<>>) = <<>>
    BY DEF NamesIn
  <2> QED
    BY <2>1 DEF Told, FlattenSeq
<1>4. ASSUME NEW u \in UpdatesOf(S)
      PROVE  Told(Append(done, u)) = Told(done) \o Names_(u.content)
  <2> DEFINE d == Append(done, u)
             a == NamesIn(d)
             b == Append(NamesIn(done), Names_(u.content))
  <2>1. Names_(u.content) \in Seq(Names)
    BY NamesOf DEF UpdatesOf
  <2>2. /\ d \in Seq(UpdatesOf(S)) /\ Len(d) = Len(done) + 1 /\ d[Len(done) + 1] = u
        /\ \A k \in 1 .. Len(done) : d[k] = done[k]
    BY AppendProperties
  <2>3. /\ b \in Seq(Seq(Names)) /\ Len(b) = Len(done) + 1 /\ b[Len(done) + 1] = Names_(u.content)
        /\ \A k \in 1 .. Len(done) : b[k] = NamesIn(done)[k]
    BY <1>1, <2>1, AppendProperties
  <2> HIDE DEF d
  <2>4. /\ a \in Seq(Seq(Names)) /\ Len(a) = Len(d)
        /\ \A k \in 1 .. Len(d) : a[k] = Names_(d[k].content)
    BY <1>1, <2>2
  <2> HIDE DEF a, b
  <2>5. Len(done) \in Nat /\ \A k \in 1 .. Len(done) : NamesIn(done)[k] = Names_(done[k].content)
    BY <1>1, LenProperties
  <2>6. \A k \in 1 .. Len(a) : a[k] = b[k]
    <3> SUFFICES ASSUME NEW k \in 1 .. Len(a) PROVE a[k] = b[k]
      OBVIOUS
    <3>1. CASE k \in 1 .. Len(done)
      BY <2>2, <2>3, <2>4, <2>5, <3>1
    <3>2. CASE k = Len(done) + 1
      BY <2>2, <2>3, <2>4, <3>2
    <3> QED
      BY <2>2, <2>4, <2>5, <3>1, <3>2
  <2>7. a = b
    BY <2>2, <2>3, <2>4, <2>6, SeqEqual
  <2>8. NamesIn(done) \in Seq(Seq(Names))
    BY <1>1
  <2>9. FlattenSeq(b) = FlattenSeq(NamesIn(done)) \o Names_(u.content)
    BY <2>1, <2>8, FlattenAppend DEF b
  <2> QED
    BY <2>7, <2>9 DEF Told, a, d
<1> QED
  BY <1>2, <1>3, <1>4

-----------------------------------------------------------------------------
(* The state of the work on a message.                                       *)

Works(S) ==
    [account : S, name : Names \cup {NoName}, content : Seq(ItemsOf(S)), done : Seq(UpdatesOf(S)),
     failAt : Nat, failed : BOOLEAN]

\* What is on record as an update of the work.
UpdateOf(w) == [account |-> w.account, name |-> w.name, content |-> w.content]

\* A dispatch has nothing to do, throws and leaves all as it was, or publishes.
LEMMA Dispatches ==
    ASSUME NEW S, NEW w \in Works(S)
    PROVE  /\ Dispatch(w) \in Works(S)
           /\ Dispatch(w).account = w.account /\ Dispatch(w).name = w.name
           /\ \/ w.failed /\ Dispatch(w) = w
              \/ ~w.failed /\ w.content = <<>> /\ Dispatch(w) = w
              \/ /\ ~w.failed /\ Dispatch(w).failed
                 /\ Dispatch(w).content = w.content /\ Dispatch(w).done = w.done
              \/ /\ ~w.failed /\ ~Dispatch(w).failed
                 /\ Dispatch(w).content = <<>> /\ Dispatch(w).done = Append(w.done, UpdateOf(w))
                 /\ UpdateOf(w) \in UpdatesOf(S)
<1>1. UpdateOf(w) \in UpdatesOf(S)
  BY DEF UpdateOf, UpdatesOf, Works
<1>2. Append(w.done, UpdateOf(w)) \in Seq(UpdatesOf(S)) /\ <<>> \in Seq(ItemsOf(S))
  BY <1>1, AppendProperties, EmptySeq DEF Works
<1>3. CASE w.failed \/ w.content = <<>>
  BY <1>3 DEF Dispatch, Works
<1>4. CASE ~(w.failed \/ w.content = <<>>) /\ Len(w.done) + 1 = w.failAt
  <2>1. Dispatch(w) = [w EXCEPT !.failed = TRUE]
    BY <1>4 DEF Dispatch
  <2> QED
    BY <1>4, <2>1 DEF Works
<1>5. CASE ~(w.failed \/ w.content = <<>>) /\ Len(w.done) + 1 # w.failAt
  <2>1. Dispatch(w) = [w EXCEPT !.done = Append(w.done, UpdateOf(w)), !.content = <<>>]
    BY <1>5 DEF Dispatch, UpdateOf
  <2> QED
    BY <1>1, <1>2, <1>5, <2>1 DEF Works
<1> QED
  BY <1>3, <1>4, <1>5

\* An update names what is in it, or has no name and is what was left before.
OwnName(u, before) ==
    \/ \A k \in DOMAIN u.content : u.content[k] = Item(u.account, u.name)
    \/ u.name = NoName /\ u.content = before

(***************************************************************************)
(* The work w of a loop that collects items by name, for an account, after *)
(* m items: passed are the names of what was left before and of the items. *)
(***************************************************************************)
Collected(S, account, before, passed, m, w) ==
    /\ w \in Works(S) /\ w.account = account
    /\ \A k \in 1 .. Len(w.done) : OwnName(w.done[k], before)
    /\ w.failed =>
          /\ IsPrefix(Told(w.done) \o Names_(w.content), passed)
          /\ w.content = before \/ Len(w.content) <= m
    /\ ~w.failed =>
          /\ Told(w.done) \o Names_(w.content) = passed
          /\ \/ w.name = NoName /\ w.content = before
             \/ /\ Len(w.content) <= m
                /\ \A k \in 1 .. Len(w.content) : w.content[k] = Item(w.account, w.name)

\* An item of the name the work has joins the others.
LEMMA ItemJoins ==
    ASSUME NEW S, NEW account \in S, NEW before \in Seq(ItemsOf(S)), NEW passed \in Seq(Names),
           NEW m \in Nat, NEW w, Collected(S, account, before, passed, m, w), ~w.failed,
           NEW name \in Names, w.name = name
    PROVE  Collected(S, account, before, Append(passed, name), m + 1,
                     [w EXCEPT !.content = Append(w.content, Item(account, name))])
<1> DEFINE c == Append(w.content, Item(account, name))
           v == [w EXCEPT !.content = c]
<1>1. Item(account, name) \in ItemsOf(S)
  BY DEF Item, ItemsOf
<1>2. /\ w \in Works(S) /\ w.content \in Seq(ItemsOf(S)) /\ w.account = account
      /\ w.done \in Seq(UpdatesOf(S)) /\ name # NoName
  BY NamesAssumption DEF Collected, Works
<1>3. /\ c \in Seq(ItemsOf(S)) /\ Len(c) = Len(w.content) + 1 /\ c[Len(w.content) + 1] = Item(account, name)
      /\ \A k \in 1 .. Len(w.content) : c[k] = w.content[k]
  BY <1>1, <1>2, AppendProperties
<1>4. Names_(c) = Append(Names_(w.content), name) /\ Names_(w.content) \in Seq(Names)
  BY <1>2, NamesOf
<1>5. Told(w.done) \in Seq(Names)
  BY <1>2, ToldOf
<1>6. Told(w.done) \o Names_(c) = Append(passed, name)
  <2>1. Told(w.done) \o Names_(w.content) = passed
    BY DEF Collected
  <2>2. Told(w.done) \o Append(Names_(w.content), name) = Append(Told(w.done) \o Names_(w.content), name)
    BY <1>4, <1>5, ConcatAppend
  <2> QED
    BY <1>4, <2>1, <2>2
<1>7. Len(w.content) \in Nat
  BY <1>2, LenProperties
<1>8. Len(c) <= m + 1 /\ \A k \in 1 .. Len(c) : c[k] = Item(account, name)
  BY <1>2, <1>3, <1>7 DEF Collected
<1> HIDE DEF c
<1>9. /\ v \in Works(S) /\ v.account = account /\ v.name = name /\ v.done = w.done
      /\ v.content = c /\ ~v.failed
  BY <1>2, <1>3 DEF Works
<1> HIDE DEF v
<1>10. Collected(S, account, before, Append(passed, name), m + 1, v)
  BY <1>6, <1>8, <1>9 DEF Collected
<1> QED
  BY <1>10 DEF v, c

\* An item of another name is collected after what there is was dispatched.
LEMMA ItemCollected ==
    ASSUME NEW S, NEW account \in S, NEW before \in Seq(ItemsOf(S)), NEW passed \in Seq(Names),
           NEW m \in Nat, NEW w, Collected(S, account, before, passed, m, w), NEW name \in Names
    PROVE  Collected(S, account, before, Append(passed, name), m + 1, Group(w, name))
<1> DEFINE d == Dispatch(w)
           next == IF name # w.name THEN [d EXCEPT !.name = name] ELSE w
<1>1. /\ w \in Works(S) /\ w.account = account /\ w.done \in Seq(UpdatesOf(S))
      /\ w.content \in Seq(ItemsOf(S)) /\ w.failed \in BOOLEAN
  BY DEF Collected, Works
<1>2. /\ d \in Works(S) /\ d.account = account
      /\ \/ w.failed /\ d = w
         \/ ~w.failed /\ w.content = <<>> /\ d = w
         \/ ~w.failed /\ d.failed /\ d.content = w.content /\ d.done = w.done
         \/ /\ ~w.failed /\ ~d.failed
            /\ d.content = <<>> /\ d.done = Append(w.done, UpdateOf(w)) /\ UpdateOf(w) \in UpdatesOf(S)
  BY <1>1, Dispatches
<1>3. Group(w, name) = IF next.failed THEN next
                       ELSE [next EXCEPT !.content = Append(next.content, Item(w.account, name))]
  BY DEF Group
<1> HIDE DEF d
<1>4. /\ next \in Works(S) /\ next.account = account /\ next.name = name
      /\ name # w.name => /\ next.content = d.content /\ next.done = d.done /\ next.failed = d.failed
      /\ name = w.name => next = w
  BY <1>1, <1>2 DEF Works
<1> HIDE DEF next
<1>5. /\ Told(w.done) \in Seq(Names) /\ Names_(w.content) \in Seq(Names)
      /\ Names_(<<>>) = <<>>
      /\ Told(w.done) \o Names_(w.content) \in Seq(Names)
  BY <1>1, ToldOf, NamesOf, ConcatProperties
<1>6. CASE w.failed
  <2>1. next.failed /\ next.done = w.done /\ next.content = w.content
    BY <1>2, <1>4, <1>6
  <2>2. IsPrefix(Told(w.done) \o Names_(w.content), Append(passed, name))
    BY <1>5, <1>6, PrefixGrows DEF Collected
  <2>3. w.content = before \/ Len(w.content) <= m + 1
    <3>1. Len(w.content) \in Nat
      BY <1>1, LenProperties
    <3> QED
      BY <1>6, <3>1 DEF Collected
  <2>4. Collected(S, account, before, Append(passed, name), m + 1, next)
    BY <1>4, <2>1, <2>2, <2>3 DEF Collected
  <2> QED
    BY <1>3, <2>1, <2>4
<1>7. CASE ~w.failed /\ next.failed
  <2>1. next.done = w.done /\ next.content = w.content
    BY <1>2, <1>4, <1>7
  <2>2. IsPrefix(Told(w.done) \o Names_(w.content), Append(passed, name))
    BY <1>5, <1>7, PrefixGrows DEF Collected
  <2>3. w.content = before \/ Len(w.content) <= m + 1
    <3>1. Len(w.content) \in Nat
      BY <1>1, LenProperties
    <3> QED
      BY <1>7, <3>1 DEF Collected
  <2>4. Collected(S, account, before, Append(passed, name), m + 1, next)
    BY <1>4, <1>7, <2>1, <2>2, <2>3 DEF Collected
  <2> QED
    BY <1>3, <1>7, <2>4
<1>8. CASE ~w.failed /\ ~next.failed
  <2>1. Collected(S, account, before, passed, m, next)
    <3>1. CASE name = w.name
      BY <1>4, <3>1
    <3>2. CASE name # w.name /\ d = w /\ w.content = <<>>
      <4>1. /\ next.done = w.done /\ next.content = <<>>
            /\ Len(next.content) = 0
        BY <1>4, <3>2
      <4>2. Told(next.done) \o Names_(next.content) = passed
        BY <1>8, <3>2, <4>1 DEF Collected
      <4>3. \A k \in 1 .. Len(next.done) : OwnName(next.done[k], before)
        BY <4>1 DEF Collected
      <4>4. Len(next.content) <= m /\ \A k \in 1 .. Len(next.content) : next.content[k] = Item(next.account, next.name)
        BY <4>1
      <4> QED
        BY <1>4, <1>8, <4>2, <4>3, <4>4 DEF Collected
    <3>3. CASE /\ name # w.name /\ d.content = <<>> /\ d.done = Append(w.done, UpdateOf(w))
               /\ UpdateOf(w) \in UpdatesOf(S)
      <4>1. /\ next.done = Append(w.done, UpdateOf(w)) /\ next.content = <<>>
            /\ Len(next.content) = 0
        BY <1>4, <3>3
      <4>2. Told(next.done) \o Names_(next.content) = passed
        <5>1. UpdateOf(w).content = w.content
          BY DEF UpdateOf
        <5>2. Told(next.done) = Told(w.done) \o Names_(w.content)
          BY <1>1, <3>3, <4>1, <5>1, ToldOf
        <5>3. Told(next.done) = passed
          BY <1>8, <5>2 DEF Collected
        <5> QED
          BY <1>5, <4>1, <5>3, ConcatEmptySeq
      <4>3. OwnName(UpdateOf(w), before)
        <5>1. DOMAIN w.content = 1 .. Len(w.content)
          BY <1>1, LenProperties
        <5> QED
          BY <1>8, <5>1 DEF Collected, OwnName, UpdateOf
      <4>4. \A k \in 1 .. Len(next.done) : OwnName(next.done[k], before)
        <5>1. /\ Len(next.done) = Len(w.done) + 1 /\ next.done[Len(w.done) + 1] = UpdateOf(w)
              /\ \A k \in 1 .. Len(w.done) : next.done[k] = w.done[k]
          BY <1>1, <3>3, <4>1, AppendProperties
        <5>2. Len(w.done) \in Nat /\ \A k \in 1 .. Len(w.done) : OwnName(w.done[k], before)
          BY <1>1, LenProperties DEF Collected
        <5>3. \A k \in 1 .. Len(w.done) + 1 : k \in 1 .. Len(w.done) \/ k = Len(w.done) + 1
          BY <5>2
        <5> QED
          BY <4>3, <5>1, <5>2, <5>3
      <4>5. Len(next.content) <= m /\ \A k \in 1 .. Len(next.content) : next.content[k] = Item(next.account, next.name)
        BY <4>1
      <4> QED
        BY <1>4, <1>8, <4>2, <4>4, <4>5 DEF Collected
    <3> QED
      BY <1>2, <1>4, <1>8, <3>1, <3>2, <3>3
  <2>2. Collected(S, account, before, Append(passed, name), m + 1,
                  [next EXCEPT !.content = Append(next.content, Item(account, name))])
    BY <1>4, <1>8, <2>1, ItemJoins
  <2> QED
    BY <1>1, <1>3, <1>8, <2>2
<1> QED
  BY <1>1, <1>4, <1>6, <1>7, <1>8

\* The last dispatch of a handler that collects.
LEMMA LastDispatch ==
    ASSUME NEW S, NEW account \in S, NEW before \in Seq(ItemsOf(S)), NEW passed \in Seq(Names),
           NEW m \in Nat, NEW w, Collected(S, account, before, passed, m, w)
    PROVE  /\ Dispatch(w) \in Works(S)
           /\ \A k \in 1 .. Len(Dispatch(w).done) : OwnName(Dispatch(w).done[k], before)
           /\ IF Dispatch(w).failed
              THEN /\ IsPrefix(Told(Dispatch(w).done) \o Names_(Dispatch(w).content), passed)
                   /\ Dispatch(w).content = before \/ Len(Dispatch(w).content) <= m
              ELSE Told(Dispatch(w).done) = passed /\ Dispatch(w).content = <<>>
<1> DEFINE d == Dispatch(w)
<1>1. /\ w \in Works(S) /\ w.account = account /\ w.done \in Seq(UpdatesOf(S))
      /\ w.content \in Seq(ItemsOf(S))
  BY DEF Collected, Works
<1>2. /\ d \in Works(S)
      /\ \/ w.failed /\ d = w
         \/ ~w.failed /\ w.content = <<>> /\ d = w
         \/ ~w.failed /\ d.failed /\ d.content = w.content /\ d.done = w.done
         \/ /\ ~w.failed /\ ~d.failed
            /\ d.content = <<>> /\ d.done = Append(w.done, UpdateOf(w)) /\ UpdateOf(w) \in UpdatesOf(S)
  BY <1>1, Dispatches
<1> HIDE DEF d
<1>3. /\ Told(w.done) \in Seq(Names) /\ Names_(w.content) \in Seq(Names) /\ Names_(<<>>) = <<>>
      /\ Len(w.content) \in Nat /\ DOMAIN w.content = 1 .. Len(w.content)
  BY <1>1, ToldOf, NamesOf, LenProperties
<1>4. CASE w.failed /\ d = w
  BY <1>2, <1>4 DEF Collected, d
<1>5. CASE ~w.failed /\ w.content = <<>> /\ d = w
  <2>1. Told(w.done) = passed
    <3>1. Told(w.done) \o <<>> = passed
      BY <1>3, <1>5 DEF Collected
    <3> QED
      BY <1>3, <3>1, ConcatEmptySeq
  <2> QED
    BY <1>2, <1>5, <2>1 DEF Collected, d
<1>6. CASE ~w.failed /\ d.failed /\ d.content = w.content /\ d.done = w.done
  <2>1. IsPrefix(passed, passed)
    BY PrefixGrows DEF IsPrefix
  <2>2. /\ IsPrefix(Told(d.done) \o Names_(d.content), passed)
        /\ d.content = before \/ Len(d.content) <= m
        /\ \A k \in 1 .. Len(d.done) : OwnName(d.done[k], before)
    BY <1>6, <2>1 DEF Collected
  <2> QED
    BY <1>2, <1>6, <2>2 DEF d
<1>7. CASE /\ ~w.failed /\ ~d.failed
           /\ d.content = <<>> /\ d.done = Append(w.done, UpdateOf(w)) /\ UpdateOf(w) \in UpdatesOf(S)
  <2>1. Told(d.done) = passed
    <3>1. UpdateOf(w).content = w.content
      BY DEF UpdateOf
    <3>2. Told(d.done) = Told(w.done) \o Names_(w.content)
      BY <1>1, <1>7, <3>1, ToldOf
    <3> QED
      BY <1>7, <3>2 DEF Collected
  <2>2. OwnName(UpdateOf(w), before)
    BY <1>3, <1>7 DEF Collected, OwnName, UpdateOf
  <2>3. \A k \in 1 .. Len(d.done) : OwnName(d.done[k], before)
    <3>1. /\ Len(d.done) = Len(w.done) + 1 /\ d.done[Len(w.done) + 1] = UpdateOf(w)
          /\ \A k \in 1 .. Len(w.done) : d.done[k] = w.done[k]
      BY <1>1, <1>7, AppendProperties
    <3>2. Len(w.done) \in Nat /\ \A k \in 1 .. Len(w.done) : OwnName(w.done[k], before)
      BY <1>1, LenProperties DEF Collected
    <3>3. \A k \in 1 .. Len(w.done) + 1 : k \in 1 .. Len(w.done) \/ k = Len(w.done) + 1
      BY <3>2
    <3> QED
      BY <2>2, <3>1, <3>2, <3>3
  <2> QED
    BY <1>2, <1>7, <2>1, <2>3 DEF d
<1> QED
  BY <1>2, <1>4, <1>5, <1>6, <1>7

(***************************************************************************)
(* The work of a loop that publishes each item by itself.                  *)
(***************************************************************************)
Separate(S, account, passed, w) ==
    /\ w \in Works(S) /\ w.account = account
    /\ \A k \in 1 .. Len(w.done) : OwnName(w.done[k], <<>>)
    /\ w.failed => IsPrefix(Told(w.done), passed)
    /\ ~w.failed => Told(w.done) = passed /\ w.content = <<>>

LEMMA ItemPublished ==
    ASSUME NEW S, NEW account \in S, NEW passed \in Seq(Names),
           NEW w, Separate(S, account, passed, w), NEW name \in Names
    PROVE  Separate(S, account, Append(passed, name), OneEach(w, name))
<1>1. /\ w \in Works(S) /\ w.account = account /\ w.done \in Seq(UpdatesOf(S))
      /\ Told(w.done) \in Seq(Names)
  BY ToldOf DEF Separate, Works
<1>2. CASE w.failed
  <2>1. OneEach(w, name) = w
    BY <1>2 DEF OneEach
  <2>2. IsPrefix(Told(w.done), Append(passed, name))
    BY <1>1, <1>2, PrefixGrows DEF Separate
  <2> QED
    BY <1>2, <2>1, <2>2 DEF Separate
<1>3. CASE ~w.failed
  <2> DEFINE i == Item(account, name)
             v == [w EXCEPT !.name = name, !.content = <<i>>]
             d == Dispatch(v)
  <2>1. i \in ItemsOf(S)
    BY DEF Item, ItemsOf
  <2>2. /\ <<>> \in Seq(ItemsOf(S)) /\ <<i>> \in Seq(ItemsOf(S)) /\ Len(<<i>>) = 1 /\ <<i>>[1] = i
        /\ DOMAIN <<i>> = 1 .. 1 /\ <<i>> # <<>>
    BY <2>1, EmptySeq, LenProperties
  <2>3. Names_(<<i>>) = <<name>>
    BY DEF Names_, Item
  <2>4. OneEach(w, name) = d
    BY <1>1, <1>3 DEF OneEach
  <2>5. /\ v \in Works(S) /\ v.account = account /\ v.name = name /\ v.content = <<i>>
        /\ v.done = w.done /\ ~v.failed
    BY <1>1, <1>3, <2>2 DEF Works
  <2> HIDE DEF i, v
  <2>6. /\ d \in Works(S) /\ d.account = account
        /\ \/ d.failed /\ d.content = v.content /\ d.done = v.done
           \/ /\ ~d.failed /\ d.content = <<>>
              /\ d.done = Append(v.done, UpdateOf(v)) /\ UpdateOf(v) \in UpdatesOf(S)
    BY <2>2, <2>5, Dispatches
  <2> HIDE DEF d
  <2>7. Told(w.done) = passed /\ \A k \in 1 .. Len(w.done) : OwnName(w.done[k], <<>>)
    BY <1>3 DEF Separate
  <2>8. CASE d.failed /\ d.done = v.done
    <3>1. IsPrefix(Told(d.done), Append(passed, name))
      BY <1>1, <2>5, <2>7, <2>8, PrefixGrows
    <3> QED
      BY <2>4, <2>5, <2>6, <2>7, <2>8, <3>1 DEF Separate
  <2>9. CASE /\ ~d.failed /\ d.content = <<>>
             /\ d.done = Append(v.done, UpdateOf(v)) /\ UpdateOf(v) \in UpdatesOf(S)
    <3>1. UpdateOf(v).content = <<i>> /\ UpdateOf(v).account = account /\ UpdateOf(v).name = name
      BY <2>5 DEF UpdateOf
    <3>2. Told(d.done) = Append(passed, name)
      <4>1. Told(d.done) = Told(w.done) \o Names_(<<i>>)
        BY <1>1, <2>5, <2>9, <3>1, ToldOf
      <4>2. passed \o <<name>> = Append(passed, name)
        BY AppendIsConcat
      <4> QED
        BY <2>3, <2>7, <4>1, <4>2
    <3>3. OwnName(UpdateOf(v), <<>>)
      <4>1. \A k \in DOMAIN <<i>> : <<i>>[k] = Item(account, name)
        BY <2>2 DEF i
      <4> QED
        BY <3>1, <4>1 DEF OwnName
    <3>4. \A k \in 1 .. Len(d.done) : OwnName(d.done[k], <<>>)
      <4>1. /\ Len(d.done) = Len(w.done) + 1 /\ d.done[Len(w.done) + 1] = UpdateOf(v)
            /\ \A k \in 1 .. Len(w.done) : d.done[k] = w.done[k]
        BY <1>1, <2>5, <2>9, AppendProperties
      <4>2. Len(w.done) \in Nat
        BY <1>1, LenProperties
      <4>3. \A k \in 1 .. Len(w.done) + 1 : k \in 1 .. Len(w.done) \/ k = Len(w.done) + 1
        BY <4>2
      <4> QED
        BY <2>7, <3>3, <4>1, <4>3
    <3> QED
      BY <2>4, <2>6, <2>9, <3>2, <3>4 DEF Separate
  <2> QED
    BY <2>6, <2>8, <2>9
<1> QED
  BY <1>1, <1>2, <1>3 DEF Works

-----------------------------------------------------------------------------
(* The loops.                                                                *)

LEMMA FirstItems ==
    ASSUME NEW S, NEW items \in Seq(S)
    PROVE  /\ SubSeq(items, 1, 0) = <<>> /\ SubSeq(items, 1, Len(items)) = items
           /\ \A m \in 0 .. Len(items) - 1 :
                 /\ SubSeq(items, 1, m) \in Seq(S) /\ items[m + 1] \in S
                 /\ SubSeq(items, 1, m + 1) = Append(SubSeq(items, 1, m), items[m + 1])
<1>1. Len(items) \in Nat /\ \A k \in 1 .. Len(items) : items[k] \in S
  BY LenProperties
<1>2. SubSeq(items, 1, 0) = <<>>
  BY SubSeqEmpty
<1>3. SubSeq(items, 1, Len(items)) = items
  BY SubSeqFull
<1>4. ASSUME NEW m \in 0 .. Len(items) - 1
      PROVE  /\ SubSeq(items, 1, m) \in Seq(S) /\ items[m + 1] \in S
             /\ SubSeq(items, 1, m + 1) = Append(SubSeq(items, 1, m), items[m + 1])
  <2>1. m + 1 \in 1 .. Len(items) /\ 1 \in 1 .. Len(items) /\ (m + 1) - 1 = m /\ m \in Int /\ 1 \in Int
        /\ m + 1 \in 1 .. Len(items) /\ \A i \in 1 .. m : items[i] \in S
    BY <1>1
  <2>2. items[m + 1] \in S
    BY <1>1, <2>1
  <2>3. SubSeq(items, 1, m) \in Seq(S)
    BY <2>1, SubSeqProperties
  <2>4. SubSeq(items, 1, m + 1) = SubSeq(items, 1, (m + 1) - 1) \o <<items[m + 1]>>
    BY <2>1, SubSeqRecursiveSecond
  <2>5. Append(SubSeq(items, 1, m), items[m + 1]) = SubSeq(items, 1, m) \o <<items[m + 1]>>
    BY <2>2, <2>3, AppendIsConcat
  <2> QED
    BY <2>1, <2>2, <2>3, <2>4, <2>5
<1> QED
  BY <1>2, <1>3, <1>4

\* Executions and public trades.
LEMMA CollectingLoop ==
    ASSUME NEW S, NEW account \in S, NEW before \in Seq(ItemsOf(S)), NEW failAt \in Nat,
           NEW items \in Seq(Names), NEW handler \in {"EXECUTION", "PUBLIC_TRADE"}
    PROVE  /\ Names_(before) \o items \in Seq(Names)
           /\ Collected(S, account, before, Names_(before) \o items, Len(items),
                        Loop(handler, Work(account, before, failAt), items))
<1> DEFINE n == Len(items)
           start == Work(account, before, failAt)
           passed(m) == Names_(before) \o SubSeq(items, 1, m)
<1>1. n \in Nat
  BY LenProperties
<1>2. PICK work : /\ Loop(handler, start, items) = work[n]
                  /\ work[0] = start
                  /\ \A m \in 0 .. n - 1 : work[m + 1] = OneItem(handler, work[m], items[m + 1])
  BY <1>1, LoopSteps
<1>3. Names_(before) \in Seq(Names)
  BY NamesOf
<1> DEFINE T == {m \in 0 .. n : /\ SubSeq(items, 1, m) \in Seq(Names)
                                /\ Collected(S, account, before, passed(m), m, work[m])}
<1>4. 0 \in T
  <2>1. <<>> \in Seq(ItemsOf(S)) /\ <<>> \in Seq(UpdatesOf(S)) /\ Len(<<>>) = 0 /\ <<>> \in Seq(Names)
    BY EmptySeq
  <2>2. /\ start \in Works(S) /\ start.account = account /\ start.name = NoName
        /\ start.content = before /\ start.done = <<>> /\ ~start.failed
    BY <2>1 DEF Work, Works
  <2>3. Told(<<>>) = <<>>
    BY <2>1, ToldOf
  <2>4. /\ <<>> \o Names_(before) = Names_(before)
        /\ Names_(before) \o <<>> = Names_(before)
    BY <1>3, ConcatEmptySeq
  <2>5. passed(0) = Names_(before) /\ SubSeq(items, 1, 0) \in Seq(Names)
    BY <2>1, <2>4, FirstItems
  <2> HIDE DEF passed, start
  <2>6. Told(start.done) \o Names_(start.content) = passed(0)
    BY <2>2, <2>3, <2>4, <2>5
  <2>7. 1 .. Len(start.done) = {}
    BY <2>1, <2>2
  <2>8. Collected(S, account, before, passed(0), 0, start)
    BY <2>2, <2>6, <2>7 DEF Collected
  <2> QED
    BY <1>1, <1>2, <2>5, <2>8
<1>5. ASSUME NEW m \in 0 .. n - 1, m \in T PROVE m + 1 \in T
  <2>1. /\ SubSeq(items, 1, m) \in Seq(Names) /\ items[m + 1] \in Names
        /\ SubSeq(items, 1, m + 1) = Append(SubSeq(items, 1, m), items[m + 1])
    BY FirstItems
  <2>2. SubSeq(items, 1, m + 1) \in Seq(Names)
    BY <2>1, AppendProperties
  <2>3. passed(m) \in Seq(Names) /\ passed(m + 1) = Append(passed(m), items[m + 1])
    BY <1>3, <2>1, ConcatProperties, ConcatAppend
  <2>4. work[m + 1] = Group(work[m], items[m + 1])
    BY <1>2 DEF OneItem
  <2>5. Collected(S, account, before, passed(m), m, work[m])
    BY <1>5
  <2>6. m \in Nat /\ m + 1 \in 0 .. n
    BY <1>1
  <2> HIDE DEF passed
  <2>7. Collected(S, account, before, Append(passed(m), items[m + 1]), m + 1, Group(work[m], items[m + 1]))
    BY <2>1, <2>3, <2>5, <2>6, ItemCollected
  <2> QED
    BY <2>2, <2>3, <2>4, <2>6, <2>7
<1>6. n \in T
  <2>1. n \in 0 .. n
    BY <1>1
  <2> HIDE DEF n, T
  <2> QED
    BY <1>1, <1>4, <1>5, <2>1, Induction
<1>7. passed(n) = Names_(before) \o items
  BY FirstItems
<1>8. Names_(before) \o items \in Seq(Names)
  BY <1>3, ConcatProperties
<1> QED
  BY <1>2, <1>6, <1>7, <1>8

\* What is discarded is left out, and everything else keeps its place.
LEMMA KeptOf ==
    ASSUME NEW items \in Seq(Names)
    PROVE  /\ Kept(items) \in Seq(Names)
           /\ Kept(<<>>) = <<>>
           /\ \A name \in Names :
                 Kept(Append(items, name)) =
                    IF name \in Discarded THEN Kept(items) ELSE Append(Kept(items), name)
<1> DEFINE One(x) == IF x \in Discarded THEN <<>> ELSE <<x>>
           Ones(s) == [k \in DOMAIN s |-> One(s[k])]
<1>1. \A x \in Names : One(x) \in Seq(Names)
  BY EmptySeq
<1> HIDE DEF One
<1>2. ASSUME NEW s \in Seq(Names)
      PROVE  /\ Ones(s) \in Seq(Seq(Names)) /\ Len(Ones(s)) = Len(s)
             /\ \A k \in 1 .. Len(s) : Ones(s)[k] = One(s[k])
  <2>1. Len(s) \in Nat /\ DOMAIN s = 1 .. Len(s) /\ \A k \in 1 .. Len(s) : s[k] \in Names
    BY LenProperties
  <2>2. \A k \in 1 .. Len(s) : One(s[k]) \in Seq(Names)
    BY <1>1, <2>1
  <2>3. Ones(s) \in Seq(Seq(Names)) /\ Len(Ones(s)) = Len(s)
    BY <2>1, <2>2, IsASeq
  <2> QED
    BY <2>1, <2>3
<1>3. ASSUME NEW s PROVE Kept(s) = FlattenSeq(Ones(s))
  BY DEF Kept, One
<1>4. Kept(<<>>) = <<>>
  <2>1. Ones(<<>>) = <<>>
    OBVIOUS
  <2> QED
    BY <1>3, <2>1 DEF FlattenSeq
<1>5. Ones(items) \in Seq(Seq(Names)) /\ Kept(items) \in Seq(Names)
  <2>1. Ones(items) \in Seq(Seq(Names)) /\ <<>> \in Seq(Names)
    BY <1>2, EmptySeq
  <2>2. Kept(items) = FlattenSeq(Ones(items))
    BY <1>3
  <2> HIDE DEF Ones
  <2> QED
    BY <2>1, <2>2, FlattenAppend
<1>6. ASSUME NEW name \in Names
      PROVE  Kept(Append(items, name)) =
                IF name \in Discarded THEN Kept(items) ELSE Append(Kept(items), name)
  <2> DEFINE t == Append(items, name)
             a == Ones(t)
             b == Append(Ones(items), One(name))
  <2>1. /\ t \in Seq(Names) /\ Len(t) = Len(items) + 1 /\ t[Len(items) + 1] = name
        /\ \A k \in 1 .. Len(items) : t[k] = items[k]
    BY AppendProperties
  <2> HIDE DEF t
  <2>2. a \in Seq(Seq(Names)) /\ Len(a) = Len(t) /\ \A k \in 1 .. Len(t) : a[k] = One(t[k])
    BY <1>2, <2>1
  <2>3. \A k \in 1 .. Len(items) : Ones(items)[k] = One(items[k])
    BY <1>2
  <2>4. One(name) \in Seq(Names)
    BY <1>1
  <2>5. Kept(t) = FlattenSeq(a) /\ Kept(items) = FlattenSeq(Ones(items)) /\ Len(Ones(items)) = Len(items)
    BY <1>2, <1>3
  <2> HIDE DEF a, Ones
  <2>6. /\ b \in Seq(Seq(Names)) /\ Len(b) = Len(items) + 1 /\ b[Len(items) + 1] = One(name)
        /\ \A k \in 1 .. Len(items) : b[k] = Ones(items)[k]
    BY <1>5, <2>4, <2>5, AppendProperties
  <2> HIDE DEF b
  <2>7. Len(items) \in Nat
    BY LenProperties
  <2>8. \A k \in 1 .. Len(a) : a[k] = b[k]
    <3> SUFFICES ASSUME NEW k \in 1 .. Len(a) PROVE a[k] = b[k]
      OBVIOUS
    <3>1. CASE k \in 1 .. Len(items)
      BY <2>1, <2>2, <2>3, <2>6, <3>1
    <3>2. CASE k = Len(items) + 1
      BY <2>1, <2>2, <2>6, <3>2
    <3> QED
      BY <2>1, <2>2, <2>7, <3>1, <3>2
  <2>9. a = b
    BY <2>1, <2>2, <2>6, <2>8, SeqEqual
  <2>10. Kept(t) = Kept(items) \o One(name)
    <3>1. FlattenSeq(b) = FlattenSeq(Ones(items)) \o One(name)
      BY <1>5, <2>4, FlattenAppend DEF b
    <3> QED
      BY <2>5, <2>9, <3>1
  <2>11. CASE name \in Discarded
    <3>1. One(name) = <<>>
      BY <2>11 DEF One
    <3> QED
      BY <1>5, <2>10, <2>11, <3>1, ConcatEmptySeq DEF t
  <2>12. CASE name \notin Discarded
    <3>1. One(name) = <<name>>
      BY <2>12 DEF One
    <3>2. Append(Kept(items), name) = Kept(items) \o <<name>>
      BY <1>5, AppendIsConcat
    <3> QED
      BY <2>10, <2>12, <3>1, <3>2 DEF t
  <2> QED
    BY <2>11, <2>12
<1> QED
  BY <1>4, <1>5, <1>6

\* A wallet, positions and orders.
PassedBy(handler, items) == IF handler = "POSITION" THEN Kept(items) ELSE items

LEMMA SeparateLoop ==
    ASSUME NEW S, NEW account \in S, NEW failAt \in Nat,
           NEW items \in Seq(Names), NEW handler \in {"WALLET", "POSITION", "ORDER"}
    PROVE  /\ PassedBy(handler, items) \in Seq(Names)
           /\ Separate(S, account, PassedBy(handler, items), Loop(handler, Work(account, <<>>, failAt), items))
<1> DEFINE n == Len(items)
           start == Work(account, <<>>, failAt)
           passed(m) == PassedBy(handler, SubSeq(items, 1, m))
<1>1. n \in Nat
  BY LenProperties
<1>2. PICK work : /\ Loop(handler, start, items) = work[n]
                  /\ work[0] = start
                  /\ \A m \in 0 .. n - 1 : work[m + 1] = OneItem(handler, work[m], items[m + 1])
  BY <1>1, LoopSteps
<1> DEFINE T == {m \in 0 .. n : Separate(S, account, passed(m), work[m])}
<1>3. 0 \in T
  <2>1. <<>> \in Seq(ItemsOf(S)) /\ <<>> \in Seq(UpdatesOf(S)) /\ Len(<<>>) = 0
    BY EmptySeq
  <2>2. /\ start \in Works(S) /\ start.account = account
        /\ start.content = <<>> /\ start.done = <<>> /\ ~start.failed
    BY <2>1 DEF Work, Works
  <2>3. Told(<<>>) = <<>>
    BY <2>1, ToldOf
  <2>4. Kept(<<>>) = <<>>
    BY DEF Kept, FlattenSeq
  <2>5. passed(0) = <<>>
    BY <2>4, FirstItems DEF PassedBy
  <2> HIDE DEF passed, start
  <2>6. Separate(S, account, passed(0), start)
    BY <2>1, <2>2, <2>3, <2>5 DEF Separate
  <2> QED
    BY <1>1, <1>2, <2>6
<1>4. ASSUME NEW m \in 0 .. n - 1, m \in T PROVE m + 1 \in T
  <2> DEFINE name == items[m + 1]
  <2>1. /\ SubSeq(items, 1, m) \in Seq(Names) /\ name \in Names
        /\ SubSeq(items, 1, m + 1) = Append(SubSeq(items, 1, m), name)
    BY FirstItems
  <2>2. work[m + 1] = IF handler = "POSITION" /\ name \in Discarded THEN work[m] ELSE OneEach(work[m], name)
    BY <1>2 DEF OneItem, OnePosition
  <2>3. Separate(S, account, passed(m), work[m]) /\ m + 1 \in 0 .. n
    BY <1>1, <1>4
  <2>4. /\ passed(m) \in Seq(Names)
        /\ passed(m + 1) = IF handler = "POSITION" /\ name \in Discarded THEN passed(m)
                           ELSE Append(passed(m), name)
    BY <2>1, KeptOf DEF PassedBy
  <2> HIDE DEF passed, name
  <2>5. CASE handler = "POSITION" /\ name \in Discarded
    BY <2>2, <2>3, <2>4, <2>5
  <2>6. CASE ~(handler = "POSITION" /\ name \in Discarded)
    <3>1. Separate(S, account, Append(passed(m), name), OneEach(work[m], name))
      BY <2>1, <2>3, <2>4, ItemPublished
    <3> QED
      BY <2>2, <2>3, <2>4, <2>6, <3>1
  <2> QED
    BY <2>5, <2>6
<1>5. n \in T
  <2>1. n \in 0 .. n
    BY <1>1
  <2> HIDE DEF n, T
  <2> QED
    BY <1>1, <1>3, <1>4, <2>1, Induction
<1>6. passed(n) = PassedBy(handler, items)
  BY FirstItems
<1>7. PassedBy(handler, items) \in Seq(Names)
  BY KeptOf DEF PassedBy
<1> QED
  BY <1>2, <1>5, <1>6, <1>7

-----------------------------------------------------------------------------
(* From messages to updates.                                                 *)

LEMMA ItemsAreBounded ==
    ASSUME NEW handler, NEW items \in Items(handler)
    PROVE  /\ items \in Seq(Names) /\ Len(items) <= MaxItems
           /\ ~HasItems(handler) => items = <<>>
<1>1. ASSUME NEW s \in ItemSequences PROVE s \in Seq(Names) /\ Len(s) <= MaxItems
  <2>1. PICK m \in 0 .. MaxItems : s \in [1 .. m -> Names]
    BY <1>1 DEF ItemSequences, BoundedSeq, SeqOf
  <2>2. m \in Nat /\ m <= MaxItems
    BY <2>1, BoundAssumption
  <2> QED
    BY <2>1, <2>2
<1>2. items \in ItemSequences \/ items = <<>>
  BY DEF Items, ShortSequences, HasItems
<1>3. <<>> \in Seq(Names) /\ Len(<<>>) <= MaxItems
  BY EmptySeq, BoundAssumption
<1>4. ~HasItems(handler) => items = <<>>
  BY DEF Items, HasItems
<1> QED
  BY <1>1, <1>2, <1>3, <1>4

\* What the work on a message, of the items given, has come to.
Accomplished(w, handler, items, before) ==
    /\ w.failed \in BOOLEAN /\ Told(w.done) \in Seq(Names)
    /\ \A k \in DOMAIN w.done : OwnName(w.done[k], before)
    /\ handler = "EXECUTION" =>
          /\ w.content \in Seq(ItemsOf(Accounts)) /\ Len(w.content) <= MaxItems
          /\ IF w.failed
             THEN IsPrefix(Told(w.done) \o Names_(w.content), Names_(before) \o items)
             ELSE Told(w.done) = Names_(before) \o items /\ Names_(w.content) = <<>>
    /\ handler # "EXECUTION" =>
          IF w.failed
          THEN IsPrefix(Told(w.done), PassedBy(handler, items))
          ELSE Told(w.done) = PassedBy(handler, items)

LEMMA ConversionAccomplishes ==
    ASSUME NEW account \in Owners, NEW handler, NEW items \in Items(handler), NEW failAt \in Nat,
           handler = "EXECUTION" => account \in Accounts,
           fills \in Seq(ItemsOf(Accounts)), Len(fills) <= MaxItems
    PROVE  Accomplished(Conversion(account, handler, items, failAt), handler, items, fills)
<1>1. items \in Seq(Names) /\ Len(items) <= MaxItems /\ (~HasItems(handler) => items = <<>>)
  BY ItemsAreBounded
<1>2. Len(items) \in Nat /\ Len(fills) \in Nat
  BY <1>1, LenProperties
<1>3. <<>> \in Seq(ItemsOf(Owners)) /\ Names_(<<>>) = <<>> /\ Len(<<>>) = 0
  BY EmptySeq, NamesOf
<1>4. CASE handler = "EXECUTION"
  <2> DEFINE w == Loop("EXECUTION", Work(account, fills, failAt), items)
             p == Names_(fills) \o items
             d == Dispatch(w)
  <2>1. account \in Accounts
    BY <1>4
  <2>2. p \in Seq(Names) /\ Collected(Accounts, account, fills, p, Len(items), w)
    BY <1>1, <2>1, CollectingLoop
  <2>3. Conversion(account, handler, items, failAt) = d
    BY <1>4 DEF Conversion, Executions, HasItems
  <2> HIDE DEF w, p
  <2>4. /\ d \in Works(Accounts)
        /\ \A k \in 1 .. Len(d.done) : OwnName(d.done[k], fills)
        /\ IF d.failed
           THEN /\ IsPrefix(Told(d.done) \o Names_(d.content), p)
                /\ d.content = fills \/ Len(d.content) <= Len(items)
           ELSE Told(d.done) = p /\ d.content = <<>>
    BY <1>2, <2>1, <2>2, LastDispatch
  <2> HIDE DEF d
  <2>5. d.content \in Seq(ItemsOf(Accounts)) /\ d.done \in Seq(UpdatesOf(Accounts)) /\ d.failed \in BOOLEAN
    BY <2>4 DEF Works
  <2>6. Len(d.content) \in Nat /\ DOMAIN d.done = 1 .. Len(d.done) /\ Told(d.done) \in Seq(Names)
    BY <2>5, ToldOf, LenProperties
  <2>7. Len(d.content) <= MaxItems
    <3>1. CASE d.failed
      BY <1>1, <1>2, <2>4, <2>6, <3>1, BoundAssumption
    <3>2. CASE ~d.failed
      BY <1>3, <2>4, <3>2, BoundAssumption
    <3> QED
      BY <3>1, <3>2
  <2>8. Accomplished(d, handler, items, fills)
    BY <1>3, <1>4, <2>4, <2>5, <2>6, <2>7 DEF Accomplished, p
  <2> QED
    BY <2>3, <2>8
<1>5. CASE handler = "PUBLIC_TRADE"
  <2> DEFINE w == Loop("PUBLIC_TRADE", Work(NoName, <<>>, 0), items)
             d == Dispatch(w)
  <2>1. NoName \in Owners
    BY DEF Owners
  <2>2. Names_(<<>>) \o items = items
    BY <1>1, <1>3, ConcatEmptySeq
  <2>3. Collected(Owners, NoName, <<>>, items, Len(items), w)
    <3>1. Collected(Owners, NoName, <<>>, Names_(<<>>) \o items, Len(items), w)
      BY <1>1, <1>3, <2>1, CollectingLoop
    <3> QED
      BY <2>2, <3>1
  <2>4. Conversion(account, handler, items, failAt) = d
    BY <1>5 DEF Conversion, Trades, HasItems
  <2> DEFINE none == <<>>
  <2>5. none \in Seq(ItemsOf(Owners)) /\ Collected(Owners, NoName, none, items, Len(items), w)
    BY <1>3, <2>3
  <2> HIDE DEF w, none
  <2>6. /\ d \in Works(Owners)
        /\ \A k \in 1 .. Len(d.done) : OwnName(d.done[k], none)
        /\ IF d.failed
           THEN /\ IsPrefix(Told(d.done) \o Names_(d.content), items)
                /\ d.content = none \/ Len(d.content) <= Len(items)
           ELSE Told(d.done) = items /\ d.content = <<>>
    BY <1>1, <1>2, <2>1, <2>5, LastDispatch
  <2> HIDE DEF d
  <2>7. /\ d \in Works(Owners)
        /\ \A k \in 1 .. Len(d.done) : OwnName(d.done[k], <<>>)
        /\ IF d.failed
           THEN IsPrefix(Told(d.done) \o Names_(d.content), items)
           ELSE Told(d.done) = items
    BY <2>6 DEF none
  <2>8. d.content \in Seq(ItemsOf(Owners)) /\ d.done \in Seq(UpdatesOf(Owners)) /\ d.failed \in BOOLEAN
    BY <2>7 DEF Works
  <2>9. Told(d.done) \in Seq(Names) /\ Names_(d.content) \in Seq(Names) /\ DOMAIN d.done = 1 .. Len(d.done)
    BY <2>8, ToldOf, NamesOf, LenProperties
  <2>10. d.failed => IsPrefix(Told(d.done), items)
    BY <1>1, <2>7, <2>9, PrefixOfPart
  <2>11. \A k \in DOMAIN d.done : OwnName(d.done[k], fills)
    BY <2>7, <2>9 DEF OwnName
  <2>12. Accomplished(d, handler, items, fills)
    BY <1>5, <2>7, <2>8, <2>9, <2>10, <2>11 DEF Accomplished, PassedBy
  <2> QED
    BY <2>4, <2>12
<1>6. CASE handler \in {"WALLET", "POSITION", "ORDER"}
  <2> DEFINE w == Loop(handler, Work(account, <<>>, failAt), items)
             p == PassedBy(handler, items)
  <2>1. Conversion(account, handler, items, failAt) = w
    BY <1>6 DEF Conversion, Each, HasItems
  <2>2. Separate(Owners, account, p, w)
    BY <1>1, <1>6, SeparateLoop
  <2> HIDE DEF w, p
  <2>3. w.done \in Seq(UpdatesOf(Owners)) /\ w.failed \in BOOLEAN /\ Told(w.done) \in Seq(Names)
    BY <2>2, ToldOf DEF Separate, Works
  <2>4. \A k \in DOMAIN w.done : OwnName(w.done[k], fills)
    <3>1. DOMAIN w.done = 1 .. Len(w.done)
      BY <2>3, LenProperties
    <3> QED
      BY <2>2, <3>1 DEF Separate, OwnName
  <2>5. Accomplished(w, handler, items, fills)
    BY <1>6, <2>2, <2>3, <2>4 DEF Accomplished, Separate, p
  <2> QED
    BY <2>1, <2>5
<1>7. CASE ~HasItems(handler)
  <2> DEFINE w == Work(account, <<>>, failAt)
  <2>1. Conversion(account, handler, items, failAt) = w /\ items = <<>>
    BY <1>1, <1>7 DEF Conversion, HasItems
  <2>2. w.done = <<>> /\ DOMAIN w.done = {} /\ w.failed = FALSE
    BY DEF Work
  <2>3. Told(<<>>) = <<>> /\ <<>> \in Seq(Names)
    BY EmptySeq DEF Told, NamesIn, FlattenSeq
  <2>4. handler # "EXECUTION" /\ handler # "POSITION"
    BY <1>7 DEF HasItems
  <2> HIDE DEF w
  <2>5. Accomplished(w, handler, items, fills)
    BY <2>1, <2>2, <2>3, <2>4 DEF Accomplished, PassedBy
  <2> QED
    BY <2>1, <2>5
<1> QED
  BY <1>4, <1>5, <1>6, <1>7 DEF HasItems

-----------------------------------------------------------------------------
(* The parsers.                                                              *)

Streams == {"MarketData", "DropCopy", "OrderEntryWS"}

\* What a stream has asked for finds a handler of the stream.
LEMMA ExpectedFindsHandler ==
    ASSUME NEW stream \in Streams, NEW m \in Expected(stream), api \in Apis
    PROVE  ~Fatal(stream, Handler(stream, m))
<1>1. ASSUME NEW t, t[1] \in Topics, m = Message(t, "UNDEFINED", "DELTA"), stream # "OrderEntryWS"
      PROVE  Handler(stream, m) = t[1]
  BY <1>1 DEF Handler, Parser, Message, Streams
<1>2. CASE stream = "MarketData"
  <2>1. CASE m \in TopicMessages(MarketDataTopics)
    <3>1. PICK t \in MarketDataTopics : m = Message(t, "UNDEFINED", "DELTA")
      BY <2>1 DEF TopicMessages
    <3>2. t[1] \in {"ORDERBOOK", "PUBLIC_TRADE", "TICKERS", "KLINE"}
      BY <3>1 DEF MarketDataTopics
    <3>3. Handler(stream, m) = t[1]
      BY <1>1, <1>2, <3>1, <3>2 DEF Topics
    <3> QED
      BY <1>2, <3>2, <3>3 DEF Fatal, MarketDataHandles
  <2>2. CASE m \in {Reply("PING"), Reply("SUBSCRIBE"), Reply("PONG")}
    <3>1. m.topic \notin Topics /\ m.op \in {"PING", "SUBSCRIBE", "PONG"}
      BY <2>2 DEF Reply, Message, NoTopic, Topics
    <3>2. Handler(stream, m) \in {"PING", "SUBSCRIBE", "IGNORED"}
      BY <1>2, <3>1 DEF Handler, Parser, ByOperation
    <3> QED
      BY <1>2, <3>2 DEF Fatal, MarketDataHandles
  <2>3. CASE m = Message(NoTopic, "UNDEFINED", "COMMAND_RESP")
    <3>1. m.topic \notin Topics /\ m.op = "UNDEFINED" /\ m.type = "COMMAND_RESP"
      BY <2>3 DEF Message, NoTopic, Topics
    <3>2. Handler(stream, m) = "SUBSCRIBE"
      BY <1>2, <3>1 DEF Handler, Parser, ByOperation, ByType
    <3> QED
      BY <1>2, <3>2 DEF Fatal, MarketDataHandles
  <2> QED
    BY <1>2, <2>1, <2>2, <2>3 DEF Expected
<1>3. CASE stream = "DropCopy"
  <2>1. CASE m \in TopicMessages(DropCopyTopics)
    <3>1. PICK t \in DropCopyTopics : m = Message(t, "UNDEFINED", "DELTA")
      BY <2>1 DEF TopicMessages
    <3>2. t[1] \in {"WALLET", "ORDER", "EXECUTION", "POSITION"}
      BY <3>1 DEF DropCopyTopics
    <3>3. Handler(stream, m) = t[1]
      BY <1>1, <1>3, <3>1, <3>2 DEF Topics
    <3> QED
      BY <1>3, <3>2, <3>3 DEF Fatal, DropCopyHandles
  <2>2. CASE m \in {Reply("AUTH"), Reply("SUBSCRIBE")}
    <3>1. m.topic \notin Topics /\ m.op \in {"AUTH", "SUBSCRIBE"}
      BY <2>2 DEF Reply, Message, NoTopic, Topics
    <3>2. Handler(stream, m) \in {"AUTH", "SUBSCRIBE"}
      BY <1>3, <3>1 DEF Handler, Parser, ByOperation
    <3> QED
      BY <1>3, <3>2 DEF Fatal, DropCopyHandles
  <2> QED
    BY <1>3, <2>1, <2>2 DEF Expected
<1>4. CASE stream = "OrderEntryWS"
  <2>1. PICK op \in OrderEntryHandles : m = Reply(op)
    BY <1>4 DEF Expected
  <2>2. m.op = op
    BY <2>1 DEF Reply, Message
  <2>3. Handler(stream, m) = op
    BY <1>4, <2>1, <2>2 DEF Handler, Parser2, OrderEntryHandles
  <2> QED
    BY <1>4, <2>1, <2>3 DEF Fatal, OrderEntryHandles
<1> QED
  BY <1>2, <1>3, <1>4 DEF Streams

\* Fills come on the private stream only.
LEMMA ExecutionsArePrivate ==
    ASSUME NEW stream \in Streams, NEW handler, ~Fatal(stream, handler), handler = "EXECUTION"
    PROVE  stream = "DropCopy"
BY DEF Streams, Fatal, MarketDataHandles, OrderEntryHandles

-----------------------------------------------------------------------------
(* The invariant.                                                            *)

IndInv ==
    /\ TypeOK
    /\ fills \in Seq(ItemsOf(Accounts))
    /\ UnderTheirOwnName
    /\ EveryItemOnce
    /\ ExpectedIsHandled

\* Before the first message and after one that ended the process there is nothing to tell.
Nothing == updates = <<>> /\ last.items = <<>> /\ last.handler = "FATAL"
Silence == Published = <<>> /\ Passed = <<>>
LEMMA NothingPublished == Nothing => Silence
BY DEF Nothing, Silence, Published, Passed, FlattenSeq

LEMMA InitInv == Init => IndInv
<1> SUFFICES ASSUME Init PROVE IndInv
  OBVIOUS
<1>1. /\ process = "running" /\ api \in Apis /\ fills = <<>> /\ updates = <<>> /\ kinds = {}
      /\ last.handler = "NONE" /\ last.expected = TRUE /\ last.items = <<>> /\ last.failed = FALSE
  BY DEF Init
<1>2. fills \in Seq(ItemsOf(Accounts)) /\ Len(fills) = 0 /\ DOMAIN fills = {}
  BY <1>1, EmptySeq
<1>3. TypeOK
  <2>1. last.failed \in BOOLEAN /\ last.expected \in BOOLEAN
    BY <1>1, Zenon
  <2> QED
    BY <1>1, <1>2, <2>1, BoundAssumption DEF TypeOK
<1>4. UnderTheirOwnName
  BY <1>1 DEF UnderTheirOwnName, Updates
<1>5. EveryItemOnce
  <2>1. Published = <<>> /\ Passed = <<>>
    BY <1>1 DEF Published, Passed, FlattenSeq
  <2>2. <<>> \o <<>> = <<>>
    BY EmptySeq, ConcatEmptySeq
  <2> QED
    BY <1>1, <2>1, <2>2 DEF EveryItemOnce
<1> QED
  BY <1>1, <1>2, <1>3, <1>4, <1>5 DEF IndInv, ExpectedIsHandled

\* A message that was handled leaves the properties of its updates behind.
LEMMA ConvertKeeps ==
    ASSUME IndInv, NEW account \in Owners, NEW handler, NEW expected \in BOOLEAN,
           NEW items \in Items(handler), NEW failAt \in 0 .. Len(items) + 1,
           handler = "EXECUTION" => account \in Accounts,
           Convert(account, handler, expected, items, failAt)
    PROVE  /\ fills' \in Seq(ItemsOf(Accounts)) /\ Len(fills') <= MaxItems
           /\ \A k \in DOMAIN fills' : fills'[k] \in [account : Accounts, name : Names]
           /\ last'.failed \in BOOLEAN /\ last'.expected = expected
           /\ UnderTheirOwnName' /\ EveryItemOnce'
<1> DEFINE w == Conversion(account, handler, items, failAt)
<1>1. fills \in Seq(ItemsOf(Accounts)) /\ Len(fills) <= MaxItems
  BY DEF IndInv, TypeOK
<1>2. items \in Seq(Names) /\ failAt \in Nat
  <2>1. items \in Seq(Names)
    BY ItemsAreBounded
  <2>2. Len(items) \in Nat
    BY <2>1, LenProperties
  <2> QED
    BY <2>1, <2>2
<1>3. Accomplished(w, handler, items, fills)
  BY <1>1, <1>2, ConversionAccomplishes
<1>4. /\ fills' = IF handler = "EXECUTION" THEN w.content ELSE fills
      /\ updates' = w.done
      /\ last'.handler = handler /\ last'.expected = expected /\ last'.items = items
      /\ last'.failed = w.failed /\ last'.before = fills
  BY DEF Convert, Found
<1> HIDE DEF w
<1>5. fills' \in Seq(ItemsOf(Accounts)) /\ Len(fills') <= MaxItems
  BY <1>1, <1>3, <1>4 DEF Accomplished
<1>6. \A k \in DOMAIN fills' : fills'[k] \in [account : Accounts, name : Names]
  <2>1. DOMAIN fills' = 1 .. Len(fills')
    BY <1>5, LenProperties
  <2>2. \A k \in 1 .. Len(fills') : fills'[k] \in ItemsOf(Accounts)
    BY <1>5, ElementOfSeq
  <2> QED
    BY <2>1, <2>2 DEF ItemsOf
<1>7. UnderTheirOwnName'
  <2>1. \A k \in DOMAIN updates' : OwnName(updates'[k], fills)
    BY <1>3, <1>4 DEF Accomplished
  <2> QED
    BY <1>4, <2>1 DEF UnderTheirOwnName, Updates, Contents, OwnName
<1>8. EveryItemOnce'
  <2> DEFINE q == Published'
             r == Passed'
  <2>1. q = Told(w.done) /\ r = PassedBy(handler, items)
    BY <1>4 DEF Published, Told, NamesIn, Passed, PassedBy
  <2>2. CASE handler = "EXECUTION"
    <3>1. r = items
      BY <2>1, <2>2 DEF PassedBy
    <3>2. IF w.failed
          THEN IsPrefix(q \o Names_(fills'), Names_(fills) \o r)
          ELSE q = Names_(fills) \o r /\ Names_(fills') = <<>>
      BY <1>3, <1>4, <2>1, <2>2, <3>1 DEF Accomplished
    <3> QED
      BY <1>4, <2>2, <3>2 DEF EveryItemOnce
  <2>3. CASE handler # "EXECUTION"
    <3>1. IF w.failed THEN IsPrefix(q, r) ELSE q = r
      BY <1>3, <2>1, <2>3 DEF Accomplished
    <3>2. q \o <<>> = q /\ <<>> \o r = r
      <4>1. q \in Seq(Names) /\ r \in Seq(Names)
        BY <1>2, <1>3, <2>1, KeptOf DEF Accomplished, PassedBy
      <4> QED
        BY <4>1, ConcatEmptySeq
    <3> QED
      BY <1>4, <2>3, <3>1, <3>2 DEF EveryItemOnce
  <2> QED
    BY <2>2, <2>3
<1> QED
  BY <1>3, <1>4, <1>5, <1>6, <1>7, <1>8 DEF Accomplished

\* The kinds of what is published are those the stream announces.
LEMMA KindsAnnounced ==
    ASSUME NEW m, NEW handler
    PROVE  Kinds(m, handler) \subseteq Supports
<1>1. OrderBookKinds(m.depth) \subseteq Supports /\ TickersKinds \subseteq Supports
  BY DEF OrderBookKinds, TickersKinds, Supports
<1> QED
  BY <1>1 DEF Kinds, Supports

\* A text message.
LEMMA TextKeeps ==
    ASSUME IndInv, Running, NEW stream \in Streams, NEW account \in Owners, NEW m,
           stream = "DropCopy" => account \in Accounts,
           Text(stream, account, m)
    PROVE  IndInv'
<1> DEFINE handler == Handler(stream, m)
           expected == m \in Expected(stream)
<1>1. expected \in BOOLEAN
  <2>1. CASE m \in Expected(stream)
    BY <2>1
  <2>2. CASE m \notin Expected(stream)
    BY <2>2
  <2> QED
    BY <2>1, <2>2
<1>2. api \in Apis /\ api' = api
  BY DEF IndInv, TypeOK, Text
<1>3. CASE Fatal(stream, handler)
  <2>1. ~expected
    BY <1>2, <1>3, ExpectedFindsHandler
  <2>2. /\ last' = Found("FATAL", expected, <<>>, FALSE)
        /\ updates' = <<>> /\ process' = "ended" /\ fills' = fills /\ kinds' = {}
    BY <1>3 DEF Text
  <2> HIDE DEF handler, expected
  <2>3. /\ last'.handler = "FATAL" /\ last'.expected = expected /\ last'.items = <<>>
        /\ last'.failed = FALSE
    BY <2>2 DEF Found
  <2>4. UnderTheirOwnName'
    BY <2>2 DEF UnderTheirOwnName, Updates
  <2>5. EveryItemOnce'
    <3>1. Published' = <<>> /\ Passed' = <<>>
      <4>1. Nothing'
        BY <2>2, <2>3 DEF Nothing
      <4>2. Silence'
        BY <4>1, NothingPublished, PTL
      <4> QED
        BY <4>2 DEF Silence
    <3>2. <<>> \o <<>> = <<>>
      BY EmptySeq, ConcatEmptySeq
    <3> QED
      BY <2>3, <3>1, <3>2 DEF EveryItemOnce
  <2>6. last'.failed \in BOOLEAN /\ last'.expected \in BOOLEAN
    BY <1>1, <2>3, Zenon
  <2>7. TypeOK'
    BY <1>2, <2>2, <2>6 DEF IndInv, TypeOK
  <2>8. ExpectedIsHandled'
    BY <2>1, <2>3 DEF ExpectedIsHandled
  <2> QED
    BY <2>2, <2>4, <2>5, <2>7, <2>8 DEF IndInv
<1>4. CASE ~Fatal(stream, handler)
  <2>0. PICK items \in Items(handler) : \E failAt \in 0 .. Len(items) + 1 :
             Convert(account, handler, expected, items, failAt)
    BY <1>4 DEF Text
  <2>1. PICK failAt \in 0 .. Len(items) + 1 :
             Convert(account, handler, expected, items, failAt)
    BY <2>0
  <2>2. process' = (IF last'.failed THEN "ended" ELSE "running") /\ kinds' = Kinds(m, handler)
    BY <1>4 DEF Text
  <2>3. handler = "EXECUTION" => account \in Accounts
    BY <1>4, ExecutionsArePrivate
  <2> HIDE DEF handler, expected
  <2>4. /\ fills' \in Seq(ItemsOf(Accounts)) /\ Len(fills') <= MaxItems
        /\ \A k \in DOMAIN fills' : fills'[k] \in [account : Accounts, name : Names]
        /\ last'.failed \in BOOLEAN /\ last'.expected = expected
        /\ UnderTheirOwnName' /\ EveryItemOnce'
    BY <1>1, <2>1, <2>3, ConvertKeeps
  <2>5. kinds' \subseteq Supports
    BY <2>2, KindsAnnounced
  <2>6. process' \in {"running", "ended"} /\ (process' = "ended" => last'.failed)
    BY <2>2, <2>4
  <2>7. last'.expected \in BOOLEAN
    BY <1>1, <2>4, Zenon
  <2>8. TypeOK'
    BY <1>2, <2>4, <2>5, <2>6, <2>7 DEF TypeOK
  <2>9. ExpectedIsHandled'
    BY <2>6 DEF ExpectedIsHandled
  <2> QED
    BY <2>4, <2>8, <2>9 DEF IndInv
<1> QED
  BY <1>3, <1>4

\* A snapshot.
LEMMA SnapshotKeeps ==
    ASSUME IndInv, Running, NEW a \in Accounts, NEW handler, Snapshot(a, handler)
    PROVE  IndInv'
<1>0. PICK items \in Items(handler) : \E failAt \in 0 .. Len(items) + 1 :
           Convert(a, handler, TRUE, items, failAt)
  BY DEF Snapshot
<1>1. PICK failAt \in 0 .. Len(items) + 1 : Convert(a, handler, TRUE, items, failAt)
  BY <1>0
<1>2. kinds' = {} /\ process' = "running" /\ api' = api
  BY DEF Snapshot, Running
<1>3. TRUE \in BOOLEAN /\ a \in Owners
  BY DEF Owners
<1>4. /\ fills' \in Seq(ItemsOf(Accounts)) /\ Len(fills') <= MaxItems
      /\ \A k \in DOMAIN fills' : fills'[k] \in [account : Accounts, name : Names]
      /\ last'.failed \in BOOLEAN /\ last'.expected = TRUE
      /\ UnderTheirOwnName' /\ EveryItemOnce'
  BY <1>1, <1>3, ConvertKeeps
<1>5. last'.expected \in BOOLEAN
  BY <1>4, Zenon
<1>6. TypeOK'
  BY <1>2, <1>4, <1>5 DEF IndInv, TypeOK
<1> QED
  BY <1>2, <1>4, <1>6 DEF IndInv, ExpectedIsHandled

LEMMA NextInv == IndInv /\ [Next]_vars => IndInv'
<1> SUFFICES ASSUME IndInv, [Next]_vars PROVE IndInv'
  OBVIOUS
<1>1. NoName \in Owners /\ Accounts \subseteq Owners
  BY DEF Owners
<1>2. ASSUME Running, NEW m, MarketDataText(m) PROVE IndInv'
  BY <1>1, <1>2, TextKeeps DEF MarketDataText, Streams
<1>3. ASSUME Running, NEW a \in Accounts, NEW m, DropCopyText(a, m) PROVE IndInv'
  BY <1>1, <1>3, TextKeeps DEF DropCopyText, Streams
<1>4. ASSUME Running, NEW a \in Accounts, NEW m, OrderEntryText(a, m) PROVE IndInv'
  BY <1>1, <1>4, TextKeeps DEF OrderEntryText, Streams
<1>5. ASSUME Running, NEW a \in Accounts,
             WalletBalanceAck(a) \/ PositionsAck(a) \/ OrdersAck(a) \/ ExecutionsAck(a)
      PROVE  IndInv'
  BY <1>5, SnapshotKeeps DEF WalletBalanceAck, PositionsAck, OrdersAck, ExecutionsAck
<1>6. CASE UNCHANGED vars
  BY <1>6 DEF vars, IndInv, TypeOK, UnderTheirOwnName, Updates, EveryItemOnce, Published, Passed,
              ExpectedIsHandled
<1> QED
  BY <1>2, <1>3, <1>4, <1>5, <1>6 DEF Next

\* IndInv holds in every reachable state: nothing but the loop invariants above is needed to
\* show it kept by a message.
THEOREM Inductive == Spec => []IndInv
BY InitInv, NextInv, PTL DEF Spec

\* For any accounts and names, whatever the messages contain and whenever the dispatcher
\* throws, the scratch vector has at most the fills of one message.
THEOREM TypeCorrect == Spec => []TypeOK
<1>1. IndInv => TypeOK
  BY DEF IndInv
<1> QED
  BY <1>1, Inductive, PTL

\* An update names what is in it; what an exception left goes out without a name.
THEOREM UnderTheirOwnNameHolds == Spec => []UnderTheirOwnName
<1>1. IndInv => UnderTheirOwnName
  BY DEF IndInv
<1> QED
  BY <1>1, Inductive, PTL

\* Every item is published once and in its place, unless the dispatcher throws, and then
\* those before.
THEOREM EveryItemOnceHolds == Spec => []EveryItemOnce
<1>1. IndInv => EveryItemOnce
  BY DEF IndInv
<1> QED
  BY <1>1, Inductive, PTL

\* Nothing a stream has asked for ends the process by itself.
THEOREM ExpectedIsHandledHolds == Spec => []ExpectedIsHandled
<1>1. IndInv => ExpectedIsHandled
  BY DEF IndInv
<1> QED
  BY <1>1, Inductive, PTL

-----------------------------------------------------------------------------
(* One source for each kind of update.                                       *)

LEMMA OneSource ==
    ASSUME api \in Apis, MbpDepth # 1, NEW k \in Supports
    PROVE  Cardinality({t \in MarketDataTopics : k \in KindsOf(t)}) = 1
<1> DEFINE S == {t \in MarketDataTopics : k \in KindsOf(t)}
           Book == <<"ORDERBOOK", MbpDepth>>
           Top == <<"ORDERBOOK", 1>>
           Trade == <<"PUBLIC_TRADE", 0>>
           Tickers == <<"TICKERS", 0>>
           Kline == <<"KLINE", 0>>
<1>1. ASSUME NEW t PROVE Message(t, "UNDEFINED", "DELTA").depth = t[2]
  BY DEF Message
<1>2. /\ KindsOf(Book) = {"MARKET_BY_PRICE"} /\ KindsOf(Top) = {"TOP_OF_BOOK"}
      /\ KindsOf(Trade) = {"TRADE_SUMMARY"} /\ KindsOf(Tickers) = TickersKinds
      /\ KindsOf(Kline) = {}
  BY <1>1 DEF KindsOf, Kinds, OrderBookKinds
<1>3. Book[1] = "ORDERBOOK" /\ Top[1] = "ORDERBOOK" /\ Trade[1] = "PUBLIC_TRADE"
      /\ Tickers[1] = "TICKERS" /\ Kline[1] = "KLINE"
  OBVIOUS
<1>4. /\ {Book, Trade, Tickers} \subseteq MarketDataTopics
      /\ MarketDataTopics \subseteq {Book, Top, Trade, Tickers, Kline}
      /\ Top \in MarketDataTopics <=> api = "SPOT"
  <2>1. Top # Book /\ Top # Trade /\ Top # Tickers /\ Top # Kline
    BY <1>3
  <2> HIDE DEF Book, Top, Trade, Tickers, Kline
  <2>2. MarketDataTopics = {Book, Trade, Tickers} \cup (IF api = "SPOT" THEN {Top} ELSE {})
                             \cup (IF TimeSeries THEN {Kline} ELSE {})
    BY DEF MarketDataTopics, Book, Top, Trade, Tickers, Kline
  <2> QED
    BY <2>1, <2>2
<1> HIDE DEF Book, Top, Trade, Tickers, Kline
<1>5. \E x : S = {x}
  <2>1. CASE k = "MARKET_BY_PRICE"
    <3>1. S = {Book}
      BY <1>2, <1>4, <2>1 DEF TickersKinds
    <3> QED
      BY <3>1
  <2>2. CASE k = "TRADE_SUMMARY"
    <3>1. S = {Trade}
      BY <1>2, <1>4, <2>2 DEF TickersKinds
    <3> QED
      BY <3>1
  <2>3. CASE k = "STATISTICS"
    <3>1. S = {Tickers}
      BY <1>2, <1>4, <2>3 DEF TickersKinds
    <3> QED
      BY <3>1
  <2>4. CASE k = "TOP_OF_BOOK" /\ api = "SPOT"
    <3>1. S = {Top}
      BY <1>2, <1>4, <2>4 DEF TickersKinds
    <3> QED
      BY <3>1
  <2>5. CASE k = "TOP_OF_BOOK" /\ api # "SPOT"
    <3>1. S = {Tickers}
      BY <1>2, <1>4, <2>5 DEF TickersKinds
    <3> QED
      BY <3>1
  <2> QED
    BY <2>1, <2>2, <2>3, <2>4, <2>5 DEF Supports
<1> HIDE DEF S
<1>6. Cardinality(S) = 1
  BY <1>5, FS_Singleton
<1> QED
  BY <1>6 DEF S

\* On every API each kind of update has one topic, unless mbp_depth is 1.
THEOREM OneSourceEachHolds == Spec => []OneSourceEach
<1>1. IndInv => OneSourceEach
  <2> SUFFICES ASSUME IndInv PROVE OneSourceEach
    OBVIOUS
  <2>1. api \in Apis /\ Supports \cup kinds = Supports
    BY DEF IndInv, TypeOK
  <2> QED
    BY <2>1, OneSource DEF OneSourceEach
<1> QED
  BY <1>1, Inductive, PTL
=============================================================================
