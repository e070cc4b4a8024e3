----------------------- MODULE MarketDataStreamsProofs -----------------------
(***************************************************************************)
(* Proof that the streams divide the symbols among them, for any symbols,  *)
(* any size of the slices, and any number of sessions.                     *)
(*                                                                         *)
(* Three things the properties depend on are said by none of them: every   *)
(* registered symbol has a slot of its own, up to total (PlaceInv), a      *)
(* stream that is READY exists and has a session (StreamInv), and a retry  *)
(* counts as an instruments request to come (RestInv).                     *)
(***************************************************************************)
EXTENDS MarketDataStreams, FiniteSetTheorems, TLAPS

\* The part of TypeOK that registering and subscribing symbols is about.
SymbolTypes ==
    /\ all_symbols \subseteq Symbols /\ place \in [Symbols -> Nat] /\ total \in Nat
    /\ market_data_ \in Nat
    /\ mdStatus \in [Indexes -> Statuses] /\ mdSessions \in [Indexes -> Nat]
    /\ subscribed \in [Indexes -> [Symbols -> Nat]]
    /\ queued \in [Symbols -> Nat] /\ klineAsked \subseteq Symbols
    /\ passedOn \in [Symbols -> Nat] /\ interrupted \subseteq Symbols

PlaceInv ==
    /\ total = Cardinality(Registered)
    /\ \A s \in Symbols : place[s] <= total
    /\ \A s, t \in Symbols : place[s] > 0 /\ place[s] = place[t] => s = t
StreamInv == \A i \in Indexes : mdStatus[i] = "READY" => i < market_data_ /\ mdSessions[i] > 0
SubscribedInv ==
    \A i \in Indexes, s \in Symbols : subscribed[i][s] =
        IF mdStatus[i] = "READY" /\ s \in Registered /\ SliceOf(s) = i THEN 1 ELSE 0
SymbolInv == PlaceInv /\ StreamInv /\ SubscribedInv /\ PassedOnOnce

\* What waits in the queue is for a stream, and not for more of its sessions than it had.
KlineInv ==
    /\ KlineCoverage
    /\ \A s \in Symbols : queued[s] > 0 =>
          s \in Registered /\ SliceOf(s) \in Indexes /\ queued[s] <= mdSessions[SliceOf(s)]

RestInv ==
    /\ restLink = "down" => outstanding = 0 /\ restState # "DONE"
    /\ outstanding + (IF retry = "pending" THEN 1 ELSE 0) <= 2
    /\ processed = IF restState = "DONE" THEN 1 ELSE 0

IndInv == TypeOK /\ SymbolInv /\ KlineInv /\ RestInv

-----------------------------------------------------------------------------
\* Sets of symbols are finite.
LEMMA Finite ==
    ASSUME NEW S \in SUBSET Symbols
    PROVE  IsFiniteSet(S) /\ Cardinality(S) \in Nat
BY SymbolsAssumption, FS_Subset, FS_CardinalityType

LEMMA AddType ==
    ASSUME NEW bag \in [Symbols -> Nat], NEW S
    PROVE  Add(bag, S) \in [Symbols -> Nat]
BY DEF Add

\* The slots of a slice.
LEMMA SliceSlots ==
    ASSUME NEW p \in Nat, p > 0, NEW i \in Nat, (p - 1) \div SliceSize = i
    PROVE  p \in i * SliceSize + 1 .. i * SliceSize + SliceSize
BY SliceSizeAssumption

\* A slice has no more symbols than it has slots.
LEMMA SliceBounded ==
    ASSUME TypeOK, PlaceInv, NEW i \in Indexes
    PROVE  Cardinality({s \in Symbols : place[s] > 0 /\ SliceOf(s) = i}) <= SliceSize
<1> DEFINE S == {s \in Symbols : place[s] > 0 /\ SliceOf(s) = i}
           T == i * SliceSize + 1 .. i * SliceSize + SliceSize
           f == [s \in S |-> place[s]]
<1>1. i \in Nat /\ SliceSize \in Nat /\ i * SliceSize \in Nat /\ SliceSize > 0
  BY Finite, SliceSizeAssumption DEF Indexes
<1>2. \A s \in S : place[s] \in T
  BY <1>1, SliceSlots DEF TypeOK, SliceOf
<1>3. f \in Injection(S, T)
  BY <1>2 DEF Injection, IsInjective, PlaceInv
<1>4. IsFiniteSet(T) /\ Cardinality(T) = SliceSize
  BY <1>1, FS_Interval
<1>5. Cardinality(S) <= Cardinality(T)
  BY <1>3, <1>4, FS_Injection, Zenon
<1> QED
  BY <1>4, <1>5

-----------------------------------------------------------------------------
\* What registering symbols does: they get slots of their own behind the others, the
\* streams that are READY ask once for those in their slices, and DropCopy is told once,
\* of all of them unless there was an exception.
LEMMA Registers ==
    ASSUME TypeOK, PlaceInv, StreamInv, NEW new \in SUBSET Symbols,
           NEW n \in 0 .. Cardinality(new), SymbolsUpdate(new, n)
    PROVE  /\ place' \in [Symbols -> Nat] /\ total' \in Nat /\ total' >= total
           /\ \A s \in Symbols \ new : place'[s] = place[s]
           /\ \A s \in new : place'[s] > total /\ place'[s] <= total'
           /\ \A s, t \in new : place'[s] = place'[t] => s = t
           /\ market_data_' \in Nat /\ market_data_' >= market_data_
           /\ \A i \in Indexes : Added(place', i) =
                {s \in new : mdStatus[i] = "READY" /\ (place'[s] - 1) \div SliceSize = i}
           /\ subscribed' = [i \in Indexes |-> Add(subscribed[i], Added(place', i))]
           /\ RequestKlines(UNION {Added(place', i) : i \in Indexes})
           /\ passedOn' \in [Symbols -> Nat]
           /\ \A s \in Symbols \ new : passedOn'[s] = passedOn[s]
           /\ \A s \in new : passedOn'[s] <= passedOn[s] + 1
           /\ n = Cardinality(new) => \A s \in new : passedOn'[s] = passedOn[s] + 1
           /\ total' = total + Cardinality(new)
<1> DEFINE c == Cardinality(new)
           position(order) == [s \in Symbols |-> IF s \in new THEN order[s] ELSE place[s]]
<1>1. c \in Nat
  BY Finite
<1>2. PICK order \in [new -> total + 1 .. total + c] :
        /\ \A s, t \in new : order[s] = order[t] => s = t
        /\ place' = position(order)
        /\ total' = total + c
        /\ EnsureSymbolSlices(Slices(total + c))
        /\ subscribed' = [i \in Indexes |-> Add(subscribed[i], Added(position(order), i))]
        /\ RequestKlines(UNION {Added(position(order), i) : i \in Indexes})
        /\ passedOn' = Add(passedOn, {s \in new : order[s] <= total + n})
  BY Zenon DEF SymbolsUpdate
<1>3. \A s \in new : order[s] \in total + 1 .. total + c
  BY <1>2
<1>4. /\ place' \in [Symbols -> Nat] /\ total' \in Nat /\ total' >= total
      /\ \A s \in Symbols \ new : place'[s] = place[s]
      /\ \A s \in new : place'[s] > total /\ place'[s] <= total'
      /\ \A s, t \in new : place'[s] = place'[t] => s = t
  BY <1>1, <1>2, <1>3 DEF TypeOK
<1>5. Slices(total + c) \in Int
  BY <1>1, SliceSizeAssumption DEF Slices, TypeOK
<1>6. market_data_' \in Nat /\ market_data_' >= market_data_
  BY <1>2, <1>5 DEF EnsureSymbolSlices, TypeOK
<1>7. ASSUME NEW i \in Indexes
      PROVE  Added(place', i) = {s \in new : mdStatus[i] = "READY" /\ (place'[s] - 1) \div SliceSize = i}
  BY <1>4 DEF Added, GetSlice, PlaceInv, StreamInv, TypeOK
<1>8. place' = position(order)
  BY <1>2
<1>9. /\ passedOn' \in [Symbols -> Nat]
      /\ \A s \in Symbols \ new : passedOn'[s] = passedOn[s]
      /\ \A s \in new : passedOn'[s] <= passedOn[s] + 1
  BY <1>2 DEF Add, TypeOK
<1>10. ASSUME n = c, NEW s \in new PROVE passedOn'[s] = passedOn[s] + 1
  <2>1. order[s] <= total + n
    BY <1>1, <1>3, <1>10 DEF TypeOK
  <2> QED
    BY <1>2, <2>1 DEF Add, TypeOK
<1> HIDE DEF position
<1>11. /\ subscribed' = [i \in Indexes |-> Add(subscribed[i], Added(place', i))]
       /\ RequestKlines(UNION {Added(place', i) : i \in Indexes})
  BY <1>2, <1>8, Zenon
<1> QED
  BY <1>2, <1>4, <1>6, <1>7, <1>9, <1>10, <1>11, Zenon

\* What asking for candles does to the queue.
LEMMA Asks ==
    ASSUME queued \in [Symbols -> Nat], klineAsked \subseteq Symbols, NEW S \in SUBSET Symbols,
           RequestKlines(S)
    PROVE  /\ queued' \in [Symbols -> Nat] /\ klineAsked' \subseteq Symbols
           /\ \A s \in Symbols \ S : queued'[s] = queued[s] /\ (s \in klineAsked' <=> s \in klineAsked)
           /\ \A s \in S : queued'[s] \in {queued[s], queued[s] + 1}
           /\ Klines => \A s \in S : queued'[s] > 0
BY FlagsAssumption DEF RequestKlines, Add

-----------------------------------------------------------------------------
\* Whether all new symbols were told to DropCopy or an exception has kept some from it.
Completed(new, n) ==
    \/ n = Cardinality(new) /\ interrupted' = interrupted
    \/ interrupted' = interrupted \cup new

\* Registering new symbols keeps what is known of them.
LEMMA SymbolsUpdateStep ==
    ASSUME IndInv, NEW new \in SUBSET Symbols, new \cap all_symbols = {},
           NEW n \in 0 .. Cardinality(new), SymbolsUpdate(new, n), Completed(new, n),
           all_symbols' = all_symbols \cup new, UNCHANGED <<mdStatus, mdSessions>>
    PROVE  SymbolTypes' /\ SymbolInv' /\ KlineInv'
<1> DEFINE joining == UNION {Added(place', i) : i \in Indexes}
<1> USE DEF IndInv, SymbolInv
<1>0. new \cap Registered = {}
  BY DEF PassedOnOnce
<1>1. /\ place' \in [Symbols -> Nat] /\ total' \in Nat /\ total' >= total
      /\ \A s \in Symbols \ new : place'[s] = place[s]
      /\ \A s \in new : place'[s] > total /\ place'[s] <= total'
      /\ \A s, t \in new : place'[s] = place'[t] => s = t
      /\ market_data_' \in Nat /\ market_data_' >= market_data_
  BY Registers, Zenon
<1>2. \A i \in Indexes : Added(place', i) =
        {s \in new : mdStatus[i] = "READY" /\ (place'[s] - 1) \div SliceSize = i}
  BY Registers, Zenon
<1>3. subscribed' = [i \in Indexes |-> Add(subscribed[i], Added(place', i))]
  BY Registers, Zenon
<1>4. RequestKlines(joining)
  BY Registers, Zenon
<1>5. /\ passedOn' \in [Symbols -> Nat]
      /\ \A s \in Symbols \ new : passedOn'[s] = passedOn[s]
      /\ \A s \in new : passedOn'[s] <= passedOn[s] + 1
      /\ n = Cardinality(new) => \A s \in new : passedOn'[s] = passedOn[s] + 1
  BY Registers, Zenon
<1>a. Registered' = Registered \cup new
  BY <1>1 DEF Registered, TypeOK
<1>6. \A i \in Indexes, s \in Symbols :
        subscribed'[i][s] = IF s \in Added(place', i) THEN subscribed[i][s] + 1 ELSE subscribed[i][s]
  BY <1>3 DEF Add
<1>7. PlaceInv'
  <2>1. total' = total + Cardinality(new)
    BY Registers, Zenon
  <2>2. Cardinality(Registered \cup new) = Cardinality(Registered) + Cardinality(new)
    <3>1. IsFiniteSet(Registered) /\ IsFiniteSet(new)
      BY Finite DEF Registered
    <3>2. /\ Cardinality(Registered \cup new) =
              Cardinality(Registered) + Cardinality(new) - Cardinality(Registered \cap new)
          /\ Registered \cap new = {}
      BY <3>1, <1>0, FS_Union
    <3>3. Cardinality(Registered) \in Nat /\ Cardinality(new) \in Nat
      BY <3>1, FS_CardinalityType
    <3>4. Cardinality(Registered \cap new) = 0
      BY <3>2, FS_EmptySet, Zenon
    <3> HIDE DEF joining
    <3> QED
      BY <3>2, <3>3, <3>4
  <2>3. total' = Cardinality(Registered')
    BY <2>1, <2>2, <1>a DEF PlaceInv
  <2>4. /\ \A s \in Symbols : place'[s] <= total'
        /\ \A s, t \in Symbols : place'[s] > 0 /\ place'[s] = place'[t] => s = t
    BY <1>1 DEF PlaceInv, TypeOK
  <2> QED
    BY <2>3, <2>4 DEF PlaceInv
<1>8. StreamInv'
  BY <1>1 DEF StreamInv, TypeOK, Indexes
<1>9. SubscribedInv'
  <2> SUFFICES ASSUME NEW i \in Indexes, NEW s \in Symbols
               PROVE  subscribed'[i][s] =
                        IF mdStatus[i] = "READY" /\ s \in Registered' /\ (place'[s] - 1) \div SliceSize = i
                        THEN 1 ELSE 0
    BY DEF SubscribedInv, SliceOf
  <2>1. CASE s \in new
    BY <2>1, <1>0, <1>a, <1>2, <1>6 DEF SubscribedInv
  <2>2. CASE s \notin new
    <3>1. place'[s] = place[s] /\ subscribed'[i][s] = subscribed[i][s]
      BY <2>2, <1>1, <1>2, <1>6
    <3> QED
      BY <2>2, <1>a, <3>1 DEF SubscribedInv, SliceOf
  <2> QED
    BY <2>1, <2>2
<1>10. PassedOnOnce'
  <2>1. interrupted' \subseteq all_symbols' /\ Registered' \subseteq all_symbols'
    BY <1>a DEF PassedOnOnce, Completed
  <2>2. ASSUME NEW s \in Symbols
        PROVE  /\ passedOn'[s] <= (IF s \in Registered' THEN 1 ELSE 0)
               /\ s \in all_symbols' \ interrupted' => s \in Registered' /\ passedOn'[s] = 1
    <3>1. CASE s \in new
      <4>1. passedOn[s] = 0 /\ passedOn'[s] \in Nat
        BY <3>1, <1>0, <1>5 DEF PassedOnOnce, TypeOK
      <4>2. s \notin interrupted' => n = Cardinality(new)
        BY <3>1 DEF Completed
      <4>3. passedOn'[s] <= 1 /\ (n = Cardinality(new) => passedOn'[s] = 1)
        BY <3>1, <4>1, <1>5
      <4> QED
        BY <3>1, <1>a, <4>2, <4>3
    <3>2. CASE s \notin new
      BY <3>2, <1>5, <1>a DEF PassedOnOnce, Completed
    <3> QED
      BY <3>1, <3>2
  <2>3. all_symbols' \subseteq Symbols
    BY DEF TypeOK
  <2> QED
    BY <2>1, <2>2, <2>3 DEF PassedOnOnce
<1>11. joining \subseteq Symbols
  BY <1>2
<1>12. /\ queued' \in [Symbols -> Nat] /\ klineAsked' \subseteq Symbols
       /\ \A s \in Symbols \ joining : queued'[s] = queued[s] /\ (s \in klineAsked' <=> s \in klineAsked)
       /\ \A s \in joining : queued'[s] \in {queued[s], queued[s] + 1}
       /\ Klines => \A s \in joining : queued'[s] > 0
  BY <1>4, <1>11, Asks, Zenon DEF TypeOK
<1>13. SymbolTypes'
  <2>1. subscribed' \in [Indexes -> [Symbols -> Nat]]
    BY <1>3 DEF TypeOK, Add
  <2>2. passedOn' \in [Symbols -> Nat] /\ interrupted' \subseteq Symbols
    BY <1>5 DEF TypeOK, Completed
  <2> QED
    BY <1>1, <1>12, <2>1, <2>2 DEF TypeOK, SymbolTypes
<1>14. KlineCoverage'
  <2> SUFFICES ASSUME Klines, NEW i \in Indexes, NEW s \in Symbols, subscribed'[i][s] > 0
               PROVE  queued'[s] > 0 \/ s \in klineAsked'
    BY DEF KlineCoverage
  <2>1. CASE s \in joining
    BY <2>1, <1>12
  <2>2. CASE s \notin joining
    BY <2>2, <1>6, <1>12 DEF KlineInv, KlineCoverage
  <2> QED
    BY <2>1, <2>2
<1>15. ASSUME NEW s \in Symbols, queued'[s] > 0
       PROVE  /\ s \in Registered' /\ (place'[s] - 1) \div SliceSize \in Indexes
              /\ queued'[s] <= mdSessions[(place'[s] - 1) \div SliceSize]
  <2>1. CASE s \in joining
    <3>1. PICK i \in Indexes : s \in Added(place', i)
      BY <2>1
    <3>2. s \in new /\ mdStatus[i] = "READY" /\ (place'[s] - 1) \div SliceSize = i
      BY <3>1, <1>2
    <3>3. mdSessions[i] > 0 /\ mdSessions[i] \in Nat
      BY <3>2 DEF StreamInv, TypeOK
    <3>4. queued[s] = 0
      BY <3>2, <1>0 DEF KlineInv, TypeOK
    <3>5. queued'[s] <= 1
      BY <2>1, <3>4, <1>12
    <3> QED
      BY <3>2, <3>3, <3>5, <1>12, <1>a
  <2>2. CASE s \notin joining
    <3>1. queued'[s] = queued[s]
      BY <2>2, <1>12
    <3>2. s \in Registered /\ place'[s] = place[s]
      BY <3>1, <1>15, <1>0, <1>1 DEF KlineInv
    <3> QED
      BY <3>1, <3>2, <1>15, <1>a DEF KlineInv, SliceOf
  <2> QED
    BY <2>1, <2>2
<1>16. KlineInv'
  BY <1>14, <1>15 DEF KlineInv, SliceOf
<1> QED
  BY <1>7, <1>8, <1>9, <1>10, <1>13, <1>16

\* A stream that becomes READY asks for its slice, as the others did for theirs.
LEMMA MdReadyStep ==
    ASSUME IndInv, NEW i \in Indexes, MdReady(i)
    PROVE  SymbolTypes' /\ SymbolInv' /\ KlineInv'
<1> DEFINE slice == GetSlice(place, i, 0)
<1> USE DEF IndInv, SymbolInv
<1>1. /\ i < market_data_ /\ RequestKlines(slice)
      /\ mdSessions' = [mdSessions EXCEPT ![i] = @ + 1]
      /\ mdStatus' = [mdStatus EXCEPT ![i] = "READY"]
      /\ subscribed' = [subscribed EXCEPT ![i] = Add(NoSymbols, slice)]
      /\ UNCHANGED <<all_symbols, place, total, market_data_, passedOn, interrupted>>
  BY DEF MdReady, registryVars, history
<1>2. slice = {s \in Symbols : s \in Registered /\ SliceOf(s) = i} /\ Registered' = Registered
  BY <1>1 DEF GetSlice, Registered, SliceOf, TypeOK
<1>3. /\ queued' \in [Symbols -> Nat] /\ klineAsked' \subseteq Symbols
      /\ \A s \in Symbols \ slice : queued'[s] = queued[s] /\ (s \in klineAsked' <=> s \in klineAsked)
      /\ \A s \in slice : queued'[s] \in {queued[s], queued[s] + 1}
      /\ Klines => \A s \in slice : queued'[s] > 0
  <2>1. slice \in SUBSET Symbols
    BY <1>2
  <2> QED
    BY <1>1, <2>1, Asks, Zenon DEF TypeOK
<1>4. \A j \in Indexes, s \in Symbols :
        subscribed'[j][s] = IF j = i THEN (IF s \in slice THEN 1 ELSE 0) ELSE subscribed[j][s]
  BY <1>1 DEF TypeOK, Add, NoSymbols
<1>5. SymbolTypes'
  <2>1. Add(NoSymbols, slice) \in [Symbols -> Nat]
    BY DEF Add, NoSymbols
  <2> QED
    BY <1>1, <1>3, <2>1 DEF TypeOK, SymbolTypes, Statuses
<1>6. PlaceInv'
  BY <1>1, <1>2 DEF PlaceInv
<1>7. StreamInv'
  BY <1>1 DEF StreamInv, TypeOK
<1>8. SubscribedInv'
  BY <1>1, <1>2, <1>4 DEF SubscribedInv, SliceOf, TypeOK
<1>9. PassedOnOnce'
  BY <1>1, <1>2 DEF PassedOnOnce
<1>10. KlineCoverage'
  <2> SUFFICES ASSUME Klines, NEW j \in Indexes, NEW s \in Symbols, subscribed'[j][s] > 0
               PROVE  queued'[s] > 0 \/ s \in klineAsked'
    BY DEF KlineCoverage
  <2> QED
    BY <1>3, <1>4 DEF KlineInv, KlineCoverage
<1>11. ASSUME NEW s \in Symbols, queued'[s] > 0
       PROVE  /\ s \in Registered /\ SliceOf(s) \in Indexes
              /\ queued'[s] <= mdSessions'[SliceOf(s)]
  <2>1. CASE s \in slice
    <3>1. mdSessions'[i] = mdSessions[i] + 1 /\ mdSessions[i] \in Nat
      BY <1>1 DEF TypeOK
    <3>2. queued[s] \in Nat /\ queued'[s] \in Nat /\ queued'[s] <= queued[s] + 1
      BY <2>1, <1>3 DEF TypeOK
    <3>3. queued[s] <= mdSessions[i]
      BY <3>1, <3>2, <2>1, <1>2 DEF KlineInv
    <3> QED
      BY <2>1, <3>1, <3>2, <3>3, <1>1, <1>2
  <2>2. CASE s \notin slice
    <3>1. queued'[s] = queued[s]
      BY <2>2, <1>3
    <3>2. s \in Registered /\ SliceOf(s) \in Indexes /\ queued[s] <= mdSessions[SliceOf(s)]
      BY <3>1, <1>11 DEF KlineInv
    <3>3. SliceOf(s) # i
      BY <2>2, <3>2, <1>2
    <3> QED
      BY <3>1, <3>2, <3>3, <1>1 DEF TypeOK
  <2> QED
    BY <2>1, <2>2
<1>12. KlineInv'
  BY <1>1, <1>2, <1>10, <1>11 DEF KlineInv, SliceOf
<1> QED
  BY <1>5, <1>6, <1>7, <1>8, <1>9, <1>12

\* A stream that is lost is not READY and has asked for nothing.
LEMMA MdDisconnectedStep ==
    ASSUME IndInv, NEW i \in Indexes, MdDisconnected(i)
    PROVE  SymbolTypes' /\ SymbolInv' /\ KlineInv'
<1> USE DEF IndInv, SymbolInv, MdDisconnected, registryVars, klineVars, history
<1>1. SymbolTypes'
  BY DEF TypeOK, SymbolTypes, Statuses, NoSymbols
<1>2. PlaceInv' /\ PassedOnOnce'
  BY DEF PlaceInv, PassedOnOnce, Registered
<1>3. StreamInv'
  BY DEF StreamInv, TypeOK
<1>4. \A j \in Indexes, s \in Symbols : subscribed'[j][s] = IF j = i THEN 0 ELSE subscribed[j][s]
  BY DEF TypeOK, NoSymbols
<1>5. SubscribedInv'
  BY <1>4 DEF SubscribedInv, SliceOf, Registered, TypeOK
<1>6. KlineInv'
  BY <1>4 DEF KlineInv, KlineCoverage, SliceOf, Registered
<1> QED
  BY <1>1, <1>2, <1>3, <1>5, <1>6

\* What is taken off the queue has been asked for.
LEMMA RestTimerStep ==
    ASSUME IndInv, NEW D \in SUBSET Symbols, RestTimer(D)
    PROVE  IndInv'
<1> USE DEF IndInv, SymbolInv, RestTimer, registryVars, streamVars, restVars, history
<1>1. TypeOK'
  <2>1. \A s \in D : queued[s] - 1 \in Nat
    BY DEF TypeOK
  <2>2. queued' \in [Symbols -> Nat] /\ inflight' \in [Symbols -> Nat] /\ klineAsked' \subseteq Symbols
    BY <2>1 DEF TypeOK, Add
  <2> QED
    BY <2>2 DEF TypeOK
<1>2. SymbolInv'
  BY DEF PlaceInv, StreamInv, SubscribedInv, PassedOnOnce, SliceOf, Registered
<1>3. KlineCoverage'
  BY DEF KlineInv, KlineCoverage, TypeOK
<1>4. ASSUME NEW s \in Symbols, queued'[s] > 0
      PROVE  s \in Registered /\ SliceOf(s) \in Indexes /\ queued'[s] <= mdSessions[SliceOf(s)]
  <2>1. queued[s] > 0 /\ queued'[s] <= queued[s] /\ queued[s] \in Nat /\ queued'[s] \in Nat
    BY <1>1, <1>4 DEF TypeOK
  <2>2. SliceOf(s) \in Indexes => mdSessions[SliceOf(s)] \in Nat
    BY DEF TypeOK
  <2> QED
    BY <2>1, <2>2 DEF KlineInv
<1>5. KlineInv'
  BY <1>3, <1>4 DEF KlineInv, SliceOf, Registered
<1>6. RestInv'
  BY DEF RestInv
<1> QED
  BY <1>1, <1>2, <1>5, <1>6

-----------------------------------------------------------------------------
\* What is known of symbols and of the queue depends on no other variables.
LEMMA SymbolsStutter ==
    ASSUME SymbolInv, KlineInv,
           UNCHANGED <<registryVars, streamVars, queued, klineAsked, history>>
    PROVE  SymbolInv' /\ KlineInv'
<1> USE DEF registryVars, streamVars, history
<1>1. PlaceInv' /\ StreamInv' /\ SubscribedInv' /\ PassedOnOnce'
  BY DEF SymbolInv, PlaceInv, StreamInv, SubscribedInv, PassedOnOnce, SliceOf, Registered
<1>2. KlineInv'
  BY DEF KlineInv, KlineCoverage, SliceOf, Registered
<1> QED
  BY <1>1, <1>2 DEF SymbolInv

LEMMA SubscribeStep ==
    ASSUME IndInv, NEW S \in SUBSET Symbols, Subscribe(S)
    PROVE  IndInv'
<1> DEFINE new == S \ all_symbols
<1>1. /\ all_symbols' = all_symbols \cup new
      /\ UNCHANGED <<process, mdStatus, mdSessions, restVars, inflight, interrupted>>
  BY DEF Subscribe
<1>2. SymbolsUpdate(new, Cardinality(new)) /\ new \in SUBSET Symbols /\ new \cap all_symbols = {}
  BY Zenon DEF Subscribe
<1> HIDE DEF new
<1>3. SymbolTypes' /\ SymbolInv' /\ KlineInv'
  <2>1. Cardinality(new) \in 0 .. Cardinality(new)
    BY <1>2, Finite
  <2>2. Completed(new, Cardinality(new))
    BY <1>1 DEF Completed
  <2> QED
    BY <1>1, <1>2, <2>1, <2>2, SymbolsUpdateStep, Zenon
<1>4. TypeOK' /\ RestInv'
  BY <1>1, <1>3 DEF IndInv, TypeOK, SymbolTypes, RestInv, restVars
<1> QED
  BY <1>3, <1>4 DEF IndInv

LEMMA MdStep ==
    ASSUME IndInv, NEW i \in Indexes, MdReady(i) \/ MdDisconnected(i) \/ MdError(i)
    PROVE  IndInv'
<1>1. CASE MdReady(i)
  <2>1. SymbolTypes' /\ SymbolInv' /\ KlineInv'
    BY <1>1, MdReadyStep
  <2> QED
    BY <1>1, <2>1 DEF MdReady, IndInv, TypeOK, SymbolTypes, RestInv, restVars
<1>2. CASE MdDisconnected(i)
  <2>1. SymbolTypes' /\ SymbolInv' /\ KlineInv'
    BY <1>2, MdDisconnectedStep
  <2> QED
    BY <1>2, <2>1 DEF MdDisconnected, IndInv, TypeOK, SymbolTypes, RestInv, restVars, klineVars
<1>3. CASE MdError(i)
  <2>1. SymbolInv' /\ KlineInv'
    BY <1>3, SymbolsStutter DEF MdError, IndInv, klineVars, history
  <2> QED
    BY <1>3, <2>1 DEF MdError, IndInv, TypeOK, RestInv, registryVars, streamVars, restVars, klineVars, history
<1> QED
  BY <1>1, <1>2, <1>3

\* The connection of Rest, its retry and the answers to candle requests.
LEMMA RestConnectionStep ==
    ASSUME IndInv,
           \/ RestConnected \/ RestDisconnected \/ RestRetry
           \/ \E s \in Symbols, outcome \in Outcomes : GetKlineAck(s, outcome)
    PROVE  IndInv'
<1> USE DEF registryVars, streamVars, restVars, klineVars, history
<1>1. UNCHANGED <<registryVars, streamVars, queued, klineAsked, history>>
  BY DEF RestConnected, RestDisconnected, RestRetry, GetKlineAck
<1>2. SymbolInv' /\ KlineInv'
  BY <1>1, SymbolsStutter DEF IndInv
<1>3. TypeOK' /\ RestInv'
  <2> USE DEF IndInv, TypeOK, RestInv
  <2>1. CASE RestConnected
    BY <2>1 DEF RestConnected, GetInstrumentsInfo, Statuses
  <2>2. CASE RestDisconnected
    BY <2>2 DEF RestDisconnected, Downloading, Statuses, NoSymbols
  <2>3. CASE RestRetry
    BY <2>3 DEF RestRetry, GetInstrumentsInfo, Downloading, Statuses
  <2>4. CASE \E s \in Symbols, outcome \in Outcomes : GetKlineAck(s, outcome)
    BY <2>4 DEF GetKlineAck
  <2> QED
    BY <2>1, <2>2, <2>3, <2>4
<1> QED
  BY <1>2, <1>3 DEF IndInv

\* A listing that is handled to its end registers what is new in it.
LEMMA InstrumentsInfoAckStep ==
    ASSUME IndInv, NEW listing \in SUBSET Symbols, InstrumentsInfoAck(listing)
    PROVE  SymbolTypes' /\ SymbolInv' /\ KlineInv'
<1> DEFINE new == (listing \ Discarded) \ all_symbols
<1>1. /\ all_symbols' = all_symbols \cup new /\ UNCHANGED <<mdStatus, mdSessions, interrupted>>
      /\ new \in SUBSET Symbols /\ new \cap all_symbols = {}
  BY DEF InstrumentsInfoAck
<1>2. CASE new # {}
  <2>1. SymbolsUpdate(new, Cardinality(new))
    BY <1>2, Zenon DEF InstrumentsInfoAck
  <2> HIDE DEF new
  <2>2. Cardinality(new) \in 0 .. Cardinality(new)
    BY <1>1, Finite
  <2>3. Completed(new, Cardinality(new))
    BY <1>1 DEF Completed
  <2> QED
    BY <1>1, <2>1, <2>2, <2>3, SymbolsUpdateStep, Zenon
<1>3. CASE new = {}
  <2>1. UNCHANGED <<registryVars, streamVars, queued, klineAsked, history>>
    BY <1>1, <1>3 DEF InstrumentsInfoAck, registryVars, streamVars, history
  <2> QED
    BY <2>1, SymbolsStutter DEF IndInv, TypeOK, SymbolTypes, registryVars, streamVars, history
<1> QED
  BY <1>2, <1>3

\* So does one whose handler has thrown, in part.
LEMMA InstrumentsInfoInterruptedStep ==
    ASSUME IndInv, NEW listing \in SUBSET Symbols, InstrumentsInfoInterrupted(listing)
    PROVE  SymbolTypes' /\ SymbolInv' /\ KlineInv'
<1> DEFINE new == (listing \ Discarded) \ all_symbols
<1>1. /\ UNCHANGED <<mdStatus, mdSessions>>
      /\ new \in SUBSET Symbols /\ new \cap all_symbols = {}
  BY DEF InstrumentsInfoInterrupted
<1>2. ASSUME NEW seen \in SUBSET new, all_symbols' = all_symbols \cup seen,
             interrupted' = interrupted \cup seen,
             UNCHANGED <<place, total, market_data_, subscribed, queued, klineAsked, passedOn>>
      PROVE  SymbolTypes' /\ SymbolInv' /\ KlineInv'
  <2> USE DEF IndInv
  <2>1. Registered' = Registered
    BY <1>2 DEF Registered
  <2>2. PlaceInv' /\ StreamInv' /\ SubscribedInv' /\ KlineInv'
    BY <1>1, <1>2, <2>1 DEF SymbolInv, PlaceInv, StreamInv, SubscribedInv, KlineInv, KlineCoverage, SliceOf
  <2>3. PassedOnOnce'
    BY <1>2, <2>1 DEF SymbolInv, PassedOnOnce
  <2>4. SymbolTypes'
    BY <1>1, <1>2 DEF TypeOK, SymbolTypes
  <2> QED
    BY <2>2, <2>3, <2>4 DEF SymbolInv
<1>3. ASSUME all_symbols' = all_symbols \cup new, interrupted' = interrupted \cup new,
             NEW n \in 0 .. Cardinality(new), SymbolsUpdate(new, n)
      PROVE  SymbolTypes' /\ SymbolInv' /\ KlineInv'
  <2> HIDE DEF new
  <2>1. Completed(new, n)
    BY <1>3 DEF Completed
  <2> QED
    BY <1>1, <1>3, <2>1, SymbolsUpdateStep, Zenon
<1> QED
  BY <1>2, <1>3, Zenon DEF InstrumentsInfoInterrupted

\* A listing is processed once, and what it registers keeps the rest.
LEMMA GetInstrumentsInfoAckStep ==
    ASSUME IndInv, NEW outcome \in Outcomes, NEW listing \in SUBSET Symbols,
           GetInstrumentsInfoAck(outcome, listing)
    PROVE  IndInv'
<1>1. /\ restLink = "up" /\ outstanding > 0 /\ outstanding' = outstanding - 1
      /\ process' = IF outcome = "fatal" THEN "ended" ELSE "running"
      /\ UNCHANGED <<restLink, restSessions, inflight>>
  BY DEF GetInstrumentsInfoAck
<1>2. CASE /\ Downloading /\ InstrumentsInfoAck(listing)
           /\ restState' = "DONE" /\ restStatus' = "READY" /\ retry' = "none"
           /\ processed' = processed + 1
  <2>1. SymbolTypes' /\ SymbolInv' /\ KlineInv'
    BY <1>2, InstrumentsInfoAckStep
  <2>2. TypeOK' /\ RestInv'
    BY <1>1, <1>2, <2>1 DEF IndInv, TypeOK, SymbolTypes, RestInv, Downloading, Statuses
  <2> QED
    BY <2>1, <2>2 DEF IndInv
<1>3. CASE InstrumentsInfoFailed(listing)
  <2>1. SymbolTypes' /\ SymbolInv' /\ KlineInv'
    <3>1. CASE Downloading
      BY <1>3, <3>1, InstrumentsInfoInterruptedStep DEF InstrumentsInfoFailed
    <3>2. CASE ~Downloading
      <4>1. UNCHANGED <<registryVars, streamVars, queued, klineAsked, history>>
        BY <1>3, <3>2 DEF InstrumentsInfoFailed
      <4> QED
        BY <4>1, SymbolsStutter DEF IndInv, TypeOK, SymbolTypes, registryVars, streamVars, history
    <3> QED
      BY <3>1, <3>2
  <2>2. /\ retry' \in {"none", "pending"} /\ (retry' = "pending" => outstanding <= 2)
        /\ UNCHANGED <<restStatus, restState, processed>>
    BY <1>3 DEF InstrumentsInfoFailed, IndInv, TypeOK, RestInv
  <2>3. TypeOK' /\ RestInv'
    BY <1>1, <2>1, <2>2 DEF IndInv, TypeOK, SymbolTypes, RestInv
  <2> QED
    BY <2>1, <2>3 DEF IndInv
<1>4. CASE UNCHANGED <<registryVars, streamVars, restStatus, restState, retry, processed, queued,
                       klineAsked, history>>
  <2>1. SymbolInv' /\ KlineInv'
    BY <1>4, SymbolsStutter DEF IndInv
  <2>2. TypeOK' /\ RestInv'
    BY <1>1, <1>4 DEF IndInv, TypeOK, RestInv, registryVars, streamVars, history
  <2> QED
    BY <2>1, <2>2 DEF IndInv
<1> QED
  BY <1>2, <1>3, <1>4 DEF GetInstrumentsInfoAck

-----------------------------------------------------------------------------
LEMMA Initially == Init => IndInv
<1> SUFFICES ASSUME Init PROVE IndInv
  OBVIOUS
<1>1. TypeOK
  BY DEF Init, TypeOK, NoSymbols, Statuses
<1>2. SymbolInv
  <2>1. Registered = {}
    BY DEF Init, Registered, NoSymbols
  <2> QED
    BY <2>1, FS_EmptySet DEF Init, SymbolInv, PlaceInv, StreamInv, SubscribedInv, PassedOnOnce, NoSymbols
<1>3. KlineInv /\ RestInv
  BY DEF Init, KlineInv, KlineCoverage, RestInv, NoSymbols
<1> QED
  BY <1>1, <1>2, <1>3 DEF IndInv

LEMMA Step == IndInv /\ [Next]_vars => IndInv'
<1> SUFFICES ASSUME IndInv, [Next]_vars PROVE IndInv'
  OBVIOUS
<1>1. ASSUME NEW S \in SUBSET Symbols, Subscribe(S) PROVE IndInv'
  BY <1>1, SubscribeStep
<1>2. CASE MdNext
  BY <1>2, MdStep DEF MdNext
<1>3. CASE RestNext
  <2>1. ASSUME NEW outcome \in Outcomes, NEW listing \in SUBSET Symbols,
               GetInstrumentsInfoAck(outcome, listing)
        PROVE  IndInv'
    BY <2>1, GetInstrumentsInfoAckStep
  <2>2. ASSUME NEW D \in SUBSET Symbols, RestTimer(D) PROVE IndInv'
    BY <2>2, RestTimerStep
  <2> QED
    BY <1>3, <2>1, <2>2, RestConnectionStep DEF RestNext
<1>4. CASE UNCHANGED vars
  <2>1. SymbolInv' /\ KlineInv'
    BY <1>4, SymbolsStutter DEF IndInv, vars, klineVars
  <2> QED
    BY <1>4, <2>1 DEF IndInv, vars, registryVars, streamVars, restVars, klineVars, history, TypeOK, RestInv
<1> QED
  BY <1>1, <1>2, <1>3, <1>4 DEF Next

\* The inductive invariant: the properties below, and what they rest on.
THEOREM Inductive == Spec => []IndInv
BY Initially, Step, PTL DEF Spec

\* Each variable of the streams has its type.
THEOREM TypeCorrect == Spec => []TypeOK
<1>1. IndInv => TypeOK
  BY DEF IndInv
<1> QED
  BY <1>1, Inductive, PTL

\* For any symbols and any size of the slices, a stream that is READY has asked once
\* for each symbol registered in its slice, for no other, and for no more than it may.
THEOREM SubscribedOnceHolds == Spec => []SubscribedOnce
<1>1. IndInv => SubscribedOnce
  <2> SUFFICES ASSUME IndInv, NEW i \in Indexes
               PROVE  Cardinality({s \in Symbols : subscribed[i][s] > 0}) <= SliceSize
    BY DEF IndInv, SymbolInv, SubscribedInv, SubscribedOnce
  <2> DEFINE S == {s \in Symbols : subscribed[i][s] > 0}
             T == {s \in Symbols : place[s] > 0 /\ SliceOf(s) = i}
  <2>1. S \subseteq T
    BY DEF IndInv, SymbolInv, SubscribedInv, Registered
  <2>2. IsFiniteSet(T) /\ Cardinality(T) \in Nat /\ Cardinality(S) \in Nat
    BY Finite
  <2>3. Cardinality(S) <= Cardinality(T)
    BY <2>1, <2>2, FS_Subset
  <2>4. Cardinality(T) <= SliceSize
    BY SliceBounded DEF IndInv, SymbolInv
  <2> QED
    BY <2>2, <2>3, <2>4, SliceSizeAssumption
<1> QED
  BY <1>1, Inductive, PTL

\* Each symbol is handed to DropCopy when it becomes known, unless an exception cut its
\* listing short, and never again, however often the listing is repeated.
THEOREM PassedOnOnceHolds == Spec => []PassedOnOnce
<1>1. IndInv => PassedOnOnce
  BY DEF IndInv, SymbolInv
<1> QED
  BY <1>1, Inductive, PTL

\* A download processes one listing, with at most two requests outstanding, however
\* often it fails and the connection is lost.
THEOREM ListingProcessedOnceHolds == Spec => []ListingProcessedOnce
<1>1. IndInv => ListingProcessedOnce
  BY DEF IndInv, RestInv, ListingProcessedOnce, TypeOK
<1> QED
  BY <1>1, Inductive, PTL

\* The candles of a subscribed symbol wait in the queue or were asked for.
THEOREM KlineCoverageHolds == Spec => []KlineCoverage
<1>1. IndInv => KlineCoverage
  BY DEF IndInv, KlineInv
<1> QED
  BY <1>1, Inductive, PTL

\* The queue grows by the sessions of the symbol's stream, and by nothing else.
THEOREM KlineQueueBoundedHolds == Spec => []KlineQueueBounded
<1>1. IndInv => KlineQueueBounded
  BY DEF IndInv, KlineInv, KlineQueueBounded
<1> QED
  BY <1>1, Inductive, PTL

-----------------------------------------------------------------------------
(***************************************************************************)
(* The abstract specification.                                             *)
(***************************************************************************)

\* The slice of a registered symbol has an index.
LEMMA SliceHasIndex ==
    ASSUME TypeOK, PlaceInv, NEW s \in Registered
    PROVE  SliceOf(s) \in Indexes
<1>1. Cardinality(Registered) <= Cardinality(Symbols)
      /\ Cardinality(Registered) \in Nat /\ Cardinality(Symbols) \in Nat
  BY SymbolsAssumption, FS_Subset, FS_CardinalityType DEF Registered
<1>2. place[s] \in Nat /\ place[s] > 0 /\ place[s] <= Cardinality(Symbols)
  BY <1>1 DEF TypeOK, PlaceInv, Registered
<1>3. \A p, c \in Nat : p > 0 /\ p <= c => (p - 1) \div SliceSize \in 0 .. c
  BY SliceSizeAssumption
<1> QED
  BY <1>1, <1>2, <1>3 DEF SliceOf, Indexes

\* What the mapping makes of a state.
Image ==
    /\ Owner \in [Registered -> Indexes]
    /\ SubscribedSymbols = {s \in Registered : SliceOf(s) \in Live}
    /\ \A i \in Indexes : Cardinality({s \in Registered : Owner[s] = i}) <= SliceSize

LEMMA Mapped == IndInv => Image
<1> SUFFICES ASSUME IndInv PROVE Image
  OBVIOUS
<1> USE DEF IndInv, SymbolInv
<1>1. \A s \in Registered : SliceOf(s) \in Indexes
  BY SliceHasIndex
<1>2. Registered \subseteq Symbols
  BY DEF Registered
<1>3. SubscribedSymbols = {s \in Registered : SliceOf(s) \in Live}
  BY <1>1, <1>2 DEF SubscribedInv, SubscribedSymbols, Live
<1>4. ASSUME NEW i \in Indexes PROVE Cardinality({s \in Registered : Owner[s] = i}) <= SliceSize
  <2>1. {s \in Registered : Owner[s] = i} = {s \in Symbols : place[s] > 0 /\ SliceOf(s) = i}
    BY DEF Owner, Registered
  <2> QED
    BY <2>1, SliceBounded
<1> QED
  BY <1>1, <1>3, <1>4 DEF Owner, Image

\* Symbols that are registered are given to streams.
LEMMA SymbolsUpdateRefines ==
    ASSUME IndInv, IndInv', Running, NEW new \in SUBSET Symbols, new \cap all_symbols = {},
           NEW n \in 0 .. Cardinality(new), SymbolsUpdate(new, n), UNCHANGED <<process, mdStatus>>
    PROVE  [Service!Next]_(Service!vars)
<1>0. /\ \A s \in Symbols \ new : place'[s] = place[s]
      /\ \A s \in new : place'[s] > total
      /\ new \cap Registered = {}
  <2>1. /\ \A s \in Symbols \ new : place'[s] = place[s]
        /\ \A s \in new : place'[s] > total
    BY Registers, Zenon DEF IndInv, SymbolInv
  <2> QED
    BY <2>1 DEF IndInv, SymbolInv, PassedOnOnce
<1>1. Registered' = Registered \cup new /\ \A s \in Registered : SliceOf(s)' = SliceOf(s)
  BY <1>0 DEF IndInv, TypeOK, SliceOf, Registered
<1>2. Live' = Live
  BY DEF Live
<1>3. /\ Owner \in [Registered -> Indexes]
      /\ SubscribedSymbols = {s \in Registered : SliceOf(s) \in Live}
  BY Mapped DEF Image
<1>a. Image'
  BY Mapped, PTL
<1>4. /\ Owner' \in [Registered' -> Indexes]
      /\ SubscribedSymbols' = {s \in Registered' : SliceOf(s)' \in Live'}
      /\ \A i \in Indexes : Cardinality({s \in Registered' : Owner'[s] = i}) <= SliceSize
  BY <1>a DEF Image
<1>5. DOMAIN Owner = Registered /\ DOMAIN Owner' = Registered \cup new
  BY <1>1, <1>3, <1>4
<1>6. \A s \in Registered : Owner'[s] = Owner[s]
  BY <1>1 DEF Owner
<1>7. \A s \in new : Owner'[s] = SliceOf(s)'
  BY <1>1 DEF Owner
<1>8. SubscribedSymbols' = SubscribedSymbols \cup {s \in new : Owner'[s] \in Live}
  BY <1>1, <1>2, <1>3, <1>4, <1>7
<1>9. CASE new = {}
  <2>1. Owner' = Owner
    BY <1>1, <1>3, <1>4, <1>6, <1>9
  <2>2. SubscribedSymbols' = SubscribedSymbols
    BY <1>8, <1>9
  <2> QED
    BY <1>2, <2>1, <2>2 DEF Service!vars
<1>10. CASE new # {}
  <2>1. \A i \in Indexes : Service!Cardinality(Service!Given(i)') <= SliceSize
    <3>1. ASSUME NEW i \in Indexes
          PROVE  Service!Given(i)' = {s \in Registered' : Owner'[s] = i}
      BY <1>5, <1>4 DEF Service!Given, Service!Known
    <3>2. \A T : Service!Cardinality(T) = Cardinality(T)
      BY DEF Service!Cardinality, Cardinality
    <3> QED
      BY <1>4, <3>1, <3>2
  <2>2. Service!Register(new)
    <3>1. process = "running" /\ new \cap DOMAIN Owner = {} /\ UNCHANGED <<process, Live>>
      BY <1>0, <1>2, <1>5 DEF Running
    <3>2. Owner' \in [DOMAIN Owner \cup new -> Indexes] /\ \A s \in DOMAIN Owner : Owner'[s] = Owner[s]
      BY <1>4, <1>5, <1>6
    <3> QED
      BY <1>8, <1>10, <2>1, <3>1, <3>2 DEF Service!Register, Service!Known
  <2> QED
    BY <2>2 DEF Service!Next
<1> QED
  BY <1>9, <1>10

\* Streams come and go.
LEMMA MdRefines ==
    ASSUME IndInv, IndInv', Running, NEW i \in Indexes, MdReady(i) \/ MdDisconnected(i) \/ MdError(i)
    PROVE  [Service!Next]_(Service!vars)
<1>1. UNCHANGED <<Registered, place>>
  BY DEF MdReady, MdDisconnected, MdError, registryVars, Registered
<1>2. /\ Owner \in [Registered -> Indexes]
      /\ SubscribedSymbols = {s \in Registered : SliceOf(s) \in Live}
  BY Mapped DEF Image
<1>a. Image'
  BY Mapped, PTL
<1>3. SubscribedSymbols' = {s \in Registered' : SliceOf(s)' \in Live'}
  BY <1>a DEF Image
<1>4. UNCHANGED Owner /\ \A s \in Registered : SliceOf(s)' = SliceOf(s) /\ Owner[s] = SliceOf(s)
  BY <1>1 DEF Owner, SliceOf
<1>5. Service!Given(i) = {s \in Registered : SliceOf(s) = i}
  BY <1>2, <1>4 DEF Service!Given, Service!Known
<1>6. CASE MdReady(i)
  <2>1. Live' = Live \cup {i} /\ i \notin Live /\ process' = process
    BY <1>6 DEF MdReady, Live, IndInv, TypeOK
  <2>2. SubscribedSymbols' = SubscribedSymbols \cup Service!Given(i)
    BY <1>1, <1>2, <1>3, <1>4, <1>5, <2>1
  <2>3. Service!Connect(i)
    BY <1>4, <2>1, <2>2 DEF Service!Connect, Running
  <2> QED
    BY <2>3 DEF Service!Next
<1>7. CASE MdDisconnected(i)
  <2>1. Live' = Live \ {i} /\ process' = process
    BY <1>7 DEF MdDisconnected, Live, IndInv, TypeOK
  <2>2. SubscribedSymbols' = SubscribedSymbols \ Service!Given(i)
    BY <1>1, <1>2, <1>3, <1>4, <1>5, <2>1
  <2>3. CASE i \in Live
    <3>1. Service!Lose(i)
      BY <1>4, <2>1, <2>2, <2>3 DEF Service!Lose, Running
    <3> QED
      BY <3>1 DEF Service!Next
  <2>4. CASE i \notin Live
    <3>1. Live' = Live
      BY <2>1, <2>4
    <3>2. SubscribedSymbols' = SubscribedSymbols
      BY <1>1, <1>2, <1>3, <1>4, <3>1
    <3> QED
      BY <1>4, <2>1, <3>1, <3>2 DEF Service!vars
  <2> QED
    BY <2>3, <2>4
<1>8. CASE MdError(i)
  <2>1. process' = "ended" /\ UNCHANGED <<Owner, Live, SubscribedSymbols>>
    BY <1>4, <1>8 DEF MdError, Live, SubscribedSymbols, streamVars
  <2> QED
    BY <2>1 DEF Service!Next, Service!End, Running
<1> QED
  BY <1>6, <1>7, <1>8

\* Steps that leave the streams alone: the process may end.
LEMMA OtherRefines ==
    ASSUME Running, process' \in {"running", "ended"}, UNCHANGED <<place, mdStatus, subscribed>>
    PROVE  [Service!Next]_(Service!vars)
<1>1. UNCHANGED <<Owner, Live, SubscribedSymbols>>
  BY DEF Owner, SliceOf, Live, SubscribedSymbols, Registered
<1> QED
  BY <1>1 DEF Service!Next, Service!End, Service!vars, Running

LEMMA InitRefines == Init => Service!Init
BY DEF Init, Service!Init, Owner, Live, SubscribedSymbols, Registered, NoSymbols

LEMMA NextRefines == IndInv /\ IndInv' /\ [Next]_vars => [Service!Next]_(Service!vars)
<1> SUFFICES ASSUME IndInv, IndInv', [Next]_vars PROVE [Service!Next]_(Service!vars)
  OBVIOUS
<1>1. ASSUME Running, NEW S \in SUBSET Symbols, Subscribe(S) PROVE [Service!Next]_(Service!vars)
  <2> DEFINE new == S \ all_symbols
  <2>1. /\ SymbolsUpdate(new, Cardinality(new)) /\ UNCHANGED <<process, mdStatus>>
        /\ new \in SUBSET Symbols /\ new \cap all_symbols = {}
    BY <1>1, Zenon DEF Subscribe
  <2> HIDE DEF new
  <2>2. Cardinality(new) \in 0 .. Cardinality(new)
    BY <2>1, Finite
  <2> QED
    BY <1>1, <2>1, <2>2, SymbolsUpdateRefines, Zenon
<1>2. CASE Running /\ MdNext
  BY <1>2, MdRefines DEF MdNext
<1>3. CASE Running /\ RestNext
  <2>1. ASSUME NEW outcome \in Outcomes, NEW listing \in SUBSET Symbols,
               GetInstrumentsInfoAck(outcome, listing)
        PROVE  [Service!Next]_(Service!vars)
    <3> DEFINE new == (listing \ Discarded) \ all_symbols
    <3>1. ASSUME NEW n \in 0 .. Cardinality(new), SymbolsUpdate(new, n),
                 UNCHANGED <<process, mdStatus>>
          PROVE  [Service!Next]_(Service!vars)
      <4>1. new \in SUBSET Symbols /\ new \cap all_symbols = {}
        OBVIOUS
      <4> HIDE DEF new
      <4> QED
        BY <1>3, <3>1, <4>1, SymbolsUpdateRefines, Zenon
    <3>2. ASSUME UNCHANGED <<place, mdStatus, subscribed>> PROVE [Service!Next]_(Service!vars)
      <4>1. process' \in {"running", "ended"}
        BY DEF IndInv, TypeOK
      <4> QED
        BY <1>3, <3>2, <4>1, OtherRefines
    <3>3. outcome # "fatal" => process' = process
      BY <1>3, <2>1 DEF GetInstrumentsInfoAck, Running
    <3>4. CASE outcome = "success" /\ InstrumentsInfoAck(listing)
      <4>1. UNCHANGED <<process, mdStatus>>
        BY <3>3, <3>4 DEF InstrumentsInfoAck
      <4>2. CASE new # {}
        <5>1. SymbolsUpdate(new, Cardinality(new))
          BY <3>4, <4>2, Zenon DEF InstrumentsInfoAck
        <5>2. Cardinality(new) \in 0 .. Cardinality(new)
          <6>1. new \in SUBSET Symbols
            OBVIOUS
          <6> HIDE DEF new
          <6> QED
            BY <6>1, Finite
        <5> QED
          BY <3>1, <4>1, <5>1, <5>2, Zenon
      <4>3. CASE new = {}
        <5>1. UNCHANGED <<place, mdStatus, subscribed>>
          BY <3>4, <4>3 DEF InstrumentsInfoAck
        <5> QED
          BY <3>2, <5>1
      <4> QED
        BY <4>2, <4>3
    <3>5. CASE outcome = "error" /\ InstrumentsInfoFailed(listing)
      <4>1. CASE Downloading
        <5>1. InstrumentsInfoInterrupted(listing)
          BY <3>5, <4>1 DEF InstrumentsInfoFailed
        <5>2. UNCHANGED <<process, mdStatus>>
          BY <3>3, <3>5, <5>1 DEF InstrumentsInfoInterrupted
        <5>3. ASSUME NEW n \in 0 .. Cardinality(new), SymbolsUpdate(new, n)
              PROVE  [Service!Next]_(Service!vars)
          BY <3>1, <5>2, <5>3, Zenon
        <5>4. UNCHANGED <<place, subscribed>> \/ \E n \in 0 .. Cardinality(new) : SymbolsUpdate(new, n)
          BY <5>1, Zenon DEF InstrumentsInfoInterrupted
        <5> QED
          BY <3>2, <5>2, <5>3, <5>4, Zenon
      <4>2. CASE ~Downloading
        BY <3>2, <3>5, <4>2 DEF InstrumentsInfoFailed, registryVars, streamVars
      <4> QED
        BY <4>1, <4>2
    <3>6. CASE UNCHANGED <<registryVars, streamVars>>
      BY <3>2, <3>6 DEF registryVars, streamVars
    <3> QED
      BY <2>1, <3>4, <3>5, <3>6 DEF GetInstrumentsInfoAck
  <2>2. ASSUME \/ RestConnected \/ RestDisconnected \/ RestRetry
               \/ \E D \in SUBSET Symbols : RestTimer(D)
               \/ \E s \in Symbols, outcome \in Outcomes : GetKlineAck(s, outcome)
        PROVE  [Service!Next]_(Service!vars)
    <3>1. UNCHANGED <<place, mdStatus, subscribed>>
      BY <2>2 DEF RestConnected, RestDisconnected, RestRetry, RestTimer, GetKlineAck,
                  registryVars, streamVars
    <3>2. process' \in {"running", "ended"}
      BY DEF IndInv, TypeOK
    <3> QED
      BY <1>3, <3>1, <3>2, OtherRefines
  <2> QED
    BY <1>3, <2>1, <2>2 DEF RestNext
<1>4. CASE UNCHANGED vars
  BY <1>4 DEF vars, registryVars, streamVars, Service!vars, Owner, SliceOf, Live, SubscribedSymbols, Registered
<1> QED
  BY <1>1, <1>2, <1>3, <1>4 DEF Next

\* Every step of the streams, the registry and Rest is one of SubscriptionService or none:
\* a symbol stays with its stream, within the stream's limit, and subscribed as long as
\* the stream is live.
THEOREM Implements == Spec => ServiceSafety
BY InitRefines, NextRefines, Inductive, PTL DEF Spec, ServiceSafety, Service!Safety
=============================================================================
