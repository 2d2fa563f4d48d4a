---------------------------- MODULE InstrumentProofs ----------------------------
(***************************************************************************)
(* What the instrumentation keeps for the application, for any keys,       *)
(* filters, limits and bounds: the custom attributes of a transaction and  *)
(* of its span; the segments that handlers of promises run under.          *)
(***************************************************************************)
EXTENDS Attributes, PromiseContext, Induction, SequenceTheorems, FiniteSetTheorems, TLAPS

-----------------------------------------------------------------------------

CustomCalls == [key : CustomKeys, high : BOOLEAN]
Highs(a, key) == {i \in DOMAIN a : a[i].key = key /\ a[i].high}
Lows(a, key) == {i \in DOMAIN a : a[i].key = key /\ ~a[i].high}
IsLast(v, S) == v \in S /\ \A j \in S : j <= v

\* What holds of a span's entries sp, the last search lf and the calls a so far, where P are
\* the keys that pass.
CustomEntry(P) == [key : CustomKeys \cap P, value : Nat, high : BOOLEAN]
KeysApart(sp) == \A i, j \in DOMAIN sp : i # j => sp[i].key # sp[j].key
HeldFor(e, a) ==
    /\ e.high => IsLast(e.value, Highs(a, e.key))
    /\ ~e.high => IsLast(e.value, Lows(a, e.key)) /\ Highs(a, e.key) = {}
EntriesHeld(sp, a) == \A i \in DOMAIN sp : HeldFor(sp[i], a)
NoEntry(sp, key) == \A i \in DOMAIN sp : sp[i].key # key
OnlyHigh(sp) == \A i \in DOMAIN sp : sp[i].high
IsFullOf(sp) == Len(sp) = MaxCustom
OnlyFullMisses(sp, a, P) ==
    \A key \in P : NoEntry(sp, key) =>
        /\ Lows(a, key) # {} => IsFullOf(sp)
        /\ Highs(a, key) # {} => IsFullOf(sp) /\ OnlyHigh(sp)
IsSearched(sp, lf) ==
    lf # -2 => IsFullOf(sp) /\ \A i \in DOMAIN sp : ~sp[i].high => i <= lf + 1
SpanGood(sp, lf, a, P) ==
    /\ sp \in Seq(CustomEntry(P)) /\ Len(sp) <= MaxCustom /\ a \in Seq(CustomCalls)
    /\ lf \in {-2, -1} \cup 0..MaxCustom
    /\ KeysApart(sp) /\ EntriesHeld(sp, a) /\ OnlyFullMisses(sp, a, P) /\ IsSearched(sp, lf)

LEMMA MaxIsGreatest ==
    ASSUME NEW S \in SUBSET Int, NEW v \in S, \A j \in S : j <= v
    PROVE  CustomSets!Max(S) = v
<1>1. \A x \in S : (\A y \in S : x >= y) => x = v
  <2> TAKE x \in S
  <2> HAVE \A y \in S : x >= y
  <2>1. x >= v /\ x <= v /\ x \in Int /\ v \in Int
    OBVIOUS
  <2> QED BY <2>1
<1>2. \A y \in S : v >= y
  OBVIOUS
<1> QED BY <1>1, <1>2 DEF CustomSets!Max

\* One more call, for key.
Called(a, b, key, high) ==
    /\ b \in Seq(CustomCalls) /\ Len(b) \in Nat
    /\ \A k : k # key \/ ~high => Highs(b, k) = Highs(a, k)
    /\ \A k : k # key \/ high => Lows(b, k) = Lows(a, k)
    /\ high => IsLast(Len(b), Highs(b, key))
    /\ ~high => IsLast(Len(b), Lows(b, key))

LEMMA OneMoreCall ==
    ASSUME NEW a \in Seq(CustomCalls), NEW key \in CustomKeys, NEW high \in BOOLEAN
    PROVE  Called(a, Append(a, [key |-> key, high |-> high]), key, high)
<1>1. PICK call : call = [key |-> key, high |-> high]
  OBVIOUS
<1>2. call \in CustomCalls /\ call.key = key /\ (call.high <=> high)
  BY <1>1 DEF CustomCalls
<1>3. PICK b : b = Append(a, call)
  OBVIOUS
<1>4. /\ b \in Seq(CustomCalls) /\ Len(b) = Len(a) + 1 /\ Len(a) \in Nat
      /\ DOMAIN b = 1..(Len(a) + 1) /\ DOMAIN a = 1..Len(a)
      /\ b[Len(a) + 1] = call /\ \A i \in 1..Len(a) : b[i] = a[i]
  BY <1>2, <1>3, AppendProperties, LenProperties
<1>5. ASSUME NEW k, k # key \/ ~high PROVE Highs(b, k) = Highs(a, k)
  BY <1>2, <1>4, <1>5 DEF Highs
<1>6. ASSUME NEW k, k # key \/ high PROVE Lows(b, k) = Lows(a, k)
  BY <1>2, <1>4, <1>6 DEF Lows
<1>7. high => IsLast(Len(b), Highs(b, key))
  BY <1>2, <1>4 DEF IsLast, Highs
<1>8. ~high => IsLast(Len(b), Lows(b, key))
  BY <1>2, <1>4 DEF IsLast, Lows
<1>9. Called(a, b, key, high)
  BY <1>4, <1>5, <1>6, <1>7, <1>8 DEF Called
<1> QED BY <1>1, <1>3, <1>9

\* Entries that stay keep what they hold unless the call is for one of them.
LEMMA HeldStays ==
    ASSUME NEW a, NEW b, NEW key, NEW high, Called(a, b, key, high),
           NEW e, e.key # key \/ (e.high /\ ~high), HeldFor(e, a)
    PROVE  HeldFor(e, b)
<1>1. CASE e.high
  <2>1. Highs(b, e.key) = Highs(a, e.key)
    BY DEF Called
  <2> QED BY <1>1, <2>1 DEF HeldFor
<1>2. CASE ~e.high
  <2>1. Highs(b, e.key) = Highs(a, e.key) /\ Lows(b, e.key) = Lows(a, e.key)
    BY <1>2 DEF Called
  <2> QED BY <1>2, <2>1 DEF HeldFor
<1> QED BY <1>1, <1>2

\* What lets a call leave the entries alone.
MayRefuse(sp, P, key, high) ==
    \/ key \notin P
    \/ ~high /\ \E i \in DOMAIN sp : sp[i].key = key /\ sp[i].high
    \/ IsFullOf(sp) /\ NoEntry(sp, key) /\ (high => OnlyHigh(sp))

\* A call that leaves the entries alone.
LEMMA RefusedKeeps ==
    ASSUME NEW sp, NEW lf, NEW lf2 \in {-2, -1} \cup 0..MaxCustom, NEW a, NEW P,
           NEW key \in CustomKeys, NEW high \in BOOLEAN, NEW b,
           SpanGood(sp, lf, a, P), Called(a, b, key, high),
           IsSearched(sp, lf2),
           MayRefuse(sp, P, key, high)
    PROVE  SpanGood(sp, lf2, b, P)
<1> USE DEF SpanGood, MayRefuse
<1>1. \A i \in DOMAIN sp : sp[i] \in CustomEntry(P) /\ sp[i].key \in P
  <2>1. sp \in Seq(CustomEntry(P))
    BY DEF SpanGood
  <2>2. DOMAIN sp = 1..Len(sp)
    BY <2>1, LenProperties
  <2>3. \A i \in DOMAIN sp : sp[i] \in CustomEntry(P)
    BY <2>1, <2>2, ElementOfSeq
  <2> QED BY <2>3 DEF CustomEntry
<1>2. \A i \in DOMAIN sp : sp[i].key # key \/ (sp[i].high /\ ~high)
  <2>1. CASE ~high /\ \E i \in DOMAIN sp : sp[i].key = key /\ sp[i].high
    BY <2>1 DEF KeysApart
  <2> QED BY <1>1, <2>1 DEF NoEntry
<1>3. EntriesHeld(sp, b)
  <2> SUFFICES ASSUME NEW i \in DOMAIN sp
               PROVE  HeldFor(sp[i], b)
    BY DEF EntriesHeld
  <2> DEFINE e == sp[i]
  <2>1. /\ e \in CustomEntry(P) /\ (e.key # key \/ (e.high /\ ~high))
        /\ HeldFor(e, a)
    BY <1>1, <1>2 DEF EntriesHeld
  <2> HIDE DEF e
  <2>2. HeldFor(e, b)
    BY <2>1, HeldStays
  <2> QED BY <2>2 DEF e
<1>4. OnlyFullMisses(sp, b, P)
  <2> SUFFICES ASSUME NEW k \in P, NoEntry(sp, k)
               PROVE  /\ Lows(b, k) # {} => IsFullOf(sp)
                      /\ Highs(b, k) # {} => IsFullOf(sp) /\ OnlyHigh(sp)
    BY DEF OnlyFullMisses
  <2>1. /\ Lows(a, k) # {} => IsFullOf(sp)
        /\ Highs(a, k) # {} => IsFullOf(sp) /\ OnlyHigh(sp)
    BY DEF OnlyFullMisses
  <2>2. CASE k # key
    BY <2>1, <2>2 DEF Called
  <2>3. CASE k = key
    <3>1. IsFullOf(sp) /\ (high => OnlyHigh(sp))
      BY <2>3 DEF NoEntry
    <3>2. ~high => Highs(b, k) = Highs(a, k)
      BY DEF Called
    <3> QED BY <3>1, <3>2, <2>1
  <2> QED BY <2>2, <2>3
<1> QED BY <1>3, <1>4 DEF Called

LEMMA OneAppended ==
    ASSUME NEW S, NEW x \in Seq(S), NEW e \in S, NEW y, y = Append(x, e)
    PROVE  /\ y \in Seq(S) /\ Len(y) = Len(x) + 1 /\ y[Len(x) + 1] = e
           /\ \A i \in 1..Len(x) : y[i] = x[i]
BY AppendProperties

\* What a call makes of the entries.
NewEntry(key, b, high) == [key |-> key, value |-> Len(b), high |-> high]
Overwritten(sp2, sp, j, key, b, high) == sp2 = [sp EXCEPT ![j] = NewEntry(key, b, high)]
EntryAdded(sp2, sp, key, b, high) == sp2 = Append(sp, NewEntry(key, b, high))
EntryReplaced(sp2, sp, d, key, b, high) == sp2 = Append(CustomSeqs!RemoveAt(sp, d), NewEntry(key, b, high))

\* A call that sets the value of an entry.
LEMMA OverwrittenKeeps ==
    ASSUME NEW sp, NEW lf, NEW a, NEW P, NEW j \in DOMAIN sp,
           NEW key \in CustomKeys, NEW high \in BOOLEAN, NEW b, NEW sp2,
           SpanGood(sp, lf, a, P), Called(a, b, key, high),
           sp[j].key = key, sp[j].high => high, key \in P,
           Overwritten(sp2, sp, j, key, b, high)
    PROVE  SpanGood(sp2, lf, b, P)
<1> USE DEF SpanGood, Overwritten, NewEntry
<1> DEFINE entry == [key |-> key, value |-> Len(b), high |-> high]
<1>1. entry \in CustomEntry(P)
  BY DEF CustomEntry, Called
<1>2. /\ sp2 \in Seq(CustomEntry(P)) /\ Len(sp2) = Len(sp) /\ DOMAIN sp2 = DOMAIN sp
      /\ sp2[j] = entry /\ \A i \in DOMAIN sp \ {j} : sp2[i] = sp[i]
  BY <1>1, ExceptSeq
<1>3. entry.key = key /\ entry.value = Len(b) /\ entry.high = high
  OBVIOUS
<1> HIDE DEF entry
<1>4. \A i \in DOMAIN sp : sp2[i].key = sp[i].key /\ (sp[i].high => sp2[i].high)
  BY <1>2, <1>3
<1>5. \A i \in DOMAIN sp \ {j} : sp[i].key # key /\ sp[i] \in CustomEntry(P)
  BY ElementOfSeq DEF KeysApart
<1>6. EntriesHeld(sp2, b)
  <2> SUFFICES ASSUME NEW i \in DOMAIN sp
               PROVE  HeldFor(sp2[i], b)
    BY <1>2 DEF EntriesHeld
  <2>1. CASE i # j
    <3> DEFINE e == sp[i]
    <3>1. /\ e \in CustomEntry(P) /\ e.key # key
          /\ HeldFor(e, a)
      BY <1>5, <2>1 DEF EntriesHeld
    <3> HIDE DEF e
    <3>2. HeldFor(e, b)
      BY <3>1, HeldStays
    <3> QED BY <3>2, <1>2, <2>1 DEF e
  <2>2. CASE i = j
    <3>1. ~high => ~sp[j].high
      OBVIOUS
    <3>2. ~high => Highs(a, key) = {}
      BY <3>1 DEF EntriesHeld, HeldFor
    <3>3. HeldFor(entry, b)
      BY <1>3, <3>2 DEF HeldFor, Called
    <3> QED BY <1>2, <2>2, <3>3
  <2> QED BY <2>1, <2>2
<1>7. OnlyFullMisses(sp2, b, P)
  <2> SUFFICES ASSUME NEW k \in P, NoEntry(sp2, k)
               PROVE  /\ Lows(b, k) # {} => IsFullOf(sp2)
                      /\ Highs(b, k) # {} => IsFullOf(sp2) /\ OnlyHigh(sp2)
    BY DEF OnlyFullMisses
  <2>1. NoEntry(sp, k) /\ k # key
    BY <1>2, <1>4 DEF NoEntry
  <2>2. /\ Lows(a, k) # {} => IsFullOf(sp)
        /\ Highs(a, k) # {} => IsFullOf(sp) /\ OnlyHigh(sp)
    BY <2>1 DEF OnlyFullMisses
  <2>3. Lows(b, k) = Lows(a, k) /\ Highs(b, k) = Highs(a, k)
    BY <2>1 DEF Called
  <2>4. IsFullOf(sp2) <=> IsFullOf(sp)
    BY <1>2 DEF IsFullOf
  <2>5. OnlyHigh(sp) => OnlyHigh(sp2)
    BY <1>2, <1>4 DEF OnlyHigh
  <2> QED BY <2>2, <2>3, <2>4, <2>5
<1>8. KeysApart(sp2) /\ IsSearched(sp2, lf)
  BY <1>2, <1>4 DEF KeysApart, IsSearched, IsFullOf
<1> QED BY <1>2, <1>6, <1>7, <1>8 DEF Called

\* A call that adds an entry to a span with room for it.
LEMMA AddedKeeps ==
    ASSUME NEW sp, NEW lf, NEW a, NEW P,
           NEW key \in CustomKeys, NEW high \in BOOLEAN, NEW b, NEW sp2,
           SpanGood(sp, lf, a, P), Called(a, b, key, high),
           NoEntry(sp, key), ~IsFullOf(sp), key \in P, MaxCustom \in Nat,
           EntryAdded(sp2, sp, key, b, high)
    PROVE  SpanGood(sp2, lf, b, P)
<1> USE DEF SpanGood, EntryAdded, NewEntry
<1> DEFINE entry == [key |-> key, value |-> Len(b), high |-> high]
<1>1. entry \in CustomEntry(P)
  BY DEF CustomEntry, Called
<1>2. /\ sp2 \in Seq(CustomEntry(P)) /\ Len(sp2) = Len(sp) + 1 /\ DOMAIN sp2 = 1..(Len(sp) + 1)
      /\ DOMAIN sp = 1..Len(sp) /\ Len(sp) \in Nat
      /\ sp2[Len(sp) + 1] = entry /\ \A i \in DOMAIN sp : sp2[i] = sp[i]
  BY <1>1, AppendProperties, LenProperties
<1>3. entry.key = key /\ entry.value = Len(b) /\ entry.high = high
  OBVIOUS
<1> HIDE DEF entry
<1>4. \A i \in DOMAIN sp : sp[i].key # key /\ sp[i] \in CustomEntry(P)
  BY ElementOfSeq DEF NoEntry
<1>5. \A k \in P : NoEntry(sp, k) => Lows(a, k) = {} /\ Highs(a, k) = {}
  BY DEF OnlyFullMisses
<1>6. EntriesHeld(sp2, b)
  <2> SUFFICES ASSUME NEW i \in DOMAIN sp2
               PROVE  HeldFor(sp2[i], b)
    BY DEF EntriesHeld
  <2>1. CASE i \in DOMAIN sp
    <3> DEFINE e == sp[i]
    <3>1. /\ e \in CustomEntry(P) /\ e.key # key
          /\ HeldFor(e, a)
      BY <1>4, <2>1 DEF EntriesHeld
    <3> HIDE DEF e
    <3>2. HeldFor(e, b)
      BY <3>1, HeldStays
    <3> QED BY <3>2, <1>2, <2>1 DEF e
  <2>2. CASE i = Len(sp) + 1
    <3>1. ~high => Highs(b, key) = {}
      BY <1>5 DEF Called, NoEntry
    <3>2. HeldFor(entry, b)
      BY <1>3, <3>1 DEF HeldFor, Called
    <3> QED BY <1>2, <2>2, <3>2
  <2> QED BY <1>2, <2>1, <2>2
<1>7. OnlyFullMisses(sp2, b, P)
  <2> SUFFICES ASSUME NEW k \in P, NoEntry(sp2, k)
               PROVE  Lows(b, k) = {} /\ Highs(b, k) = {}
    BY DEF OnlyFullMisses
  <2>1. NoEntry(sp, k)
    BY <1>2 DEF NoEntry
  <2>2. k # key
    BY <1>2, <1>3 DEF NoEntry
  <2> QED BY <1>5, <2>1, <2>2 DEF Called
<1>8. lf = -2
  BY DEF IsSearched
<1>9. KeysApart(sp2) /\ IsSearched(sp2, lf)
  BY <1>2, <1>3, <1>4, <1>8 DEF KeysApart, IsSearched
<1>10. Len(sp2) <= MaxCustom
  BY <1>2 DEF IsFullOf
<1> QED BY <1>2, <1>6, <1>7, <1>9, <1>10 DEF Called

\* The places of those that stay when one of a sequence is removed.
PlaceBefore(i, d) == IF i < d THEN i ELSE i + 1

LEMMA RemovedAt ==
    ASSUME NEW S, NEW sp \in Seq(S), NEW d \in 1..Len(sp)
    PROVE  LET left == CustomSeqs!RemoveAt(sp, d) IN
           /\ left \in Seq(S) /\ Len(left) = Len(sp) - 1
           /\ \A i \in 1..(Len(sp) - 1) : left[i] = sp[PlaceBefore(i, d)]
<1>1. PICK n : n = Len(sp)
  OBVIOUS
<1>2. n \in Nat /\ d \in 1..n /\ \A i \in 1..n : sp[i] \in S
  BY <1>1, LenProperties, ElementOfSeq
<1>3. PICK front : front = SubSeq(sp, 1, d - 1)
  OBVIOUS
<1>4. PICK rest : rest = SubSeq(sp, d + 1, n)
  OBVIOUS
<1>5. /\ front \in Seq(S) /\ Len(front) = d - 1
      /\ \A i \in 1..(d - 1) : front[i] = sp[i]
  <2>1. 1 \in 1..(n + 1) /\ d - 1 \in 0..n
    BY <1>2
  <2>2. \A i \in 1..(d - 1) : sp[i] \in S
    BY <1>2
  <2>3. /\ front \in Seq(S) /\ Len(front) = IF 1 <= d - 1 THEN (d - 1) - 1 + 1 ELSE 0
        /\ \A i \in 1..((d - 1) - 1 + 1) : front[i] = sp[1 + i - 1]
    BY <1>1, <1>2, <1>3, <2>1, <2>2, SubSeqProperties
  <2> QED BY <1>2, <2>3
<1>6. /\ rest \in Seq(S) /\ Len(rest) = n - d
      /\ \A i \in 1..(n - d) : rest[i] = sp[d + i]
  <2>1. d + 1 \in 1..(n + 1) /\ n \in 0..n
    BY <1>2
  <2>2. \A i \in (d + 1)..n : sp[i] \in S
    BY <1>2
  <2>3. /\ rest \in Seq(S) /\ Len(rest) = IF d + 1 <= n THEN n - (d + 1) + 1 ELSE 0
        /\ \A i \in 1..(n - (d + 1) + 1) : rest[i] = sp[(d + 1) + i - 1]
    BY <1>1, <1>2, <1>4, <2>1, <2>2, SubSeqProperties
  <2> QED BY <1>2, <2>3
<1>7. PICK left : left = front \o rest
  OBVIOUS
<1>8. left = CustomSeqs!RemoveAt(sp, d)
  BY <1>1, <1>3, <1>4, <1>7 DEF CustomSeqs!RemoveAt
<1>9. /\ left \in Seq(S) /\ Len(left) = n - 1
      /\ \A i \in 1..(n - 1) : left[i] = IF i <= d - 1 THEN front[i] ELSE rest[i - (d - 1)]
  <2>1. /\ left \in Seq(S) /\ Len(left) = Len(front) + Len(rest)
        /\ \A i \in 1..Len(left) : left[i] = IF i <= Len(front) THEN front[i] ELSE rest[i - Len(front)]
    <3>1. front \in Seq(S) /\ rest \in Seq(S)
      BY <1>5, <1>6
    <3>2. /\ left \in Seq(S) /\ Len(left) = Len(front) + Len(rest)
          /\ \A i \in 1..(Len(front) + Len(rest)) :
                 left[i] = IF i <= Len(front) THEN front[i] ELSE rest[i - Len(front)]
      BY ONLY <3>1, <1>7, ConcatProperties
    <3> QED BY <3>2
  <2>2. Len(front) + Len(rest) = n - 1
    BY <1>2, <1>5, <1>6
  <2> QED BY <1>5, <2>1, <2>2
<1>10. ASSUME NEW i \in 1..(n - 1) PROVE left[i] = sp[PlaceBefore(i, d)]
  <2>1. CASE i < d
    <3>1. i <= d - 1 /\ i \in 1..(d - 1)
      BY <1>2, <2>1
    <3> QED BY <1>5, <1>9, <2>1, <3>1 DEF PlaceBefore
  <2>2. CASE ~(i < d)
    <3>1. i - (d - 1) \in 1..(n - d) /\ d + (i - (d - 1)) = i + 1 /\ ~(i <= d - 1)
      BY <1>2, <2>2
    <3> QED BY <1>6, <1>9, <2>2, <3>1 DEF PlaceBefore
  <2> QED BY <2>1, <2>2
<1> QED BY <1>1, <1>8, <1>9, <1>10

LEMMA PlacesBefore ==
    ASSUME NEW n \in Nat, NEW d \in 1..n
    PROVE  /\ \A i \in 1..(n - 1) :
                 /\ PlaceBefore(i, d) \in 1..n /\ PlaceBefore(i, d) # d
                 /\ PlaceBefore(i, d) <= d => i <= d
           /\ \A i \in 1..n : i # d => \E j \in 1..(n - 1) : PlaceBefore(j, d) = i
           /\ \A i, j \in 1..(n - 1) : PlaceBefore(i, d) = PlaceBefore(j, d) => i = j
<1>1. ASSUME NEW i \in 1..(n - 1)
      PROVE  /\ PlaceBefore(i, d) \in 1..n /\ PlaceBefore(i, d) # d
             /\ PlaceBefore(i, d) <= d => i <= d
  BY DEF PlaceBefore
<1>2. ASSUME NEW i \in 1..n, i # d PROVE \E j \in 1..(n - 1) : PlaceBefore(j, d) = i
  <2>1. CASE i < d
    <3>1. i \in 1..(n - 1) /\ PlaceBefore(i, d) = i
      BY <2>1 DEF PlaceBefore
    <3> QED BY <3>1
  <2>2. CASE i > d
    <3>1. i - 1 \in 1..(n - 1) /\ PlaceBefore(i - 1, d) = i
      BY <2>2 DEF PlaceBefore
    <3> QED BY <3>1
  <2> QED BY <1>2, <2>1, <2>2
<1>3. ASSUME NEW i \in 1..(n - 1), NEW j \in 1..(n - 1), PlaceBefore(i, d) = PlaceBefore(j, d)
      PROVE  i = j
  BY <1>3 DEF PlaceBefore
<1> QED BY <1>1, <1>2, <1>3

\* A call that takes the place of the last entry of low priority.
LEMMA ReplacedKeeps ==
    ASSUME NEW sp, NEW lf, NEW a, NEW P, NEW d \in DOMAIN sp,
           NEW key \in CustomKeys, NEW b, NEW sp2,
           SpanGood(sp, lf, a, P), Called(a, b, key, TRUE),
           NoEntry(sp, key), IsFullOf(sp), key \in P, MaxCustom \in Nat,
           ~sp[d].high, \A i \in DOMAIN sp : i > d => sp[i].high,
           EntryReplaced(sp2, sp, d, key, b, TRUE)
    PROVE  SpanGood(sp2, d - 1, b, P)
<1>0. /\ sp \in Seq(CustomEntry(P)) /\ KeysApart(sp) /\ EntriesHeld(sp, a)
      /\ OnlyFullMisses(sp, a, P) /\ b \in Seq(CustomCalls) /\ Len(b) \in Nat
      /\ IsLast(Len(b), Highs(b, key))
  BY DEF SpanGood, Called
<1>1. PICK entry : entry = [key |-> key, value |-> Len(b), high |-> TRUE]
  OBVIOUS
<1>2. entry \in CustomEntry(P) /\ entry.key = key /\ entry.value = Len(b) /\ entry.high
  BY <1>0, <1>1 DEF CustomEntry
<1>3. PICK n : n = Len(sp)
  OBVIOUS
<1>4. n \in Nat /\ DOMAIN sp = 1..n /\ d \in 1..n
  BY <1>0, <1>3, LenProperties
<1>5. PICK left : left = CustomSeqs!RemoveAt(sp, d)
  OBVIOUS
<1>6. /\ left \in Seq(CustomEntry(P)) /\ Len(left) = n - 1
      /\ \A i \in 1..(n - 1) : left[i] = sp[PlaceBefore(i, d)]
  BY <1>0, <1>3, <1>4, <1>5, RemovedAt
<1>7. sp2 = Append(left, entry)
  BY <1>1, <1>5 DEF EntryReplaced, NewEntry
<1>8. /\ sp2 \in Seq(CustomEntry(P)) /\ Len(sp2) = Len(left) + 1
      /\ sp2[Len(left) + 1] = entry /\ \A i \in 1..Len(left) : sp2[i] = left[i]
  BY <1>2, <1>6, <1>7, OneAppended
<1>9. /\ Len(sp2) = n /\ sp2[n] = entry /\ (n - 1) + 1 = n
      /\ \A i \in 1..(n - 1) : sp2[i] = sp[PlaceBefore(i, d)]
  BY <1>4, <1>6, <1>8
<1>10. DOMAIN sp2 = 1..n
  BY <1>8, <1>9, LenProperties
<1>11. \A i \in 1..n : i = n \/ i \in 1..(n - 1)
  BY <1>4
<1>12. /\ \A i \in 1..(n - 1) :
             /\ PlaceBefore(i, d) \in 1..n /\ PlaceBefore(i, d) # d
             /\ PlaceBefore(i, d) <= d => i <= d
       /\ \A i \in 1..n : i # d => \E j \in 1..(n - 1) : PlaceBefore(j, d) = i
       /\ \A i, j \in 1..(n - 1) : PlaceBefore(i, d) = PlaceBefore(j, d) => i = j
  BY <1>4, PlacesBefore
<1>13. \A i \in 1..n : sp[i].key # key /\ sp[i] \in CustomEntry(P)
  BY <1>0, <1>3, <1>4, ElementOfSeq DEF NoEntry
<1>14. EntriesHeld(sp2, b)
  <2> SUFFICES ASSUME NEW i \in 1..n
               PROVE  HeldFor(sp2[i], b)
    BY <1>10 DEF EntriesHeld
  <2>1. CASE i \in 1..(n - 1)
    <3>1. PICK e : e = sp2[i]
      OBVIOUS
    <3>2. e.key # key /\ HeldFor(e, a)
      BY <1>0, <1>4, <1>9, <1>12, <1>13, <2>1, <3>1 DEF EntriesHeld
    <3>3. HeldFor(e, b)
      BY <3>2, HeldStays
    <3> QED BY <3>1, <3>3
  <2>2. CASE i = n
    <3>1. HeldFor(entry, b)
      BY <1>0, <1>2 DEF HeldFor
    <3> QED BY <1>9, <2>2, <3>1
  <2> QED BY <1>11, <2>1, <2>2
<1>15. OnlyFullMisses(sp2, b, P)
  <2> SUFFICES ASSUME NEW k \in P, NoEntry(sp2, k), Highs(b, k) # {}
               PROVE  OnlyHigh(sp2)
    BY <1>3, <1>9 DEF OnlyFullMisses, IsFullOf
  <2>0. n \in 1..n
    BY <1>4
  <2>1. k # key
    BY <1>2, <1>9, <1>10, <2>0 DEF NoEntry
  <2>2. Highs(a, k) # {} /\ Highs(b, k) = Highs(a, k)
    BY <2>1 DEF Called
  <2>3. ASSUME NEW i \in 1..n, sp[i].key = k PROVE i = d
    <3> SUFFICES ASSUME i # d PROVE FALSE
      OBVIOUS
    <3>1. PICK j \in 1..(n - 1) : PlaceBefore(j, d) = i
      BY <1>12
    <3>2. sp2[j].key = k /\ j \in DOMAIN sp2
      BY <1>4, <1>9, <1>10, <2>3, <3>1
    <3> QED BY <3>2 DEF NoEntry
  <2>4. sp[d].key # k
    <3> SUFFICES ASSUME sp[d].key = k PROVE FALSE
      OBVIOUS
    <3>1. PICK e : e = sp[d]
      OBVIOUS
    <3>2. HeldFor(e, a) /\ ~e.high /\ e.key = k
      BY <1>0, <3>1 DEF EntriesHeld
    <3> QED BY <2>2, <3>2 DEF HeldFor
  <2>5. NoEntry(sp, k)
    BY <1>4, <2>3, <2>4 DEF NoEntry
  <2>6. OnlyHigh(sp)
    BY <1>0, <2>2, <2>5 DEF OnlyFullMisses
  <2> QED BY <2>6 DEF OnlyHigh
<1>16. KeysApart(sp2)
  <2> SUFFICES ASSUME NEW i \in 1..n, NEW j \in 1..n, i # j
               PROVE  sp2[i].key # sp2[j].key
    BY <1>10 DEF KeysApart
  <2>1. CASE i \in 1..(n - 1) /\ j \in 1..(n - 1)
    <3>1. PICK x, y : x = PlaceBefore(i, d) /\ y = PlaceBefore(j, d)
      OBVIOUS
    <3>2. x # y /\ sp2[i] = sp[x] /\ sp2[j] = sp[y] /\ x \in DOMAIN sp /\ y \in DOMAIN sp
      BY <1>4, <1>9, <1>12, <2>1, <3>1
    <3>3. sp[x].key # sp[y].key
      BY <1>0, <3>2 DEF KeysApart
    <3> QED BY <3>2, <3>3
  <2>2. ASSUME NEW x \in 1..(n - 1) PROVE sp2[x].key # key /\ sp2[n].key = key
    <3>1. PICK y : y = PlaceBefore(x, d)
      OBVIOUS
    <3>2. sp2[x] = sp[y] /\ y \in 1..n
      BY <1>9, <1>12, <3>1
    <3> QED BY <1>2, <1>9, <1>13, <3>2
  <2> QED BY <1>11, <2>1, <2>2
<1>17. IsSearched(sp2, d - 1)
  <2>1. ASSUME NEW i \in 1..n, ~sp2[i].high PROVE i <= (d - 1) + 1
    <3>1. i \in 1..(n - 1)
      BY <1>2, <1>9, <1>11, <2>1
    <3>2. PICK x : x = PlaceBefore(i, d)
      OBVIOUS
    <3>3. x \in 1..n /\ ~sp[x].high /\ (x <= d => i <= d)
      BY <1>9, <1>12, <2>1, <3>1, <3>2
    <3>4. x <= d
      BY <1>4, <3>3
    <3> QED BY <1>4, <3>3, <3>4
  <2> QED BY <1>3, <1>9, <1>10, <2>1 DEF IsSearched, IsFullOf
<1>18. d - 1 \in {-2, -1} \cup 0..MaxCustom /\ Len(sp2) <= MaxCustom
  BY <1>3, <1>4, <1>9 DEF IsFullOf
<1> QED BY <1>0, <1>8, <1>14, <1>15, <1>16, <1>17, <1>18 DEF SpanGood

-----------------------------------------------------------------------------
\* What holds of the trace's custom attributes c.
TraceGood(c, a, P) ==
    /\ c.count \in 0..MaxCustom /\ DOMAIN c.values \subseteq CustomKeys \cap P
    /\ IsFiniteSet(DOMAIN c.values) /\ Cardinality(DOMAIN c.values) <= c.count
    /\ \A key \in DOMAIN c.values : c.count < MaxCustom => IsLast(c.values[key], Lows(a, key))

\* The calls so far account for what both stores hold.
CustomInv ==
    /\ SpanGood(spanCustom, lastFound, asked, passes.span)
    /\ TraceGood(custom, asked, passes.trace)

\* A call for the span alone.
LEMMA TraceIsLeft ==
    ASSUME NEW c, NEW a, NEW b, NEW P, NEW key, TraceGood(c, a, P), Called(a, b, key, TRUE)
    PROVE  TraceGood(c, b, P)
<1>1. \A k : Lows(b, k) = Lows(a, k)
  BY DEF Called
<1> QED BY <1>1 DEF TraceGood

LEMMA TraceKeeps ==
    ASSUME NEW key \in CustomKeys, NEW b,
           TraceGood(custom, asked, passes.trace), MaxCustom \in Nat, Called(asked, b, key, FALSE)
    PROVE  TraceGood(AddToTrace(key, Len(b)), b, passes.trace)
<1> USE DEF TraceGood
<1>0. /\ IsLast(Len(b), Lows(b, key))
      /\ \A k : k # key => Lows(b, k) = Lows(asked, k)
  BY DEF Called
<1>1. ASSUME NEW k \in DOMAIN custom.values, custom.count < MaxCustom, k # key
      PROVE  IsLast(custom.values[k], Lows(b, k))
  BY <1>0, <1>1
<1>2. CASE custom.count + 1 > MaxCustom \/ key \notin passes.trace
  <2>1. AddToTrace(key, Len(b)) = custom
    BY <1>2 DEF AddToTrace
  <2>2. \A k \in DOMAIN custom.values : custom.count < MaxCustom => k # key
    BY <1>2
  <2> QED BY <1>1, <2>1, <2>2
<1>3. CASE ~(custom.count + 1 > MaxCustom \/ key \notin passes.trace)
  <2> DEFINE D == DOMAIN custom.values \cup {key}
             values == [k \in D |-> IF k = key THEN Len(b) ELSE custom.values[k]]
             c == [values |-> values, count |-> custom.count + 1]
  <2>1. AddToTrace(key, Len(b)) = c
    BY <1>3 DEF AddToTrace
  <2>2. c.values = values /\ c.count = custom.count + 1 /\ DOMAIN values = D
    OBVIOUS
  <2>3. IsFiniteSet(D) /\ Cardinality(D) <= Cardinality(DOMAIN custom.values) + 1
    <3>1. PICK S : S = DOMAIN custom.values
      OBVIOUS
    <3>2. IsFiniteSet(S)
      BY <3>1
    <3>3. Cardinality(S) \in Nat
      BY <3>2, FS_CardinalityType
    <3>4. /\ IsFiniteSet(S \cup {key})
          /\ Cardinality(S \cup {key}) = IF key \in S THEN Cardinality(S) ELSE Cardinality(S) + 1
      BY <3>2, FS_AddElement
    <3> QED BY <3>1, <3>3, <3>4
  <2>4. Cardinality(D) \in Nat /\ Cardinality(DOMAIN custom.values) \in Nat
    BY <2>3, FS_CardinalityType
  <2>5. ASSUME NEW k \in D PROVE IsLast(values[k], Lows(b, k))
    BY <1>0, <1>1, <1>3
  <2> HIDE DEF c, values
  <2>6. c.count \in 0..MaxCustom /\ Cardinality(D) <= c.count
    BY <1>3, <2>2, <2>3, <2>4
  <2>7. D \subseteq CustomKeys \cap passes.trace
    BY <1>3
  <2> QED BY <2>1, <2>2, <2>3, <2>5, <2>6, <2>7
<1> QED BY <1>2, <1>3

\* A search finds the last entry of low priority, if there is one.
LEMMA SearchFinds ==
    ASSUME SpanGood(spanCustom, lastFound, asked, passes.span), Full
    PROVE  LET d == Droppable(TRUE) IN
           \/ d = 0 /\ OnlyHigh(spanCustom)
           \/ /\ d \in DOMAIN spanCustom /\ ~spanCustom[d].high
              /\ \A i \in DOMAIN spanCustom : i > d => spanCustom[i].high
<1> USE DEF SpanGood
<1>1. DOMAIN spanCustom = 1..Len(spanCustom) /\ Len(spanCustom) \in Nat
  BY LenProperties
<1>2. CASE lastFound = -1
  <2>1. Droppable(TRUE) = 0
    BY <1>2 DEF Droppable
  <2>2. OnlyHigh(spanCustom)
    BY <1>1, <1>2 DEF IsSearched, OnlyHigh
  <2> QED BY <2>1, <2>2
<1>3. CASE lastFound # -1
  <2> DEFINE upTo == IF lastFound > 0 THEN lastFound + 1 ELSE Len(spanCustom)
             low == {i \in 1..upTo : i <= Len(spanCustom) /\ ~spanCustom[i].high}
  <2>1. Droppable(TRUE) = IF low = {} THEN 0 ELSE CustomSets!Max(low)
    BY <1>3 DEF Droppable
  <2>2. upTo \in Nat
    BY <1>1, <1>3
  <2>3. \A i \in DOMAIN spanCustom : ~spanCustom[i].high => i \in low
    BY <1>1, <1>3 DEF IsSearched
  <2>4. low \subseteq DOMAIN spanCustom /\ low \subseteq 1..upTo /\ \A i \in low : ~spanCustom[i].high
    BY <1>1
  <2> HIDE DEF low, upTo
  <2>5. CASE low = {}
    BY <2>1, <2>3, <2>5 DEF OnlyHigh
  <2>6. CASE low # {}
    <3>1. PICK m \in low : \A i \in low : i <= m
      <4>1. IsFiniteSet(low) /\ low \subseteq Int
        BY <2>2, <2>4, FS_Interval, FS_Subset
      <4> QED BY <2>6, <4>1, GreatestElement
    <3>2. low \in SUBSET Int
      BY <1>1, <2>4
    <3>3. Droppable(TRUE) = m
      BY <2>1, <2>6, <3>1, <3>2, MaxIsGreatest
    <3>4. \A i \in DOMAIN spanCustom : i > m => spanCustom[i].high
      BY <1>1, <2>3, <2>4, <3>1
    <3> QED BY <2>4, <3>1, <3>3, <3>4
  <2> QED BY <2>5, <2>6
<1> QED BY <1>2, <1>3

\* The entries, whatever the call.
LEMMA SpanKeeps ==
    ASSUME NEW key \in CustomKeys, NEW high \in BOOLEAN, CustomInv, MaxCustom \in Nat,
           asked' = Append(asked, [key |-> key, high |-> high]),
           AddToSpan(key, Len(asked'), high)
    PROVE  SpanGood(spanCustom', lastFound', asked', passes.span)
<1> DEFINE P == passes.span
<1>0. SpanGood(spanCustom, lastFound, asked, P)
  BY DEF CustomInv
<1>1. PICK b : b = asked'
  OBVIOUS
<1>2. PICK sp2 : sp2 = spanCustom'
  OBVIOUS
<1>3. PICK lf2 : lf2 = lastFound'
  OBVIOUS
<1>4. Called(asked, b, key, high)
  BY <1>0, <1>1, OneMoreCall DEF SpanGood
<1>5. PICK old : old = Entry(key)
  OBVIOUS
<1>6. PICK drop : drop = IF old = {} /\ Full THEN Droppable(high) ELSE 0
  OBVIOUS
<1> DEFINE searched == old = {} /\ Full /\ high /\ lastFound # -1
           refused == (old = {} /\ Full /\ drop = 0) \/ key \notin P
                         \/ \E i \in old : spanCustom[i].high /\ ~high
<1>7. /\ lf2 = IF searched THEN drop - 1 ELSE lastFound
      /\ sp2 = IF refused THEN spanCustom
               ELSE IF old # {} THEN [spanCustom EXCEPT ![CustomSets!Max(old)] = NewEntry(key, b, high)]
               ELSE Append(IF drop = 0 THEN spanCustom ELSE CustomSeqs!RemoveAt(spanCustom, drop), NewEntry(key, b, high))
  BY <1>1, <1>2, <1>3, <1>5, <1>6, Zenon DEF AddToSpan, NewEntry
<1>8. DOMAIN spanCustom = 1..Len(spanCustom) /\ Len(spanCustom) \in Nat
  BY <1>0, LenProperties DEF SpanGood
<1>9. /\ \A i : i \in old <=> i \in DOMAIN spanCustom /\ spanCustom[i].key = key
      /\ old = {} <=> NoEntry(spanCustom, key)
      /\ Full <=> IsFullOf(spanCustom)
  BY <1>5 DEF Entry, NoEntry, Full, IsFullOf
<1>10. lastFound \in {-2, -1} \cup 0..MaxCustom /\ IsSearched(spanCustom, lastFound) /\ Len(spanCustom) <= MaxCustom
  BY <1>0 DEF SpanGood
<1>11. ASSUME old = {}, Full, high
       PROVE  \/ drop = 0 /\ OnlyHigh(spanCustom)
              \/ /\ drop \in DOMAIN spanCustom /\ ~spanCustom[drop].high
                 /\ \A i \in DOMAIN spanCustom : i > drop => spanCustom[i].high
  <2>1. drop = Droppable(TRUE)
    BY <1>6, <1>11
  <2> QED BY <1>0, <1>11, <2>1, SearchFinds
<1>12. ASSUME ~high PROVE drop = 0
  BY <1>6, <1>12 DEF Droppable
<1>13. ASSUME searched
       PROVE  IsSearched(spanCustom, drop - 1) /\ drop - 1 \in {-2, -1} \cup 0..MaxCustom
  <2>1. IsFullOf(spanCustom)
    BY <1>9, <1>13
  <2>2. CASE drop = 0 /\ OnlyHigh(spanCustom)
    BY <2>1, <2>2 DEF IsSearched, OnlyHigh
  <2>3. CASE /\ drop \in DOMAIN spanCustom /\ ~spanCustom[drop].high
             /\ \A i \in DOMAIN spanCustom : i > drop => spanCustom[i].high
    <3>1. drop \in 1..MaxCustom
      BY <1>8, <1>10, <2>3
    <3>2. \A i \in DOMAIN spanCustom : ~spanCustom[i].high => i <= drop
      BY <1>8, <2>3
    <3> QED BY <1>8, <2>1, <3>1, <3>2 DEF IsSearched
  <2> QED BY <1>11, <1>13, <2>2, <2>3
<1>14. lf2 \in {-2, -1} \cup 0..MaxCustom /\ IsSearched(spanCustom, lf2)
  <2>1. CASE searched
    <3>1. lf2 = drop - 1
      BY <1>7, <2>1
    <3> QED BY <1>13, <2>1, <3>1
  <2>2. CASE ~searched
    <3>1. lf2 = lastFound
      BY <1>7, <2>2
    <3> QED BY <1>10, <3>1
  <2> QED BY <2>1, <2>2
<1> HIDE DEF P
<1>15. CASE refused
  <2>1. sp2 = spanCustom
    BY <1>7, <1>15
  <2>2. \/ key \notin P
        \/ ~high /\ \E i \in DOMAIN spanCustom : spanCustom[i].key = key /\ spanCustom[i].high
        \/ IsFullOf(spanCustom) /\ NoEntry(spanCustom, key) /\ (high => OnlyHigh(spanCustom))
    <3>1. CASE old = {} /\ Full /\ drop = 0
      <4>1. high => OnlyHigh(spanCustom)
        <5>1. 0 \notin DOMAIN spanCustom
          BY <1>8
        <5> QED BY <1>11, <3>1, <5>1
      <4> QED BY <1>9, <3>1, <4>1
    <3>2. CASE \E i \in old : spanCustom[i].high /\ ~high
      BY <1>9, <3>2
    <3> QED BY <1>15, <3>1, <3>2
  <2>3. SpanGood(spanCustom, lf2, b, P)
    <3>1. MayRefuse(spanCustom, P, key, high)
      BY <2>2 DEF MayRefuse
    <3>2. IsSearched(spanCustom, lf2)
      BY <1>14
    <3>3. lf2 \in {-2, -1} \cup 0..MaxCustom
      BY <1>14
    <3> QED BY <1>0, <1>4, <3>1, <3>2, <3>3, RefusedKeeps
  <2> QED BY <1>1, <1>2, <1>3, <2>1, <2>3 DEF P
<1>16. CASE ~refused /\ old # {}
  <2>1. PICK j \in old : TRUE
    BY <1>16
  <2>2. j \in DOMAIN spanCustom /\ spanCustom[j].key = key
    BY <1>9
  <2>3. \A i \in old : i = j
    BY <1>0, <1>9, <2>2 DEF SpanGood, KeysApart
  <2>4. old \in SUBSET Int /\ \A i \in old : i <= j
    BY <1>8, <1>9, <2>2, <2>3
  <2>5. CustomSets!Max(old) = j
    BY <2>4, MaxIsGreatest
  <2>6. sp2 = [spanCustom EXCEPT ![CustomSets!Max(old)] = NewEntry(key, b, high)] /\ lf2 = lastFound
    BY <1>7, <1>16
  <2>7. Overwritten(sp2, spanCustom, j, key, b, high)
    BY <2>5, <2>6 DEF Overwritten
  <2>8. (spanCustom[j].high => high) /\ key \in P
    BY <1>16
  <2>9. SpanGood(sp2, lastFound, b, P)
    BY <1>0, <1>4, <2>2, <2>7, <2>8, OverwrittenKeeps
  <2> QED BY <1>1, <1>2, <1>3, <2>6, <2>9 DEF P
<1>17. CASE ~refused /\ old = {} /\ ~Full
  <2>1. drop = 0 /\ key \in P
    BY <1>6, <1>17
  <2>2. sp2 = Append(spanCustom, NewEntry(key, b, high)) /\ lf2 = lastFound
    BY <1>7, <1>17, <2>1
  <2>3. EntryAdded(sp2, spanCustom, key, b, high)
    BY <2>2 DEF EntryAdded
  <2>4. NoEntry(spanCustom, key) /\ ~IsFullOf(spanCustom)
    BY <1>9, <1>17
  <2>5. SpanGood(sp2, lastFound, b, P)
    BY <1>0, <1>4, <2>1, <2>3, <2>4, AddedKeeps
  <2> QED BY <1>1, <1>2, <1>3, <2>2, <2>5 DEF P
<1>18. CASE ~refused /\ old = {} /\ Full
  <2>1. drop # 0 /\ key \in P
    BY <1>18
  <2>2. high
    BY <1>12, <2>1
  <2>3. /\ drop \in DOMAIN spanCustom /\ ~spanCustom[drop].high
        /\ \A i \in DOMAIN spanCustom : i > drop => spanCustom[i].high
    BY <1>11, <1>18, <2>1, <2>2
  <2>4. sp2 = Append(CustomSeqs!RemoveAt(spanCustom, drop), NewEntry(key, b, high))
    BY <1>7, <1>18, <2>1
  <2>5. lastFound # -1
    BY <1>8, <1>10, <2>3 DEF IsSearched
  <2>6. lf2 = drop - 1
    BY <1>7, <1>18, <2>2, <2>5
  <2>7. NoEntry(spanCustom, key) /\ IsFullOf(spanCustom)
    BY <1>9, <1>18
  <2>8. high = TRUE
    BY <2>2
  <2>9. EntryReplaced(sp2, spanCustom, drop, key, b, TRUE) /\ Called(asked, b, key, TRUE)
    BY <1>4, <2>4, <2>8 DEF EntryReplaced
  <2>10. SpanGood(sp2, drop - 1, b, P)
    BY <1>0, <2>1, <2>3, <2>7, <2>9, ReplacedKeeps
  <2> QED BY <1>1, <1>2, <1>3, <2>6, <2>10 DEF P
<1> QED BY <1>15, <1>16, <1>17, <1>18

-----------------------------------------------------------------------------
LEMMA CustomInitial == ASSUME AttributesInit PROVE CustomInv
<1> USE AttributesAssumption
<1>1. spanCustom = <<>> /\ asked = <<>> /\ lastFound = -2 /\ custom = [values |-> <<>>, count |-> 0]
  BY DEF AttributesInit
<1>2. SpanGood(spanCustom, lastFound, asked, passes.span)
  <2>1. \A k : Highs(asked, k) = {} /\ Lows(asked, k) = {}
    BY <1>1 DEF Highs, Lows
  <2>2. KeysApart(spanCustom) /\ EntriesHeld(spanCustom, asked) /\ IsSearched(spanCustom, lastFound)
    BY <1>1 DEF KeysApart, EntriesHeld, IsSearched
  <2>3. OnlyFullMisses(spanCustom, asked, passes.span)
    BY <2>1 DEF OnlyFullMisses
  <2> QED BY <1>1, <2>2, <2>3 DEF SpanGood
<1>3. TraceGood(custom, asked, passes.trace)
  <2>1. custom.count = 0 /\ DOMAIN custom.values = {}
    BY <1>1
  <2> QED BY <2>1, FS_EmptySet DEF TraceGood
<1> QED BY <1>2, <1>3 DEF CustomInv

LEMMA CustomStep == ASSUME CustomInv, [AttributesNext]_attributeVars PROVE CustomInv'
<1> USE AttributesAssumption
<1>0. asked \in Seq(CustomCalls)
  BY DEF CustomInv, SpanGood
<1>1. ASSUME NEW key \in CustomKeys, AddCustomAttribute(key) PROVE CustomInv'
  <2>1. /\ asked' = Append(asked, [key |-> key, high |-> FALSE]) /\ passes' = passes
        /\ AddToSpan(key, Len(asked'), FALSE) /\ custom' = AddToTrace(key, Len(asked'))
    BY <1>1 DEF AddCustomAttribute, Ask
  <2>2. SpanGood(spanCustom', lastFound', asked', passes.span)
    BY <2>1, SpanKeeps
  <2>3. PICK b : b = asked'
    OBVIOUS
  <2>4. Called(asked, b, key, FALSE)
    BY <1>0, <2>1, <2>3, OneMoreCall
  <2>5. TraceGood(AddToTrace(key, Len(b)), b, passes.trace)
    BY <2>4, TraceKeeps DEF CustomInv
  <2> QED BY <2>1, <2>2, <2>3, <2>5 DEF CustomInv
<1>2. ASSUME NEW key \in CustomKeys, AddCustomSpanAttribute(key) PROVE CustomInv'
  <2>1. /\ asked' = Append(asked, [key |-> key, high |-> TRUE]) /\ passes' = passes
        /\ AddToSpan(key, Len(asked'), TRUE) /\ custom' = custom
    BY <1>2 DEF AddCustomSpanAttribute, Ask
  <2>2. SpanGood(spanCustom', lastFound', asked', passes.span)
    BY <2>1, SpanKeeps
  <2>3. PICK b : b = asked'
    OBVIOUS
  <2>4. Called(asked, b, key, TRUE)
    BY <1>0, <2>1, <2>3, OneMoreCall
  <2>5. TraceGood(custom, b, passes.trace)
    BY <2>4, TraceIsLeft DEF CustomInv
  <2> QED BY <2>1, <2>2, <2>3, <2>5 DEF CustomInv
<1>3. CASE UNCHANGED attributeVars
  BY <1>3 DEF CustomInv, attributeVars
<1> QED BY <1>1, <1>2, <1>3 DEF AttributesNext

LEMMA CustomInvIsCorrect == ASSUME CustomInv PROVE AttributesCorrect
<1> USE AttributesAssumption DEF CustomInv, SpanGood, TraceGood
<1>0. /\ DOMAIN spanCustom = 1..Len(spanCustom) /\ Len(spanCustom) \in Nat
      /\ \A i \in DOMAIN spanCustom : spanCustom[i] \in CustomEntry(passes.span)
      /\ DOMAIN asked = 1..Len(asked) /\ Len(asked) \in Nat
      /\ \A i \in DOMAIN asked : asked[i] \in CustomCalls
  BY LenProperties, ElementOfSeq
<1>1. \A key : CallsFor(key, TRUE) = Highs(asked, key) /\ CallsFor(key, FALSE) = Lows(asked, key)
  <2> TAKE key
  <2>1. ASSUME NEW c \in CustomCalls
        PROVE  /\ c = [key |-> key, high |-> TRUE] <=> (c.key = key /\ c.high)
               /\ c = [key |-> key, high |-> FALSE] <=> (c.key = key /\ ~c.high)
    <3>1. c = [key |-> c.key, high |-> c.high] /\ c.high \in BOOLEAN
      BY DEF CustomCalls
    <3> QED BY <3>1
  <2> HIDE DEF CustomInv
  <2>2. \A i \in DOMAIN asked : /\ asked[i] = [key |-> key, high |-> TRUE] <=> (asked[i].key = key /\ asked[i].high)
                                /\ asked[i] = [key |-> key, high |-> FALSE] <=> (asked[i].key = key /\ ~asked[i].high)
    BY <1>0, <2>1
  <2> QED BY <2>2 DEF CallsFor, Highs, Lows
<1>2. ASSUME NEW S, NEW v, S \subseteq DOMAIN asked, IsLast(v, S)
      PROVE  v = CustomSets!Max(S) /\ v \in DOMAIN asked /\ S # {}
  <2>1. S \in SUBSET Int /\ v \in S /\ \A j \in S : j <= v
    BY <1>0, <1>2 DEF IsLast
  <2> QED BY <1>2, <2>1, MaxIsGreatest
<1>3. \A key : Highs(asked, key) \subseteq DOMAIN asked /\ Lows(asked, key) \subseteq DOMAIN asked
  BY DEF Highs, Lows
<1>4. ASSUME NEW i \in DOMAIN spanCustom, spanCustom[i].high
      PROVE  /\ spanCustom[i].value = CustomSets!Max(CallsFor(spanCustom[i].key, TRUE))
             /\ spanCustom[i].value \in DOMAIN asked
             /\ CallsFor(spanCustom[i].key, TRUE) # {}
  <2>1. IsLast(spanCustom[i].value, Highs(asked, spanCustom[i].key))
    BY <1>4 DEF EntriesHeld, HeldFor
  <2> QED BY <1>1, <1>2, <1>3, <2>1
<1>5. ASSUME NEW i \in DOMAIN spanCustom, ~spanCustom[i].high
      PROVE  /\ spanCustom[i].value = CustomSets!Max(CallsFor(spanCustom[i].key, FALSE))
             /\ spanCustom[i].value \in DOMAIN asked
             /\ CallsFor(spanCustom[i].key, TRUE) = {}
  <2>1. /\ IsLast(spanCustom[i].value, Lows(asked, spanCustom[i].key))
        /\ Highs(asked, spanCustom[i].key) = {}
    BY <1>5 DEF EntriesHeld, HeldFor
  <2> QED BY <1>1, <1>2, <1>3, <2>1
<1>6. AttributesTypeOK
  <2>1. \A i \in DOMAIN spanCustom : spanCustom[i].key \in CustomKeys /\ spanCustom[i].value \in DOMAIN asked
    BY <1>0, <1>4, <1>5 DEF CustomEntry
  <2> QED BY <2>1 DEF AttributesTypeOK
<1>7. SpanAttributesWin
  <2> SUFFICES ASSUME NEW key \in passes.span, CallsFor(key, TRUE) # {}
               PROVE  \/ \E i \in Entry(key) : /\ spanCustom[i].high
                                               /\ spanCustom[i].value = CustomSets!Max(CallsFor(key, TRUE))
                      \/ Full /\ Entry(key) = {} /\ \A i \in DOMAIN spanCustom : spanCustom[i].high
    BY DEF SpanAttributesWin
  <2>1. CASE NoEntry(spanCustom, key)
    <3>1. Highs(asked, key) # {}
      BY <1>1
    <3>2. IsFullOf(spanCustom) /\ OnlyHigh(spanCustom)
      BY <2>1, <3>1 DEF OnlyFullMisses
    <3> QED BY <2>1, <3>2 DEF NoEntry, Entry, Full, IsFullOf, OnlyHigh
  <2>2. CASE ~NoEntry(spanCustom, key)
    <3>1. PICK i \in DOMAIN spanCustom : spanCustom[i].key = key
      BY <2>2 DEF NoEntry
    <3>2. spanCustom[i].high
      BY <1>5, <3>1
    <3>3. spanCustom[i].value = CustomSets!Max(CallsFor(key, TRUE))
      BY <1>4, <3>1, <3>2
    <3>4. i \in Entry(key)
      BY <3>1 DEF Entry
    <3> QED BY <3>2, <3>3, <3>4
  <2> QED BY <2>1, <2>2
<1>8. TransactionAttributesFollow
  <2> SUFFICES ASSUME NEW key \in passes.span, CallsFor(key, FALSE) # {}, CallsFor(key, TRUE) = {}
               PROVE  /\ Entry(key) = {} => Full
                      /\ \A i \in Entry(key) : /\ ~spanCustom[i].high
                                               /\ spanCustom[i].value = CustomSets!Max(CallsFor(key, FALSE))
    BY DEF TransactionAttributesFollow
  <2>1. Entry(key) = {} => Full
    BY <1>1 DEF OnlyFullMisses, NoEntry, Entry, Full, IsFullOf
  <2>2. ASSUME NEW i \in Entry(key)
        PROVE  ~spanCustom[i].high /\ spanCustom[i].value = CustomSets!Max(CallsFor(key, FALSE))
    <3>1. i \in DOMAIN spanCustom /\ spanCustom[i].key = key
      BY DEF Entry
    <3>2. ~spanCustom[i].high
      BY <1>4, <3>1
    <3> QED BY <1>5, <3>1, <3>2
  <2> QED BY <2>1, <2>2
<1>9. SearchReachesAll
  BY DEF SearchReachesAll, IsSearched
<1>10. StoresAreBounded
  <2>1. \A key \in DOMAIN custom.values :
           custom.count < MaxCustom => custom.values[key] = CustomSets!Max(CallsFor(key, FALSE))
    BY <1>1, <1>2, <1>3
  <2> QED BY <2>1 DEF StoresAreBounded, KeysApart
<1> QED BY <1>6, <1>7, <1>8, <1>9, <1>10 DEF AttributesCorrect

\* An application's custom attributes, for any keys and any limit: its last call counts, on the
\* span those meant for it before the others, and none is missing for another reason than a
\* full store.
THEOREM CustomAttributesAreKept == AttributesSpec => []AttributesCorrect
<1>1. AttributesSpec => []CustomInv
  BY CustomInitial, CustomStep, PTL DEF AttributesSpec
<1> QED BY <1>1, CustomInvIsCorrect, PTL

-----------------------------------------------------------------------------
\* What the records of promises and the tables hold.
Ctx(ps, p) == ps[p].link.context
Idx(ps, p) == ps[p].link.idx
Par(ps, p) == ps[p].link.parentIdx
Kid(ps, p) == ps[p].link.child
Up(ps, p) == ps[p].up
Prev(ps, p) == ps[p].prev
Stage(ps, p) == ps[p].status
Cont(ps, p) == ps[p].cont
Own(ps, p) == ps[p].own
Ran(ps, p) == ps[p].ran
Linked(ps, p) == ps[p].linked = TRUE
Tab(ts, c, i) == ts[c][i]
Size(ts, c) == Len(ts[c])

SegmentOrNone == PromSegments \cup {NoSegment}
Links == [context : Nat, idx : Nat, parentIdx : Nat, child : Nat \cup {Many}]
Promises == [linked : BOOLEAN, link : Links, prev : Nat, up : Nat,
             status : {"pending", "waiting", "done"}, cont : SegmentOrNone, own : SegmentOrNone,
             ran : SegmentOrNone]

\* Of every promise: its place, the promise it came from and the one that came from it.
Placed(ps, ts) ==
    \A p \in DOMAIN ps :
        /\ Ctx(ps, p) # 0 => /\ Ctx(ps, p) \in 1..Len(ts)
                             /\ Idx(ps, p) \in 1..Size(ts, Ctx(ps, p))
                             /\ Par(ps, p) \in 0..Size(ts, Ctx(ps, p))
        /\ Ctx(ps, p) = 0 => /\ ~Linked(ps, p) /\ Up(ps, p) = 0
                             /\ Own(ps, p) = NoSegment /\ Ran(ps, p) = NoSegment
        /\ Up(ps, p) = 0 /\ Ctx(ps, p) # 0 => Own(ps, p) # NoSegment /\ Idx(ps, p) = 1 /\ Par(ps, p) = 0
Descended(ps) ==
    \A p \in DOMAIN ps :
        /\ Prev(ps, p) # 0 => Prev(ps, p) \in DOMAIN ps /\ Prev(ps, p) < p
        /\ Up(ps, p) # 0 => /\ Up(ps, p) = Prev(ps, p) /\ Up(ps, p) \in DOMAIN ps /\ Up(ps, p) < p
                            /\ Ctx(ps, Up(ps, p)) = Ctx(ps, p) /\ Ctx(ps, p) # 0 /\ Par(ps, p) # 0
                            /\ Kid(ps, Up(ps, p)) \in {p, Many}
        /\ Kid(ps, p) \notin {0, Many} => /\ Kid(ps, p) \in DOMAIN ps /\ p < Kid(ps, p)
                                          /\ Up(ps, Kid(ps, p)) = p
OneRoot(ps) ==
    \A p, q \in DOMAIN ps :
        Ctx(ps, p) = Ctx(ps, q) /\ Ctx(ps, p) # 0 /\ Up(ps, p) = 0 /\ Up(ps, q) = 0 => p = q
\* What has been run, and in which order.
InTurn(ps) ==
    \A p \in DOMAIN ps :
        /\ Stage(ps, p) = "waiting" => Cont(ps, p) # NoSegment /\ Ctx(ps, p) # 0
        /\ Stage(ps, p) # "pending" /\ Prev(ps, p) # 0 => Stage(ps, Prev(ps, p)) = "done"
        /\ Own(ps, p) # NoSegment /\ Up(ps, p) # 0 => Stage(ps, p) = "done"
        /\ Ran(ps, p) # NoSegment => Stage(ps, p) # "pending"
\* Every segment of a context is one that a promise of it has.
Filled(ts) == \A c \in 1..Len(ts) : Size(ts, c) > 0 /\ Tab(ts, c, 1) # NoSegment
Owned(ps, ts) ==
    /\ \A c \in 1..Len(ts) : \A i \in 1..Size(ts, c) : Tab(ts, c, i) # NoSegment =>
           \E q \in DOMAIN ps : Ctx(ps, q) = c /\ Own(ps, q) = Tab(ts, c, i)
    /\ \A p \in DOMAIN ps : Ran(ps, p) # NoSegment /\ Up(ps, p) # 0 =>
           \E q \in DOMAIN ps : Ctx(ps, q) = Ctx(ps, p) /\ Own(ps, q) = Ran(ps, p)
\* Until a chain's root is done nothing else has been run or kept.
RootFirst(ps, ts) ==
    \A r \in DOMAIN ps : Ctx(ps, r) # 0 /\ Up(ps, r) = 0 /\ Stage(ps, r) # "done" =>
        /\ \A p \in DOMAIN ps : Ctx(ps, p) = Ctx(ps, r) /\ p # r =>
               Stage(ps, p) = "pending" /\ Ran(ps, p) = NoSegment
        /\ \A i \in 2..Size(ts, Ctx(ps, r)) : Tab(ts, Ctx(ps, r), i) = NoSegment

\* Contexts the algorithm accounts for, and promises of one of them.
Plain(ps, cr, p) == p \in DOMAIN ps /\ Ctx(ps, p) # 0 /\ Ctx(ps, p) \notin cr
Together(ps, cr, p, q) == Plain(ps, cr, p) /\ q \in DOMAIN ps /\ Ctx(ps, q) = Ctx(ps, p)
Alike(ps, cr, p, q) == Together(ps, cr, p, q) /\ Idx(ps, q) = Idx(ps, p)
Unbranched(ps, c) == \A q \in DOMAIN ps : Ctx(ps, q) = c => Kid(ps, q) # Many

OneBranching(ps, cr) ==
    \A p, q \in DOMAIN ps : Together(ps, cr, p, q) /\ Kid(ps, p) = Many /\ Kid(ps, q) = Many => p = q
NoGaps(ps, cr) ==
    \A p \in DOMAIN ps : Plain(ps, cr, p) /\ Stage(ps, p) = "pending" /\ ~Linked(ps, p) => Kid(ps, p) = 0
\* Promises with one place are a line, and there is but one before a chain branches.
FromAbove(ps, cr) ==
    \A p \in DOMAIN ps : Plain(ps, cr, p) /\ Up(ps, p) # 0 => Par(ps, p) = Idx(ps, Up(ps, p))
InLine(ps, cr) ==
    \A p, q \in DOMAIN ps : Alike(ps, cr, p, q) /\ p < q =>
        /\ Up(ps, q) # 0 /\ Idx(ps, Up(ps, q)) = Idx(ps, q) /\ p <= Up(ps, q)
        /\ Kid(ps, p) \in DOMAIN ps /\ Kid(ps, p) <= q /\ Idx(ps, Kid(ps, p)) = Idx(ps, p)
OneLine(ps, cr) ==
    \A p \in DOMAIN ps : Plain(ps, cr, p) /\ Unbranched(ps, Ctx(ps, p)) => Idx(ps, p) = 1
\* A branch starts at the end of the trunk, if not where another does.
TrunkEnds(ps, cr) ==
    \A p, q \in DOMAIN ps :
        /\ Together(ps, cr, p, q) /\ Idx(ps, p) # 1 /\ Idx(ps, q) = 1
        /\ Up(ps, p) # 0 /\ Idx(ps, Up(ps, p)) = 1
        => q <= Up(ps, p)
\* Of two in a line the one before is done first, and the trunk before its branches.
LineInTurn(ps, cr) ==
    \A p, q \in DOMAIN ps :
        Alike(ps, cr, p, q) /\ p < q /\ Stage(ps, q) # "pending" => Stage(ps, p) = "done"
TrunkInTurn(ps, cr) ==
    \A p, q \in DOMAIN ps :
        /\ Together(ps, cr, p, q) /\ Idx(ps, p) # 1 /\ Idx(ps, q) = 1 /\ Stage(ps, p) # "pending"
        => Stage(ps, q) = "done"

\* What the places hold: nothing for the first of a line before it has run; for a promise
\* that comes next the segment its chain has reached.
Sees(ps, ts, p) ==
    OrElse(Tab(ts, Ctx(ps, p), Idx(ps, p)), OrElse(Tab(ts, Ctx(ps, p), Par(ps, p)), Tab(ts, Ctx(ps, p), 1)))
Leaves(ps, ts, p) == OrElse(Tab(ts, Ctx(ps, p), Idx(ps, p)), Tab(ts, Ctx(ps, p), 1))
NoneAfter(ps, p) == \A q \in DOMAIN ps : Ctx(ps, q) = Ctx(ps, p) /\ q > p => Own(ps, q) = NoSegment

ReachedBy(ps, f) ==
    /\ f[0] = NoSegment
    /\ \A p \in DOMAIN ps : f[p] = OrElse(Own(ps, p), f[Up(ps, p)])
FirstIsEmpty(ps, ts, cr) ==
    \A p \in DOMAIN ps :
        /\ Plain(ps, cr, p) /\ Stage(ps, p) = "pending" /\ Up(ps, p) # 0
        /\ Idx(ps, p) # Idx(ps, Up(ps, p))
        => Tab(ts, Ctx(ps, p), Idx(ps, p)) = NoSegment
NextSees(ps, ts, cr, f) ==
    \A p \in DOMAIN ps :
        /\ Plain(ps, cr, p) /\ Stage(ps, p) = "pending" /\ Up(ps, p) # 0
        /\ Stage(ps, Up(ps, p)) = "done"
        => Sees(ps, ts, p) = f[Up(ps, p)]
RootSees(ps, ts, cr) ==
    \A p \in DOMAIN ps :
        Plain(ps, cr, p) /\ Up(ps, p) = 0 /\ Stage(ps, p) # "done" => Tab(ts, Ctx(ps, p), 1) = Own(ps, p)
EndLeaves(ps, ts, cr, f) ==
    \A p \in DOMAIN ps :
        Plain(ps, cr, p) /\ Stage(ps, p) = "done" /\ Linked(ps, p) /\ Kid(ps, p) \in {0, Many} =>
            Leaves(ps, ts, p) = f[p]
LastIsFirst(ps, ts, cr) ==
    \A p \in DOMAIN ps :
        /\ Plain(ps, cr, p) /\ Unbranched(ps, Ctx(ps, p)) /\ Own(ps, p) # NoSegment
        /\ NoneAfter(ps, p)
        => Tab(ts, Ctx(ps, p), 1) = Own(ps, p)
RanRight(ps, cr, f) ==
    \A p \in DOMAIN ps : Plain(ps, cr, p) /\ Ran(ps, p) # NoSegment /\ Up(ps, p) # 0 => Ran(ps, p) = f[Up(ps, p)]

\* The chains themselves, whether the algorithm accounts for their branches or not.
ChainsGood(ps, ts) ==
    /\ ps \in Seq(Promises) /\ ts \in Seq(Seq(SegmentOrNone))
    /\ Placed(ps, ts) /\ Descended(ps) /\ OneRoot(ps) /\ InTurn(ps) /\ Filled(ts)
    /\ Owned(ps, ts) /\ RootFirst(ps, ts)
\* The shape of those it accounts for, and the order they are run in.
ShapeGood(ps, cr) ==
    /\ OneBranching(ps, cr) /\ NoGaps(ps, cr) /\ FromAbove(ps, cr) /\ InLine(ps, cr) /\ OneLine(ps, cr)
    /\ TrunkEnds(ps, cr) /\ LineInTurn(ps, cr) /\ TrunkInTurn(ps, cr)
\* What their tables hold.
TablesGood(ps, ts, cr, f) ==
    /\ FirstIsEmpty(ps, ts, cr) /\ NextSees(ps, ts, cr, f) /\ RootSees(ps, ts, cr)
    /\ EndLeaves(ps, ts, cr, f) /\ LastIsFirst(ps, ts, cr) /\ RanRight(ps, cr, f)

Good(ps, ts, cr) ==
    /\ ChainsGood(ps, ts) /\ ShapeGood(ps, cr)
    /\ \A f : ReachedBy(ps, f) => TablesGood(ps, ts, cr, f)
PromInv == Good(promises, tables, crossed)

-----------------------------------------------------------------------------
LEMMA PromiseTypes ==
    ASSUME NEW ps, ps \in Seq(Promises)
    PROVE  /\ Len(ps) \in Nat /\ DOMAIN ps = 1..Len(ps)
           /\ \A p \in DOMAIN ps :
                 /\ ps[p] \in Promises /\ p \in Nat /\ p # 0 /\ Ctx(ps, p) \in Nat /\ Idx(ps, p) \in Nat /\ Par(ps, p) \in Nat
                 /\ Kid(ps, p) \in Nat \cup {Many} /\ Up(ps, p) \in Nat /\ Prev(ps, p) \in Nat
                 /\ Stage(ps, p) \in {"pending", "waiting", "done"} /\ Cont(ps, p) \in SegmentOrNone
                 /\ Own(ps, p) \in SegmentOrNone /\ Ran(ps, p) \in SegmentOrNone
<1>1. Len(ps) \in Nat /\ DOMAIN ps = 1..Len(ps)
  BY LenProperties
<1>2. ASSUME NEW p \in DOMAIN ps
      PROVE  /\ ps[p] \in Promises /\ p \in Nat /\ p # 0 /\ Ctx(ps, p) \in Nat /\ Idx(ps, p) \in Nat /\ Par(ps, p) \in Nat
             /\ Kid(ps, p) \in Nat \cup {Many} /\ Up(ps, p) \in Nat /\ Prev(ps, p) \in Nat
             /\ Stage(ps, p) \in {"pending", "waiting", "done"} /\ Cont(ps, p) \in SegmentOrNone
             /\ Own(ps, p) \in SegmentOrNone /\ Ran(ps, p) \in SegmentOrNone
  <2>1. ps[p] \in Promises
    BY <1>1, ElementOfSeq
  <2>2. ps[p].link \in Links
    BY <2>1 DEF Promises
  <2>3. p \in Nat /\ p # 0
    BY <1>1
  <2>4. Ctx(ps, p) \in Nat /\ Idx(ps, p) \in Nat /\ Par(ps, p) \in Nat /\ Kid(ps, p) \in Nat \cup {Many}
    BY <2>2 DEF Links, Ctx, Idx, Par, Kid
  <2>5. /\ Up(ps, p) \in Nat /\ Prev(ps, p) \in Nat
        /\ Stage(ps, p) \in {"pending", "waiting", "done"} /\ Cont(ps, p) \in SegmentOrNone
        /\ Own(ps, p) \in SegmentOrNone /\ Ran(ps, p) \in SegmentOrNone
    BY <2>1 DEF Promises, Up, Prev, Stage, Cont, Own, Ran
  <2> QED BY <2>1, <2>3, <2>4, <2>5
<1> QED BY <1>1, <1>2

\* The segment a promise sees.
LEMMA WhatIsSeen ==
    ASSUME NEW ps, NEW ts, NEW p, Par(ps, p) # 0, Idx(ps, p) # 0
    PROVE  SegmentAt(ts, ps[p].link) = Sees(ps, ts, p)
  BY DEF SegmentAt, Sees, At, Tab, Ctx, Idx, Par
LEMMA WhatRootSees ==
    ASSUME NEW ps, NEW ts, NEW p, Par(ps, p) = 0, Idx(ps, p) = 1
    PROVE  SegmentAt(ts, ps[p].link) = Tab(ts, Ctx(ps, p), 1)
  BY DEF SegmentAt, At, Tab, Ctx, Idx, Par, OrElse
LEMMA SomethingIsSeen ==
    ASSUME NEW ps, NEW ts, NEW p, Tab(ts, Ctx(ps, p), 1) # NoSegment
    PROVE  SegmentAt(ts, ps[p].link) # NoSegment
  BY DEF SegmentAt, Tab, Ctx, OrElse

-----------------------------------------------------------------------------
\* What goes back to the promises before has a solution, and only one.
Backwards(ps, C, c, G) ==
    {f \in [0..Len(ps) -> C] : f[0] = c /\ \A p \in 1..Len(ps) : f[p] = G[<<p, f[Up(ps, p)]>>]}

LEMMA GoingBack ==
    ASSUME NEW ps, Len(ps) \in Nat, \A p \in 1..Len(ps) : Up(ps, p) \in 0..(p - 1),
           NEW C, NEW c \in C, NEW G \in [(1..Len(ps)) \X C -> C]
    PROVE  Backwards(ps, C, c, G) # {}
<1>1. PICK n \in Nat : n = Len(ps)
  OBVIOUS
<1>2. PICK D : D = [0..n -> C]
  OBVIOUS
<1>3. PICK F : F = [x \in D \X (1..n) |-> [i \in 0..n |-> IF i = x[2] THEN G[<<x[2], x[1][Up(ps, x[2])]>>] ELSE x[1][i]]]
  OBVIOUS
<1>4. F \in [D \X (1..n) -> D]
  <2>1. ASSUME NEW g \in D, NEW k \in 1..n
        PROVE  [i \in 0..n |-> IF i = k THEN G[<<k, g[Up(ps, k)]>>] ELSE g[i]] \in D
    <3>1. Up(ps, k) \in 0..n
      BY <1>1
    <3>2. g[Up(ps, k)] \in C
      BY <3>1, <1>2
    <3>3. G[<<k, g[Up(ps, k)]>>] \in C
      BY <3>2, <1>1
    <3> QED BY <3>3, <1>2
  <2>2. ASSUME NEW x \in D \X (1..n)
        PROVE  [i \in 0..n |-> IF i = x[2] THEN G[<<x[2], x[1][Up(ps, x[2])]>>] ELSE x[1][i]] \in D
    <3>1. x[1] \in D /\ x[2] \in 1..n
      OBVIOUS
    <3> QED BY <3>1, <2>1
  <2> QED BY <2>2, <1>3
<1>5. PICK d \in D : d = [i \in 0..n |-> c]
  BY <1>2
<1>6. RunsOf(D, n, F, d) # {}
  BY <1>4, Repeated
<1>7. PICK g \in [0..n -> D] : g[0] = d /\ \A k \in 1..n : g[k] = F[<<g[k - 1], k>>]
  BY <1>6 DEF RunsOf
<1>8. ASSUME NEW k \in 1..n
      PROVE  /\ k - 1 \in 0..n /\ g[k - 1] \in D
             /\ \A i \in 0..n : g[k][i] = IF i = k THEN G[<<k, g[k - 1][Up(ps, k)]>>] ELSE g[k - 1][i]
  <2>1. k - 1 \in 0..n
    OBVIOUS
  <2>2. g[k - 1] \in D /\ <<g[k - 1], k>> \in D \X (1..n)
    BY <2>1, <1>7
  <2>3. g[k] = [i \in 0..n |-> IF i = k THEN G[<<k, g[k - 1][Up(ps, k)]>>] ELSE g[k - 1][i]]
    BY <2>2, <1>3, <1>7
  <2> QED BY <2>1, <2>2, <2>3
<1> DEFINE Done(k) == /\ g[k][0] = c
                      /\ \A i \in 1..k : g[k][i] = G[<<i, g[k][Up(ps, i)]>>]
<1>9. PICK J : J = {k \in 0..n : Done(k)}
  OBVIOUS
<1>10. 0 \in J
  BY <1>5, <1>7, <1>9
<1>11. ASSUME NEW k \in 1..n, k - 1 \in J PROVE k \in J
  <2>1. Done(k - 1)
    BY <1>9, <1>11
  <2>2. \A i \in 0..n : i # k => g[k][i] = g[k - 1][i]
    BY <1>8
  <2>3. g[k][0] = c
    BY <2>1, <2>2
  <2>4. ASSUME NEW i \in 1..k PROVE g[k][i] = G[<<i, g[k][Up(ps, i)]>>]
    <3>1. Up(ps, i) \in 0..(i - 1) /\ Up(ps, i) \in 0..n /\ Up(ps, i) # k
      BY <1>1
    <3>2. g[k][Up(ps, i)] = g[k - 1][Up(ps, i)]
      BY <3>1, <2>2
    <3>3. CASE i = k
      BY <3>2, <3>3, <1>8
    <3>4. CASE i # k
      <4>1. i \in 1..(k - 1) /\ i \in 0..n
        BY <3>4
      <4>2. g[k][i] = g[k - 1][i]
        BY <4>1, <3>4, <2>2
      <4>3. g[k - 1][i] = G[<<i, g[k - 1][Up(ps, i)]>>]
        BY <4>1, <2>1
      <4> QED BY <3>2, <4>2, <4>3
    <3> QED BY <3>3, <3>4
  <2>5. Done(k)
    BY <2>3, <2>4
  <2> QED BY <2>5, <1>9
<1> HIDE DEF Done
<1>12. n \in J
  <2> Climbs(J, n)
    BY <1>10, <1>11 DEF Climbs
  <2> QED BY StepByStep
<1>13. Done(n) /\ g[n] \in [0..n -> C]
  BY <1>2, <1>7, <1>9, <1>12
<1> QED BY <1>1, <1>13 DEF Done, Backwards

\* Two that agree on what is owned agree, as far back as the promises do.
SameBack(ps, ps2, S) ==
    /\ S \subseteq DOMAIN ps /\ S \subseteq DOMAIN ps2 /\ DOMAIN ps \subseteq Nat
    /\ \A p \in S : /\ Up(ps2, p) = Up(ps, p) /\ Own(ps2, p) = Own(ps, p)
                    /\ Up(ps, p) # 0 => Up(ps, p) \in S /\ Up(ps, p) < p
LEMMA SameReach ==
    ASSUME NEW ps, NEW ps2, NEW f, NEW g, NEW S, SameBack(ps, ps2, S), ReachedBy(ps, f), ReachedBy(ps2, g)
    PROVE  \A p \in S : g[p] = f[p]
<1> USE DEF SameBack
<1>1. PICK T : T = {p \in S : g[p] # f[p]}
  OBVIOUS
<1>2. SUFFICES ASSUME T # {} PROVE FALSE
  BY <1>1
<1>3. T \subseteq Nat
  BY <1>1
<1>4. PICK p \in T : \A q \in T : p <= q
  BY <1>2, <1>3, LeastElement
<1>5. p \in S /\ p \in DOMAIN ps /\ p \in DOMAIN ps2 /\ g[p] # f[p] /\ p \in Nat
  BY <1>1, <1>3, <1>4
<1>6. f[p] = OrElse(Own(ps, p), f[Up(ps, p)]) /\ g[p] = OrElse(Own(ps, p), g[Up(ps, p)])
  BY <1>5 DEF ReachedBy
<1>7. g[Up(ps, p)] # f[Up(ps, p)]
  BY <1>5, <1>6
<1>8. Up(ps, p) # 0
  BY <1>7 DEF ReachedBy
<1>9. PICK u \in T : u = Up(ps, p) /\ u < p
  BY <1>1, <1>5, <1>7, <1>8
<1>10. u \in Nat /\ p \in Nat /\ p <= u
  BY <1>3, <1>4
<1> QED BY <1>9, <1>10

LEMMA UpsAreBefore ==
    ASSUME NEW ps, ps \in Seq(Promises), Descended(ps)
    PROVE  /\ DOMAIN ps \subseteq Nat
           /\ \A p \in DOMAIN ps : Up(ps, p) \in 0..(p - 1)
           /\ \A p \in DOMAIN ps : Up(ps, p) # 0 => Up(ps, p) \in DOMAIN ps /\ Up(ps, p) < p
  BY PromiseTypes DEF Descended

\* Every chain has reached something.
LEMMA SomethingIsReached ==
    ASSUME NEW ps, ps \in Seq(Promises), Descended(ps)
    PROVE  \E f : ReachedBy(ps, f)
<1>1. Len(ps) \in Nat /\ DOMAIN ps = 1..Len(ps) /\ \A p \in 1..Len(ps) : Up(ps, p) \in 0..(p - 1)
  BY PromiseTypes, UpsAreBefore
<1>2. \A p \in 1..Len(ps) : Own(ps, p) \in SegmentOrNone
  BY <1>1, PromiseTypes
<1>3. PICK G : G = [x \in (1..Len(ps)) \X SegmentOrNone |-> OrElse(Own(ps, x[1]), x[2])]
  OBVIOUS
<1>4. G \in [(1..Len(ps)) \X SegmentOrNone -> SegmentOrNone]
  BY <1>2, <1>3 DEF OrElse
<1>5. NoSegment \in SegmentOrNone
  BY DEF SegmentOrNone
<1>6. PICK f \in Backwards(ps, SegmentOrNone, NoSegment, G) : TRUE
  BY <1>1, <1>4, <1>5, GoingBack
<1>7. /\ f \in [0..Len(ps) -> SegmentOrNone] /\ f[0] = NoSegment
      /\ \A p \in 1..Len(ps) : f[p] = G[<<p, f[Up(ps, p)]>>]
  BY <1>6 DEF Backwards
<1>8. ASSUME NEW p \in 1..Len(ps) PROVE f[p] = OrElse(Own(ps, p), f[Up(ps, p)])
  <2>1. Up(ps, p) \in 0..Len(ps)
    BY <1>1
  <2>2. f[Up(ps, p)] \in SegmentOrNone
    BY <2>1, <1>7
  <2> QED BY <2>2, <1>3, <1>7
<1> QED BY <1>1, <1>7, <1>8 DEF ReachedBy

-----------------------------------------------------------------------------
LEMMA ReachedIsReached ==
    ASSUME ChainsGood(promises, tables)
    PROVE  ReachedBy(promises, SegmentReached)
<1>1. /\ Len(promises) \in Nat /\ DOMAIN promises = 1..Len(promises)
      /\ \A p \in 1..Len(promises) : Up(promises, p) \in 0..(p - 1) /\ Own(promises, p) \in SegmentOrNone
  BY PromiseTypes, UpsAreBefore DEF ChainsGood
<1>2. PICK G : G = [x \in (1..Len(promises)) \X SegmentOrNone |-> OrElse(Own(promises, x[1]), x[2])]
  OBVIOUS
<1>3. G \in [(1..Len(promises)) \X SegmentOrNone -> SegmentOrNone] /\ NoSegment \in SegmentOrNone
  BY <1>1, <1>2 DEF OrElse, SegmentOrNone
<1>4. PICK g \in Backwards(promises, SegmentOrNone, NoSegment, G) : TRUE
  BY <1>1, <1>3, GoingBack
<1>5. /\ g \in [0..Len(promises) -> SegmentOrNone] /\ g[0] = NoSegment
      /\ \A p \in 1..Len(promises) : g[p] = G[<<p, g[Up(promises, p)]>>]
  BY <1>4 DEF Backwards
<1> DEFINE next(m, k) == IF k = 0 THEN NoSegment ELSE OrElse(promises[k].own, m[promises[k].up])
<1>6. ASSUME NEW k \in 0..Len(promises) PROVE g[k] = next(g, k)
  <2>1. CASE k = 0
    BY <2>1, <1>5
  <2>2. CASE k # 0
    <3>1. k \in 1..Len(promises)
      BY <1>1, <2>2
    <3>2. Up(promises, k) \in 0..Len(promises)
      BY <1>1, <3>1
    <3>3. g[Up(promises, k)] \in SegmentOrNone
      BY <1>5, <3>2
    <3>4. g[k] = OrElse(Own(promises, k), g[Up(promises, k)])
      BY <1>2, <1>5, <3>1, <3>3
    <3> QED BY <2>2, <3>4 DEF Own, Up
  <2> QED BY <2>1, <2>2
<1>7. g = [k \in 0..Len(promises) |-> next(g, k)]
  <2>1. PICK h : h = [k \in 0..Len(promises) |-> next(g, k)]
    OBVIOUS
  <2> HIDE DEF next
  <2>2. g = h
    BY <2>1, <1>5, <1>6
  <2> QED BY <2>1, <2>2
<1>8. PICK m : m = CHOOSE mm : mm = [k \in 0..Len(promises) |-> next(mm, k)]
  OBVIOUS
<1>9. m = [k \in 0..Len(promises) |-> next(m, k)]
  <2> HIDE DEF next
  <2> QED BY <1>7, <1>8
<1>10. SegmentReached = m
  BY <1>8, Zenon DEF SegmentReached
<1>11. 0 \in 0..Len(promises) /\ \A p \in 1..Len(promises) : p \in 0..Len(promises) /\ p # 0
  BY <1>1
<1>12. m[0] = NoSegment /\ \A p \in 1..Len(promises) : m[p] = OrElse(promises[p].own, m[promises[p].up])
  <2>1. \A k \in 0..Len(promises) : m[k] = next(m, k)
    <3> HIDE DEF next
    <3> QED BY <1>9
  <2> QED BY <2>1, <1>11, Zenon
<1> HIDE DEF next
<1> QED BY <1>1, <1>10, <1>12 DEF ReachedBy, Own, Up

\* A promise of a chain and its root share a context.
LEMMA RootIsItsOwn ==
    ASSUME ChainsGood(promises, tables), NEW p \in DOMAIN promises, Ctx(promises, p) # 0
    PROVE  /\ ChainRoot[p] \in DOMAIN promises /\ Up(promises, ChainRoot[p]) = 0
           /\ Ctx(promises, ChainRoot[p]) = Ctx(promises, p)
<1>1. /\ Len(promises) \in Nat /\ DOMAIN promises = 1..Len(promises)
      /\ \A k \in 1..Len(promises) : Up(promises, k) \in 0..(k - 1)
  BY PromiseTypes, UpsAreBefore DEF ChainsGood
<1>2. PICK G : G = [x \in (1..Len(promises)) \X Nat |-> IF Up(promises, x[1]) = 0 THEN x[1] ELSE x[2]]
  OBVIOUS
<1>3. G \in [(1..Len(promises)) \X Nat -> Nat] /\ 0 \in Nat
  BY <1>1, <1>2
<1>4. PICK g \in Backwards(promises, Nat, 0, G) : TRUE
  BY <1>1, <1>3, GoingBack
<1>5. /\ g \in [0..Len(promises) -> Nat] /\ g[0] = 0
      /\ \A k \in 1..Len(promises) : g[k] = G[<<k, g[Up(promises, k)]>>]
  BY <1>4 DEF Backwards
<1> DEFINE next(m, k) == IF k = 0 \/ promises[k].up = 0 THEN k ELSE m[promises[k].up]
<1>6. ASSUME NEW k \in 0..Len(promises) PROVE g[k] = next(g, k)
  <2>1. CASE k = 0
    BY <2>1, <1>5
  <2>2. CASE k # 0
    <3>1. k \in 1..Len(promises)
      BY <1>1, <2>2
    <3>2. Up(promises, k) \in 0..Len(promises)
      BY <1>1, <3>1
    <3>3. g[Up(promises, k)] \in Nat
      BY <1>5, <3>2
    <3>4. g[k] = IF Up(promises, k) = 0 THEN k ELSE g[Up(promises, k)]
      BY <1>2, <1>5, <3>1, <3>3
    <3> QED BY <2>2, <3>4 DEF Up
  <2> QED BY <2>1, <2>2
<1>7. g = [k \in 0..Len(promises) |-> next(g, k)]
  <2>1. PICK h : h = [k \in 0..Len(promises) |-> next(g, k)]
    OBVIOUS
  <2> HIDE DEF next
  <2>2. g = h
    BY <2>1, <1>5, <1>6
  <2> QED BY <2>1, <2>2
<1>8. PICK m : m = CHOOSE mm : mm = [k \in 0..Len(promises) |-> next(mm, k)]
  OBVIOUS
<1>9. m = [k \in 0..Len(promises) |-> next(m, k)]
  <2> HIDE DEF next
  <2> QED BY <1>7, <1>8
<1>10. ChainRoot = m
  BY <1>8, Zenon DEF ChainRoot
<1>11. \A k \in 1..Len(promises) : k \in 0..Len(promises) /\ k # 0
  BY <1>1
<1>12. \A k \in 1..Len(promises) : m[k] = IF Up(promises, k) = 0 THEN k ELSE m[Up(promises, k)]
  <2>1. \A k \in 0..Len(promises) : m[k] = next(m, k)
    <3> HIDE DEF next
    <3> QED BY <1>9
  <2> QED BY <2>1, <1>11, Zenon DEF Up
<1> HIDE DEF next
<1>13. PICK T : T = {k \in DOMAIN promises :
                        /\ Ctx(promises, k) # 0
                        /\ ~(/\ m[k] \in DOMAIN promises /\ Up(promises, m[k]) = 0
                             /\ Ctx(promises, m[k]) = Ctx(promises, k))}
  OBVIOUS
<1>14. SUFFICES ASSUME T # {} PROVE FALSE
  BY <1>10, <1>13
<1>15. T \subseteq Nat
  BY <1>1, <1>13
<1>16. PICK k \in T : \A j \in T : k <= j
  BY <1>14, <1>15, LeastElement
<1>17. k \in DOMAIN promises /\ k \in 1..Len(promises) /\ Ctx(promises, k) # 0
  BY <1>1, <1>13, <1>16
<1>18. Up(promises, k) # 0
  BY <1>12, <1>13, <1>16, <1>17
<1>19. PICK u \in DOMAIN promises : u = Up(promises, k) /\ u < k /\ Ctx(promises, u) = Ctx(promises, k)
  BY <1>17, <1>18 DEF ChainsGood, Descended
<1>20. u \notin T
  <2>1. u \in Nat /\ k \in Nat
    BY <1>1, <1>17
  <2> QED BY <2>1, <1>16, <1>19
<1>21. m[k] = m[u]
  BY <1>12, <1>17, <1>18, <1>19
<1> QED BY <1>13, <1>16, <1>17, <1>19, <1>20, <1>21

LEMMA PromInvGives == PromInv => PromisesCorrect
<1> SUFFICES ASSUME PromInv PROVE PromisesCorrect
  OBVIOUS
<1>1. ChainsGood(promises, tables) /\ \A f : ReachedBy(promises, f) => TablesGood(promises, tables, crossed, f)
  BY DEF PromInv, Good
<1>2. /\ Len(promises) \in Nat /\ DOMAIN promises = 1..Len(promises)
      /\ \A p \in DOMAIN promises :
                 /\ p \in Nat /\ p # 0 /\ Ctx(promises, p) \in Nat
                 /\ Kid(promises, p) \in Nat \cup {Many} /\ Up(promises, p) \in Nat /\ Prev(promises, p) \in Nat
                 /\ Stage(promises, p) \in {"pending", "waiting", "done"}
  BY <1>1, PromiseTypes DEF ChainsGood
<1>3. Placed(promises, tables) /\ Descended(promises) /\ OneRoot(promises) /\ Filled(tables) /\ Owned(promises, tables)
  BY <1>1 DEF ChainsGood
<1>4. \A p \in DOMAIN promises : Up(promises, p) # 0 => Ctx(promises, p) # 0
  BY <1>3 DEF Descended
<1>5. PromTypeOK
  <2> SUFFICES ASSUME NEW p \in Chain
               PROVE  LET l == promises[p].link IN
                      /\ l.context \in 0 .. Len(tables)
                      /\ l.context # 0 => /\ l.idx \in DOMAIN tables[l.context]
                                          /\ l.parentIdx \in {0} \cup DOMAIN tables[l.context]
                                          /\ l.child \in {Many, 0} \cup Chain
                      /\ promises[p].status \in {"pending", "waiting", "done"}
                      /\ promises[p].prev < p /\ promises[p].up \in {0, promises[p].prev}
    BY DEF PromTypeOK
  <2>1. p \in DOMAIN promises
    BY DEF Chain
  <2>2. tables \in Seq(Seq(SegmentOrNone))
    BY <1>1 DEF ChainsGood
  <2>3. Len(tables) \in Nat
    BY <2>2, LenProperties
  <2>4. Ctx(promises, p) \in 0..Len(tables)
    BY <1>2, <1>3, <2>1, <2>3 DEF Placed
  <2>5. Ctx(promises, p) # 0 => /\ Idx(promises, p) \in DOMAIN tables[Ctx(promises, p)]
                                /\ Par(promises, p) \in {0} \cup DOMAIN tables[Ctx(promises, p)]
    <3> SUFFICES ASSUME Ctx(promises, p) # 0
                 PROVE  /\ Idx(promises, p) \in DOMAIN tables[Ctx(promises, p)]
                        /\ Par(promises, p) \in {0} \cup DOMAIN tables[Ctx(promises, p)]
      OBVIOUS
    <3>1. PICK c \in 1..Len(tables) : c = Ctx(promises, p)
      BY <1>3, <2>1 DEF Placed
    <3>2. tables[c] \in Seq(SegmentOrNone)
      BY <2>2, ElementOfSeq
    <3>3. DOMAIN tables[c] = 1..Len(tables[c]) /\ Len(tables[c]) \in Nat
      BY <3>2, LenProperties
    <3>4. Idx(promises, p) \in 1..Len(tables[c]) /\ Par(promises, p) \in 0..Len(tables[c])
      BY <1>3, <2>1, <3>1 DEF Placed, Size
    <3> QED BY <3>1, <3>3, <3>4
  <2>6. Kid(promises, p) \in {Many, 0} \cup Chain
    BY <1>3, <2>1 DEF Descended, Chain
  <2>7. Stage(promises, p) \in {"pending", "waiting", "done"}
    BY <1>2, <2>1
  <2>8. Prev(promises, p) < p /\ Up(promises, p) \in {0, Prev(promises, p)}
    BY <1>2, <1>3, <2>1 DEF Descended
  <2> QED BY <2>4, <2>5, <2>6, <2>7, <2>8 DEF Ctx, Idx, Par, Kid, Stage, Prev, Up
<1>6. AlwaysASegment
  <2> SUFFICES ASSUME NEW p \in DOMAIN promises, Ctx(promises, p) # 0
               PROVE  SegmentAt(tables, promises[p].link) # NoSegment
    BY DEF AlwaysASegment, Chain, Ctx
  <2>1. Tab(tables, Ctx(promises, p), 1) # NoSegment
    BY <1>3 DEF Placed, Filled
  <2> QED BY <2>1, SomethingIsSeen
<1>7. NoStrangersSegment
  <2> SUFFICES ASSUME NEW p \in DOMAIN promises, Ran(promises, p) # NoSegment, Up(promises, p) # 0
               PROVE  \E q \in DOMAIN promises : ChainRoot[q] = ChainRoot[p] /\ Own(promises, q) = Ran(promises, p)
    BY DEF NoStrangersSegment, Chain, Ran, Up, Own
  <2>1. PICK q \in DOMAIN promises : Ctx(promises, q) = Ctx(promises, p) /\ Own(promises, q) = Ran(promises, p)
    BY <1>3 DEF Owned
  <2>2. Ctx(promises, p) # 0
    BY <1>4
  <2>3. ChainRoot[q] = ChainRoot[p]
    BY <1>1, <1>3, <2>1, <2>2, RootIsItsOwn DEF OneRoot
  <2> QED BY <2>1, <2>3
<1>8. HandlersFollowTheirChain
  <2> SUFFICES ASSUME NEW p \in DOMAIN promises, Ran(promises, p) # NoSegment, Up(promises, p) # 0,
                      Ctx(promises, p) \notin crossed
               PROVE  Ran(promises, p) = SegmentReached[Up(promises, p)]
    BY DEF HandlersFollowTheirChain, Chain, Ran, Up, Ctx
  <2>1. TablesGood(promises, tables, crossed, SegmentReached)
    BY <1>1, ReachedIsReached
  <2>2. Plain(promises, crossed, p)
    BY <1>4 DEF Plain
  <2> QED BY <2>1, <2>2 DEF TablesGood, RanRight
<1> QED BY <1>5, <1>6, <1>7, <1>8 DEF PromisesCorrect

LEMMA PromStarts == PromInit => PromInv
<1> SUFFICES ASSUME promises = <<>>, tables = <<>> PROVE Good(promises, tables, crossed)
  BY DEF PromInit, PromInv
<1>1. DOMAIN promises = {} /\ promises \in Seq(Promises) /\ tables \in Seq(Seq(SegmentOrNone)) /\ Len(tables) = 0
  OBVIOUS
<1>2. ChainsGood(promises, tables)
  BY <1>1 DEF ChainsGood, Placed, Descended, OneRoot, InTurn, Filled, Owned, RootFirst
<1>3. ShapeGood(promises, crossed)
  BY <1>1 DEF ShapeGood, OneBranching, NoGaps, FromAbove, InLine, OneLine, TrunkEnds, LineInTurn, TrunkInTurn
<1>4. ASSUME NEW f PROVE TablesGood(promises, tables, crossed, f)
  BY <1>1 DEF TablesGood, FirstIsEmpty, NextSees, RootSees, EndLeaves, LastIsFirst, RanRight
<1> QED BY <1>2, <1>3, <1>4 DEF Good

-----------------------------------------------------------------------------
\* What is so in the contexts the algorithm accounts for is so in fewer of them.
LEMMA FewerArePlain ==
    ASSUME NEW ps, NEW ts, NEW cr, NEW cr2, cr \subseteq cr2, Good(ps, ts, cr)
    PROVE  Good(ps, ts, cr2)
<1>1. \A p : Plain(ps, cr2, p) => Plain(ps, cr, p)
  BY DEF Plain
<1>2. \A p, q : Together(ps, cr2, p, q) => Together(ps, cr, p, q)
  BY <1>1 DEF Together
<1>3. \A p, q : Alike(ps, cr2, p, q) => Alike(ps, cr, p, q)
  BY <1>2 DEF Alike
<1>4. ShapeGood(ps, cr)
  BY DEF Good
<1>5. OneBranching(ps, cr2) /\ TrunkEnds(ps, cr2) /\ TrunkInTurn(ps, cr2)
  BY <1>2, <1>4 DEF ShapeGood, OneBranching, TrunkEnds, TrunkInTurn
<1>6. NoGaps(ps, cr2) /\ FromAbove(ps, cr2) /\ OneLine(ps, cr2)
  BY <1>1, <1>4 DEF ShapeGood, NoGaps, FromAbove, OneLine
<1>7. InLine(ps, cr2) /\ LineInTurn(ps, cr2)
  BY <1>3, <1>4 DEF ShapeGood, InLine, LineInTurn
<1>8. ASSUME NEW f, ReachedBy(ps, f) PROVE TablesGood(ps, ts, cr2, f)
  <2>1. TablesGood(ps, ts, cr, f)
    BY <1>8 DEF Good
  <2> QED BY <1>1, <2>1 DEF TablesGood, FirstIsEmpty, NextSees, RootSees, EndLeaves, LastIsFirst, RanRight
<1> QED BY <1>5, <1>6, <1>7, <1>8 DEF Good, ShapeGood

\* Where the promises are, and how far.
SamePlaces(ps, ps2) ==
    /\ DOMAIN ps2 = DOMAIN ps
    /\ \A q \in DOMAIN ps : /\ Ctx(ps2, q) = Ctx(ps, q) /\ Idx(ps2, q) = Idx(ps, q) /\ Par(ps2, q) = Par(ps, q)
                            /\ Kid(ps2, q) = Kid(ps, q) /\ Up(ps2, q) = Up(ps, q) /\ Prev(ps2, q) = Prev(ps, q)
SameRuns(ps, ps2) ==
    /\ DOMAIN ps2 = DOMAIN ps
    /\ \A q \in DOMAIN ps : /\ Stage(ps2, q) = Stage(ps, q) /\ Cont(ps2, q) = Cont(ps, q)
                            /\ Own(ps2, q) = Own(ps, q) /\ Ran(ps2, q) = Ran(ps, q)

LEMMA PlacesStay ==
    ASSUME NEW ps, NEW ps2, NEW cr, SamePlaces(ps, ps2), Descended(ps)
    PROVE  /\ Descended(ps2)
           /\ OneRoot(ps) => OneRoot(ps2)
           /\ OneBranching(ps, cr) => OneBranching(ps2, cr)
           /\ FromAbove(ps, cr) => FromAbove(ps2, cr)
           /\ InLine(ps, cr) => InLine(ps2, cr)
           /\ OneLine(ps, cr) => OneLine(ps2, cr)
           /\ TrunkEnds(ps, cr) => TrunkEnds(ps2, cr)
           /\ \A p : Plain(ps2, cr, p) <=> Plain(ps, cr, p)
           /\ \A p, q : Together(ps2, cr, p, q) <=> Together(ps, cr, p, q)
           /\ \A p, q : Alike(ps2, cr, p, q) <=> Alike(ps, cr, p, q)
           /\ \A c : Unbranched(ps2, c) <=> Unbranched(ps, c)
<1>1. \A p : Plain(ps2, cr, p) <=> Plain(ps, cr, p)
  BY DEF SamePlaces, Plain
<1>2. \A p, q : Together(ps2, cr, p, q) <=> Together(ps, cr, p, q)
  BY <1>1 DEF SamePlaces, Plain, Together
<1>3. \A p, q : Alike(ps2, cr, p, q) <=> Alike(ps, cr, p, q)
  BY <1>2 DEF SamePlaces, Together, Alike, Plain
<1>4. \A c : Unbranched(ps2, c) <=> Unbranched(ps, c)
  BY DEF SamePlaces, Unbranched
<1>5. \A p \in DOMAIN ps : Up(ps, p) # 0 => Up(ps, p) \in DOMAIN ps
  BY DEF Descended
<1>6. Descended(ps2)
  BY DEF SamePlaces, Descended
<1>7. OneRoot(ps) => OneRoot(ps2)
  BY DEF SamePlaces, OneRoot
<1>8. OneBranching(ps, cr) => OneBranching(ps2, cr)
  BY <1>2 DEF SamePlaces, OneBranching
<1>9. FromAbove(ps, cr) => FromAbove(ps2, cr)
  BY <1>1, <1>5 DEF SamePlaces, FromAbove
<1>10. InLine(ps, cr) => InLine(ps2, cr)
  BY <1>3, <1>5 DEF SamePlaces, InLine
<1>11. OneLine(ps, cr) => OneLine(ps2, cr)
  BY <1>1, <1>4 DEF SamePlaces, OneLine
<1>12. TrunkEnds(ps, cr) => TrunkEnds(ps2, cr)
  BY <1>2, <1>5 DEF SamePlaces, TrunkEnds
<1> QED BY <1>1, <1>2, <1>3, <1>4, <1>6, <1>7, <1>8, <1>9, <1>10, <1>11, <1>12

\* A promise drops its link.
LEMMA DroppingKeeps ==
    ASSUME NEW ps, NEW ts, NEW cr, NEW ps2, NEW p \in DOMAIN ps,
           Good(ps, ts, cr), ps2 \in Seq(Promises), SamePlaces(ps, ps2), SameRuns(ps, ps2),
           ~Linked(ps2, p), \A q \in DOMAIN ps : q # p => (Linked(ps2, q) <=> Linked(ps, q)),
           Linked(ps, p) /\ Kid(ps, p) # 0 /\ Stage(ps, p) = "pending" => Ctx(ps, p) \in cr
    PROVE  Good(ps2, ts, cr)
<1>1. ChainsGood(ps, ts) /\ ShapeGood(ps, cr) /\ \A f : ReachedBy(ps, f) => TablesGood(ps, ts, cr, f)
  BY DEF Good
<1>2. /\ Descended(ps)
      /\ \A q \in DOMAIN ps : Up(ps, q) # 0 => Up(ps, q) \in DOMAIN ps
      /\ \A q \in DOMAIN ps : Prev(ps, q) # 0 => Prev(ps, q) \in DOMAIN ps
  BY <1>1 DEF ChainsGood, Descended
<1>3. /\ \A q : Plain(ps2, cr, q) <=> Plain(ps, cr, q)
      /\ \A q, r : Together(ps2, cr, q, r) <=> Together(ps, cr, q, r)
      /\ \A q, r : Alike(ps2, cr, q, r) <=> Alike(ps, cr, q, r)
      /\ \A c : Unbranched(ps2, c) <=> Unbranched(ps, c)
  BY <1>2, PlacesStay
<1>4. DOMAIN ps2 = DOMAIN ps
  BY DEF SamePlaces
<1>5. ChainsGood(ps2, ts)
  <2>1. Placed(ps2, ts)
    <3>1. Placed(ps, ts)
      BY <1>1 DEF ChainsGood
    <3> QED BY <3>1 DEF Placed, SamePlaces, SameRuns
  <2>2. Descended(ps2) /\ OneRoot(ps2)
    BY <1>1, <1>2, PlacesStay DEF ChainsGood
  <2>3. InTurn(ps2)
    <3>1. InTurn(ps)
      BY <1>1 DEF ChainsGood
    <3> QED BY <3>1, <1>2 DEF InTurn, SamePlaces, SameRuns
  <2>4. Owned(ps2, ts)
    <3>1. Owned(ps, ts)
      BY <1>1 DEF ChainsGood
    <3> QED BY <3>1 DEF Owned, SamePlaces, SameRuns
  <2>5. RootFirst(ps2, ts)
    <3>1. RootFirst(ps, ts)
      BY <1>1 DEF ChainsGood
    <3> QED BY <3>1 DEF RootFirst, SamePlaces, SameRuns
  <2> QED BY <1>1, <2>1, <2>2, <2>3, <2>4, <2>5 DEF ChainsGood
<1>6. ShapeGood(ps2, cr)
  <2>1. /\ OneBranching(ps2, cr) /\ FromAbove(ps2, cr) /\ InLine(ps2, cr) /\ OneLine(ps2, cr) /\ TrunkEnds(ps2, cr)
    BY <1>1, <1>2, PlacesStay DEF ShapeGood
  <2>2. NoGaps(ps2, cr)
    <3>1. NoGaps(ps, cr)
      BY <1>1 DEF ShapeGood
    <3> QED BY <3>1, <1>3 DEF NoGaps, SamePlaces, SameRuns, Plain
  <2>3. LineInTurn(ps2, cr)
    <3>1. LineInTurn(ps, cr)
      BY <1>1 DEF ShapeGood
    <3> QED BY <3>1, <1>3, <1>4 DEF LineInTurn, SameRuns
  <2>4. TrunkInTurn(ps2, cr)
    <3>1. TrunkInTurn(ps, cr)
      BY <1>1 DEF ShapeGood
    <3> QED BY <3>1, <1>3, <1>4 DEF TrunkInTurn, SameRuns, SamePlaces
  <2> QED BY <2>1, <2>2, <2>3, <2>4 DEF ShapeGood
<1>7. ASSUME NEW f, ReachedBy(ps2, f) PROVE TablesGood(ps2, ts, cr, f)
  <2>1. ReachedBy(ps, f)
    BY <1>7 DEF ReachedBy, SamePlaces, SameRuns
  <2>2. TablesGood(ps, ts, cr, f)
    BY <1>1, <2>1
  <2>3. FirstIsEmpty(ps2, ts, cr)
    BY <2>2, <1>2, <1>3, <1>4 DEF TablesGood, FirstIsEmpty, SamePlaces, SameRuns
  <2>4. \A q \in DOMAIN ps : Sees(ps2, ts, q) = Sees(ps, ts, q) /\ Leaves(ps2, ts, q) = Leaves(ps, ts, q)
    BY DEF Sees, Leaves, SamePlaces
  <2>5. NextSees(ps2, ts, cr, f)
    BY <2>2, <2>4, <1>2, <1>3, <1>4 DEF TablesGood, NextSees, SamePlaces, SameRuns
  <2>6. RootSees(ps2, ts, cr)
    BY <2>2, <1>3, <1>4 DEF TablesGood, RootSees, SamePlaces, SameRuns
  <2>7. EndLeaves(ps2, ts, cr, f)
    BY <2>2, <2>4, <1>3, <1>4 DEF TablesGood, EndLeaves, SamePlaces, SameRuns
  <2>8. LastIsFirst(ps2, ts, cr)
    <3>1. \A q \in DOMAIN ps : NoneAfter(ps2, q) => NoneAfter(ps, q)
      BY <1>4 DEF NoneAfter, SamePlaces, SameRuns
    <3> QED BY <2>2, <3>1, <1>3, <1>4 DEF TablesGood, LastIsFirst, SamePlaces, SameRuns
  <2>9. RanRight(ps2, cr, f)
    BY <2>2, <1>3, <1>4 DEF TablesGood, RanRight, SamePlaces, SameRuns
  <2> QED BY <2>3, <2>5, <2>6, <2>7, <2>8, <2>9 DEF TablesGood
<1> QED BY <1>5, <1>6, <1>7 DEF Good

-----------------------------------------------------------------------------
\* Every place is one of its table's.
LEMMA InsideTables ==
    ASSUME NEW ps, NEW ts, ChainsGood(ps, ts)
    PROVE  /\ Len(ts) \in Nat
           /\ \A c \in 1..Len(ts) : /\ Size(ts, c) \in Nat /\ Size(ts, c) > 0 /\ 1 \in 1..Size(ts, c)
                                    /\ Tab(ts, c, 1) # NoSegment /\ ts[c] \in Seq(SegmentOrNone)
           /\ \A p \in DOMAIN ps : Ctx(ps, p) # 0 =>
                  /\ Ctx(ps, p) \in 1..Len(ts) /\ Idx(ps, p) \in 1..Size(ts, Ctx(ps, p))
                  /\ Par(ps, p) # 0 => Par(ps, p) \in 1..Size(ts, Ctx(ps, p))
<1>1. ts \in Seq(Seq(SegmentOrNone)) /\ Filled(ts) /\ Placed(ps, ts)
  BY DEF ChainsGood
<1>2. Len(ts) \in Nat
  BY <1>1, LenProperties
<1>3. ASSUME NEW c \in 1..Len(ts)
      PROVE  /\ Size(ts, c) \in Nat /\ Size(ts, c) > 0 /\ 1 \in 1..Size(ts, c)
             /\ Tab(ts, c, 1) # NoSegment /\ ts[c] \in Seq(SegmentOrNone)
  <2>1. ts[c] \in Seq(SegmentOrNone)
    BY <1>1, ElementOfSeq
  <2>2. Size(ts, c) \in Nat
    BY <2>1, LenProperties DEF Size
  <2>3. Size(ts, c) > 0 /\ Tab(ts, c, 1) # NoSegment
    BY <1>1 DEF Filled
  <2>4. 1 \in 1..Size(ts, c)
    BY <2>2, <2>3
  <2> QED BY <2>1, <2>2, <2>3, <2>4
<1>4. ASSUME NEW p \in DOMAIN ps, Ctx(ps, p) # 0
      PROVE  /\ Ctx(ps, p) \in 1..Len(ts) /\ Idx(ps, p) \in 1..Size(ts, Ctx(ps, p))
             /\ Par(ps, p) # 0 => Par(ps, p) \in 1..Size(ts, Ctx(ps, p))
  <2>1. PICK c \in 1..Len(ts) : c = Ctx(ps, p)
    BY <1>1, <1>4 DEF Placed
  <2>2. PICK n \in Nat : n = Size(ts, c)
    BY <1>3
  <2>3. Idx(ps, p) \in 1..n /\ Par(ps, p) \in 0..n
    BY <1>1, <1>4, <2>1, <2>2 DEF Placed
  <2>4. Par(ps, p) # 0 => Par(ps, p) \in 1..n
    BY <2>3
  <2> QED BY <2>1, <2>2, <2>3, <2>4
<1> QED BY <1>2, <1>3, <1>4

\* One promise more, of which none of the others comes.
OneMore(ps, ps2, n) ==
    /\ n \in Nat /\ n # 0 /\ n \notin DOMAIN ps /\ DOMAIN ps2 = DOMAIN ps \cup {n}
    /\ \A q \in DOMAIN ps : q \in Nat /\ q < n
Untouched(ps, ps2, q) ==
    /\ Ctx(ps2, q) = Ctx(ps, q) /\ Idx(ps2, q) = Idx(ps, q) /\ Par(ps2, q) = Par(ps, q)
    /\ Up(ps2, q) = Up(ps, q) /\ Prev(ps2, q) = Prev(ps, q) /\ Stage(ps2, q) = Stage(ps, q)
    /\ Cont(ps2, q) = Cont(ps, q) /\ Own(ps2, q) = Own(ps, q) /\ Ran(ps2, q) = Ran(ps, q)
    /\ Linked(ps2, q) <=> Linked(ps, q)
SameTables(ts, ts2) ==
    \A c \in 1..Len(ts) : Size(ts2, c) = Size(ts, c) /\ \A i \in 1..Size(ts, c) : Tab(ts2, c, i) = Tab(ts, c, i)
\* A promise out of any context, or the root of a new one.
AtTop(ps, ts, ps2, ts2, n) ==
    /\ OneMore(ps, ps2, n) /\ SameTables(ts, ts2)
    /\ \A q \in DOMAIN ps : Untouched(ps, ps2, q) /\ Kid(ps2, q) = Kid(ps, q)
    /\ Up(ps2, n) = 0 /\ Kid(ps2, n) = 0 /\ Stage(ps2, n) = "pending" /\ Ran(ps2, n) = NoSegment
    /\ Prev(ps2, n) = 0 \/ Prev(ps2, n) \in DOMAIN ps
    /\ Len(ts) \in Nat
    /\ \/ /\ Ctx(ps2, n) = 0 /\ Own(ps2, n) = NoSegment /\ ~Linked(ps2, n) /\ Len(ts2) = Len(ts)
       \/ /\ Ctx(ps2, n) = Len(ts) + 1 /\ Own(ps2, n) # NoSegment /\ Linked(ps2, n) /\ Len(ts2) = Len(ts) + 1
          /\ Idx(ps2, n) = 1 /\ Par(ps2, n) = 0
          /\ Size(ts2, Len(ts) + 1) = 1 /\ Tab(ts2, Len(ts) + 1, 1) = Own(ps2, n)

LEMMA TopKeepsChains ==
    ASSUME NEW ps, NEW ts, NEW ps2, NEW ts2, NEW n,
           ChainsGood(ps, ts), ps2 \in Seq(Promises), ts2 \in Seq(Seq(SegmentOrNone)), AtTop(ps, ts, ps2, ts2, n)
    PROVE  ChainsGood(ps2, ts2)
<1>1. OneMore(ps, ps2, n) /\ SameTables(ts, ts2)
  BY DEF AtTop
<1>2. \A q \in DOMAIN ps : Untouched(ps, ps2, q) /\ Kid(ps2, q) = Kid(ps, q)
  BY DEF AtTop
<1>3. /\ Up(ps2, n) = 0 /\ Kid(ps2, n) = 0 /\ Stage(ps2, n) = "pending" /\ Ran(ps2, n) = NoSegment
      /\ Prev(ps2, n) = 0 \/ Prev(ps2, n) \in DOMAIN ps
  BY DEF AtTop
<1>4. \A q \in DOMAIN ps : Ctx(ps, q) # 0 => Ctx(ps, q) \in 1..Len(ts)
  BY DEF ChainsGood, Placed
<1>5. \A q \in DOMAIN ps : Ctx(ps2, q) # 0 => Ctx(ps2, q) # Ctx(ps2, n) /\ Ctx(ps2, q) = Ctx(ps, q) /\ Ctx(ps2, q) \in 1..Len(ts)
  BY <1>2, <1>4 DEF AtTop, Untouched
<1>6. Placed(ps2, ts2)
  <2>1. ASSUME NEW p \in DOMAIN ps2
        PROVE  /\ Ctx(ps2, p) # 0 => /\ Ctx(ps2, p) \in 1..Len(ts2)
                                     /\ Idx(ps2, p) \in 1..Size(ts2, Ctx(ps2, p))
                                     /\ Par(ps2, p) \in 0..Size(ts2, Ctx(ps2, p))
               /\ Ctx(ps2, p) = 0 => /\ ~Linked(ps2, p) /\ Up(ps2, p) = 0
                                     /\ Own(ps2, p) = NoSegment /\ Ran(ps2, p) = NoSegment
               /\ Up(ps2, p) = 0 /\ Ctx(ps2, p) # 0 => Own(ps2, p) # NoSegment /\ Idx(ps2, p) = 1 /\ Par(ps2, p) = 0
    <3>1. CASE p \in DOMAIN ps
      <4>1. Untouched(ps, ps2, p)
        BY <1>2, <3>1
      <4>2. Ctx(ps, p) # 0 => Size(ts2, Ctx(ps, p)) = Size(ts, Ctx(ps, p)) /\ Ctx(ps, p) \in 1..Len(ts2)
        BY <1>1, <1>4, <3>1 DEF SameTables, AtTop
      <4>3. Placed(ps, ts)
        BY DEF ChainsGood
      <4> QED BY <3>1, <4>1, <4>2, <4>3 DEF Placed, Untouched
    <3>2. CASE p = n
      BY <1>3, <3>2 DEF AtTop
    <3> QED BY <1>1, <3>1, <3>2 DEF OneMore
  <2> QED BY <2>1 DEF Placed
<1>7. Descended(ps2)
  <2>1. Descended(ps)
    BY DEF ChainsGood
  <2>2. ASSUME NEW p \in DOMAIN ps2
        PROVE  /\ Prev(ps2, p) # 0 => Prev(ps2, p) \in DOMAIN ps2 /\ Prev(ps2, p) < p
               /\ Up(ps2, p) # 0 => /\ Up(ps2, p) = Prev(ps2, p) /\ Up(ps2, p) \in DOMAIN ps2 /\ Up(ps2, p) < p
                                    /\ Ctx(ps2, Up(ps2, p)) = Ctx(ps2, p) /\ Ctx(ps2, p) # 0 /\ Par(ps2, p) # 0
                                    /\ Kid(ps2, Up(ps2, p)) \in {p, Many}
               /\ Kid(ps2, p) \notin {0, Many} => /\ Kid(ps2, p) \in DOMAIN ps2 /\ p < Kid(ps2, p)
                                                  /\ Up(ps2, Kid(ps2, p)) = p
    <3>1. CASE p \in DOMAIN ps
      BY <1>1, <1>2, <2>1, <3>1 DEF Descended, Untouched, OneMore
    <3>2. CASE p = n
      BY <1>1, <1>3, <3>2 DEF OneMore
    <3> QED BY <1>1, <3>1, <3>2 DEF OneMore
  <2> QED BY <2>2 DEF Descended
<1>8. OneRoot(ps2)
  <2>1. OneRoot(ps)
    BY DEF ChainsGood
  <2>2. ASSUME NEW p \in DOMAIN ps2, NEW q \in DOMAIN ps2,
               Ctx(ps2, p) = Ctx(ps2, q), Ctx(ps2, p) # 0, Up(ps2, p) = 0, Up(ps2, q) = 0
        PROVE  p = q
    <3>1. CASE p \in DOMAIN ps /\ q \in DOMAIN ps
      BY <1>2, <2>1, <2>2, <3>1 DEF OneRoot, Untouched
    <3>2. CASE p = n \/ q = n
      BY <1>1, <1>5, <2>2, <3>2 DEF OneMore
    <3> QED BY <1>1, <3>1, <3>2 DEF OneMore
  <2> QED BY <2>2 DEF OneRoot
<1>9. InTurn(ps2)
  <2>1. InTurn(ps) /\ Descended(ps)
    BY DEF ChainsGood
  <2>2. ASSUME NEW p \in DOMAIN ps2
        PROVE  /\ Stage(ps2, p) = "waiting" => Cont(ps2, p) # NoSegment /\ Ctx(ps2, p) # 0
               /\ Stage(ps2, p) # "pending" /\ Prev(ps2, p) # 0 => Stage(ps2, Prev(ps2, p)) = "done"
               /\ Own(ps2, p) # NoSegment /\ Up(ps2, p) # 0 => Stage(ps2, p) = "done"
               /\ Ran(ps2, p) # NoSegment => Stage(ps2, p) # "pending"
    <3>1. CASE p \in DOMAIN ps
      BY <1>2, <2>1, <3>1 DEF Descended, InTurn, Untouched
    <3>2. CASE p = n
      BY <1>3, <3>2
    <3> QED BY <1>1, <3>1, <3>2 DEF OneMore
  <2> QED BY <2>2 DEF InTurn
<1>10. Filled(ts2)
  <2>1. ASSUME NEW c \in 1..Len(ts2) PROVE Size(ts2, c) > 0 /\ Tab(ts2, c, 1) # NoSegment
    <3>1. CASE c \in 1..Len(ts)
      <4>1. Size(ts, c) > 0 /\ 1 \in 1..Size(ts, c) /\ Tab(ts, c, 1) # NoSegment
        BY <3>1, InsideTables
      <4> QED BY <1>1, <3>1, <4>1 DEF SameTables
    <3>2. CASE c \notin 1..Len(ts)
      BY <3>2 DEF AtTop
    <3> QED BY <3>1, <3>2
  <2> QED BY <2>1 DEF Filled
<1>11. Owned(ps2, ts2)
  <2>1. Owned(ps, ts)
    BY DEF ChainsGood
  <2>2. ASSUME NEW c \in 1..Len(ts2), NEW i \in 1..Size(ts2, c), Tab(ts2, c, i) # NoSegment
        PROVE  \E q \in DOMAIN ps2 : Ctx(ps2, q) = c /\ Own(ps2, q) = Tab(ts2, c, i)
    <3>1. CASE c \in 1..Len(ts)
      <4>1. i \in 1..Size(ts, c) /\ Tab(ts2, c, i) = Tab(ts, c, i)
        BY <1>1, <3>1 DEF SameTables
      <4>2. PICK q \in DOMAIN ps : Ctx(ps, q) = c /\ Own(ps, q) = Tab(ts, c, i)
        BY <2>1, <2>2, <3>1, <4>1 DEF Owned
      <4> QED BY <1>1, <1>2, <4>1, <4>2 DEF Untouched, OneMore
    <3>2. CASE c \notin 1..Len(ts)
      <4>1. c = Len(ts) + 1 /\ Ctx(ps2, n) = c /\ Size(ts2, c) = 1 /\ Tab(ts2, c, 1) = Own(ps2, n)
        BY <3>2 DEF AtTop
      <4>2. i = 1
        BY <4>1
      <4> QED BY <1>1, <4>1, <4>2 DEF OneMore
    <3> QED BY <3>1, <3>2
  <2>3. ASSUME NEW p \in DOMAIN ps2, Ran(ps2, p) # NoSegment, Up(ps2, p) # 0
        PROVE  \E q \in DOMAIN ps2 : Ctx(ps2, q) = Ctx(ps2, p) /\ Own(ps2, q) = Ran(ps2, p)
    <3>1. p \in DOMAIN ps
      BY <1>1, <1>3, <2>3 DEF OneMore
    <3>2. PICK q \in DOMAIN ps : Ctx(ps, q) = Ctx(ps, p) /\ Own(ps, q) = Ran(ps, p)
      BY <1>2, <2>1, <2>3, <3>1 DEF Owned, Untouched
    <3> QED BY <1>1, <1>2, <3>1, <3>2 DEF Untouched, OneMore
  <2> QED BY <2>2, <2>3 DEF Owned
<1>12. RootFirst(ps2, ts2)
  <2>1. RootFirst(ps, ts)
    BY DEF ChainsGood
  <2>2. ASSUME NEW r \in DOMAIN ps2, Ctx(ps2, r) # 0, Up(ps2, r) = 0, Stage(ps2, r) # "done"
        PROVE  /\ \A p \in DOMAIN ps2 : Ctx(ps2, p) = Ctx(ps2, r) /\ p # r =>
                      Stage(ps2, p) = "pending" /\ Ran(ps2, p) = NoSegment
               /\ \A i \in 2..Size(ts2, Ctx(ps2, r)) : Tab(ts2, Ctx(ps2, r), i) = NoSegment
    <3>1. CASE r \in DOMAIN ps
      <4>1. /\ \A p \in DOMAIN ps : Ctx(ps, p) = Ctx(ps, r) /\ p # r =>
                      Stage(ps, p) = "pending" /\ Ran(ps, p) = NoSegment
            /\ \A i \in 2..Size(ts, Ctx(ps, r)) : Tab(ts, Ctx(ps, r), i) = NoSegment
        BY <1>2, <2>1, <2>2, <3>1 DEF RootFirst, Untouched
      <4>2. Ctx(ps2, r) = Ctx(ps, r) /\ Ctx(ps, r) \in 1..Len(ts) /\ Ctx(ps2, n) # Ctx(ps2, r)
        BY <1>5, <2>2, <3>1
      <4>3. \A p \in DOMAIN ps2 : Ctx(ps2, p) = Ctx(ps2, r) /\ p # r =>
                Stage(ps2, p) = "pending" /\ Ran(ps2, p) = NoSegment
        BY <1>1, <1>2, <4>1, <4>2 DEF OneMore, Untouched
      <4>4. Size(ts2, Ctx(ps2, r)) = Size(ts, Ctx(ps, r))
        BY <1>1, <4>2 DEF SameTables
      <4>5. \A i \in 2..Size(ts2, Ctx(ps2, r)) : i \in 1..Size(ts, Ctx(ps, r))
        BY <4>4
      <4>6. \A i \in 2..Size(ts2, Ctx(ps2, r)) : Tab(ts2, Ctx(ps2, r), i) = NoSegment
        BY <1>1, <4>1, <4>2, <4>4, <4>5 DEF SameTables
      <4> QED BY <4>3, <4>6
    <3>2. CASE r = n
      <4>1. Size(ts2, Ctx(ps2, n)) = 1
        BY <2>2, <3>2 DEF AtTop
      <4> QED BY <1>1, <1>5, <2>2, <3>2, <4>1 DEF OneMore
    <3> QED BY <1>1, <3>1, <3>2 DEF OneMore
  <2> QED BY <2>2 DEF RootFirst
<1> QED BY <1>6, <1>7, <1>8, <1>9, <1>10, <1>11, <1>12 DEF ChainsGood

LEMMA TopKeeps ==
    ASSUME NEW ps, NEW ts, NEW cr, NEW ps2, NEW ts2, NEW n,
           Good(ps, ts, cr), ps2 \in Seq(Promises), ts2 \in Seq(Seq(SegmentOrNone)), AtTop(ps, ts, ps2, ts2, n)
    PROVE  Good(ps2, ts2, cr)
<1>1. OneMore(ps, ps2, n) /\ SameTables(ts, ts2)
  BY DEF AtTop
<1>2. \A q \in DOMAIN ps : Untouched(ps, ps2, q) /\ Kid(ps2, q) = Kid(ps, q)
  BY DEF AtTop
<1>3. /\ Up(ps2, n) = 0 /\ Kid(ps2, n) = 0 /\ Stage(ps2, n) = "pending" /\ Ran(ps2, n) = NoSegment
  BY DEF AtTop
<1>4. ChainsGood(ps, ts) /\ ShapeGood(ps, cr)
  BY DEF Good
<1>5. /\ \A q \in DOMAIN ps : Ctx(ps, q) # 0 => /\ Ctx(ps, q) \in 1..Len(ts) /\ Ctx(ps, q) # Ctx(ps2, n)
                                                /\ Idx(ps, q) \in 1..Size(ts, Ctx(ps, q))
                                                /\ Par(ps, q) \in 0..Size(ts, Ctx(ps, q))
  BY <1>4 DEF ChainsGood, Placed, AtTop
<1>6. \A q \in DOMAIN ps : /\ Up(ps, q) # 0 => Up(ps, q) \in DOMAIN ps /\ Par(ps, q) # 0
                           /\ Kid(ps, q) \notin {0, Many} => Kid(ps, q) \in DOMAIN ps
  BY <1>4 DEF ChainsGood, Descended
<1>7. /\ \A p : Plain(ps2, cr, p) => p = n \/ Plain(ps, cr, p)
      /\ \A p \in DOMAIN ps : Plain(ps2, cr, p) => Plain(ps, cr, p)
  BY <1>1, <1>2 DEF Plain, OneMore, Untouched
<1>8. \A p, q : Together(ps2, cr, p, q) => (p = n /\ q = n) \/ (p \in DOMAIN ps /\ q \in DOMAIN ps /\ Together(ps, cr, p, q))
  <2> SUFFICES ASSUME NEW p, NEW q, Together(ps2, cr, p, q), ~(p = n /\ q = n)
               PROVE  p \in DOMAIN ps /\ q \in DOMAIN ps /\ Together(ps, cr, p, q)
    OBVIOUS
  <2>1. p \in DOMAIN ps2 /\ q \in DOMAIN ps2 /\ Ctx(ps2, p) # 0 /\ Ctx(ps2, q) = Ctx(ps2, p) /\ Ctx(ps2, p) \notin cr
    BY DEF Together, Plain
  <2>2. p \in DOMAIN ps /\ q \in DOMAIN ps
    BY <1>1, <1>2, <1>5, <2>1 DEF OneMore, Untouched
  <2> QED BY <1>2, <2>1, <2>2 DEF Together, Plain, Untouched
<1>9. \A p, q : Alike(ps2, cr, p, q) => (p = n /\ q = n) \/ (p \in DOMAIN ps /\ q \in DOMAIN ps /\ Alike(ps, cr, p, q))
  BY <1>2, <1>8 DEF Alike, Untouched
<1>10. \A p \in DOMAIN ps : Unbranched(ps2, Ctx(ps2, p)) => Unbranched(ps, Ctx(ps, p))
  BY <1>1, <1>2 DEF Unbranched, OneMore, Untouched
<1>11. n \in Nat /\ n # 0 /\ n \notin DOMAIN ps /\ DOMAIN ps2 = DOMAIN ps \cup {n} /\ ~(n < n)
  BY <1>1 DEF OneMore
<1>12. ShapeGood(ps2, cr)
  <2>1. OneBranching(ps2, cr)
    BY <1>2, <1>4, <1>8, <1>11 DEF ShapeGood, OneBranching
  <2>2. NoGaps(ps2, cr)
    BY <1>2, <1>3, <1>4, <1>7, <1>11 DEF ShapeGood, NoGaps, Untouched
  <2>3. FromAbove(ps2, cr)
    BY <1>2, <1>3, <1>4, <1>6, <1>7, <1>11 DEF ShapeGood, FromAbove, Untouched
  <2>4. InLine(ps2, cr)
    <3> SUFFICES ASSUME NEW p \in DOMAIN ps2, NEW q \in DOMAIN ps2, Alike(ps2, cr, p, q), p < q
                 PROVE  /\ Up(ps2, q) # 0 /\ Idx(ps2, Up(ps2, q)) = Idx(ps2, q) /\ p <= Up(ps2, q)
                        /\ Kid(ps2, p) \in DOMAIN ps2 /\ Kid(ps2, p) <= q /\ Idx(ps2, Kid(ps2, p)) = Idx(ps2, p)
      BY DEF InLine
    <3>1. p \in DOMAIN ps /\ q \in DOMAIN ps /\ Alike(ps, cr, p, q)
      BY <1>9, <1>11
    <3>2. /\ Up(ps, q) # 0 /\ Idx(ps, Up(ps, q)) = Idx(ps, q) /\ p <= Up(ps, q)
          /\ Kid(ps, p) \in DOMAIN ps /\ Kid(ps, p) <= q /\ Idx(ps, Kid(ps, p)) = Idx(ps, p)
      BY <1>4, <3>1 DEF ShapeGood, InLine
    <3> QED BY <1>2, <1>6, <1>11, <3>1, <3>2 DEF Untouched
  <2>5. OneLine(ps2, cr)
    <3> SUFFICES ASSUME NEW p \in DOMAIN ps2, Plain(ps2, cr, p), Unbranched(ps2, Ctx(ps2, p))
                 PROVE  Idx(ps2, p) = 1
      BY DEF OneLine
    <3>1. CASE p \in DOMAIN ps
      BY <1>2, <1>4, <1>7, <1>10, <3>1 DEF ShapeGood, OneLine, Untouched
    <3>2. CASE p = n
      BY <3>2 DEF AtTop, Plain
    <3> QED BY <1>11, <3>1, <3>2
  <2>6. TrunkEnds(ps2, cr)
    BY <1>2, <1>3, <1>4, <1>6, <1>8, <1>11 DEF ShapeGood, TrunkEnds, Untouched
  <2>7. LineInTurn(ps2, cr)
    BY <1>2, <1>3, <1>4, <1>9, <1>11 DEF ShapeGood, LineInTurn, Untouched
  <2>8. TrunkInTurn(ps2, cr)
    BY <1>2, <1>3, <1>4, <1>8, <1>11 DEF ShapeGood, TrunkInTurn, Untouched
  <2> QED BY <2>1, <2>2, <2>3, <2>4, <2>5, <2>6, <2>7, <2>8 DEF ShapeGood
<1>13. ASSUME NEW f, ReachedBy(ps2, f) PROVE TablesGood(ps2, ts2, cr, f)
  <2>1. ReachedBy(ps, f)
    BY <1>2, <1>11, <1>13 DEF ReachedBy, Untouched
  <2>2. TablesGood(ps, ts, cr, f)
    BY <2>1 DEF Good
  <2>3. ASSUME NEW p \in DOMAIN ps, Ctx(ps, p) # 0
        PROVE  /\ Tab(ts2, Ctx(ps2, p), Idx(ps2, p)) = Tab(ts, Ctx(ps, p), Idx(ps, p))
               /\ Tab(ts2, Ctx(ps2, p), 1) = Tab(ts, Ctx(ps, p), 1)
               /\ Par(ps, p) # 0 => Tab(ts2, Ctx(ps2, p), Par(ps2, p)) = Tab(ts, Ctx(ps, p), Par(ps, p))
    <3>1. PICK c \in 1..Len(ts) : c = Ctx(ps, p) /\ c = Ctx(ps2, p)
      BY <1>2, <1>5, <2>3 DEF Untouched
    <3>3. 1 \in 1..Size(ts, c) /\ Idx(ps, p) \in 1..Size(ts, c) /\ (Par(ps, p) # 0 => Par(ps, p) \in 1..Size(ts, c))
      BY <1>4, <2>3, <3>1, InsideTables
    <3> QED BY <1>1, <1>2, <3>1, <3>3 DEF SameTables, Untouched
  <2>4. \A p \in DOMAIN ps : Plain(ps2, cr, p) => Plain(ps, cr, p) /\ Ctx(ps, p) # 0
    BY <1>7 DEF Plain
  <2>5. \A p \in DOMAIN ps : Up(ps2, p) # 0 => Up(ps, p) \in DOMAIN ps /\ Up(ps2, p) = Up(ps, p) /\ Par(ps, p) # 0
    BY <1>2, <1>6 DEF Untouched
  <2>6. FirstIsEmpty(ps2, ts2, cr)
    BY <1>2, <1>3, <1>11, <2>2, <2>3, <2>4, <2>5 DEF TablesGood, FirstIsEmpty, Untouched
  <2>7. NextSees(ps2, ts2, cr, f)
    <3> SUFFICES ASSUME NEW p \in DOMAIN ps2, Plain(ps2, cr, p), Stage(ps2, p) = "pending", Up(ps2, p) # 0,
                        Stage(ps2, Up(ps2, p)) = "done"
                 PROVE  Sees(ps2, ts2, p) = f[Up(ps2, p)]
      BY DEF NextSees
    <3>1. p \in DOMAIN ps
      BY <1>3, <1>11
    <3>2. Sees(ps, ts, p) = f[Up(ps, p)]
      BY <1>2, <2>2, <2>4, <2>5, <3>1 DEF TablesGood, NextSees, Untouched
    <3> QED BY <2>3, <2>4, <2>5, <3>1, <3>2 DEF Sees
  <2>8. RootSees(ps2, ts2, cr)
    <3> SUFFICES ASSUME NEW p \in DOMAIN ps2, Plain(ps2, cr, p), Up(ps2, p) = 0, Stage(ps2, p) # "done"
                 PROVE  Tab(ts2, Ctx(ps2, p), 1) = Own(ps2, p)
      BY DEF RootSees
    <3>1. CASE p \in DOMAIN ps
      BY <1>2, <2>2, <2>3, <2>4, <3>1 DEF TablesGood, RootSees, Untouched
    <3>2. CASE p = n
      BY <3>2 DEF AtTop, Plain
    <3> QED BY <1>11, <3>1, <3>2
  <2>9. EndLeaves(ps2, ts2, cr, f)
    <3> SUFFICES ASSUME NEW p \in DOMAIN ps2, Plain(ps2, cr, p), Stage(ps2, p) = "done", Linked(ps2, p),
                        Kid(ps2, p) \in {0, Many}
                 PROVE  Leaves(ps2, ts2, p) = f[p]
      BY DEF EndLeaves
    <3>1. p \in DOMAIN ps
      BY <1>3, <1>11
    <3>2. Leaves(ps, ts, p) = f[p]
      BY <1>2, <2>2, <2>4, <3>1 DEF TablesGood, EndLeaves, Untouched
    <3> QED BY <2>3, <2>4, <3>1, <3>2 DEF Leaves
  <2>10. LastIsFirst(ps2, ts2, cr)
    <3> SUFFICES ASSUME NEW p \in DOMAIN ps2, Plain(ps2, cr, p), Unbranched(ps2, Ctx(ps2, p)), Own(ps2, p) # NoSegment,
                        NoneAfter(ps2, p)
                 PROVE  Tab(ts2, Ctx(ps2, p), 1) = Own(ps2, p)
      BY DEF LastIsFirst
    <3>1. CASE p \in DOMAIN ps
      <4>1. NoneAfter(ps, p)
        BY <1>2, <1>11, <3>1 DEF NoneAfter, Untouched
      <4> QED BY <1>2, <1>10, <2>2, <2>3, <2>4, <3>1, <4>1 DEF TablesGood, LastIsFirst, Untouched
    <3>2. CASE p = n
      BY <3>2 DEF AtTop, Plain
    <3> QED BY <1>11, <3>1, <3>2
  <2>11. RanRight(ps2, cr, f)
    BY <1>2, <1>3, <1>11, <2>2, <2>4, <2>5 DEF TablesGood, RanRight, Untouched
  <2> QED BY <2>6, <2>7, <2>8, <2>9, <2>10, <2>11 DEF TablesGood
<1>14. ChainsGood(ps2, ts2)
  BY <1>4, TopKeepsChains
<1> QED BY <1>12, <1>13, <1>14 DEF Good

-----------------------------------------------------------------------------
\* One promise gets further, when the one before it is done.
OneGoes(ps, ps2, p) ==
    /\ SamePlaces(ps, ps2) /\ p \in DOMAIN ps
    /\ \A q \in DOMAIN ps : Linked(ps2, q) <=> Linked(ps, q)
    /\ \A q \in DOMAIN ps : q # p => /\ Stage(ps2, q) = Stage(ps, q) /\ Cont(ps2, q) = Cont(ps, q)
                                     /\ Own(ps2, q) = Own(ps, q) /\ Ran(ps2, q) = Ran(ps, q)
    /\ Stage(ps, p) # "done" /\ Stage(ps2, p) \in {"waiting", "done"}
    /\ Prev(ps, p) # 0 => Stage(ps, Prev(ps, p)) = "done"
    /\ Stage(ps2, p) = "waiting" => Cont(ps2, p) # NoSegment /\ Ctx(ps, p) # 0
    /\ Ctx(ps, p) = 0 => Own(ps2, p) = NoSegment /\ Ran(ps2, p) = NoSegment
    /\ Up(ps, p) = 0 /\ Ctx(ps, p) # 0 => Own(ps2, p) # NoSegment
    /\ Own(ps2, p) # NoSegment /\ Up(ps, p) # 0 => Stage(ps2, p) = "done"

LEMMA WhoIsBefore ==
    ASSUME NEW ps, NEW ts, ChainsGood(ps, ts), NEW p \in DOMAIN ps, Stage(ps, p) # "done",
           Prev(ps, p) # 0 => Stage(ps, Prev(ps, p)) = "done"
    PROVE  /\ Up(ps, p) # 0 => /\ Up(ps, p) \in DOMAIN ps /\ Stage(ps, Up(ps, p)) = "done"
                               /\ Ctx(ps, Up(ps, p)) = Ctx(ps, p) /\ Up(ps, p) < p /\ Ctx(ps, p) # 0
                               /\ \A r \in DOMAIN ps : Ctx(ps, r) = Ctx(ps, p) /\ Up(ps, r) = 0 => Stage(ps, r) = "done"
           /\ \A q \in DOMAIN ps : Up(ps, q) = p => Stage(ps, q) = "pending"
<1>1. Descended(ps) /\ InTurn(ps) /\ RootFirst(ps, ts)
  BY DEF ChainsGood
<1>2. ASSUME Up(ps, p) # 0
      PROVE  /\ Up(ps, p) \in DOMAIN ps /\ Stage(ps, Up(ps, p)) = "done"
             /\ Ctx(ps, Up(ps, p)) = Ctx(ps, p) /\ Up(ps, p) < p /\ Ctx(ps, p) # 0
  BY <1>1, <1>2 DEF Descended
<1>3. ASSUME Up(ps, p) # 0, NEW r \in DOMAIN ps, Ctx(ps, r) = Ctx(ps, p), Up(ps, r) = 0
      PROVE  Stage(ps, r) = "done"
  BY <1>1, <1>2, <1>3 DEF RootFirst
<1>4. ASSUME NEW q \in DOMAIN ps, Up(ps, q) = p PROVE Stage(ps, q) = "pending"
  <2>1. p # 0 /\ p \in Nat
    BY PromiseTypes DEF ChainsGood
  <2>2. Up(ps, q) # 0 /\ Prev(ps, q) = p /\ Prev(ps, q) # 0
    BY <1>1, <1>4, <2>1 DEF Descended
  <2> QED BY <1>1, <2>2 DEF InTurn
<1> QED BY <1>2, <1>3, <1>4

LEMMA OneGoesInShape ==
    ASSUME NEW ps, NEW ts, NEW cr, NEW ps2, NEW p, Good(ps, ts, cr), OneGoes(ps, ps2, p)
    PROVE  ShapeGood(ps2, cr)
<1>1. ChainsGood(ps, ts) /\ ShapeGood(ps, cr) /\ Descended(ps)
  BY DEF Good, ChainsGood
<1>2. /\ DOMAIN ps2 = DOMAIN ps /\ SamePlaces(ps, ps2) /\ p \in DOMAIN ps
      /\ \A q : Plain(ps2, cr, q) <=> Plain(ps, cr, q)
      /\ \A q, r : Together(ps2, cr, q, r) <=> Together(ps, cr, q, r)
      /\ \A q, r : Alike(ps2, cr, q, r) <=> Alike(ps, cr, q, r)
  BY <1>1, PlacesStay DEF OneGoes, SamePlaces
<1>3. /\ OneBranching(ps2, cr) /\ FromAbove(ps2, cr) /\ InLine(ps2, cr) /\ OneLine(ps2, cr) /\ TrunkEnds(ps2, cr)
  BY <1>1, <1>2, PlacesStay DEF ShapeGood
<1>4. NoGaps(ps2, cr)
  BY <1>1, <1>2 DEF ShapeGood, NoGaps, OneGoes, SamePlaces
<1>5. /\ Up(ps, p) # 0 => Up(ps, p) \in DOMAIN ps /\ Stage(ps, Up(ps, p)) = "done" /\ Ctx(ps, Up(ps, p)) = Ctx(ps, p)
      /\ Stage(ps, p) # "done"
  BY <1>1, WhoIsBefore DEF OneGoes
<1>6. \A q \in DOMAIN ps : q \in Nat
  BY <1>1, PromiseTypes DEF ChainsGood
<1>7. ASSUME NEW q \in DOMAIN ps, Alike(ps, cr, q, p), q < p PROVE Stage(ps, q) = "done"
  <2>1. Up(ps, p) # 0 /\ Idx(ps, Up(ps, p)) = Idx(ps, p) /\ q <= Up(ps, p)
    BY <1>1, <1>2, <1>7 DEF ShapeGood, InLine
  <2>2. CASE q = Up(ps, p)
    BY <1>5, <2>1, <2>2
  <2>3. CASE q # Up(ps, p)
    <3>1. PICK u \in DOMAIN ps : u = Up(ps, p) /\ Stage(ps, u) = "done" /\ Ctx(ps, u) = Ctx(ps, p) /\ Idx(ps, u) = Idx(ps, p)
      BY <1>5, <2>1
    <3>2. u \in Nat /\ q \in Nat /\ q <= u /\ q # u
      BY <1>6, <2>1, <2>3, <3>1
    <3>3. q < u
      BY <3>2
    <3>4. Alike(ps, cr, q, u)
      BY <1>7, <3>1 DEF Alike, Together
    <3> QED BY <1>1, <3>1, <3>3, <3>4 DEF ShapeGood, LineInTurn
  <2> QED BY <2>2, <2>3
<1>8. LineInTurn(ps2, cr)
  <2> SUFFICES ASSUME NEW q \in DOMAIN ps, NEW r \in DOMAIN ps, Alike(ps, cr, q, r), q < r, Stage(ps2, r) # "pending"
               PROVE  Stage(ps2, q) = "done"
    BY <1>2 DEF LineInTurn
  <2>1. CASE r = p
    <3>1. q # p
      BY <1>6, <2>1
    <3> QED BY <1>7, <2>1, <3>1 DEF OneGoes
  <2>2. CASE r # p
    <3>1. Stage(ps, q) = "done"
      BY <1>1, <2>2 DEF ShapeGood, LineInTurn, OneGoes
    <3>2. q # p
      BY <1>5, <3>1
    <3> QED BY <3>1, <3>2 DEF OneGoes
  <2> QED BY <2>1, <2>2
<1>9. ASSUME NEW q \in DOMAIN ps, Together(ps, cr, p, q), Idx(ps, p) # 1, Idx(ps, q) = 1
      PROVE  Stage(ps, q) = "done"
  <2>1. Up(ps, p) # 0
    BY <1>1, <1>9 DEF ChainsGood, Placed, Together, Plain
  <2>2. PICK u \in DOMAIN ps : u = Up(ps, p) /\ Stage(ps, u) = "done" /\ Ctx(ps, u) = Ctx(ps, p)
    BY <1>5, <2>1
  <2>3. Together(ps, cr, u, q)
    BY <1>9, <2>2 DEF Together, Plain
  <2>4. CASE Idx(ps, u) # 1
    BY <1>1, <1>9, <2>2, <2>3, <2>4 DEF ShapeGood, TrunkInTurn
  <2>5. CASE Idx(ps, u) = 1
    <3>1. q <= u
      BY <1>1, <1>2, <1>9, <2>1, <2>2, <2>5 DEF ShapeGood, TrunkEnds
    <3>2. CASE q = u
      BY <2>2, <3>2
    <3>3. CASE q # u
      <4>1. q < u
        BY <1>6, <3>1, <3>3
      <4>2. Alike(ps, cr, q, u)
        BY <1>9, <2>2, <2>5 DEF Alike, Together, Plain
      <4> QED BY <1>1, <2>2, <4>1, <4>2 DEF ShapeGood, LineInTurn
    <3> QED BY <3>2, <3>3
  <2> QED BY <2>4, <2>5
<1>10. TrunkInTurn(ps2, cr)
  <2> SUFFICES ASSUME NEW q \in DOMAIN ps, NEW r \in DOMAIN ps, Together(ps, cr, q, r), Idx(ps, q) # 1, Idx(ps, r) = 1,
                      Stage(ps2, q) # "pending"
               PROVE  Stage(ps2, r) = "done"
    BY <1>2 DEF TrunkInTurn, SamePlaces
  <2>1. Stage(ps, r) = "done"
    <3>1. CASE q = p
      BY <1>9, <3>1
    <3>2. CASE q # p
      BY <1>1, <3>2 DEF ShapeGood, TrunkInTurn, OneGoes
    <3> QED BY <3>1, <3>2
  <2>2. r # p
    BY <1>5, <2>1
  <2> QED BY <2>1, <2>2 DEF OneGoes
<1> QED BY <1>3, <1>4, <1>8, <1>10 DEF ShapeGood

\* The segment at one place of a table, and nothing else, is another.
PutAt(ts, ts2, c, i, v) ==
    /\ Len(ts2) = Len(ts) /\ c \in 1..Len(ts) /\ i \in 1..Size(ts, c)
    /\ \A d \in 1..Len(ts) : Size(ts2, d) = Size(ts, d)
    /\ \A d \in 1..Len(ts) : \A j \in 1..Size(ts, d) : (d = c /\ j = i) \/ Tab(ts2, d, j) = Tab(ts, d, j)
    /\ Tab(ts2, c, i) = v

LEMMA OneGoesInTurn ==
    ASSUME NEW ps, NEW ts, NEW ps2, NEW p, ChainsGood(ps, ts), OneGoes(ps, ps2, p)
    PROVE  /\ Descended(ps2) /\ OneRoot(ps2) /\ InTurn(ps2)
           /\ \A ts2 : Len(ts2) = Len(ts) /\ (\A d \in 1..Len(ts) : Size(ts2, d) = Size(ts, d)) => Placed(ps2, ts2)
<1>1. Descended(ps) /\ OneRoot(ps) /\ InTurn(ps) /\ Placed(ps, ts) /\ SamePlaces(ps, ps2)
  BY DEF ChainsGood, OneGoes
<1>2. Descended(ps2) /\ OneRoot(ps2)
  BY <1>1, PlacesStay
<1>3. InTurn(ps2)
  <2> SUFFICES ASSUME NEW q \in DOMAIN ps
               PROVE  /\ Stage(ps2, q) = "waiting" => Cont(ps2, q) # NoSegment /\ Ctx(ps, q) # 0
                      /\ Stage(ps2, q) # "pending" /\ Prev(ps, q) # 0 => Stage(ps2, Prev(ps, q)) = "done"
                      /\ Own(ps2, q) # NoSegment /\ Up(ps, q) # 0 => Stage(ps2, q) = "done"
                      /\ Ran(ps2, q) # NoSegment => Stage(ps2, q) # "pending"
    BY DEF InTurn, OneGoes, SamePlaces
  <2>1. Stage(ps2, q) # "pending" /\ Prev(ps, q) # 0 => Stage(ps, Prev(ps, q)) = "done"
    BY <1>1 DEF InTurn, OneGoes
  <2>2. Prev(ps, q) # 0 => Prev(ps, q) \in DOMAIN ps
    BY <1>1 DEF Descended
  <2>3. Stage(ps2, q) # "pending" /\ Prev(ps, q) # 0 => Stage(ps2, Prev(ps, q)) = "done"
    BY <2>1, <2>2 DEF OneGoes
  <2>4. CASE q = p
    BY <2>3, <2>4 DEF OneGoes
  <2>5. CASE q # p
    BY <1>1, <2>3, <2>5 DEF OneGoes, InTurn
  <2> QED BY <2>4, <2>5
<1>4. ASSUME NEW ts2, Len(ts2) = Len(ts), \A d \in 1..Len(ts) : Size(ts2, d) = Size(ts, d)
      PROVE  Placed(ps2, ts2)
  <2> SUFFICES ASSUME NEW q \in DOMAIN ps
               PROVE  /\ Ctx(ps, q) # 0 => /\ Ctx(ps, q) \in 1..Len(ts2)
                                           /\ Idx(ps, q) \in 1..Size(ts2, Ctx(ps, q))
                                           /\ Par(ps, q) \in 0..Size(ts2, Ctx(ps, q))
                      /\ Ctx(ps, q) = 0 => /\ ~Linked(ps2, q) /\ Up(ps, q) = 0
                                           /\ Own(ps2, q) = NoSegment /\ Ran(ps2, q) = NoSegment
                      /\ Up(ps, q) = 0 /\ Ctx(ps, q) # 0 =>
                             Own(ps2, q) # NoSegment /\ Idx(ps, q) = 1 /\ Par(ps, q) = 0
    BY <1>1 DEF Placed, SamePlaces
  <2>1. Ctx(ps, q) # 0 => Ctx(ps, q) \in 1..Len(ts) /\ Size(ts2, Ctx(ps, q)) = Size(ts, Ctx(ps, q))
    BY <1>1, <1>4 DEF Placed
  <2>2. CASE q = p
    BY <1>1, <1>4, <2>1, <2>2 DEF Placed, OneGoes
  <2>3. CASE q # p
    BY <1>1, <1>4, <2>1, <2>3 DEF Placed, OneGoes
  <2> QED BY <2>2, <2>3
<1> QED BY <1>2, <1>3, <1>4

-----------------------------------------------------------------------------
\* What is to hold of the tables, promise by promise.
TablesAt(ps, ts, cr, f, p) ==
    /\ /\ Plain(ps, cr, p) /\ Stage(ps, p) = "pending" /\ Up(ps, p) # 0 /\ Idx(ps, p) # Idx(ps, Up(ps, p))
       => Tab(ts, Ctx(ps, p), Idx(ps, p)) = NoSegment
    /\ Plain(ps, cr, p) /\ Stage(ps, p) = "pending" /\ Up(ps, p) # 0 /\ Stage(ps, Up(ps, p)) = "done"
       => Sees(ps, ts, p) = f[Up(ps, p)]
    /\ Plain(ps, cr, p) /\ Up(ps, p) = 0 /\ Stage(ps, p) # "done" => Tab(ts, Ctx(ps, p), 1) = Own(ps, p)
    /\ Plain(ps, cr, p) /\ Stage(ps, p) = "done" /\ Linked(ps, p) /\ Kid(ps, p) \in {0, Many}
       => Leaves(ps, ts, p) = f[p]
    /\ /\ Plain(ps, cr, p) /\ Unbranched(ps, Ctx(ps, p)) /\ Own(ps, p) # NoSegment /\ NoneAfter(ps, p)
       => Tab(ts, Ctx(ps, p), 1) = Own(ps, p)
    /\ Plain(ps, cr, p) /\ Ran(ps, p) # NoSegment /\ Up(ps, p) # 0 => Ran(ps, p) = f[Up(ps, p)]

LEMMA TablesOneByOne ==
    ASSUME NEW ps, NEW ts, NEW cr, NEW f
    PROVE  TablesGood(ps, ts, cr, f) <=> \A p \in DOMAIN ps : TablesAt(ps, ts, cr, f, p)
<1>1. ASSUME TablesGood(ps, ts, cr, f), NEW p \in DOMAIN ps PROVE TablesAt(ps, ts, cr, f, p)
  BY <1>1 DEF TablesGood, TablesAt, FirstIsEmpty, NextSees, RootSees, EndLeaves, LastIsFirst, RanRight
<1>2. ASSUME \A p \in DOMAIN ps : TablesAt(ps, ts, cr, f, p) PROVE TablesGood(ps, ts, cr, f)
  <2>1. FirstIsEmpty(ps, ts, cr)
    BY <1>2 DEF TablesAt, FirstIsEmpty
  <2>2. NextSees(ps, ts, cr, f)
    BY <1>2 DEF TablesAt, NextSees
  <2>3. RootSees(ps, ts, cr)
    BY <1>2 DEF TablesAt, RootSees
  <2>4. EndLeaves(ps, ts, cr, f)
    BY <1>2 DEF TablesAt, EndLeaves
  <2>5. LastIsFirst(ps, ts, cr)
    BY <1>2 DEF TablesAt, LastIsFirst
  <2>6. RanRight(ps, cr, f)
    BY <1>2 DEF TablesAt, RanRight
  <2> QED BY <2>1, <2>2, <2>3, <2>4, <2>5, <2>6 DEF TablesGood
<1> QED BY <1>1, <1>2

\* A step of one context leaves the others alone.
Elsewhere(ps, ts, ps2, ts2, c) ==
    /\ DOMAIN ps \subseteq DOMAIN ps2 /\ Len(ts2) = Len(ts)
    /\ \A q \in DOMAIN ps : Ctx(ps2, q) = Ctx(ps, q) /\ Up(ps2, q) = Up(ps, q)
    /\ \A q \in DOMAIN ps2 : Ctx(ps2, q) # c =>
           q \in DOMAIN ps /\ Untouched(ps, ps2, q) /\ Kid(ps2, q) = Kid(ps, q)
    /\ \A d \in 1..Len(ts) : d # c =>
           Size(ts2, d) = Size(ts, d) /\ \A i \in 1..Size(ts, d) : Tab(ts2, d, i) = Tab(ts, d, i)

LEMMA ElsewhereAtPeace ==
    ASSUME NEW ps, NEW ts, NEW ps2, NEW ts2, NEW cr, NEW c, Good(ps, ts, cr),
           Elsewhere(ps, ts, ps2, ts2, c), NEW f, ReachedBy(ps2, f),
           NEW p \in DOMAIN ps2, Ctx(ps2, p) # c
    PROVE  TablesAt(ps2, ts2, cr, f, p)
<1>1. ChainsGood(ps, ts) /\ Descended(ps) /\ ps \in Seq(Promises)
  BY DEF Good, ChainsGood
<1>2. /\ p \in DOMAIN ps /\ Untouched(ps, ps2, p) /\ Kid(ps2, p) = Kid(ps, p) /\ Ctx(ps, p) # c
  BY DEF Elsewhere, Untouched
<1>3. PICK g : ReachedBy(ps, g)
  BY <1>1, SomethingIsReached
<1>4. TablesAt(ps, ts, cr, g, p)
  BY <1>2, <1>3, TablesOneByOne DEF Good
<1>5. \A q \in DOMAIN ps : Ctx(ps, q) # c => f[q] = g[q]
  <2>1. PICK S : S = {q \in DOMAIN ps : Ctx(ps, q) # c}
    OBVIOUS
  <2>2. S \subseteq DOMAIN ps /\ S \subseteq DOMAIN ps2 /\ DOMAIN ps \subseteq Nat
    BY <1>1, <2>1, UpsAreBefore DEF Elsewhere
  <2>3. ASSUME NEW q \in S
        PROVE  /\ Up(ps2, q) = Up(ps, q) /\ Own(ps2, q) = Own(ps, q)
               /\ Up(ps, q) # 0 => Up(ps, q) \in S /\ Up(ps, q) < q
    <3>1. q \in DOMAIN ps /\ q \in DOMAIN ps2 /\ Ctx(ps, q) # c /\ Ctx(ps2, q) # c
      BY <2>1, <2>2 DEF Elsewhere
    <3>2. Untouched(ps, ps2, q)
      BY <3>1 DEF Elsewhere
    <3>3. Up(ps, q) # 0 => Up(ps, q) \in DOMAIN ps /\ Up(ps, q) < q /\ Ctx(ps, Up(ps, q)) = Ctx(ps, q)
      BY <1>1, <3>1 DEF Descended
    <3> QED BY <2>1, <3>1, <3>2, <3>3 DEF Untouched
  <2>4. \A q \in S : f[q] = g[q]
    <3>1. SameBack(ps, ps2, S)
      BY <2>2, <2>3 DEF SameBack
    <3> QED BY <1>3, <3>1, SameReach
  <2> QED BY <2>1, <2>4
<1>6. /\ f[p] = g[p]
      /\ Up(ps, p) # 0 => /\ f[Up(ps, p)] = g[Up(ps, p)] /\ Up(ps, p) \in DOMAIN ps
                          /\ Untouched(ps, ps2, Up(ps, p)) /\ Par(ps, p) # 0
  <2>1. Up(ps, p) # 0 => /\ Up(ps, p) \in DOMAIN ps /\ Ctx(ps, Up(ps, p)) # c /\ Par(ps, p) # 0
    BY <1>1, <1>2 DEF Descended
  <2>2. Up(ps, p) # 0 => Up(ps, p) \in DOMAIN ps2 /\ Ctx(ps2, Up(ps, p)) # c
    BY <2>1 DEF Elsewhere
  <2> QED BY <1>2, <1>5, <2>1, <2>2 DEF Elsewhere
<1>7. Plain(ps2, cr, p) => Plain(ps, cr, p) /\ Ctx(ps, p) # 0
  BY <1>2 DEF Plain, Untouched
<1>8. Ctx(ps, p) # 0 =>
          /\ Tab(ts2, Ctx(ps2, p), Idx(ps2, p)) = Tab(ts, Ctx(ps, p), Idx(ps, p))
          /\ Tab(ts2, Ctx(ps2, p), 1) = Tab(ts, Ctx(ps, p), 1)
          /\ Par(ps, p) # 0 => Tab(ts2, Ctx(ps2, p), Par(ps2, p)) = Tab(ts, Ctx(ps, p), Par(ps, p))
  <2> SUFFICES ASSUME Ctx(ps, p) # 0
               PROVE  /\ Tab(ts2, Ctx(ps2, p), Idx(ps2, p)) = Tab(ts, Ctx(ps, p), Idx(ps, p))
                      /\ Tab(ts2, Ctx(ps2, p), 1) = Tab(ts, Ctx(ps, p), 1)
                      /\ Par(ps, p) # 0 => Tab(ts2, Ctx(ps2, p), Par(ps2, p)) = Tab(ts, Ctx(ps, p), Par(ps, p))
    OBVIOUS
  <2>1. PICK d \in 1..Len(ts) : d = Ctx(ps, p) /\ d # c
    BY <1>1, <1>2, InsideTables
  <2>2. Idx(ps, p) \in 1..Size(ts, d) /\ 1 \in 1..Size(ts, d) /\ (Par(ps, p) # 0 => Par(ps, p) \in 1..Size(ts, d))
    BY <1>1, <1>2, <2>1, InsideTables
  <2>3. \A i \in 1..Size(ts, d) : Tab(ts2, d, i) = Tab(ts, d, i)
    BY <2>1 DEF Elsewhere
  <2> QED BY <1>2, <2>1, <2>2, <2>3 DEF Untouched
<1>9. Unbranched(ps2, Ctx(ps2, p)) => Unbranched(ps, Ctx(ps, p))
  BY <1>2 DEF Unbranched, Elsewhere, Untouched
<1>10. NoneAfter(ps2, p) => NoneAfter(ps, p)
  BY <1>2 DEF NoneAfter, Elsewhere, Untouched
<1>11. Up(ps, p) # 0 /\ Ctx(ps, p) # 0 => Sees(ps2, ts2, p) = Sees(ps, ts, p)
  BY <1>6, <1>8 DEF Sees
<1>12. Ctx(ps, p) # 0 => Leaves(ps2, ts2, p) = Leaves(ps, ts, p)
  BY <1>8 DEF Leaves
<1>13. /\ Plain(ps2, cr, p) /\ Stage(ps2, p) = "pending" /\ Up(ps2, p) # 0 /\ Idx(ps2, p) # Idx(ps2, Up(ps2, p))
       => Tab(ts2, Ctx(ps2, p), Idx(ps2, p)) = NoSegment
  BY <1>2, <1>4, <1>6, <1>7, <1>8 DEF TablesAt, Untouched
<1>14. Plain(ps2, cr, p) /\ Stage(ps2, p) = "pending" /\ Up(ps2, p) # 0 /\ Stage(ps2, Up(ps2, p)) = "done"
       => Sees(ps2, ts2, p) = f[Up(ps2, p)]
  BY <1>2, <1>4, <1>6, <1>7, <1>11 DEF TablesAt, Untouched
<1>15. Plain(ps2, cr, p) /\ Up(ps2, p) = 0 /\ Stage(ps2, p) # "done" => Tab(ts2, Ctx(ps2, p), 1) = Own(ps2, p)
  BY <1>2, <1>4, <1>7, <1>8 DEF TablesAt, Untouched
<1>16. Plain(ps2, cr, p) /\ Stage(ps2, p) = "done" /\ Linked(ps2, p) /\ Kid(ps2, p) \in {0, Many}
       => Leaves(ps2, ts2, p) = f[p]
  BY <1>2, <1>4, <1>6, <1>7, <1>12 DEF TablesAt, Untouched
<1>17. /\ Plain(ps2, cr, p) /\ Unbranched(ps2, Ctx(ps2, p)) /\ Own(ps2, p) # NoSegment /\ NoneAfter(ps2, p)
       => Tab(ts2, Ctx(ps2, p), 1) = Own(ps2, p)
  BY <1>2, <1>4, <1>7, <1>8, <1>9, <1>10 DEF TablesAt, Untouched
<1>18. Plain(ps2, cr, p) /\ Ran(ps2, p) # NoSegment /\ Up(ps2, p) # 0 => Ran(ps2, p) = f[Up(ps2, p)]
  BY <1>2, <1>4, <1>6, <1>7 DEF TablesAt, Untouched
<1> QED BY <1>13, <1>14, <1>15, <1>16, <1>17, <1>18 DEF TablesAt

-----------------------------------------------------------------------------
\* The root of a chain gets further, with the segment it has or another.
RootGoes(ps, ts, ps2, ts2, p) ==
    /\ OneGoes(ps, ps2, p) /\ Up(ps, p) = 0
    /\ \/ /\ Len(ts2) = Len(ts) /\ Own(ps2, p) = Own(ps, p)
          /\ \A d \in 1..Len(ts) : Size(ts2, d) = Size(ts, d) /\ \A i \in 1..Size(ts, d) : Tab(ts2, d, i) = Tab(ts, d, i)
       \/ Ctx(ps, p) # 0 /\ Own(ps2, p) # NoSegment /\ PutAt(ts, ts2, Ctx(ps, p), 1, Own(ps2, p))

LEMMA RootGoesElsewhere ==
    ASSUME NEW ps, NEW ts, NEW ps2, NEW ts2, NEW p, ChainsGood(ps, ts), RootGoes(ps, ts, ps2, ts2, p)
    PROVE  /\ \A d \in 1..Len(ts) : Size(ts2, d) = Size(ts, d)
           /\ Ctx(ps, p) # 0 => Elsewhere(ps, ts, ps2, ts2, Ctx(ps, p))
           /\ Ctx(ps, p) = 0 => /\ DOMAIN ps2 = DOMAIN ps
                                /\ \A d \in 1..Len(ts) : \A i \in 1..Size(ts, d) : Tab(ts2, d, i) = Tab(ts, d, i)
           /\ Ctx(ps, p) # 0 =>
                  /\ \A j \in 2..Size(ts, Ctx(ps, p)) : Tab(ts2, Ctx(ps, p), j) = NoSegment
                  /\ Tab(ts2, Ctx(ps, p), 1) # NoSegment
                  /\ \E q \in DOMAIN ps : Ctx(ps, q) = Ctx(ps, p) /\ Own(ps2, q) = Tab(ts2, Ctx(ps, p), 1)
                  /\ \A q \in DOMAIN ps : Ctx(ps, q) = Ctx(ps, p) /\ q # p =>
                         Up(ps, q) # 0 /\ Stage(ps, q) = "pending" /\ Ran(ps, q) = NoSegment /\ Own(ps, q) = NoSegment
<1>1. RootFirst(ps, ts) /\ InTurn(ps) /\ OneRoot(ps) /\ Owned(ps, ts) /\ p \in DOMAIN ps /\ Up(ps, p) = 0 /\ Stage(ps, p) # "done"
  BY DEF ChainsGood, RootGoes, OneGoes
<1>2. OneGoes(ps, ps2, p) /\ SamePlaces(ps, ps2)
  BY DEF RootGoes, OneGoes
<1>3. \A d \in 1..Len(ts) : Size(ts2, d) = Size(ts, d)
  BY DEF RootGoes, PutAt
<1>4. Len(ts2) = Len(ts)
  BY DEF RootGoes, PutAt
<1>5. \A d \in 1..Len(ts) : d # Ctx(ps, p) => \A i \in 1..Size(ts, d) : Tab(ts2, d, i) = Tab(ts, d, i)
  BY DEF RootGoes, PutAt
<1>6. \A q \in DOMAIN ps : q # p => Untouched(ps, ps2, q) /\ Kid(ps2, q) = Kid(ps, q)
  BY <1>2 DEF OneGoes, SamePlaces, Untouched
<1>7. Elsewhere(ps, ts, ps2, ts2, Ctx(ps, p))
  BY <1>2, <1>3, <1>4, <1>5, <1>6 DEF Elsewhere, SamePlaces
<1>8. ASSUME Ctx(ps, p) # 0, NEW q \in DOMAIN ps, Ctx(ps, q) = Ctx(ps, p), q # p
      PROVE  Up(ps, q) # 0 /\ Stage(ps, q) = "pending" /\ Ran(ps, q) = NoSegment /\ Own(ps, q) = NoSegment
  <2>1. Up(ps, q) # 0
    BY <1>1, <1>8 DEF OneRoot
  <2>2. Stage(ps, q) = "pending" /\ Ran(ps, q) = NoSegment
    BY <1>1, <1>8 DEF RootFirst
  <2> QED BY <1>1, <2>1, <2>2 DEF InTurn
<1>9. ASSUME Ctx(ps, p) # 0
      PROVE  /\ \A j \in 2..Size(ts, Ctx(ps, p)) : Tab(ts2, Ctx(ps, p), j) = NoSegment
             /\ Tab(ts2, Ctx(ps, p), 1) # NoSegment
             /\ \E q \in DOMAIN ps : Ctx(ps, q) = Ctx(ps, p) /\ Own(ps2, q) = Tab(ts2, Ctx(ps, p), 1)
  <2>1. PICK c \in 1..Len(ts) : c = Ctx(ps, p)
    BY <1>1, <1>9, InsideTables
  <2>2. Size(ts, c) \in Nat /\ 1 \in 1..Size(ts, c) /\ Tab(ts, c, 1) # NoSegment
    BY <2>1, InsideTables
  <2>3. \A j \in 2..Size(ts, c) : Tab(ts, c, j) = NoSegment /\ j \in 1..Size(ts, c) /\ j # 1
    BY <1>1, <1>9, <2>1, <2>2 DEF RootFirst
  <2>4. CASE Own(ps2, p) = Own(ps, p) /\ \A i \in 1..Size(ts, c) : Tab(ts2, c, i) = Tab(ts, c, i)
    <3>1. PICK q \in DOMAIN ps : Ctx(ps, q) = c /\ Own(ps, q) = Tab(ts, c, 1)
      BY <1>1, <2>1, <2>2 DEF Owned
    <3>2. Own(ps2, q) = Own(ps, q)
      BY <1>2, <2>4 DEF OneGoes
    <3> QED BY <2>1, <2>2, <2>3, <2>4, <3>1, <3>2
  <2>5. CASE Own(ps2, p) # NoSegment /\ PutAt(ts, ts2, c, 1, Own(ps2, p))
    <3>1. Tab(ts2, c, 1) = Own(ps2, p) /\ \A j \in 1..Size(ts, c) : j = 1 \/ Tab(ts2, c, j) = Tab(ts, c, j)
      BY <2>5 DEF PutAt
    <3> QED BY <1>1, <2>1, <2>3, <2>5, <3>1
  <2> QED BY <2>1, <2>4, <2>5 DEF RootGoes
<1>10. ASSUME Ctx(ps, p) = 0, NEW d \in 1..Len(ts) PROVE \A i \in 1..Size(ts, d) : Tab(ts2, d, i) = Tab(ts, d, i)
  <2>1. d # Ctx(ps, p)
    BY <1>10
  <2> QED BY <1>5, <2>1
<1> QED BY <1>2, <1>3, <1>7, <1>8, <1>9, <1>10 DEF SamePlaces

LEMMA RootGoesInChains ==
    ASSUME NEW ps, NEW ts, NEW ps2, NEW ts2, NEW p, ChainsGood(ps, ts), RootGoes(ps, ts, ps2, ts2, p),
           ps2 \in Seq(Promises), ts2 \in Seq(Seq(SegmentOrNone))
    PROVE  ChainsGood(ps2, ts2)
<1>1. /\ OneGoes(ps, ps2, p) /\ SamePlaces(ps, ps2) /\ p \in DOMAIN ps /\ Up(ps, p) = 0
      /\ DOMAIN ps2 = DOMAIN ps /\ Len(ts2) = Len(ts)
  BY DEF RootGoes, OneGoes, SamePlaces, PutAt
<1>2. PICK c : c = Ctx(ps, p)
  OBVIOUS
<1>3. /\ \A d \in 1..Len(ts) : Size(ts2, d) = Size(ts, d)
      /\ \A d \in 1..Len(ts) : d # c => \A i \in 1..Size(ts, d) : Tab(ts2, d, i) = Tab(ts, d, i)
  BY <1>2, RootGoesElsewhere DEF Elsewhere
<1>4. c # 0 => /\ \A j \in 2..Size(ts, c) : Tab(ts2, c, j) = NoSegment
               /\ Tab(ts2, c, 1) # NoSegment
               /\ \E q \in DOMAIN ps : Ctx(ps, q) = c /\ Own(ps2, q) = Tab(ts2, c, 1)
               /\ \A q \in DOMAIN ps : Ctx(ps, q) = c /\ q # p =>
                      Up(ps, q) # 0 /\ Stage(ps, q) = "pending" /\ Ran(ps, q) = NoSegment /\ Own(ps, q) = NoSegment
  BY <1>2, RootGoesElsewhere
<1>5. \A q \in DOMAIN ps : q # p => /\ Stage(ps2, q) = Stage(ps, q) /\ Own(ps2, q) = Own(ps, q) /\ Ran(ps2, q) = Ran(ps, q)
  BY <1>1 DEF OneGoes
<1>6. /\ \A q \in DOMAIN ps : Ctx(ps2, q) = Ctx(ps, q) /\ Up(ps2, q) = Up(ps, q)
      /\ Owned(ps, ts) /\ RootFirst(ps, ts) /\ OneRoot(ps)
  BY <1>1 DEF SamePlaces, ChainsGood
<1>7. Placed(ps2, ts2) /\ Descended(ps2) /\ OneRoot(ps2) /\ InTurn(ps2)
  BY <1>1, <1>3, OneGoesInTurn
<1>8. \A d \in 1..Len(ts) : Size(ts, d) \in Nat /\ Size(ts, d) > 0 /\ 1 \in 1..Size(ts, d) /\ Tab(ts, d, 1) # NoSegment
  BY InsideTables
<1>9. \A d \in 1..Len(ts) : d \in Nat /\ d # 0
  BY InsideTables
<1>10. Filled(ts2)
  <2>1. ASSUME NEW d \in 1..Len(ts) PROVE Size(ts2, d) > 0 /\ Tab(ts2, d, 1) # NoSegment
    <3>1. CASE d = c
      BY <1>3, <1>4, <1>8, <1>9, <3>1
    <3>2. CASE d # c
      BY <1>3, <1>8, <3>2
    <3> QED BY <3>1, <3>2
  <2> QED BY <1>1, <2>1 DEF Filled
<1>11. Owned(ps2, ts2)
  <2>1. ASSUME NEW d \in 1..Len(ts), NEW i \in 1..Size(ts, d), Tab(ts2, d, i) # NoSegment
        PROVE  \E q \in DOMAIN ps : Ctx(ps, q) = d /\ Own(ps2, q) = Tab(ts2, d, i)
    <3>1. CASE d = c
      <4>1. c # 0 /\ i \in Nat /\ Size(ts, c) \in Nat
        BY <1>8, <1>9, <3>1
      <4>2. i = 1 \/ i \in 2..Size(ts, c)
        BY <3>1, <4>1
      <4>3. i = 1
        BY <1>4, <2>1, <3>1, <4>1, <4>2
      <4> QED BY <1>4, <3>1, <4>1, <4>3
    <3>2. CASE d # c
      <4>1. Tab(ts2, d, i) = Tab(ts, d, i)
        BY <1>3, <3>2
      <4>2. PICK q \in DOMAIN ps : Ctx(ps, q) = d /\ Own(ps, q) = Tab(ts, d, i)
        BY <1>6, <2>1, <4>1 DEF Owned
      <4>3. q # p
        BY <1>2, <3>2, <4>2
      <4> QED BY <1>5, <4>1, <4>2, <4>3
    <3> QED BY <3>1, <3>2
  <2>2. ASSUME NEW q \in DOMAIN ps, Ran(ps2, q) # NoSegment, Up(ps, q) # 0
        PROVE  \E r \in DOMAIN ps : Ctx(ps, r) = Ctx(ps, q) /\ Own(ps2, r) = Ran(ps2, q)
    <3>1. q # p /\ Ran(ps2, q) = Ran(ps, q)
      BY <1>1, <1>5, <2>2
    <3>2. Ctx(ps, q) # 0
      BY <2>2 DEF ChainsGood, Descended
    <3>3. Ctx(ps, q) # c
      BY <1>4, <2>2, <3>1, <3>2
    <3>4. PICK r \in DOMAIN ps : Ctx(ps, r) = Ctx(ps, q) /\ Own(ps, r) = Ran(ps, q)
      BY <1>6, <2>2, <3>1 DEF Owned
    <3>5. r # p
      BY <1>2, <3>3, <3>4
    <3> QED BY <1>5, <3>1, <3>4, <3>5
  <2>3. \A d \in 1..Len(ts2) : \A i \in 1..Size(ts2, d) : Tab(ts2, d, i) # NoSegment =>
            \E q \in DOMAIN ps2 : Ctx(ps2, q) = d /\ Own(ps2, q) = Tab(ts2, d, i)
    BY <1>1, <1>3, <1>6, <2>1
  <2>4. \A q \in DOMAIN ps2 : Ran(ps2, q) # NoSegment /\ Up(ps2, q) # 0 =>
            \E r \in DOMAIN ps2 : Ctx(ps2, r) = Ctx(ps2, q) /\ Own(ps2, r) = Ran(ps2, q)
    BY <1>1, <1>6, <2>2
  <2> QED BY <2>3, <2>4 DEF Owned
<1>12. RootFirst(ps2, ts2)
  <2>1. ASSUME NEW r \in DOMAIN ps, Ctx(ps, r) # 0, Up(ps, r) = 0, Stage(ps2, r) # "done"
        PROVE  /\ \A q \in DOMAIN ps : Ctx(ps, q) = Ctx(ps, r) /\ q # r =>
                      Stage(ps2, q) = "pending" /\ Ran(ps2, q) = NoSegment
               /\ \A i \in 2..Size(ts, Ctx(ps, r)) : Tab(ts2, Ctx(ps, r), i) = NoSegment
    <3>1. CASE r = p
      BY <1>2, <1>4, <1>5, <2>1, <3>1
    <3>2. CASE r # p
      <4>1. Ctx(ps, r) # c
        BY <1>1, <1>2, <1>6, <2>1, <3>2 DEF OneRoot
      <4>2. /\ \A q \in DOMAIN ps : Ctx(ps, q) = Ctx(ps, r) /\ q # r => Stage(ps, q) = "pending" /\ Ran(ps, q) = NoSegment
            /\ \A i \in 2..Size(ts, Ctx(ps, r)) : Tab(ts, Ctx(ps, r), i) = NoSegment
        BY <1>5, <1>6, <2>1, <3>2 DEF RootFirst
      <4>3. \A q \in DOMAIN ps : Ctx(ps, q) = Ctx(ps, r) => q # p
        BY <1>2, <4>1
      <4>4. PICK d \in 1..Len(ts) : d = Ctx(ps, r)
        BY <2>1, InsideTables
      <4>5. \A i \in 2..Size(ts, d) : i \in 1..Size(ts, d)
        BY <1>8
      <4>6. \A i \in 2..Size(ts, d) : Tab(ts2, d, i) = NoSegment
        BY <1>3, <4>1, <4>2, <4>4, <4>5
      <4> QED BY <1>5, <4>2, <4>3, <4>4, <4>6
    <3> QED BY <3>1, <3>2
  <2>2. ASSUME NEW r \in DOMAIN ps, Ctx(ps, r) # 0 PROVE Size(ts2, Ctx(ps, r)) = Size(ts, Ctx(ps, r))
    BY <1>3, <2>2, InsideTables
  <2> QED BY <1>1, <1>6, <2>1, <2>2 DEF RootFirst
<1> QED BY <1>7, <1>10, <1>11, <1>12 DEF ChainsGood

LEMMA RootGoesKeeps ==
    ASSUME NEW ps, NEW ts, NEW cr, NEW ps2, NEW ts2, NEW p, Good(ps, ts, cr), RootGoes(ps, ts, ps2, ts2, p),
           ps2 \in Seq(Promises), ts2 \in Seq(Seq(SegmentOrNone))
    PROVE  Good(ps2, ts2, cr)
<1>1. ChainsGood(ps, ts) /\ ShapeGood(ps, cr) /\ ChainsGood(ps2, ts2)
  BY RootGoesInChains DEF Good
<1>2. /\ OneGoes(ps, ps2, p) /\ SamePlaces(ps, ps2) /\ p \in DOMAIN ps /\ Up(ps, p) = 0
      /\ DOMAIN ps2 = DOMAIN ps /\ Len(ts2) = Len(ts)
  BY DEF RootGoes, OneGoes, SamePlaces, PutAt
<1>3. ShapeGood(ps2, cr)
  BY <1>2, OneGoesInShape
<1>4. ASSUME NEW f, ReachedBy(ps2, f) PROVE TablesGood(ps2, ts2, cr, f)
  <2> SUFFICES ASSUME NEW q \in DOMAIN ps2 PROVE TablesAt(ps2, ts2, cr, f, q)
    BY TablesOneByOne
  <2>1. CASE Ctx(ps, q) = 0
    BY <1>2, <2>1 DEF TablesAt, Plain, SamePlaces
  <2>2. CASE Ctx(ps, q) # 0 /\ Ctx(ps, p) # 0 /\ Ctx(ps, q) # Ctx(ps, p)
    <3>1. Elsewhere(ps, ts, ps2, ts2, Ctx(ps, p)) /\ Ctx(ps2, q) # Ctx(ps, p)
      BY <1>1, <1>2, <2>2, RootGoesElsewhere DEF SamePlaces
    <3> QED BY <1>4, <3>1, ElsewhereAtPeace
  <2>3. CASE Ctx(ps, q) # 0 /\ Ctx(ps, p) = 0
    <3>1. Elsewhere(ps, ts, ps2, ts2, 0)
      <4>1. \A r \in DOMAIN ps : Ctx(ps, r) # 0 => r # p
        BY <2>3
      <4>2. \A d \in 1..Len(ts) : Size(ts2, d) = Size(ts, d) /\ \A i \in 1..Size(ts, d) : Tab(ts2, d, i) = Tab(ts, d, i)
        BY <1>1, <2>3, RootGoesElsewhere
      <4>3. \A r \in DOMAIN ps : Ctx(ps, r) # 0 => Untouched(ps, ps2, r) /\ Kid(ps2, r) = Kid(ps, r)
        BY <1>2, <4>1 DEF OneGoes, SamePlaces, Untouched
      <4> QED BY <1>2, <4>2, <4>3 DEF Elsewhere, SamePlaces
    <3>2. Ctx(ps2, q) # 0
      BY <1>2, <2>3 DEF SamePlaces
    <3> QED BY <1>4, <3>1, <3>2, ElsewhereAtPeace
  <2>4. CASE Ctx(ps, q) # 0 /\ Ctx(ps, q) = Ctx(ps, p)
    <3>1. PICK c \in 1..Len(ts) : c = Ctx(ps, p) /\ c = Ctx(ps, q) /\ c = Ctx(ps2, q) /\ c = Ctx(ps2, p) /\ c # 0
      BY <1>1, <1>2, <2>4, InsideTables DEF SamePlaces
    <3>2. SUFFICES ASSUME c \notin cr PROVE TablesAt(ps2, ts2, cr, f, q)
      BY <3>1 DEF TablesAt, Plain
    <3>3. /\ \A j \in 2..Size(ts, c) : Tab(ts2, c, j) = NoSegment
          /\ Tab(ts2, c, 1) # NoSegment
          /\ \A r \in DOMAIN ps : Ctx(ps, r) = c /\ r # p =>
                 Up(ps, r) # 0 /\ Stage(ps, r) = "pending" /\ Ran(ps, r) = NoSegment /\ Own(ps, r) = NoSegment
      <4>1. /\ \A j \in 2..Size(ts, Ctx(ps, p)) : Tab(ts2, Ctx(ps, p), j) = NoSegment
            /\ Tab(ts2, Ctx(ps, p), 1) # NoSegment
            /\ \A r \in DOMAIN ps : Ctx(ps, r) = Ctx(ps, p) /\ r # p =>
                   Up(ps, r) # 0 /\ Stage(ps, r) = "pending" /\ Ran(ps, r) = NoSegment /\ Own(ps, r) = NoSegment
        <5>1. ChainsGood(ps, ts) /\ Ctx(ps, p) # 0
          BY <1>1, <2>4
        <5> QED BY <5>1, RootGoesElsewhere
      <4> QED BY <3>1, <4>1
    <3>4. Idx(ps, p) = 1 /\ Par(ps, p) = 0 /\ Own(ps, p) # NoSegment
      BY <1>1, <1>2, <3>1 DEF ChainsGood, Placed
    <3>5. Own(ps2, p) # NoSegment /\ f[p] = Own(ps2, p)
      <4>1. Own(ps2, p) # NoSegment
        BY <3>4 DEF RootGoes
      <4>2. f[p] = OrElse(Own(ps2, p), f[Up(ps2, p)])
        BY <1>2, <1>4 DEF ReachedBy
      <4> QED BY <4>1, <4>2 DEF OrElse
    <3>6. Tab(ts2, c, 1) = Own(ps2, p)
      <4>1. CASE Own(ps2, p) = Own(ps, p) /\ \A i \in 1..Size(ts, c) : Tab(ts2, c, i) = Tab(ts, c, i)
        <5>1. 1 \in 1..Size(ts, c)
          BY <1>1, InsideTables
        <5>2. PICK g : ReachedBy(ps, g)
          BY <1>1, SomethingIsReached DEF ChainsGood
        <5>3. TablesAt(ps, ts, cr, g, p)
          BY <1>2, <5>2, TablesOneByOne DEF Good
        <5>4. Tab(ts, c, 1) = Own(ps, p)
          BY <1>2, <3>1, <3>2, <5>3 DEF TablesAt, Plain, OneGoes
        <5> QED BY <4>1, <5>1, <5>4
      <4>2. CASE PutAt(ts, ts2, c, 1, Own(ps2, p))
        BY <4>2 DEF PutAt
      <4> QED BY <3>1, <4>1, <4>2 DEF RootGoes
    <3>7. \A r \in DOMAIN ps : r # p =>
              /\ Stage(ps2, r) = Stage(ps, r) /\ Own(ps2, r) = Own(ps, r) /\ Ran(ps2, r) = Ran(ps, r)
      BY <1>2 DEF OneGoes
    <3>8. CASE q = p
      <4>1. /\ Idx(ps2, q) = 1 /\ Up(ps2, q) = 0 /\ Kid(ps2, q) = Kid(ps, q)
        BY <1>2, <3>4, <3>8 DEF SamePlaces
      <4>2. Leaves(ps2, ts2, q) = Own(ps2, q)
        BY <3>1, <3>3, <3>6, <3>8, <4>1 DEF Leaves, OrElse
      <4> QED BY <3>1, <3>5, <3>6, <3>8, <4>1, <4>2 DEF TablesAt
    <3>9. CASE q # p
      <4>1. /\ Up(ps2, q) # 0 /\ Up(ps2, q) = Up(ps, q) /\ Stage(ps2, q) = "pending"
            /\ Ran(ps2, q) = NoSegment /\ Own(ps2, q) = NoSegment
        BY <1>2, <3>1, <3>3, <3>7, <3>9 DEF SamePlaces
      <4>2. /\ Up(ps, q) \in DOMAIN ps /\ Ctx(ps, Up(ps, q)) = c /\ Par(ps, q) # 0
        BY <1>1, <1>2, <3>1, <4>1 DEF ChainsGood, Descended
      <4>3. Stage(ps2, Up(ps2, q)) = "done" => Up(ps2, q) = p
        BY <3>3, <3>7, <4>1, <4>2
      <4>4. /\ Idx(ps, q) \in 1..Size(ts, c) /\ Par(ps, q) \in 1..Size(ts, c) /\ Size(ts, c) \in Nat
        BY <1>1, <1>2, <3>1, <4>2, InsideTables
      <4>5. \A i \in 1..Size(ts, c) : i = 1 \/ i \in 2..Size(ts, c)
        BY <4>4
      <4>6. Sees(ps2, ts2, q) = Own(ps2, p)
        <5>1. Idx(ps2, q) = Idx(ps, q) /\ Par(ps2, q) = Par(ps, q)
          BY <1>2 DEF SamePlaces
        <5>2. Tab(ts2, c, Idx(ps, q)) \in {NoSegment, Own(ps2, p)} /\ Tab(ts2, c, Par(ps, q)) \in {NoSegment, Own(ps2, p)}
          BY <3>3, <3>6, <4>4, <4>5
        <5> QED BY <3>1, <3>6, <5>1, <5>2 DEF Sees, OrElse
      <4>7. Idx(ps2, q) # Idx(ps2, Up(ps2, q)) => Tab(ts2, c, Idx(ps2, q)) = NoSegment
        <5> SUFFICES ASSUME Idx(ps, q) # Idx(ps, Up(ps, q)) PROVE Tab(ts2, c, Idx(ps, q)) = NoSegment
          BY <1>2, <4>1, <4>2 DEF SamePlaces
        <5>1. Idx(ps, q) # 1
          <6> SUFFICES ASSUME Idx(ps, q) = 1 PROVE FALSE
            OBVIOUS
          <6>1. Alike(ps, cr, p, q) /\ Alike(ps, cr, q, p)
            BY <1>2, <3>1, <3>2, <3>4 DEF Alike, Together, Plain
          <6>2. p \in Nat /\ q \in Nat
            BY <1>1, <1>2, PromiseTypes DEF ChainsGood
          <6>3. p < q \/ q < p
            BY <3>9, <6>2
          <6>4. CASE p < q
            BY <1>1, <1>2, <6>1, <6>4 DEF ShapeGood, InLine
          <6>5. CASE q < p
            BY <1>1, <1>2, <6>1, <6>5 DEF ShapeGood, InLine
          <6> QED BY <6>3, <6>4, <6>5
        <5> QED BY <3>3, <4>4, <4>5, <5>1
      <4> QED BY <3>1, <3>5, <4>1, <4>3, <4>6, <4>7 DEF TablesAt
    <3> QED BY <3>8, <3>9
  <2> QED BY <2>1, <2>2, <2>3, <2>4
<1> QED BY <1>1, <1>3, <1>4 DEF Good

-----------------------------------------------------------------------------
\* A promise that comes from another runs, or goes on with the segment of the promise its
\* handler has returned: its place gets the segment.
Fills(ps, ts, ps2, ts2, p, v) ==
    /\ OneGoes(ps, ps2, p) /\ Up(ps, p) # 0 /\ v # NoSegment
    /\ PutAt(ts, ts2, Ctx(ps, p), Idx(ps, p), v)
    /\ \/ /\ Own(ps2, p) = Own(ps, p) /\ Stage(ps, p) = "pending" /\ v = Sees(ps, ts, p) /\ Ran(ps2, p) \in {v, NoSegment}
       \/ Own(ps2, p) = v /\ Ran(ps2, p) = Ran(ps, p)

LEMMA FillsFacts ==
    ASSUME NEW ps, NEW ts, NEW ps2, NEW ts2, NEW p, NEW v, ChainsGood(ps, ts), Fills(ps, ts, ps2, ts2, p, v)
    PROVE  /\ p \in DOMAIN ps /\ DOMAIN ps2 = DOMAIN ps /\ Len(ts2) = Len(ts)
           /\ Elsewhere(ps, ts, ps2, ts2, Ctx(ps, p))
           /\ Ctx(ps, p) \in 1..Len(ts) /\ Ctx(ps, p) # 0 /\ Own(ps, p) = NoSegment
           /\ Up(ps, p) \in DOMAIN ps /\ Stage(ps, Up(ps, p)) = "done" /\ Ctx(ps, Up(ps, p)) = Ctx(ps, p)
           /\ \A r \in DOMAIN ps : Ctx(ps, r) = Ctx(ps, p) /\ Up(ps, r) = 0 => Stage(ps, r) = "done"
           /\ \E q \in DOMAIN ps : Ctx(ps, q) = Ctx(ps, p) /\ Own(ps2, q) = v
<1>1. /\ OneGoes(ps, ps2, p) /\ SamePlaces(ps, ps2) /\ p \in DOMAIN ps /\ DOMAIN ps2 = DOMAIN ps /\ Len(ts2) = Len(ts)
      /\ Up(ps, p) # 0 /\ Stage(ps, p) # "done" /\ v # NoSegment
  BY DEF Fills, OneGoes, SamePlaces, PutAt
<1>2. PICK c : c = Ctx(ps, p)
  OBVIOUS
<1>3. /\ Up(ps, p) \in DOMAIN ps /\ Stage(ps, Up(ps, p)) = "done" /\ Ctx(ps, Up(ps, p)) = c /\ c # 0
      /\ \A r \in DOMAIN ps : Ctx(ps, r) = c /\ Up(ps, r) = 0 => Stage(ps, r) = "done"
  BY <1>1, <1>2, WhoIsBefore DEF OneGoes
<1>4. c \in 1..Len(ts) /\ Idx(ps, p) \in 1..Size(ts, c) /\ 1 \in 1..Size(ts, c)
  BY <1>1, <1>2, <1>3, InsideTables
<1>5. Own(ps, p) = NoSegment
  BY <1>1 DEF ChainsGood, InTurn
<1>6. Elsewhere(ps, ts, ps2, ts2, c)
  <2>1. \A q \in DOMAIN ps : q # p => Untouched(ps, ps2, q) /\ Kid(ps2, q) = Kid(ps, q)
    BY <1>1 DEF OneGoes, SamePlaces, Untouched
  <2>2. \A d \in 1..Len(ts) : Size(ts2, d) = Size(ts, d)
    BY DEF Fills, PutAt
  <2>3. \A d \in 1..Len(ts) : d # c => \A i \in 1..Size(ts, d) : Tab(ts2, d, i) = Tab(ts, d, i)
    BY <1>2 DEF Fills, PutAt
  <2> QED BY <1>1, <1>2, <2>1, <2>2, <2>3 DEF Elsewhere, SamePlaces
<1>7. \E q \in DOMAIN ps : Ctx(ps, q) = c /\ Own(ps2, q) = v
  <2>1. CASE Own(ps2, p) = Own(ps, p) /\ v = Sees(ps, ts, p)
    <3>1. Par(ps, p) \in 1..Size(ts, c)
      <4>1. Par(ps, p) # 0
        BY <1>1 DEF ChainsGood, Descended
      <4> QED BY <1>1, <1>2, <1>3, <4>1, InsideTables
    <3>2. PICK i \in 1..Size(ts, c) : v = Tab(ts, c, i)
      BY <1>2, <1>4, <2>1, <3>1 DEF Sees, OrElse
    <3>3. PICK q \in DOMAIN ps : Ctx(ps, q) = c /\ Own(ps, q) = v
      BY <1>1, <1>4, <3>2 DEF ChainsGood, Owned
    <3>4. Own(ps2, q) = Own(ps, q)
      BY <1>1, <2>1 DEF OneGoes
    <3> QED BY <3>3, <3>4
  <2>2. CASE Own(ps2, p) = v
    BY <1>1, <1>2, <2>2
  <2> QED BY <2>1, <2>2 DEF Fills
<1> QED BY <1>1, <1>2, <1>3, <1>4, <1>5, <1>6, <1>7

LEMMA FillsInChains ==
    ASSUME NEW ps, NEW ts, NEW ps2, NEW ts2, NEW p, NEW v, ChainsGood(ps, ts), Fills(ps, ts, ps2, ts2, p, v),
           ps2 \in Seq(Promises), ts2 \in Seq(Seq(SegmentOrNone))
    PROVE  ChainsGood(ps2, ts2)
<1>1. /\ OneGoes(ps, ps2, p) /\ SamePlaces(ps, ps2) /\ p \in DOMAIN ps /\ DOMAIN ps2 = DOMAIN ps /\ Len(ts2) = Len(ts)
      /\ Up(ps, p) # 0 /\ Own(ps, p) = NoSegment /\ v # NoSegment
  <2>1. p \in DOMAIN ps /\ DOMAIN ps2 = DOMAIN ps /\ Len(ts2) = Len(ts) /\ Own(ps, p) = NoSegment
    BY FillsFacts
  <2>2. OneGoes(ps, ps2, p) /\ Up(ps, p) # 0 /\ v # NoSegment
    BY DEF Fills
  <2> QED BY <2>1, <2>2 DEF OneGoes
<1>2. PICK c \in 1..Len(ts) : /\ c = Ctx(ps, p)
                              /\ \A r \in DOMAIN ps : Ctx(ps, r) = c /\ Up(ps, r) = 0 => Stage(ps, r) = "done"
                              /\ \E q \in DOMAIN ps : Ctx(ps, q) = c /\ Own(ps2, q) = v
  BY FillsFacts
<1>3. /\ \A d \in 1..Len(ts) : Size(ts2, d) = Size(ts, d)
      /\ \A d \in 1..Len(ts) : \A i \in 1..Size(ts, d) : (d = c /\ i = Idx(ps, p)) \/ Tab(ts2, d, i) = Tab(ts, d, i)
      /\ Tab(ts2, c, Idx(ps, p)) = v
  BY <1>2 DEF Fills, PutAt
<1>4. \A q \in DOMAIN ps : q # p => /\ Stage(ps2, q) = Stage(ps, q) /\ Own(ps2, q) = Own(ps, q) /\ Ran(ps2, q) = Ran(ps, q)
  BY <1>1 DEF OneGoes
<1>5. /\ \A q \in DOMAIN ps : Ctx(ps2, q) = Ctx(ps, q) /\ Up(ps2, q) = Up(ps, q)
      /\ Owned(ps, ts) /\ RootFirst(ps, ts)
  BY <1>1 DEF SamePlaces, ChainsGood
<1>6. Placed(ps2, ts2) /\ Descended(ps2) /\ OneRoot(ps2) /\ InTurn(ps2)
  BY <1>1, <1>3, OneGoesInTurn
<1>7. \A d \in 1..Len(ts) : Size(ts, d) \in Nat /\ Size(ts, d) > 0 /\ 1 \in 1..Size(ts, d) /\ Tab(ts, d, 1) # NoSegment
  BY InsideTables
<1>8. Filled(ts2)
  <2>1. ASSUME NEW d \in 1..Len(ts) PROVE Size(ts2, d) > 0 /\ Tab(ts2, d, 1) # NoSegment
    BY <1>1, <1>3, <1>7
  <2> QED BY <1>1, <2>1 DEF Filled
<1>9. \A q \in DOMAIN ps : Own(ps, q) # NoSegment => Own(ps2, q) = Own(ps, q)
  BY <1>1, <1>4
<1>10. Owned(ps2, ts2)
  <2>1. ASSUME NEW d \in 1..Len(ts), NEW i \in 1..Size(ts, d), Tab(ts2, d, i) # NoSegment
        PROVE  \E q \in DOMAIN ps : Ctx(ps, q) = d /\ Own(ps2, q) = Tab(ts2, d, i)
    <3>1. CASE d = c /\ i = Idx(ps, p)
      BY <1>2, <1>3, <3>1
    <3>2. CASE Tab(ts2, d, i) = Tab(ts, d, i)
      <4>1. PICK q \in DOMAIN ps : Ctx(ps, q) = d /\ Own(ps, q) = Tab(ts, d, i)
        BY <1>5, <2>1, <3>2 DEF Owned
      <4> QED BY <1>9, <2>1, <3>2, <4>1
    <3> QED BY <1>3, <3>1, <3>2
  <2>2. ASSUME NEW q \in DOMAIN ps, Ran(ps2, q) # NoSegment, Up(ps, q) # 0
        PROVE  \E r \in DOMAIN ps : Ctx(ps, r) = Ctx(ps, q) /\ Own(ps2, r) = Ran(ps2, q)
    <3>1. CASE Ran(ps2, q) = Ran(ps, q)
      <4>1. PICK r \in DOMAIN ps : Ctx(ps, r) = Ctx(ps, q) /\ Own(ps, r) = Ran(ps, q)
        BY <1>5, <2>2, <3>1 DEF Owned
      <4> QED BY <1>9, <2>2, <3>1, <4>1
    <3>2. CASE Ran(ps2, q) # Ran(ps, q)
      <4>1. q = p
        BY <1>4, <3>2
      <4>2. Ran(ps2, q) = v
        BY <2>2, <3>2, <4>1 DEF Fills
      <4> QED BY <1>2, <4>1, <4>2
    <3> QED BY <3>1, <3>2
  <2>3. \A d \in 1..Len(ts2) : \A i \in 1..Size(ts2, d) : Tab(ts2, d, i) # NoSegment =>
            \E q \in DOMAIN ps2 : Ctx(ps2, q) = d /\ Own(ps2, q) = Tab(ts2, d, i)
    BY <1>1, <1>3, <1>5, <2>1
  <2>4. \A q \in DOMAIN ps2 : Ran(ps2, q) # NoSegment /\ Up(ps2, q) # 0 =>
            \E r \in DOMAIN ps2 : Ctx(ps2, r) = Ctx(ps2, q) /\ Own(ps2, r) = Ran(ps2, q)
    BY <1>1, <1>5, <2>2
  <2> QED BY <2>3, <2>4 DEF Owned
<1>11. RootFirst(ps2, ts2)
  <2>1. ASSUME NEW r \in DOMAIN ps, Ctx(ps, r) # 0, Up(ps, r) = 0, Stage(ps2, r) # "done"
        PROVE  /\ \A q \in DOMAIN ps : Ctx(ps, q) = Ctx(ps, r) /\ q # r =>
                      Stage(ps2, q) = "pending" /\ Ran(ps2, q) = NoSegment
               /\ \A i \in 2..Size(ts, Ctx(ps, r)) : Tab(ts2, Ctx(ps, r), i) = NoSegment
    <3>1. r # p /\ Stage(ps, r) # "done"
      BY <1>1, <1>4, <2>1
    <3>2. Ctx(ps, r) # c
      BY <1>2, <2>1, <3>1
    <3>3. /\ \A q \in DOMAIN ps : Ctx(ps, q) = Ctx(ps, r) /\ q # r => Stage(ps, q) = "pending" /\ Ran(ps, q) = NoSegment
          /\ \A i \in 2..Size(ts, Ctx(ps, r)) : Tab(ts, Ctx(ps, r), i) = NoSegment
      BY <1>5, <2>1, <3>1 DEF RootFirst
    <3>4. \A q \in DOMAIN ps : Ctx(ps, q) = Ctx(ps, r) => q # p
      BY <1>2, <3>2
    <3>5. PICK d \in 1..Len(ts) : d = Ctx(ps, r)
      BY <2>1, InsideTables
    <3>6. \A i \in 2..Size(ts, d) : i \in 1..Size(ts, d)
      BY <1>7
    <3>7. \A i \in 2..Size(ts, d) : Tab(ts2, d, i) = NoSegment
      BY <1>3, <3>2, <3>3, <3>5, <3>6
    <3> QED BY <1>4, <3>3, <3>4, <3>5, <3>7
  <2>2. ASSUME NEW r \in DOMAIN ps, Ctx(ps, r) # 0 PROVE Size(ts2, Ctx(ps, r)) = Size(ts, Ctx(ps, r))
    BY <1>3, <2>2, InsideTables
  <2> QED BY <1>1, <1>5, <2>1, <2>2 DEF RootFirst
<1> QED BY <1>6, <1>8, <1>10, <1>11 DEF ChainsGood

LEMMA FillsKeep ==
    ASSUME NEW ps, NEW ts, NEW cr, NEW ps2, NEW ts2, NEW p, NEW v, Good(ps, ts, cr), Fills(ps, ts, ps2, ts2, p, v),
           ps2 \in Seq(Promises), ts2 \in Seq(Seq(SegmentOrNone))
    PROVE  Good(ps2, ts2, cr)
<1>1. ChainsGood(ps, ts) /\ ShapeGood(ps, cr) /\ ChainsGood(ps2, ts2) /\ Descended(ps) /\ InTurn(ps)
  BY FillsInChains DEF Good, ChainsGood
<1>2. /\ OneGoes(ps, ps2, p) /\ SamePlaces(ps, ps2) /\ p \in DOMAIN ps /\ DOMAIN ps2 = DOMAIN ps
      /\ Up(ps, p) # 0 /\ v # NoSegment /\ Own(ps, p) = NoSegment /\ Stage(ps, p) # "done"
  <2>1. p \in DOMAIN ps /\ DOMAIN ps2 = DOMAIN ps /\ Own(ps, p) = NoSegment
    BY <1>1, FillsFacts
  <2>2. OneGoes(ps, ps2, p) /\ Up(ps, p) # 0 /\ v # NoSegment
    BY DEF Fills
  <2> QED BY <2>1, <2>2 DEF OneGoes
<1>3. ShapeGood(ps2, cr)
  BY <1>2, OneGoesInShape
<1>4. PICK c \in 1..Len(ts) :
          /\ c = Ctx(ps, p) /\ c # 0 /\ Elsewhere(ps, ts, ps2, ts2, c)
          /\ \A r \in DOMAIN ps : Ctx(ps, r) = c /\ Up(ps, r) = 0 => Stage(ps, r) = "done"
  BY <1>1, FillsFacts
<1>5. PICK u \in DOMAIN ps : u = Up(ps, p) /\ Stage(ps, u) = "done" /\ Ctx(ps, u) = c
  BY <1>1, <1>4, FillsFacts
<1>6. \A q \in DOMAIN ps : q # p => /\ Stage(ps2, q) = Stage(ps, q) /\ Own(ps2, q) = Own(ps, q) /\ Ran(ps2, q) = Ran(ps, q)
  BY <1>2 DEF OneGoes
<1>7. \A q \in DOMAIN ps : /\ Ctx(ps2, q) = Ctx(ps, q) /\ Idx(ps2, q) = Idx(ps, q) /\ Par(ps2, q) = Par(ps, q)
                           /\ Kid(ps2, q) = Kid(ps, q) /\ Up(ps2, q) = Up(ps, q)
                           /\ (Linked(ps2, q) <=> Linked(ps, q))
  BY <1>2 DEF SamePlaces, OneGoes
<1>8. \A q \in DOMAIN ps : q \in Nat /\ q # 0 /\ q # Many
  BY <1>1, PromiseTypes DEF ChainsGood, Many
<1>9. ASSUME NEW f2, ReachedBy(ps2, f2), c \notin cr, NEW q \in DOMAIN ps, Ctx(ps, q) = c
      PROVE  TablesAt(ps2, ts2, cr, f2, q)
  <2>1. PICK f : ReachedBy(ps, f)
    BY <1>1, SomethingIsReached DEF ChainsGood
  <2>2. \A r \in DOMAIN ps : TablesAt(ps, ts, cr, f, r)
    BY <2>1, TablesOneByOne DEF Good
  <2>3. \A r \in DOMAIN ps : Stage(ps, r) = "done" => f2[r] = f[r]
    <3>1. PICK S : S = {r \in DOMAIN ps : Stage(ps, r) = "done"}
      OBVIOUS
    <3>2. S \subseteq DOMAIN ps /\ S \subseteq DOMAIN ps2 /\ DOMAIN ps \subseteq Nat
      BY <1>2, <1>8, <3>1
    <3>3. ASSUME NEW r \in S
          PROVE  /\ Up(ps2, r) = Up(ps, r) /\ Own(ps2, r) = Own(ps, r)
                 /\ Up(ps, r) # 0 => Up(ps, r) \in S /\ Up(ps, r) < r
      <4>1. r \in DOMAIN ps /\ Stage(ps, r) = "done" /\ r # p
        BY <1>2, <3>1
      <4>2. Up(ps, r) # 0 => Up(ps, r) \in DOMAIN ps /\ Up(ps, r) < r /\ Stage(ps, Up(ps, r)) = "done"
        BY <1>1, <4>1 DEF Descended, InTurn
      <4> QED BY <1>6, <1>7, <3>1, <4>1, <4>2
    <3>4. \A r \in S : f2[r] = f[r]
      <4>1. SameBack(ps, ps2, S)
        BY <3>2, <3>3 DEF SameBack
      <4>2. ReachedBy(ps2, f2)
        BY <1>9
      <4> QED BY <2>1, <4>1, <4>2, SameReach
    <3> QED BY <3>1, <3>4
  <2>4. Plain(ps, cr, p) /\ Plain(ps, cr, q)
    BY <1>2, <1>4, <1>9 DEF Plain
  <2>5. /\ \A r \in DOMAIN ps : Ctx(ps, r) = c => Together(ps, cr, p, r) /\ Together(ps, cr, r, p)
        /\ \A r \in DOMAIN ps : Ctx(ps, r) = c /\ Idx(ps, r) = Idx(ps, p) => Alike(ps, cr, p, r) /\ Alike(ps, cr, r, p)
    BY <1>2, <1>4, <1>9 DEF Alike, Together, Plain
  <2>6. f2[p] = v /\ f2[u] = f[u]
    <3>1. f2[u] = f[u]
      BY <1>5, <2>3
    <3>2. f2[p] = OrElse(Own(ps2, p), f2[u])
      BY <1>2, <1>5, <1>7, <1>9 DEF ReachedBy
    <3>3. CASE Own(ps2, p) = v
      BY <1>2, <3>1, <3>2, <3>3 DEF OrElse
    <3>4. CASE Own(ps2, p) = Own(ps, p) /\ Stage(ps, p) = "pending" /\ v = Sees(ps, ts, p)
      <4>1. Sees(ps, ts, p) = f[u]
        BY <1>2, <1>5, <2>2, <2>4, <3>4 DEF TablesAt
      <4> QED BY <1>2, <3>1, <3>2, <3>4, <4>1 DEF OrElse
    <3> QED BY <3>1, <3>3, <3>4 DEF Fills
  <2>7. ASSUME NEW r \in DOMAIN ps, Ctx(ps, r) = c, r # p, Idx(ps, r) = Idx(ps, p), Stage(ps, r) = "pending"
        PROVE  p < r /\ Up(ps, r) # 0 /\ Idx(ps, Up(ps, r)) = Idx(ps, r) /\ p <= Up(ps, r)
    <3>1. ~(r < p)
      <4> SUFFICES ASSUME r < p PROVE FALSE
        OBVIOUS
      <4>1. Idx(ps, u) = Idx(ps, p) /\ r <= u
        BY <1>1, <1>2, <1>5, <2>5, <2>7 DEF ShapeGood, InLine
      <4>2. CASE r = u
        BY <1>5, <2>7, <4>2
      <4>3. CASE r # u
        <5>1. r < u
          BY <1>8, <4>1, <4>3
        <5>2. Alike(ps, cr, r, u)
          BY <1>4, <1>5, <1>9, <2>7, <4>1 DEF Alike, Together, Plain
        <5> QED BY <1>1, <1>5, <2>7, <5>1, <5>2 DEF ShapeGood, LineInTurn
      <4> QED BY <4>2, <4>3
    <3>2. p < r
      BY <1>8, <1>2, <2>7, <3>1
    <3> QED BY <1>1, <1>2, <2>5, <2>7, <3>2 DEF ShapeGood, InLine
  <2>8. ASSUME NEW r \in DOMAIN ps, Ctx(ps, r) = c, r # p, Idx(ps, r) = Idx(ps, p), Stage(ps, r) # "pending"
        PROVE  r < p /\ Kid(ps, r) \in DOMAIN ps /\ Idx(ps, Kid(ps, r)) = Idx(ps, r)
    <3>1. ~(p < r)
      BY <1>1, <1>2, <2>5, <2>8 DEF ShapeGood, LineInTurn
    <3>2. r < p
      BY <1>8, <1>2, <2>8, <3>1
    <3> QED BY <1>1, <1>2, <2>5, <2>8, <3>2 DEF ShapeGood, InLine
  <2>9. ASSUME NEW r \in DOMAIN ps, Ctx(ps, r) = c, Idx(ps, r) # 1, Stage(ps, r) # "pending" PROVE Idx(ps, p) # 1
    BY <1>1, <1>2, <2>5, <2>9 DEF ShapeGood, TrunkInTurn
  <2>10. /\ Tab(ts2, c, Idx(ps, p)) = v
         /\ \A i \in 1..Size(ts, c) : i # Idx(ps, p) => Tab(ts2, c, i) = Tab(ts, c, i)
    BY <1>4 DEF Fills, PutAt
  <2>11. 1 \in 1..Size(ts, c) /\ Idx(ps, q) \in 1..Size(ts, c) /\ (Par(ps, q) # 0 => Par(ps, q) \in 1..Size(ts, c))
    BY <1>1, <1>4, <1>9, InsideTables
  <2>12. Ctx(ps2, q) = c /\ Plain(ps2, cr, q)
    BY <1>2, <1>4, <1>7, <1>9 DEF Plain
  <2>13. Up(ps, q) # 0 => Up(ps, q) \in DOMAIN ps /\ Ctx(ps, Up(ps, q)) = c /\ Par(ps, q) = Idx(ps, Up(ps, q)) /\ Par(ps, q) # 0
    BY <1>1, <1>9, <2>4 DEF Descended, ShapeGood, FromAbove
  <2>14. ASSUME Stage(ps2, q) = "pending", Up(ps, q) # 0, Idx(ps, q) # Idx(ps, Up(ps, q))
         PROVE  Tab(ts2, c, Idx(ps, q)) = NoSegment
    <3>1. q # p /\ Stage(ps, q) = "pending"
      BY <1>2, <1>6, <2>14 DEF OneGoes
    <3>2. Idx(ps, q) # Idx(ps, p)
      BY <1>9, <2>7, <2>14, <3>1
    <3>3. Tab(ts, c, Idx(ps, q)) = NoSegment
      BY <1>9, <2>2, <2>4, <2>14, <3>1 DEF TablesAt
    <3> QED BY <2>10, <2>11, <3>2, <3>3
  <2>15. ASSUME Stage(ps2, q) = "pending", Up(ps, q) # 0, Stage(ps2, Up(ps, q)) = "done"
         PROVE  Sees(ps2, ts2, q) = f2[Up(ps, q)]
    <3>1. q # p /\ Stage(ps, q) = "pending"
      BY <1>2, <1>6, <2>15 DEF OneGoes
    <3>2. CASE Up(ps, q) = p
      <4>1. CASE Idx(ps, q) = Idx(ps, p)
        BY <1>2, <1>7, <2>6, <2>10, <2>12, <3>2, <4>1 DEF Sees, OrElse
      <4>2. CASE Idx(ps, q) # Idx(ps, p)
        <5>1. Tab(ts2, c, Idx(ps, q)) = NoSegment
          BY <2>14, <2>15, <3>2, <4>2
        <5>2. Par(ps, q) = Idx(ps, p)
          BY <2>13, <2>15, <3>2
        <5> QED BY <1>2, <1>7, <2>6, <2>10, <2>12, <3>2, <5>1, <5>2 DEF Sees, OrElse
      <4> QED BY <4>1, <4>2
    <3>3. CASE Up(ps, q) # p
      <4>1. PICK w \in DOMAIN ps : w = Up(ps, q) /\ w # p /\ Stage(ps, w) = "done" /\ Ctx(ps, w) = c
        BY <1>6, <2>13, <2>15, <3>3
      <4>2. Sees(ps, ts, q) = f[w]
        BY <2>2, <2>4, <2>15, <3>1, <4>1 DEF TablesAt
      <4>3. Idx(ps, q) # Idx(ps, p)
        <5> SUFFICES ASSUME Idx(ps, q) = Idx(ps, p) PROVE FALSE
          OBVIOUS
        <5>1. Idx(ps, w) = Idx(ps, p) /\ p <= w
          BY <1>9, <2>7, <3>1, <4>1
        <5>2. w < p
          BY <2>8, <4>1, <5>1
        <5> QED BY <1>2, <1>8, <4>1, <5>1, <5>2
      <4>4. Idx(ps, w) # Idx(ps, p)
        <5> SUFFICES ASSUME Idx(ps, w) = Idx(ps, p) PROVE FALSE
          OBVIOUS
        <5>1. Kid(ps, w) \in DOMAIN ps /\ Idx(ps, Kid(ps, w)) = Idx(ps, w)
          BY <2>8, <4>1
        <5>2. Kid(ps, w) \in {q, Many}
          BY <1>1, <2>15, <4>1 DEF Descended
        <5>3. Kid(ps, w) = q
          BY <1>8, <5>1, <5>2
        <5> QED BY <4>3, <5>1, <5>3
      <4>5. Idx(ps, p) # 1
        BY <2>9, <4>1, <4>4
      <4>6. /\ Tab(ts2, c, Idx(ps, q)) = Tab(ts, c, Idx(ps, q))
            /\ Tab(ts2, c, Par(ps, q)) = Tab(ts, c, Par(ps, q)) /\ Tab(ts2, c, 1) = Tab(ts, c, 1)
        BY <2>10, <2>11, <2>13, <2>15, <4>1, <4>3, <4>4, <4>5
      <4>7. Sees(ps2, ts2, q) = Sees(ps, ts, q)
        BY <1>7, <1>9, <4>6 DEF Sees
      <4> QED BY <2>3, <4>1, <4>2, <4>7
    <3> QED BY <3>2, <3>3
  <2>16. ASSUME Up(ps, q) = 0 PROVE Stage(ps2, q) = "done"
    BY <1>2, <1>4, <1>6, <1>9, <2>16
  <2>17. ASSUME Stage(ps2, q) = "done", Linked(ps2, q), Kid(ps, q) \in {0, Many} PROVE Leaves(ps2, ts2, q) = f2[q]
    <3>1. CASE q = p
      BY <1>2, <1>7, <2>6, <2>10, <2>12, <3>1 DEF Leaves, OrElse
    <3>2. CASE q # p
      <4>1. Stage(ps, q) = "done" /\ Leaves(ps, ts, q) = f[q]
        BY <1>6, <1>7, <2>2, <2>4, <2>17, <3>2 DEF TablesAt
      <4>2. Idx(ps, q) # Idx(ps, p)
        BY <1>8, <1>9, <2>8, <2>17, <3>2, <4>1
      <4>3. Idx(ps, p) # 1
        BY <1>9, <2>9, <4>1, <4>2
      <4>4. Tab(ts2, c, Idx(ps, q)) = Tab(ts, c, Idx(ps, q)) /\ Tab(ts2, c, 1) = Tab(ts, c, 1)
        BY <2>10, <2>11, <4>2, <4>3
      <4> QED BY <1>7, <1>9, <2>3, <4>1, <4>4 DEF Leaves
    <3> QED BY <3>1, <3>2
  <2>18. ASSUME Unbranched(ps2, c), Own(ps2, q) # NoSegment, NoneAfter(ps2, q) PROVE Tab(ts2, c, 1) = Own(ps2, q)
    <3>1. Unbranched(ps, c)
      BY <1>2, <1>7, <2>18 DEF Unbranched
    <3>2. Idx(ps, p) = 1 /\ Idx(ps, q) = 1
      BY <1>1, <1>2, <1>4, <1>9, <2>4, <3>1 DEF ShapeGood, OneLine
    <3>3. Tab(ts2, c, 1) = v
      BY <2>10, <3>2
    <3>4. CASE Own(ps2, p) = Own(ps, p) /\ v = Sees(ps, ts, p)
      <4>1. Tab(ts, c, 1) # NoSegment
        BY <1>1, InsideTables
      <4>2. v = Tab(ts, c, 1)
        BY <1>4, <3>2, <3>4, <4>1 DEF Sees, OrElse
      <4>3. Own(ps, q) = Own(ps2, q) /\ q # p
        BY <1>2, <1>6, <2>18, <3>4
      <4>4. NoneAfter(ps, q)
        BY <1>2, <1>6, <1>7, <2>18, <3>4 DEF NoneAfter
      <4>5. Tab(ts, c, 1) = Own(ps, q)
        BY <1>9, <2>2, <2>4, <2>18, <3>1, <4>3, <4>4 DEF TablesAt
      <4> QED BY <3>3, <4>2, <4>3, <4>5
    <3>5. CASE Own(ps2, p) = v /\ q = p
      BY <3>3, <3>5
    <3>6. CASE Own(ps2, p) = v /\ q # p
      <4>1. ~(p > q)
        BY <1>2, <1>4, <1>7, <1>9, <2>18, <3>6 DEF NoneAfter
      <4>2. p < q
        BY <1>2, <1>8, <3>6, <4>1
      <4>3. Stage(ps, q) = "pending"
        <5>1. ~(q < p)
          BY <1>2, <1>8, <4>2
        <5> QED BY <1>9, <2>8, <3>2, <3>6, <5>1
      <4>4. Up(ps, q) # 0
        BY <1>9, <2>7, <3>2, <3>6, <4>3
      <4>5. Own(ps, q) # NoSegment
        BY <1>6, <2>18, <3>6
      <4> QED BY <1>1, <4>3, <4>4, <4>5 DEF InTurn
    <3> QED BY <3>4, <3>5, <3>6 DEF Fills
  <2>19. ASSUME Ran(ps2, q) # NoSegment, Up(ps, q) # 0 PROVE Ran(ps2, q) = f2[Up(ps, q)]
    <3>1. CASE q = p /\ Ran(ps2, p) # Ran(ps, p)
      <4>1. Ran(ps2, p) = v /\ Stage(ps, p) = "pending" /\ v = Sees(ps, ts, p)
        BY <2>19, <3>1 DEF Fills
      <4>2. v = f[u]
        BY <1>2, <1>5, <2>2, <2>4, <4>1 DEF TablesAt
      <4> QED BY <1>5, <2>6, <3>1, <4>1, <4>2
    <3>2. CASE Ran(ps2, q) = Ran(ps, q)
      <4>1. Ran(ps, q) = f[Up(ps, q)]
        BY <2>2, <2>4, <2>19, <3>2 DEF TablesAt
      <4>2. Stage(ps, Up(ps, q)) = "done"
        BY <1>1, <2>19, <3>2 DEF InTurn, Descended
      <4> QED BY <2>3, <2>13, <2>19, <3>2, <4>1, <4>2
    <3> QED BY <1>6, <3>1, <3>2
  <2>20. \A r \in DOMAIN ps : r = q => Up(ps2, r) = Up(ps, r) /\ Idx(ps2, r) = Idx(ps, r) /\ Kid(ps2, r) = Kid(ps, r)
    BY <1>7
  <2>21. Up(ps, q) # 0 => Idx(ps2, Up(ps, q)) = Idx(ps, Up(ps, q))
    BY <1>7, <2>13
  <2> QED BY <1>7, <2>12, <2>14, <2>15, <2>16, <2>17, <2>18, <2>19, <2>21 DEF TablesAt
<1>10. ASSUME NEW f, ReachedBy(ps2, f) PROVE TablesGood(ps2, ts2, cr, f)
  <2> SUFFICES ASSUME NEW q \in DOMAIN ps2 PROVE TablesAt(ps2, ts2, cr, f, q)
    BY TablesOneByOne
  <2>1. CASE Ctx(ps, q) # c
    <3>1. Ctx(ps2, q) # c
      BY <1>2, <1>7, <2>1
    <3> QED BY <1>4, <1>10, <3>1, ElsewhereAtPeace
  <2>2. CASE Ctx(ps, q) = c /\ c \in cr
    <3>1. ~Plain(ps2, cr, q)
      BY <1>2, <1>7, <2>2 DEF Plain
    <3> QED BY <3>1 DEF TablesAt
  <2>3. CASE Ctx(ps, q) = c /\ c \notin cr
    BY <1>2, <1>9, <1>10, <2>3
  <2> QED BY <2>1, <2>2, <2>3
<1> QED BY <1>1, <1>3, <1>10 DEF Good

-----------------------------------------------------------------------------
\* A promise that has dropped its link runs, or one is passed over in a context the algorithm
\* does not account for, and fills nothing.
Passes(ps, ps2, cr, p) ==
    /\ OneGoes(ps, ps2, p) /\ Up(ps, p) # 0 /\ (Plain(ps, cr, p) => ~Linked(ps, p)) /\ Stage(ps, p) = "pending"
    /\ Own(ps2, p) = Own(ps, p) /\ Ran(ps2, p) = NoSegment

LEMMA PassesKeep ==
    ASSUME NEW ps, NEW ts, NEW cr, NEW ps2, NEW p, Good(ps, ts, cr), Passes(ps, ps2, cr, p), ps2 \in Seq(Promises)
    PROVE  Good(ps2, ts, cr)
<1>1. ChainsGood(ps, ts) /\ ShapeGood(ps, cr) /\ Descended(ps) /\ InTurn(ps) /\ Owned(ps, ts) /\ RootFirst(ps, ts) /\ Filled(ts)
  BY DEF Good, ChainsGood
<1>2. /\ OneGoes(ps, ps2, p) /\ SamePlaces(ps, ps2) /\ p \in DOMAIN ps /\ DOMAIN ps2 = DOMAIN ps
      /\ Up(ps, p) # 0 /\ Stage(ps, p) = "pending" /\ (Plain(ps, cr, p) => ~Linked(ps, p))
  BY DEF Passes, OneGoes, SamePlaces
<1>3. ShapeGood(ps2, cr)
  BY <1>2, OneGoesInShape
<1>4. /\ \A q \in DOMAIN ps : q # p => Stage(ps2, q) = Stage(ps, q) /\ Ran(ps2, q) = Ran(ps, q)
      /\ \A q \in DOMAIN ps : Own(ps2, q) = Own(ps, q)
      /\ Ran(ps2, p) = NoSegment /\ Stage(ps2, p) \in {"waiting", "done"}
  BY <1>2 DEF Passes, OneGoes
<1>5. \A q \in DOMAIN ps : /\ Ctx(ps2, q) = Ctx(ps, q) /\ Idx(ps2, q) = Idx(ps, q) /\ Par(ps2, q) = Par(ps, q)
                           /\ Kid(ps2, q) = Kid(ps, q) /\ Up(ps2, q) = Up(ps, q)
                           /\ (Linked(ps2, q) <=> Linked(ps, q))
  BY <1>2 DEF SamePlaces, OneGoes
<1>6. ChainsGood(ps2, ts)
  <2>1. Placed(ps2, ts) /\ Descended(ps2) /\ OneRoot(ps2) /\ InTurn(ps2)
    BY <1>1, <1>2, OneGoesInTurn
  <2>2. Owned(ps2, ts)
    BY <1>1, <1>2, <1>4, <1>5 DEF Owned
  <2>3. RootFirst(ps2, ts)
    <3> SUFFICES ASSUME NEW r \in DOMAIN ps, Ctx(ps, r) # 0, Up(ps, r) = 0, Stage(ps2, r) # "done"
                 PROVE  /\ \A q \in DOMAIN ps : Ctx(ps, q) = Ctx(ps, r) /\ q # r =>
                               Stage(ps2, q) = "pending" /\ Ran(ps2, q) = NoSegment
                        /\ \A i \in 2..Size(ts, Ctx(ps, r)) : Tab(ts, Ctx(ps, r), i) = NoSegment
      BY <1>2, <1>5 DEF RootFirst
    <3>1. r # p /\ Stage(ps, r) # "done"
      BY <1>2, <1>4
    <3>2. Ctx(ps, p) # Ctx(ps, r)
      BY <1>1, <1>2, <3>1, WhoIsBefore DEF OneGoes
    <3> QED BY <1>1, <1>4, <3>1, <3>2 DEF RootFirst
  <2> QED BY <1>1, <2>1, <2>2, <2>3 DEF ChainsGood
<1>7. ASSUME NEW f, ReachedBy(ps2, f), NEW q \in DOMAIN ps PROVE TablesAt(ps2, ts, cr, f, q)
  <2>1. ReachedBy(ps, f)
    BY <1>2, <1>4, <1>5, <1>7 DEF ReachedBy
  <2>2. TablesAt(ps, ts, cr, f, q)
    BY <2>1, TablesOneByOne DEF Good
  <2>3. Plain(ps2, cr, q) => Plain(ps, cr, q)
    BY <1>2, <1>5 DEF Plain
  <2>4. /\ Unbranched(ps2, Ctx(ps, q)) => Unbranched(ps, Ctx(ps, q))
        /\ NoneAfter(ps2, q) => NoneAfter(ps, q)
    BY <1>2, <1>4, <1>5 DEF Unbranched, NoneAfter
  <2>5. Sees(ps2, ts, q) = Sees(ps, ts, q) /\ Leaves(ps2, ts, q) = Leaves(ps, ts, q)
    BY <1>5 DEF Sees, Leaves
  <2>6. Up(ps, q) # 0 => Up(ps, q) \in DOMAIN ps /\ Kid(ps, Up(ps, q)) \in {q, Many} /\ Ctx(ps, Up(ps, q)) = Ctx(ps, q)
    BY <1>1 DEF Descended
  <2>7. Plain(ps, cr, q) /\ Up(ps, q) # 0 => Up(ps, q) # p
    <3> SUFFICES ASSUME Plain(ps, cr, q), Up(ps, q) # 0, Up(ps, q) = p PROVE FALSE
      OBVIOUS
    <3>1. Plain(ps, cr, p)
      BY <1>2, <2>6 DEF Plain
    <3>2. Kid(ps, p) = 0
      BY <1>1, <1>2, <3>1 DEF ShapeGood, NoGaps
    <3>3. q # 0
      BY <1>1, PromiseTypes DEF ChainsGood
    <3> QED BY <2>6, <3>2, <3>3 DEF Many
  <2>8. CASE q # p
    <3>1. Stage(ps2, q) = Stage(ps, q) /\ Ran(ps2, q) = Ran(ps, q)
      BY <1>4, <2>8
    <3>2. Plain(ps, cr, q) /\ Up(ps, q) # 0 => /\ Stage(ps2, Up(ps, q)) = Stage(ps, Up(ps, q))
                                               /\ Idx(ps2, Up(ps, q)) = Idx(ps, Up(ps, q))
      BY <1>4, <1>5, <2>6, <2>7
    <3>3. /\ Plain(ps2, cr, q) /\ Stage(ps2, q) = "pending" /\ Up(ps2, q) # 0 /\ Idx(ps2, q) # Idx(ps2, Up(ps2, q))
          => Tab(ts, Ctx(ps2, q), Idx(ps2, q)) = NoSegment
      BY <1>5, <2>2, <2>3, <3>1, <3>2 DEF TablesAt
    <3>4. Plain(ps2, cr, q) /\ Stage(ps2, q) = "pending" /\ Up(ps2, q) # 0 /\ Stage(ps2, Up(ps2, q)) = "done"
          => Sees(ps2, ts, q) = f[Up(ps2, q)]
      BY <1>5, <2>2, <2>3, <2>5, <3>1, <3>2 DEF TablesAt
    <3> QED BY <1>4, <1>5, <2>2, <2>3, <2>4, <2>5, <3>1, <3>3, <3>4 DEF TablesAt
  <2>9. CASE q = p
    <3>1. Up(ps2, q) # 0 /\ Stage(ps2, q) # "pending" /\ (Plain(ps2, cr, q) => ~Linked(ps2, q)) /\ Ran(ps2, q) = NoSegment /\ Ctx(ps2, q) = Ctx(ps, q)
      BY <1>2, <1>4, <1>5, <2>3, <2>9
    <3> QED BY <1>4, <2>2, <2>3, <2>4, <3>1 DEF TablesAt
  <2> QED BY <2>8, <2>9
<1>8. ASSUME NEW f, ReachedBy(ps2, f) PROVE TablesGood(ps2, ts, cr, f)
  BY <1>2, <1>7, <1>8, TablesOneByOne
<1> QED BY <1>3, <1>6, <1>8 DEF Good

-----------------------------------------------------------------------------
\* Who is below a promise, through first children only.
LEMMA LineBelow ==
    ASSUME NEW ps, ps \in Seq(Promises), Descended(ps), NEW p \in DOMAIN ps, Ctx(ps, p) # 0
    PROVE  \A q \in Line(ps, p) : q \in DOMAIN ps /\ Ctx(ps, q) = Ctx(ps, p) /\ Up(ps, q) # 0 /\ p < q
<1>1. PICK S : S = {q \in DOMAIN ps : Ctx(ps, q) = Ctx(ps, p) /\ Up(ps, q) # 0 /\ p < q}
  OBVIOUS
<1>2. \A q \in DOMAIN ps : q \in Nat /\ q # 0 /\ Kid(ps, q) \in Nat \cup {Many}
  BY PromiseTypes
<1>3. ASSUME NEW q \in S \cup {p}, Kid(ps, q) > 0 PROVE Kid(ps, q) \in S
  <2>1. q \in DOMAIN ps /\ Ctx(ps, q) = Ctx(ps, p) /\ (q = p \/ p < q)
    BY <1>1
  <2>2. Kid(ps, q) \notin {0, Many}
    BY <1>2, <1>3, <2>1 DEF Many
  <2>3. PICK k \in DOMAIN ps : k = Kid(ps, q) /\ q < k /\ Up(ps, k) = q
    BY <2>1, <2>2 DEF Descended
  <2>4. Up(ps, k) # 0 /\ Ctx(ps, k) = Ctx(ps, q)
    BY <1>2, <2>1, <2>3 DEF Descended
  <2>5. p < k
    BY <1>2, <2>1, <2>3
  <2> QED BY <1>1, <2>1, <2>3, <2>4, <2>5
<1>4. S \subseteq DOMAIN ps /\ \A q \in S \cup {p} : ps[q].link.child > 0 => ps[q].link.child \in S
  BY <1>1, <1>3 DEF Kid
<1>5. ASSUME NEW q \in Line(ps, p) PROVE q \in S
  BY <1>4, <1>5 DEF Line
<1> QED BY <1>1, <1>5

LEMMA LineIsAllBelow ==
    ASSUME NEW ps, NEW cr, ps \in Seq(Promises), Descended(ps), InLine(ps, cr), NEW p \in DOMAIN ps, Plain(ps, cr, p),
           \A q \in DOMAIN ps : Ctx(ps, q) = Ctx(ps, p) => Idx(ps, q) = 1 /\ Kid(ps, q) # Many,
           NEW q \in DOMAIN ps, Ctx(ps, q) = Ctx(ps, p), p < q
    PROVE  q \in Line(ps, p)
<1>1. \A r \in DOMAIN ps : r \in Nat /\ r # 0 /\ r > 0
  <2>1. \A r \in DOMAIN ps : r \in Nat /\ r # 0
    BY PromiseTypes
  <2> QED BY <2>1
<1>2. SUFFICES ASSUME NEW S \in SUBSET DOMAIN ps, \A r \in S \cup {p} : ps[r].link.child > 0 => ps[r].link.child \in S
               PROVE  q \in S
  BY DEF Line
<1>3. \A r \in S \cup {p} : Kid(ps, r) > 0 => Kid(ps, r) \in S
  BY <1>2 DEF Kid
<1>4. PICK T : T = {r \in DOMAIN ps : Ctx(ps, r) = Ctx(ps, p) /\ p < r /\ r \notin S}
  OBVIOUS
<1>5. SUFFICES ASSUME T # {} PROVE FALSE
  BY <1>4
<1>6. T \subseteq Nat
  BY <1>1, <1>4
<1>7. PICK r \in T : \A s \in T : r <= s
  BY <1>5, <1>6, LeastElement
<1>8. r \in DOMAIN ps /\ Ctx(ps, r) = Ctx(ps, p) /\ p < r /\ r \notin S
  BY <1>4, <1>7
<1>9. Alike(ps, cr, p, r)
  BY <1>8 DEF Alike, Together
<1>10. Up(ps, r) # 0 /\ p <= Up(ps, r)
  BY <1>8, <1>9 DEF InLine
<1>11. PICK u \in DOMAIN ps : u = Up(ps, r) /\ u < r /\ Ctx(ps, u) = Ctx(ps, p) /\ Kid(ps, u) \in {r, Many} /\ p <= u
  BY <1>8, <1>10 DEF Descended
<1>12. Kid(ps, u) = r /\ r > 0
  BY <1>1, <1>8, <1>11
<1>13. u \in S \cup {p}
  <2>1. CASE u = p
    BY <2>1
  <2>2. CASE u # p
    <3>1. p < u
      BY <1>1, <1>11, <2>2
    <3>2. u \notin T
      <4>1. u \in Nat /\ r \in Nat
        BY <1>1, <1>8
      <4> QED BY <4>1, <1>7, <1>11
    <3> QED BY <1>4, <1>11, <3>1, <3>2
  <2> QED BY <2>1, <2>2
<1> QED BY <1>3, <1>8, <1>12, <1>13

\* A chain that has one segment has reached that.
OwnsOnly(ps, c, v) ==
    \A q \in DOMAIN ps : Ctx(ps, q) = c => Own(ps, q) \in {NoSegment, v} /\ (Up(ps, q) = 0 => Own(ps, q) = v)
LEMMA OneSegment ==
    ASSUME NEW ps, ps \in Seq(Promises), Descended(ps), NEW f, ReachedBy(ps, f), NEW c, NEW v, v # NoSegment,
           OwnsOnly(ps, c, v), NEW p \in DOMAIN ps, Ctx(ps, p) = c
    PROVE  f[p] = v
<1>1. PICK T : T = {q \in DOMAIN ps : Ctx(ps, q) = c /\ f[q] # v}
  OBVIOUS
<1>2. SUFFICES ASSUME T # {} PROVE FALSE
  BY <1>1
<1>3. T \subseteq Nat /\ DOMAIN ps \subseteq Nat
  BY <1>1, UpsAreBefore
<1>4. PICK q \in T : \A r \in T : q <= r
  BY <1>2, <1>3, LeastElement
<1>5. q \in DOMAIN ps /\ Ctx(ps, q) = c /\ f[q] # v
  BY <1>1, <1>4
<1>6. f[q] = OrElse(Own(ps, q), f[Up(ps, q)])
  BY <1>5 DEF ReachedBy
<1>7. Own(ps, q) = NoSegment /\ Up(ps, q) # 0 /\ f[q] = f[Up(ps, q)]
  BY <1>5, <1>6 DEF OrElse, OwnsOnly
<1>8. PICK u \in DOMAIN ps : u = Up(ps, q) /\ u < q /\ Ctx(ps, u) = c
  BY <1>5, <1>7 DEF Descended
<1>9. u \in T
  BY <1>1, <1>5, <1>7, <1>8
<1> QED BY <1>3, <1>4, <1>8, <1>9

-----------------------------------------------------------------------------
\* The second child of a promise: it and the line below it get places of their own.
Branches(ps, ts, ps2, ts2, p, place, branch) ==
    /\ p \in DOMAIN ps /\ Linked(ps, p) /\ Kid(ps, p) \in DOMAIN ps /\ SameRuns(ps, ps2)
    /\ \A q \in DOMAIN ps : /\ Ctx(ps2, q) = Ctx(ps, q) /\ Up(ps2, q) = Up(ps, q) /\ Prev(ps2, q) = Prev(ps, q)
                            /\ Linked(ps2, q) <=> Linked(ps, q)
                            /\ q # p => Kid(ps2, q) = Kid(ps, q)
                            /\ q # p /\ q \notin Line(ps, p) => Idx(ps2, q) = Idx(ps, q) /\ Par(ps2, q) = Par(ps, q)
                            /\ q # p /\ q \in Line(ps, p) =>
                                   /\ Idx(ps2, q) = branch
                                   /\ Par(ps2, q) = IF q = Kid(ps, p) THEN place ELSE branch
    /\ Kid(ps2, p) = Many /\ Idx(ps2, p) = place /\ Par(ps2, p) = Par(ps, p)
    /\ \/ Par(ps, p) # 0 /\ place = Size(ts, Ctx(ps, p)) + 1 /\ branch = Size(ts, Ctx(ps, p)) + 2
       \/ Par(ps, p) = 0 /\ place = Idx(ps, p) /\ branch = Size(ts, Ctx(ps, p)) + 1
    /\ Len(ts2) = Len(ts)
    /\ \A d \in 1..Len(ts) : d # Ctx(ps, p) =>
           Size(ts2, d) = Size(ts, d) /\ \A i \in 1..Size(ts, d) : Tab(ts2, d, i) = Tab(ts, d, i)
    /\ Size(ts2, Ctx(ps, p)) = branch
    /\ \A i \in 1..branch : IF i \in 1..Size(ts, Ctx(ps, p)) THEN Tab(ts2, Ctx(ps, p), i) = Tab(ts, Ctx(ps, p), i)
                            ELSE Tab(ts2, Ctx(ps, p), i) = NoSegment

\* The facts the proofs below use of it.
LEMMA BranchesFacts ==
    ASSUME NEW ps, NEW ts, NEW ps2, NEW ts2, NEW p, NEW place, NEW branch, ChainsGood(ps, ts),
           Branches(ps, ts, ps2, ts2, p, place, branch)
    PROVE  /\ p \in DOMAIN ps /\ DOMAIN ps2 = DOMAIN ps /\ Len(ts2) = Len(ts)
           /\ Ctx(ps, p) \in 1..Len(ts) /\ Ctx(ps, p) # 0 /\ Size(ts, Ctx(ps, p)) \in Nat /\ Size(ts, Ctx(ps, p)) > 0
           /\ Elsewhere(ps, ts, ps2, ts2, Ctx(ps, p))
           /\ place \in 1..branch /\ branch \in Nat /\ branch > Size(ts, Ctx(ps, p)) /\ place # branch
           /\ branch # 1 /\ branch \in 1..branch /\ branch \notin 1..Size(ts, Ctx(ps, p))
           /\ Up(ps, p) = 0 => place = 1 /\ Idx(ps, p) = 1
           /\ Up(ps, p) # 0 => place # 1 /\ place \notin 1..Size(ts, Ctx(ps, p))
           /\ \A q \in Line(ps, p) : q \in DOMAIN ps /\ Ctx(ps, q) = Ctx(ps, p) /\ Up(ps, q) # 0 /\ p < q /\ q # p
           /\ 1 \in 1..Size(ts, Ctx(ps, p)) /\ 1 \in 1..branch /\ Tab(ts2, Ctx(ps, p), 1) = Tab(ts, Ctx(ps, p), 1)
<1>1. p \in DOMAIN ps /\ DOMAIN ps2 = DOMAIN ps /\ Len(ts2) = Len(ts) /\ Linked(ps, p)
  BY DEF Branches, SameRuns
<1>2. PICK c : c = Ctx(ps, p)
  OBVIOUS
<1>3. c # 0
  BY <1>1, <1>2 DEF ChainsGood, Placed
<1>4. c \in 1..Len(ts) /\ Idx(ps, p) \in 1..Size(ts, c)
  BY <1>1, <1>2, <1>3, InsideTables
<1>5. PICK n \in Nat : n = Size(ts, c) /\ n > 0 /\ 1 \in 1..n
  BY <1>4, InsideTables
<1>6. /\ Up(ps, p) = 0 => Idx(ps, p) = 1 /\ Par(ps, p) = 0
      /\ Up(ps, p) # 0 => Par(ps, p) # 0
  BY <1>1, <1>2, <1>3 DEF ChainsGood, Placed, Descended
<1>7. \/ Up(ps, p) # 0 /\ place = n + 1 /\ branch = n + 2
      \/ Up(ps, p) = 0 /\ place = 1 /\ Idx(ps, p) = 1 /\ branch = n + 1
  BY <1>2, <1>5, <1>6 DEF Branches
<1>8. /\ place \in 1..branch /\ branch \in Nat /\ branch > n /\ place # branch /\ branch # 1 /\ branch \in 1..branch
      /\ branch \notin 1..n
      /\ Up(ps, p) = 0 => place = 1 /\ Idx(ps, p) = 1
      /\ Up(ps, p) # 0 => place # 1 /\ place \notin 1..n
  BY <1>5, <1>7
<1>9. \A q \in Line(ps, p) : q \in DOMAIN ps /\ Ctx(ps, q) = c /\ Up(ps, q) # 0 /\ p < q /\ q # p
  <2>1. \A q \in Line(ps, p) : q \in DOMAIN ps /\ Ctx(ps, q) = c /\ Up(ps, q) # 0 /\ p < q
    BY <1>1, <1>2, <1>3, LineBelow DEF ChainsGood
  <2>2. \A q \in DOMAIN ps : q \in Nat
    BY PromiseTypes DEF ChainsGood
  <2> QED BY <1>1, <2>1, <2>2
<1>10. Elsewhere(ps, ts, ps2, ts2, c)
  <2>1. \A q \in DOMAIN ps : /\ Ctx(ps2, q) = Ctx(ps, q) /\ Up(ps2, q) = Up(ps, q)
    BY DEF Branches
  <2>2. ASSUME NEW q \in DOMAIN ps, Ctx(ps, q) # c PROVE Untouched(ps, ps2, q) /\ Kid(ps2, q) = Kid(ps, q)
    <3>1. q # p /\ q \notin Line(ps, p)
      BY <1>2, <1>9, <2>2
    <3> QED BY <3>1 DEF Branches, SameRuns, Untouched
  <2>3. \A d \in 1..Len(ts) : d # c =>
            Size(ts2, d) = Size(ts, d) /\ \A i \in 1..Size(ts, d) : Tab(ts2, d, i) = Tab(ts, d, i)
    BY <1>2 DEF Branches
  <2> QED BY <1>1, <2>1, <2>2, <2>3 DEF Elsewhere
<1>11. 1 \in 1..branch
  BY <1>5, <1>7
<1>12. Tab(ts2, c, 1) = Tab(ts, c, 1)
  BY <1>2, <1>5, <1>11 DEF Branches
<1> QED BY <1>1, <1>2, <1>3, <1>4, <1>5, <1>8, <1>9, <1>10, <1>11, <1>12

LEMMA BranchesInChains ==
    ASSUME NEW ps, NEW ts, NEW ps2, NEW ts2, NEW p, NEW place, NEW branch, ChainsGood(ps, ts),
           Branches(ps, ts, ps2, ts2, p, place, branch), ps2 \in Seq(Promises), ts2 \in Seq(Seq(SegmentOrNone))
    PROVE  ChainsGood(ps2, ts2)
<1>1. PICK c : c = Ctx(ps, p)
  OBVIOUS
<1>2. /\ p \in DOMAIN ps /\ DOMAIN ps2 = DOMAIN ps /\ Len(ts2) = Len(ts)
      /\ c \in 1..Len(ts) /\ c # 0 /\ Size(ts, c) \in Nat /\ Size(ts, c) > 0 /\ Elsewhere(ps, ts, ps2, ts2, c)
      /\ place \in 1..branch /\ branch \in Nat /\ branch > Size(ts, c) /\ branch \in 1..branch
      /\ (Up(ps, p) = 0 => place = 1)
      /\ \A q \in Line(ps, p) : q \in DOMAIN ps /\ Ctx(ps, q) = c /\ Up(ps, q) # 0 /\ q # p
      /\ Tab(ts2, c, 1) = Tab(ts, c, 1)
  BY <1>1, BranchesFacts
<1>3. /\ \A q \in DOMAIN ps : Ctx(ps2, q) = Ctx(ps, q) /\ Up(ps2, q) = Up(ps, q) /\ Prev(ps2, q) = Prev(ps, q)
      /\ \A q \in DOMAIN ps : Linked(ps2, q) <=> Linked(ps, q)
      /\ \A q \in DOMAIN ps : q # p => Kid(ps2, q) = Kid(ps, q)
      /\ Kid(ps2, p) = Many
      /\ SameRuns(ps, ps2)
  BY DEF Branches
<1>4. \A d \in 1..Len(ts) : d # c => Size(ts2, d) = Size(ts, d) /\ \A i \in 1..Size(ts, d) : Tab(ts2, d, i) = Tab(ts, d, i)
  BY <1>1 DEF Branches
<1>5. /\ Size(ts2, c) = branch
      /\ \A i \in 1..branch : IF i \in 1..Size(ts, c) THEN Tab(ts2, c, i) = Tab(ts, c, i) ELSE Tab(ts2, c, i) = NoSegment
  BY <1>1 DEF Branches
<1>6. Placed(ps, ts) /\ Descended(ps) /\ OneRoot(ps) /\ InTurn(ps) /\ Filled(ts) /\ Owned(ps, ts) /\ RootFirst(ps, ts)
  BY DEF ChainsGood
<1>7. \A d \in 1..Len(ts) : Size(ts, d) \in Nat /\ Size(ts, d) > 0 /\ Tab(ts, d, 1) # NoSegment
  BY InsideTables
<1>8. \A q \in DOMAIN ps : q # p /\ q \notin Line(ps, p) => Idx(ps2, q) = Idx(ps, q) /\ Par(ps2, q) = Par(ps, q)
  BY DEF Branches
<1>9. \A q \in DOMAIN ps : q \in Line(ps, p) =>
          q # p /\ Ctx(ps, q) = c /\ Up(ps, q) # 0 /\ Idx(ps2, q) = branch /\ Par(ps2, q) \in {place, branch}
  BY <1>2 DEF Branches
<1>10. Idx(ps2, p) = place /\ Par(ps2, p) = Par(ps, p)
  BY DEF Branches
<1>11. \A i \in 0..Size(ts, c) : i \in 0..branch
  BY <1>2
<1>12. \A i \in 1..Size(ts, c) : i \in 1..branch
  BY <1>2
<1>13. \A q \in DOMAIN ps : Ctx(ps, q) # 0 => Par(ps2, q) # 0 \/ Up(ps, q) = 0
  <2>1. place # 0 /\ branch # 0
    BY <1>2
  <2>2. \A q \in DOMAIN ps : Up(ps, q) # 0 => Par(ps, q) # 0
    BY <1>6 DEF Descended
  <2> QED BY <1>8, <1>9, <1>10, <2>1, <2>2
<1>14. Placed(ps2, ts2)
  <2> SUFFICES ASSUME NEW q \in DOMAIN ps
               PROVE  /\ Ctx(ps, q) # 0 => /\ Ctx(ps, q) \in 1..Len(ts)
                                           /\ Idx(ps2, q) \in 1..Size(ts2, Ctx(ps, q))
                                           /\ Par(ps2, q) \in 0..Size(ts2, Ctx(ps, q))
                      /\ Ctx(ps, q) = 0 => /\ ~Linked(ps, q) /\ Up(ps, q) = 0
                                           /\ Own(ps, q) = NoSegment /\ Ran(ps, q) = NoSegment
                      /\ Up(ps, q) = 0 /\ Ctx(ps, q) # 0 => Own(ps, q) # NoSegment /\ Idx(ps2, q) = 1 /\ Par(ps2, q) = 0
    BY <1>2, <1>3 DEF Placed, SameRuns
  <2>1. CASE q = p
    <3>1. Idx(ps2, q) \in 1..branch /\ Par(ps2, q) \in 0..branch
      <4>1. Par(ps, p) \in 0..Size(ts, c)
        BY <1>1, <1>2, <1>6 DEF Placed
      <4> QED BY <1>2, <1>10, <1>11, <2>1, <4>1
    <3>2. Up(ps, q) = 0 => Own(ps, q) # NoSegment /\ Idx(ps2, q) = 1 /\ Par(ps2, q) = 0
      BY <1>1, <1>2, <1>6, <1>10, <2>1 DEF Placed
    <3> QED BY <1>1, <1>2, <1>5, <2>1, <3>1, <3>2
  <2>2. CASE q \in Line(ps, p)
    <3>1. Ctx(ps, q) = c /\ Up(ps, q) # 0 /\ Idx(ps2, q) = branch /\ Par(ps2, q) \in {place, branch}
      BY <1>9, <2>2
    <3>2. Par(ps2, q) \in 0..branch
      BY <1>2, <3>1
    <3> QED BY <1>2, <1>5, <3>1, <3>2
  <2>3. CASE q # p /\ q \notin Line(ps, p)
    <3>1. Idx(ps2, q) = Idx(ps, q) /\ Par(ps2, q) = Par(ps, q)
      BY <1>8, <2>3
    <3>2. Ctx(ps, q) # 0 => /\ Ctx(ps, q) \in 1..Len(ts) /\ Idx(ps, q) \in 1..Size(ts, Ctx(ps, q))
                            /\ Par(ps, q) \in 0..Size(ts, Ctx(ps, q))
      BY <1>6 DEF Placed
    <3>3. CASE Ctx(ps, q) = c
      BY <1>2, <1>5, <1>6, <1>11, <1>12, <3>1, <3>2, <3>3 DEF Placed
    <3>4. CASE Ctx(ps, q) # c
      BY <1>4, <1>6, <3>1, <3>2, <3>4 DEF Placed
    <3> QED BY <3>3, <3>4
  <2> QED BY <2>1, <2>2, <2>3
<1>15. Descended(ps2)
  <2> SUFFICES ASSUME NEW q \in DOMAIN ps
               PROVE  /\ Prev(ps, q) # 0 => Prev(ps, q) \in DOMAIN ps /\ Prev(ps, q) < q
                      /\ Up(ps, q) # 0 => /\ Up(ps, q) = Prev(ps, q) /\ Up(ps, q) \in DOMAIN ps /\ Up(ps, q) < q
                                          /\ Ctx(ps2, Up(ps, q)) = Ctx(ps2, q) /\ Ctx(ps2, q) # 0 /\ Par(ps2, q) # 0
                                          /\ Kid(ps2, Up(ps, q)) \in {q, Many}
                      /\ Kid(ps2, q) \notin {0, Many} => /\ Kid(ps2, q) \in DOMAIN ps /\ q < Kid(ps2, q)
                                                         /\ Up(ps2, Kid(ps2, q)) = q
    BY <1>2, <1>3 DEF Descended
  <2>1. Kid(ps2, q) \notin {0, Many} => Kid(ps2, q) \in DOMAIN ps /\ q < Kid(ps2, q) /\ Up(ps2, Kid(ps2, q)) = q
    BY <1>3, <1>6 DEF Descended
  <2>2. Up(ps, q) # 0 => /\ Up(ps, q) = Prev(ps, q) /\ Up(ps, q) \in DOMAIN ps /\ Up(ps, q) < q
                         /\ Ctx(ps, Up(ps, q)) = Ctx(ps, q) /\ Ctx(ps, q) # 0 /\ Kid(ps, Up(ps, q)) \in {q, Many}
    BY <1>6 DEF Descended
  <2>3. Prev(ps, q) # 0 => Prev(ps, q) \in DOMAIN ps /\ Prev(ps, q) < q
    BY <1>6 DEF Descended
  <2>4. Up(ps, q) # 0 => Kid(ps2, Up(ps, q)) \in {q, Many}
    BY <1>3, <2>2
  <2> QED BY <1>3, <1>13, <2>1, <2>2, <2>3, <2>4
<1>16. OneRoot(ps2)
  BY <1>2, <1>3, <1>6 DEF OneRoot
<1>17. InTurn(ps2)
  <2>1. \A q \in DOMAIN ps : Prev(ps, q) # 0 => Prev(ps, q) \in DOMAIN ps
    BY <1>6 DEF Descended
  <2> QED BY <1>2, <1>3, <1>6, <2>1 DEF InTurn, SameRuns
<1>18. Filled(ts2)
  <2>1. ASSUME NEW d \in 1..Len(ts) PROVE Size(ts2, d) > 0 /\ Tab(ts2, d, 1) # NoSegment
    <3>1. CASE d = c
      BY <1>2, <1>5, <1>7, <3>1
    <3>2. CASE d # c
      <4>1. 1 \in 1..Size(ts, d)
        BY InsideTables
      <4> QED BY <1>4, <1>7, <3>2, <4>1
    <3> QED BY <3>1, <3>2
  <2> QED BY <1>2, <2>1 DEF Filled
<1>19. Owned(ps2, ts2)
  <2>1. ASSUME NEW d \in 1..Len(ts), NEW i \in 1..Size(ts2, d), Tab(ts2, d, i) # NoSegment
        PROVE  \E q \in DOMAIN ps : Ctx(ps, q) = d /\ Own(ps, q) = Tab(ts2, d, i)
    <3>1. i \in 1..Size(ts, d) /\ Tab(ts2, d, i) = Tab(ts, d, i)
      <4>1. CASE d = c
        BY <1>5, <2>1, <4>1
      <4>2. CASE d # c
        BY <1>4, <2>1, <4>2
      <4> QED BY <4>1, <4>2
    <3> QED BY <1>6, <2>1, <3>1 DEF Owned
  <2>2. \A q \in DOMAIN ps : Ran(ps, q) # NoSegment /\ Up(ps, q) # 0 =>
            \E r \in DOMAIN ps : Ctx(ps, r) = Ctx(ps, q) /\ Own(ps, r) = Ran(ps, q)
    BY <1>6 DEF Owned
  <2>3. \A d \in 1..Len(ts2) : \A i \in 1..Size(ts2, d) : Tab(ts2, d, i) # NoSegment =>
            \E q \in DOMAIN ps2 : Ctx(ps2, q) = d /\ Own(ps2, q) = Tab(ts2, d, i)
    BY <1>2, <1>3, <2>1 DEF SameRuns
  <2>4. \A q \in DOMAIN ps2 : Ran(ps2, q) # NoSegment /\ Up(ps2, q) # 0 =>
            \E r \in DOMAIN ps2 : Ctx(ps2, r) = Ctx(ps2, q) /\ Own(ps2, r) = Ran(ps2, q)
    BY <1>2, <1>3, <2>2 DEF SameRuns
  <2> QED BY <2>3, <2>4 DEF Owned
<1>20. RootFirst(ps2, ts2)
  <2>1. ASSUME NEW r \in DOMAIN ps, Ctx(ps, r) # 0, Up(ps, r) = 0, Stage(ps, r) # "done"
        PROVE  /\ \A q \in DOMAIN ps : Ctx(ps, q) = Ctx(ps, r) /\ q # r => Stage(ps, q) = "pending" /\ Ran(ps, q) = NoSegment
               /\ \A i \in 2..Size(ts2, Ctx(ps, r)) : Tab(ts2, Ctx(ps, r), i) = NoSegment
    <3>1. /\ \A q \in DOMAIN ps : Ctx(ps, q) = Ctx(ps, r) /\ q # r => Stage(ps, q) = "pending" /\ Ran(ps, q) = NoSegment
          /\ \A i \in 2..Size(ts, Ctx(ps, r)) : Tab(ts, Ctx(ps, r), i) = NoSegment
      BY <1>6, <2>1 DEF RootFirst
    <3>2. PICK d \in 1..Len(ts) : d = Ctx(ps, r)
      BY <2>1, InsideTables
    <3>3. ASSUME NEW i \in 2..Size(ts2, d) PROVE Tab(ts2, d, i) = NoSegment
      <4>1. CASE d = c
        <5>1. i \in 1..branch
          BY <1>2, <1>5, <3>3, <4>1
        <5>2. i \in 1..Size(ts, c) => i \in 2..Size(ts, c)
          BY <1>2, <1>5, <3>3, <4>1
        <5> QED BY <1>5, <3>1, <3>2, <4>1, <5>1, <5>2
      <4>2. CASE d # c
        <5>1. Size(ts2, d) = Size(ts, d) /\ Size(ts, d) \in Nat
          BY <1>4, <1>7, <4>2
        <5>2. i \in 1..Size(ts, d) /\ i \in 2..Size(ts, d)
          BY <3>3, <5>1
        <5> QED BY <1>4, <3>1, <3>2, <4>2, <5>2
      <4> QED BY <4>1, <4>2
    <3> QED BY <3>1, <3>2, <3>3
  <2> QED BY <1>2, <1>3, <2>1 DEF RootFirst, SameRuns
<1> QED BY <1>14, <1>15, <1>16, <1>17, <1>18, <1>19, <1>20 DEF ChainsGood

\* Where the promises of a context are when one of them, with the only branches, has branched.
Branched2(ps, ps2, c, p, place, branch) ==
    /\ p \in DOMAIN ps /\ Ctx(ps, p) = c /\ DOMAIN ps2 = DOMAIN ps
    /\ place # branch /\ branch # 1 /\ (Up(ps, p) = 0 <=> place = 1)
    /\ \A q \in DOMAIN ps : Ctx(ps2, q) = Ctx(ps, q) /\ Up(ps2, q) = Up(ps, q)
    /\ \A q \in DOMAIN ps : q # p => Kid(ps2, q) = Kid(ps, q)
    /\ Kid(ps2, p) = Many
    /\ \A q \in DOMAIN ps : Ctx(ps, q) = c => Idx(ps, q) = 1 /\ Kid(ps, q) # Many
    /\ \A q \in DOMAIN ps : Ctx(ps, q) = c /\ q < p => Idx(ps2, q) = 1 /\ Par(ps2, q) = Par(ps, q)
    /\ Idx(ps2, p) = place /\ Par(ps2, p) = Par(ps, p)
    /\ \A q \in DOMAIN ps : Ctx(ps, q) = c /\ p < q =>
           Idx(ps2, q) = branch /\ Par(ps2, q) = IF q = Kid(ps, p) THEN place ELSE branch
    /\ \A q \in DOMAIN ps : Ctx(ps, q) # c =>
           Idx(ps2, q) = Idx(ps, q) /\ Par(ps2, q) = Par(ps, q)

\* One line without branches before, where all are in one place.
LEMMA OneLineOnly ==
    ASSUME NEW ps, NEW cr, NEW c, ps \in Seq(Promises), Descended(ps), InLine(ps, cr), c # 0, c \notin cr,
           \A q \in DOMAIN ps : Ctx(ps, q) = c => Idx(ps, q) = 1 /\ Kid(ps, q) # Many,
           NEW p \in DOMAIN ps, NEW q \in DOMAIN ps, Ctx(ps, p) = c, Ctx(ps, q) = c, p < q
    PROVE  /\ Up(ps, q) # 0 /\ Up(ps, q) \in DOMAIN ps /\ p <= Up(ps, q) /\ Up(ps, q) < q /\ Ctx(ps, Up(ps, q)) = c
           /\ Kid(ps, p) \in DOMAIN ps /\ p < Kid(ps, p) /\ Kid(ps, p) <= q /\ Ctx(ps, Kid(ps, p)) = c
           /\ Up(ps, q) = p <=> q = Kid(ps, p)
<1>1. Alike(ps, cr, p, q)
  BY DEF Alike, Together, Plain
<1>2. Up(ps, q) # 0 /\ p <= Up(ps, q) /\ Kid(ps, p) \in DOMAIN ps /\ Kid(ps, p) <= q
  BY <1>1 DEF InLine
<1>3. Up(ps, q) \in DOMAIN ps /\ Up(ps, q) < q /\ Ctx(ps, Up(ps, q)) = c /\ Kid(ps, Up(ps, q)) \in {q, Many}
  BY <1>2 DEF Descended
<1>4. Kid(ps, p) \notin {0, Many}
  BY <1>2, PromiseTypes DEF Many
<1>5. p < Kid(ps, p) /\ Up(ps, Kid(ps, p)) = p
  BY <1>4 DEF Descended
<1>6. Ctx(ps, Kid(ps, p)) = c
  <2>1. p # 0
    BY PromiseTypes
  <2>2. Ctx(ps, Up(ps, Kid(ps, p))) = Ctx(ps, Kid(ps, p))
    BY <1>2, <1>5, <2>1 DEF Descended
  <2> QED BY <1>5, <2>2
<1>7. Up(ps, q) = p => q = Kid(ps, p)
  BY <1>3
<1> QED BY <1>2, <1>3, <1>5, <1>6, <1>7

LEMMA BranchedInShape ==
    ASSUME NEW ps, NEW ts, NEW ps2, NEW cr, NEW c, NEW p, NEW place, NEW branch,
           ChainsGood(ps, ts), ShapeGood(ps, cr), c # 0, c \notin cr, Branched2(ps, ps2, c, p, place, branch),
           SameRuns(ps, ps2), \A q \in DOMAIN ps : Linked(ps2, q) <=> Linked(ps, q), Linked(ps, p)
    PROVE  ShapeGood(ps2, cr)
<1>1. /\ ps \in Seq(Promises) /\ Descended(ps) /\ InLine(ps, cr)
      /\ \A q \in DOMAIN ps : Up(ps, q) # 0 => Up(ps, q) \in DOMAIN ps /\ Up(ps, q) < q /\ Ctx(ps, Up(ps, q)) = Ctx(ps, q)
  BY DEF ChainsGood, ShapeGood, Descended
<1>2. \A q \in DOMAIN ps : q \in Nat /\ q # 0 /\ q # Many
  BY <1>1, PromiseTypes DEF Many
<1>3. /\ p \in DOMAIN ps /\ Ctx(ps, p) = c /\ DOMAIN ps2 = DOMAIN ps
      /\ place # branch /\ branch # 1 /\ (Up(ps, p) = 0 <=> place = 1)
      /\ Kid(ps2, p) = Many /\ Idx(ps2, p) = place /\ Par(ps2, p) = Par(ps, p)
  BY DEF Branched2
<1>4. /\ \A q \in DOMAIN ps : Ctx(ps2, q) = Ctx(ps, q) /\ Up(ps2, q) = Up(ps, q)
      /\ \A q \in DOMAIN ps : q # p => Kid(ps2, q) = Kid(ps, q)
      /\ \A q \in DOMAIN ps : Ctx(ps, q) = c => Idx(ps, q) = 1 /\ Kid(ps, q) # Many
  BY DEF Branched2
<1>5. \A q \in DOMAIN ps : Ctx(ps, q) = c /\ q < p => Idx(ps2, q) = 1 /\ Par(ps2, q) = Par(ps, q)
  BY DEF Branched2
<1>6. \A q \in DOMAIN ps : Ctx(ps, q) = c /\ p < q =>
          Idx(ps2, q) = branch /\ Par(ps2, q) = IF q = Kid(ps, p) THEN place ELSE branch
  BY DEF Branched2
<1>7. \A q \in DOMAIN ps : Ctx(ps, q) # c => Idx(ps2, q) = Idx(ps, q) /\ Par(ps2, q) = Par(ps, q)
  BY DEF Branched2
<1>8. ASSUME NEW q \in DOMAIN ps, NEW r \in DOMAIN ps, Ctx(ps, q) = c, Ctx(ps, r) = c, q < r
      PROVE  /\ Up(ps, r) # 0 /\ Up(ps, r) \in DOMAIN ps /\ q <= Up(ps, r) /\ Up(ps, r) < r /\ Ctx(ps, Up(ps, r)) = c
             /\ Kid(ps, q) \in DOMAIN ps /\ q < Kid(ps, q) /\ Kid(ps, q) <= r /\ Ctx(ps, Kid(ps, q)) = c
             /\ Up(ps, r) = q <=> r = Kid(ps, q)
  BY <1>1, <1>4, <1>8, OneLineOnly
<1>9. /\ \A q : Plain(ps2, cr, q) <=> Plain(ps, cr, q)
      /\ \A q, r : Together(ps2, cr, q, r) <=> Together(ps, cr, q, r)
      /\ \A q, r : Together(ps, cr, q, r) => q \in DOMAIN ps /\ r \in DOMAIN ps /\ Ctx(ps, q) = Ctx(ps, r)
  BY <1>3, <1>4 DEF Plain, Together
<1>10. \A q \in DOMAIN ps : Ctx(ps, q) = c => q < p \/ q = p \/ p < q
  BY <1>2, <1>3
<1>11. \A q, r : Alike(ps2, cr, q, r) => Alike(ps, cr, q, r) /\ Idx(ps2, r) = Idx(ps2, q)
  <2> SUFFICES ASSUME NEW q, NEW r, Alike(ps2, cr, q, r) PROVE Alike(ps, cr, q, r) /\ Idx(ps2, r) = Idx(ps2, q)
    OBVIOUS
  <2>1. Together(ps, cr, q, r) /\ Idx(ps2, r) = Idx(ps2, q) /\ q \in DOMAIN ps /\ r \in DOMAIN ps /\ Ctx(ps, q) = Ctx(ps, r)
    BY <1>9 DEF Alike
  <2>2. Idx(ps, r) = Idx(ps, q)
    BY <1>4, <1>7, <2>1
  <2> QED BY <2>1, <2>2 DEF Alike
<1>12. OneBranching(ps2, cr)
  <2> SUFFICES ASSUME NEW q \in DOMAIN ps, NEW r \in DOMAIN ps, Together(ps, cr, q, r), Kid(ps2, q) = Many, Kid(ps2, r) = Many
               PROVE  q = r
    BY <1>3, <1>9 DEF OneBranching
  <2>1. CASE Ctx(ps, q) = c
    BY <1>3, <1>4, <1>9, <2>1
  <2>2. CASE Ctx(ps, q) # c
    <3>1. q # p /\ r # p
      BY <1>3, <1>9, <2>2
    <3> QED BY <1>4, <3>1 DEF ShapeGood, OneBranching
  <2> QED BY <2>1, <2>2
<1>13. NoGaps(ps2, cr)
  <2>1. NoGaps(ps, cr)
    BY DEF ShapeGood
  <2> QED BY <1>3, <1>4, <1>9, <2>1 DEF NoGaps, SameRuns
<1>14. FromAbove(ps2, cr)
  <2> SUFFICES ASSUME NEW q \in DOMAIN ps, Plain(ps, cr, q), Up(ps, q) # 0 PROVE Par(ps2, q) = Idx(ps2, Up(ps, q))
    BY <1>3, <1>4, <1>9 DEF FromAbove
  <2>1. Par(ps, q) = Idx(ps, Up(ps, q)) /\ Up(ps, q) \in DOMAIN ps /\ Up(ps, q) < q /\ Ctx(ps, Up(ps, q)) = Ctx(ps, q)
    BY <1>1 DEF ShapeGood, FromAbove
  <2>2. CASE Ctx(ps, q) # c
    BY <1>7, <2>1, <2>2
  <2>3. CASE Ctx(ps, q) = c /\ (q < p \/ q = p)
    <3>1. Up(ps, q) < p
      BY <1>2, <1>3, <2>1, <2>3
    <3> QED BY <1>3, <1>4, <1>5, <2>1, <2>3, <3>1
  <2>4. CASE Ctx(ps, q) = c /\ p < q
    <3>1. p <= Up(ps, q) /\ (Up(ps, q) = p <=> q = Kid(ps, p))
      BY <1>3, <1>8, <2>4
    <3>2. CASE Up(ps, q) = p
      BY <1>3, <1>6, <2>4, <3>1, <3>2
    <3>3. CASE Up(ps, q) # p
      <4>1. p < Up(ps, q)
        BY <1>2, <1>3, <2>1, <3>1, <3>3
      <4> QED BY <1>6, <2>1, <2>4, <3>1, <3>3, <4>1
    <3> QED BY <3>2, <3>3
  <2> QED BY <1>10, <2>2, <2>3, <2>4
<1>15. InLine(ps2, cr)
  <2> SUFFICES ASSUME NEW q \in DOMAIN ps, NEW r \in DOMAIN ps, Alike(ps2, cr, q, r), q < r
               PROVE  /\ Up(ps2, r) # 0 /\ Idx(ps2, Up(ps2, r)) = Idx(ps2, r) /\ q <= Up(ps2, r)
                      /\ Kid(ps2, q) \in DOMAIN ps2 /\ Kid(ps2, q) <= r /\ Idx(ps2, Kid(ps2, q)) = Idx(ps2, q)
    BY <1>3 DEF InLine
  <2>1. Alike(ps, cr, q, r) /\ Idx(ps2, r) = Idx(ps2, q) /\ Ctx(ps, q) = Ctx(ps, r)
    BY <1>9, <1>11 DEF Alike
  <2>2. /\ Up(ps, r) # 0 /\ Idx(ps, Up(ps, r)) = Idx(ps, r) /\ q <= Up(ps, r)
        /\ Kid(ps, q) \in DOMAIN ps /\ Kid(ps, q) <= r /\ Idx(ps, Kid(ps, q)) = Idx(ps, q)
    BY <1>1, <2>1 DEF InLine
  <2>3. CASE Ctx(ps, q) # c
    <3>1. q # p /\ Kid(ps2, q) = Kid(ps, q) /\ Up(ps2, r) = Up(ps, r)
      BY <1>3, <1>4, <2>3
    <3>2. Up(ps, r) \in DOMAIN ps /\ Ctx(ps, Up(ps, r)) = Ctx(ps, r)
      BY <1>1, <2>2
    <3>3. Ctx(ps, Kid(ps, q)) = Ctx(ps, q)
      <4>1. Up(ps, Kid(ps, q)) = q /\ q # 0
        BY <1>1, <1>2, <2>2 DEF Descended
      <4> QED BY <1>1, <2>2, <4>1
    <3> QED BY <1>3, <1>7, <2>1, <2>2, <2>3, <3>1, <3>2, <3>3
  <2>4. CASE Ctx(ps, q) = c
    <3>1. /\ Up(ps, r) \in DOMAIN ps /\ q <= Up(ps, r) /\ Up(ps, r) < r /\ Ctx(ps, Up(ps, r)) = c
          /\ q < Kid(ps, q) /\ Kid(ps, q) <= r /\ Ctx(ps, Kid(ps, q)) = c
      BY <1>8, <2>1, <2>4
    <3>2. CASE q < p
      <4>1. r < p
        <5>1. Idx(ps2, r) = 1
          BY <1>5, <2>1, <2>4, <3>2
        <5>2. r # p
          <6> SUFFICES ASSUME r = p PROVE FALSE
            OBVIOUS
          <6>1. Up(ps, p) # 0
            BY <2>2
          <6> QED BY <1>3, <5>1, <6>1
        <5>3. ~(p < r)
          BY <1>3, <1>6, <2>1, <2>4, <5>1
        <5> QED BY <1>10, <2>1, <2>4, <5>2, <5>3
      <4>2. Up(ps, r) < p /\ Kid(ps, q) < p /\ q # p
        BY <1>2, <1>3, <2>2, <3>1, <3>2, <4>1
      <4> QED BY <1>3, <1>4, <1>5, <2>1, <2>2, <2>4, <3>1, <3>2, <4>1, <4>2
    <3>3. CASE q = p
      BY <1>3, <1>6, <2>1, <2>4, <3>3
    <3>4. CASE p < q
      <4>1. p < Up(ps, r) /\ p < Kid(ps, q) /\ q # p /\ p < r
        BY <1>2, <1>3, <2>2, <3>1, <3>4
      <4> QED BY <1>3, <1>4, <1>6, <2>1, <2>2, <2>4, <3>1, <3>4, <4>1
    <3> QED BY <1>10, <2>4, <3>2, <3>3, <3>4
  <2> QED BY <2>3, <2>4
<1>16. OneLine(ps2, cr)
  <2> SUFFICES ASSUME NEW q \in DOMAIN ps, Plain(ps, cr, q), Unbranched(ps2, Ctx(ps, q)) PROVE Idx(ps2, q) = 1
    BY <1>3, <1>4, <1>9 DEF OneLine
  <2>1. Ctx(ps, q) # c
    BY <1>3, <1>4 DEF Unbranched
  <2>2. Unbranched(ps, Ctx(ps, q))
    <3>1. \A r \in DOMAIN ps : Ctx(ps, r) = Ctx(ps, q) => r # p
      BY <1>3, <2>1
    <3> QED BY <1>3, <1>4, <3>1 DEF Unbranched
  <2> QED BY <1>7, <2>1, <2>2 DEF ShapeGood, OneLine
<1>17. ASSUME NEW q \in DOMAIN ps, NEW r \in DOMAIN ps, Ctx(ps, q) = c, Ctx(ps, r) = c, Idx(ps2, q) # 1, Idx(ps2, r) = 1
       PROVE  r < q /\ (p < q => r <= p)
  <2>1. ~(p < r)
    BY <1>3, <1>6, <1>17
  <2>2. ~(q < p)
    BY <1>5, <1>17
  <2>3. r # q
    BY <1>17
  <2>4. q \in Nat /\ r \in Nat /\ p \in Nat
    BY <1>2, <1>3
  <2> QED BY <2>1, <2>2, <2>3, <2>4
<1>18. TrunkEnds(ps2, cr)
  <2> SUFFICES ASSUME NEW q \in DOMAIN ps, NEW r \in DOMAIN ps, Together(ps, cr, q, r),
                      Idx(ps2, q) # 1, Idx(ps2, r) = 1, Up(ps, q) # 0, Idx(ps2, Up(ps, q)) = 1
               PROVE  r <= Up(ps, q)
    BY <1>3, <1>4, <1>9 DEF TrunkEnds
  <2>1. Ctx(ps, r) = Ctx(ps, q) /\ Up(ps, q) \in DOMAIN ps /\ Ctx(ps, Up(ps, q)) = Ctx(ps, q)
    BY <1>1, <1>9
  <2>2. CASE Ctx(ps, q) # c
    BY <1>7, <2>1, <2>2 DEF ShapeGood, TrunkEnds
  <2>3. CASE Ctx(ps, q) = c
    BY <1>8, <1>17, <2>1, <2>3
  <2> QED BY <2>2, <2>3
<1>19. LineInTurn(ps2, cr)
  BY <1>3, <1>11 DEF ShapeGood, LineInTurn, SameRuns
<1>20. TrunkInTurn(ps2, cr)
  <2> SUFFICES ASSUME NEW q \in DOMAIN ps, NEW r \in DOMAIN ps, Together(ps, cr, q, r),
                      Idx(ps2, q) # 1, Idx(ps2, r) = 1, Stage(ps, q) # "pending"
               PROVE  Stage(ps, r) = "done"
    BY <1>3, <1>9 DEF TrunkInTurn, SameRuns
  <2>1. Ctx(ps, r) = Ctx(ps, q)
    BY <1>9
  <2>2. CASE Ctx(ps, q) # c
    BY <1>7, <2>1, <2>2 DEF ShapeGood, TrunkInTurn
  <2>3. CASE Ctx(ps, q) = c
    <3>1. r < q /\ Idx(ps, r) = 1 /\ Idx(ps, q) = 1
      BY <1>4, <1>17, <2>1, <2>3
    <3>2. Alike(ps, cr, r, q)
      BY <2>1, <2>3, <3>1 DEF Alike, Together, Plain
    <3> QED BY <3>1, <3>2 DEF ShapeGood, LineInTurn
  <2> QED BY <2>2, <2>3
<1> QED BY <1>12, <1>13, <1>14, <1>15, <1>16, <1>18, <1>19, <1>20 DEF ShapeGood

\* A branch elsewhere, or where a handler has moved the chain on, is not accounted for.
LEMMA BranchesKeep ==
    ASSUME NEW ps, NEW ts, NEW cr, NEW ps2, NEW ts2, NEW p, NEW place, NEW branch, Good(ps, ts, cr),
           Branches(ps, ts, ps2, ts2, p, place, branch), ps2 \in Seq(Promises), ts2 \in Seq(Seq(SegmentOrNone)),
           Ctx(ps, p) \in cr \/ \A q \in DOMAIN ps : q # p /\ Ctx(ps, q) = Ctx(ps, p) =>
                                    Kid(ps, q) # Many /\ (Up(ps, q) = 0 \/ Own(ps, q) = NoSegment)
    PROVE  Good(ps2, ts2, cr)
<1>1. /\ ChainsGood(ps, ts) /\ ShapeGood(ps, cr) /\ ChainsGood(ps2, ts2) /\ Descended(ps) /\ InLine(ps, cr)
      /\ ps \in Seq(Promises) /\ OneRoot(ps)
  BY BranchesInChains DEF Good, ChainsGood, ShapeGood
<1>2. PICK c : c = Ctx(ps, p)
  OBVIOUS
<1>3. /\ p \in DOMAIN ps /\ DOMAIN ps2 = DOMAIN ps /\ c \in 1..Len(ts) /\ c # 0 /\ Elsewhere(ps, ts, ps2, ts2, c)
      /\ place \in 1..branch /\ branch \in Nat /\ place # branch /\ branch # 1
      /\ (Up(ps, p) = 0 => place = 1 /\ Idx(ps, p) = 1)
      /\ (Up(ps, p) # 0 => place # 1 /\ place \notin 1..Size(ts, c))
      /\ branch \in 1..branch /\ branch \notin 1..Size(ts, c)
      /\ \A q \in Line(ps, p) : q \in DOMAIN ps /\ Ctx(ps, q) = c /\ p < q /\ q # p
      /\ 1 \in 1..Size(ts, c) /\ Tab(ts2, c, 1) = Tab(ts, c, 1)
  BY <1>1, <1>2, BranchesFacts
<1>4. /\ \A q \in DOMAIN ps : Ctx(ps2, q) = Ctx(ps, q) /\ Up(ps2, q) = Up(ps, q)
      /\ \A q \in DOMAIN ps : Linked(ps2, q) <=> Linked(ps, q)
      /\ \A q \in DOMAIN ps : q # p => Kid(ps2, q) = Kid(ps, q)
      /\ Kid(ps2, p) = Many /\ Kid(ps, p) \in DOMAIN ps /\ Linked(ps, p)
      /\ SameRuns(ps, ps2)
  BY DEF Branches
<1>5. \A q \in DOMAIN ps : q \in Nat /\ q # 0 /\ q # Many
  BY <1>1, PromiseTypes DEF Many
<1>6. /\ \A q \in DOMAIN ps : q # p /\ q \notin Line(ps, p) => Idx(ps2, q) = Idx(ps, q) /\ Par(ps2, q) = Par(ps, q)
      /\ \A q \in DOMAIN ps : q # p /\ q \in Line(ps, p) =>
             Idx(ps2, q) = branch /\ Par(ps2, q) = IF q = Kid(ps, p) THEN place ELSE branch
      /\ Idx(ps2, p) = place /\ Par(ps2, p) = Par(ps, p)
  BY DEF Branches
<1>7. /\ Size(ts2, c) = branch
      /\ \A i \in 1..branch : IF i \in 1..Size(ts, c) THEN Tab(ts2, c, i) = Tab(ts, c, i) ELSE Tab(ts2, c, i) = NoSegment
  BY <1>2 DEF Branches
<1>8. CASE c \in cr
  <2>1. ASSUME NEW q \in DOMAIN ps, Ctx(ps, q) # c
        PROVE  /\ Idx(ps2, q) = Idx(ps, q) /\ Par(ps2, q) = Par(ps, q) /\ Kid(ps2, q) = Kid(ps, q) /\ q # p
    BY <1>2, <1>3, <1>4, <1>6, <2>1
  <2>2. \A q : Plain(ps2, cr, q) => Plain(ps, cr, q) /\ q \in DOMAIN ps /\ Ctx(ps, q) # c
    BY <1>3, <1>4, <1>8 DEF Plain
  <2>3. \A q, r : Together(ps2, cr, q, r) => /\ Together(ps, cr, q, r) /\ q \in DOMAIN ps /\ r \in DOMAIN ps
                                             /\ Ctx(ps, q) # c /\ Ctx(ps, r) # c
    BY <1>3, <1>4, <2>2 DEF Together
  <2>4. \A q, r : Alike(ps2, cr, q, r) => /\ Alike(ps, cr, q, r) /\ q \in DOMAIN ps /\ r \in DOMAIN ps
                                          /\ Ctx(ps, q) # c /\ Ctx(ps, r) # c
    BY <2>1, <2>3 DEF Alike
  <2>5. \A q \in DOMAIN ps : Ctx(ps, q) # c /\ Up(ps, q) # 0 => Up(ps, q) \in DOMAIN ps /\ Ctx(ps, Up(ps, q)) # c
    BY <1>1 DEF Descended
  <2>6. \A q \in DOMAIN ps : Ctx(ps, q) # c /\ Kid(ps, q) \in DOMAIN ps => Ctx(ps, Kid(ps, q)) # c
    <3> SUFFICES ASSUME NEW q \in DOMAIN ps, Ctx(ps, q) # c, Kid(ps, q) \in DOMAIN ps PROVE Ctx(ps, Kid(ps, q)) # c
      OBVIOUS
    <3>1. Up(ps, Kid(ps, q)) = q /\ q # 0
      BY <1>1, <1>5 DEF Descended
    <3> QED BY <1>1, <3>1 DEF Descended
  <2>7. \A q \in DOMAIN ps : Ctx(ps, q) # c /\ Unbranched(ps2, Ctx(ps, q)) => Unbranched(ps, Ctx(ps, q))
    BY <1>3, <1>4, <2>1 DEF Unbranched
  <2>8. OneBranching(ps2, cr)
    BY <1>3, <2>1, <2>3 DEF ShapeGood, OneBranching, Good
  <2>9. NoGaps(ps2, cr)
    BY <1>1, <1>3, <1>4, <2>1, <2>2 DEF ShapeGood, NoGaps, SameRuns
  <2>10. FromAbove(ps2, cr)
    BY <1>1, <1>3, <1>4, <2>1, <2>2, <2>5 DEF ShapeGood, FromAbove
  <2>11. InLine(ps2, cr)
    <3> SUFFICES ASSUME NEW q \in DOMAIN ps, NEW r \in DOMAIN ps, Alike(ps2, cr, q, r), q < r
                 PROVE  /\ Up(ps2, r) # 0 /\ Idx(ps2, Up(ps2, r)) = Idx(ps2, r) /\ q <= Up(ps2, r)
                        /\ Kid(ps2, q) \in DOMAIN ps2 /\ Kid(ps2, q) <= r /\ Idx(ps2, Kid(ps2, q)) = Idx(ps2, q)
      BY <1>3 DEF InLine
    <3>1. /\ Up(ps, r) # 0 /\ Idx(ps, Up(ps, r)) = Idx(ps, r) /\ q <= Up(ps, r)
          /\ Kid(ps, q) \in DOMAIN ps /\ Kid(ps, q) <= r /\ Idx(ps, Kid(ps, q)) = Idx(ps, q)
          /\ Ctx(ps, q) # c /\ Ctx(ps, r) # c
      BY <1>1, <2>4 DEF InLine
    <3> QED BY <1>3, <1>4, <2>1, <2>5, <2>6, <3>1
  <2>12. OneLine(ps2, cr)
    BY <1>1, <1>3, <1>4, <2>1, <2>2, <2>7 DEF ShapeGood, OneLine
  <2>13. TrunkEnds(ps2, cr)
    <3> SUFFICES ASSUME NEW q \in DOMAIN ps, NEW r \in DOMAIN ps, Together(ps2, cr, q, r),
                        Idx(ps2, q) # 1, Idx(ps2, r) = 1, Up(ps, q) # 0, Idx(ps2, Up(ps, q)) = 1
                 PROVE  r <= Up(ps, q)
      BY <1>3, <1>4 DEF TrunkEnds
    <3> QED BY <1>1, <2>1, <2>3, <2>5 DEF ShapeGood, TrunkEnds
  <2>14. LineInTurn(ps2, cr)
    BY <1>1, <1>3, <1>4, <2>4 DEF ShapeGood, LineInTurn, SameRuns
  <2>15. TrunkInTurn(ps2, cr)
    BY <1>1, <1>3, <1>4, <2>1, <2>3 DEF ShapeGood, TrunkInTurn, SameRuns
  <2>16. ShapeGood(ps2, cr)
    BY <2>8, <2>9, <2>10, <2>11, <2>12, <2>13, <2>14, <2>15 DEF ShapeGood
  <2>17. ASSUME NEW f, ReachedBy(ps2, f) PROVE TablesGood(ps2, ts2, cr, f)
    <3> SUFFICES ASSUME NEW q \in DOMAIN ps2 PROVE TablesAt(ps2, ts2, cr, f, q)
      BY TablesOneByOne
    <3>1. CASE Ctx(ps2, q) # c
      BY <1>3, <2>17, <3>1, ElsewhereAtPeace
    <3>2. CASE Ctx(ps2, q) = c
      BY <1>8, <3>2 DEF TablesAt, Plain
    <3> QED BY <3>1, <3>2
  <2> QED BY <1>1, <2>16, <2>17 DEF Good
<1>9. CASE c \notin cr
  <2>1. /\ \A q \in DOMAIN ps : q # p /\ Ctx(ps, q) = c => Kid(ps, q) # Many
        /\ \A q \in DOMAIN ps : q # p /\ Ctx(ps, q) = c => Up(ps, q) = 0 \/ Own(ps, q) = NoSegment
    BY <1>2, <1>9
  <2>2. Unbranched(ps, c)
    BY <1>4, <1>5, <2>1 DEF Unbranched
  <2>3. \A q \in DOMAIN ps : Ctx(ps, q) = c => Idx(ps, q) = 1 /\ Kid(ps, q) # Many /\ Plain(ps, cr, q)
    BY <1>1, <1>3, <1>9, <2>2 DEF ShapeGood, OneLine, Unbranched, Plain
  <2>4. Branched2(ps, ps2, c, p, place, branch)
    <3>1. \A q \in DOMAIN ps : Ctx(ps, q) = c /\ p < q => q \in Line(ps, p) /\ q # p
      BY <1>1, <1>2, <1>3, <1>5, <2>3, LineIsAllBelow
    <3>2. \A q \in DOMAIN ps : Ctx(ps, q) = c /\ q < p => q \notin Line(ps, p) /\ q # p
      <4>1. \A q \in DOMAIN ps : q < p => ~(p < q) /\ q # p
        BY <1>3, <1>5
      <4> QED BY <1>3, <4>1
    <3>3. \A q \in DOMAIN ps : Ctx(ps, q) # c => q \notin Line(ps, p) /\ q # p
      BY <1>2, <1>3
    <3>4. \A q \in DOMAIN ps : Ctx(ps, q) = c /\ q < p => Idx(ps2, q) = 1 /\ Par(ps2, q) = Par(ps, q)
      BY <1>6, <2>3, <3>2
    <3>5. \A q \in DOMAIN ps : Ctx(ps, q) = c /\ p < q =>
              Idx(ps2, q) = branch /\ Par(ps2, q) = IF q = Kid(ps, p) THEN place ELSE branch
      BY <1>6, <3>1
    <3>6. \A q \in DOMAIN ps : Ctx(ps, q) # c => Idx(ps2, q) = Idx(ps, q) /\ Par(ps2, q) = Par(ps, q)
      BY <1>6, <3>3
    <3>7. Up(ps, p) = 0 <=> place = 1
      BY <1>3
    <3> QED BY <1>2, <1>3, <1>4, <1>6, <2>3, <3>4, <3>5, <3>6, <3>7 DEF Branched2
  <2>5. ShapeGood(ps2, cr)
    BY <1>1, <1>3, <1>4, <1>9, <2>4, BranchedInShape
  <2>6. PICK v : v = Tab(ts, c, 1) /\ v # NoSegment
    BY <1>1, <1>3, InsideTables
  <2>7. ASSUME NEW f, ReachedBy(ps2, f), NEW q \in DOMAIN ps, Ctx(ps, q) = c PROVE TablesAt(ps2, ts2, cr, f, q)
    <3>1. ReachedBy(ps, f)
      BY <1>3, <1>4, <2>7 DEF ReachedBy, SameRuns
    <3>2. \A r \in DOMAIN ps : TablesAt(ps, ts, cr, f, r)
      BY <3>1, TablesOneByOne DEF Good
    <3>3. /\ Stage(ps2, q) = Stage(ps, q) /\ Own(ps2, q) = Own(ps, q) /\ Ran(ps2, q) = Ran(ps, q) /\ Up(ps2, q) = Up(ps, q)
          /\ (Linked(ps2, q) <=> Linked(ps, q)) /\ Ctx(ps2, q) = c
      BY <1>4, <2>7 DEF SameRuns
    <3>4. Up(ps, q) # 0 => /\ Up(ps, q) \in DOMAIN ps /\ Ctx(ps, Up(ps, q)) = c /\ Par(ps, q) = 1
                           /\ Stage(ps2, Up(ps, q)) = Stage(ps, Up(ps, q)) /\ Up(ps, q) < q
      <4> SUFFICES ASSUME Up(ps, q) # 0
                   PROVE  /\ Up(ps, q) \in DOMAIN ps /\ Ctx(ps, Up(ps, q)) = c /\ Par(ps, q) = 1
                          /\ Stage(ps2, Up(ps, q)) = Stage(ps, Up(ps, q)) /\ Up(ps, q) < q
        OBVIOUS
      <4>1. Up(ps, q) \in DOMAIN ps /\ Ctx(ps, Up(ps, q)) = c /\ Up(ps, q) < q
        BY <1>1, <2>7 DEF Descended
      <4>2. Par(ps, q) = Idx(ps, Up(ps, q))
        BY <1>1, <2>3, <2>7 DEF ShapeGood, FromAbove
      <4> QED BY <1>4, <2>3, <4>1, <4>2 DEF SameRuns
    <3>5. \A i \in 1..branch : i # 1 /\ i \notin 1..Size(ts, c) => Tab(ts2, c, i) = NoSegment
      BY <1>7
    <3>6. Tab(ts2, c, 1) = v /\ Tab(ts2, c, branch) = NoSegment /\ Tab(ts2, c, place) \in {NoSegment, v}
      <4>1. place = 1 \/ place \notin 1..Size(ts, c)
        BY <1>3
      <4> QED BY <1>3, <2>6, <3>5, <4>1
    <3>7. /\ q < p => Idx(ps2, q) = 1 /\ Par(ps2, q) = Par(ps, q)
          /\ q = p => Idx(ps2, q) = place /\ Par(ps2, q) = Par(ps, q)
          /\ p < q => Idx(ps2, q) = branch /\ Par(ps2, q) \in {place, branch}
          /\ q < p \/ q = p \/ p < q
      BY <1>3, <1>5, <2>4, <2>7 DEF Branched2
    <3>8. Tab(ts2, c, Idx(ps2, q)) \in {NoSegment, v}
      BY <3>6, <3>7
    <3>9. Leaves(ps2, ts2, q) = v
      BY <2>6, <3>3, <3>6, <3>8 DEF Leaves, OrElse
    <3>10. Up(ps, q) # 0 => Sees(ps2, ts2, q) = v
      <4>1. Up(ps, q) # 0 => Tab(ts2, c, Par(ps2, q)) \in {NoSegment, v}
        BY <3>4, <3>6, <3>7
      <4> QED BY <2>6, <3>3, <3>6, <3>8, <4>1 DEF Sees, OrElse
    <3>11. Up(ps, q) # 0 => Sees(ps, ts, q) = v
      BY <2>3, <2>6, <2>7, <3>4 DEF Sees, OrElse
    <3>12. Leaves(ps, ts, q) = v
      BY <2>3, <2>6, <2>7 DEF Leaves, OrElse
    <3>13. Plain(ps, cr, q) /\ Plain(ps2, cr, q)
      BY <1>3, <2>3, <2>7, <3>3, <1>9 DEF Plain
    <3>14. ASSUME Stage(ps2, q) = "pending", Up(ps2, q) # 0, Idx(ps2, q) # Idx(ps2, Up(ps2, q))
           PROVE  Tab(ts2, c, Idx(ps2, q)) = NoSegment
      <4>1. CASE q < p
        <5>1. Up(ps, q) \in DOMAIN ps /\ Ctx(ps, Up(ps, q)) = c /\ Up(ps, q) < p
          BY <1>3, <1>5, <3>3, <3>4, <3>14, <4>1
        <5>2. Idx(ps2, Up(ps, q)) = 1
          BY <2>4, <5>1 DEF Branched2
        <5> QED BY <3>3, <3>7, <3>14, <4>1, <5>2
      <4>2. CASE q = p
        BY <1>3, <3>3, <3>5, <3>7, <3>14, <4>2
      <4>3. CASE p < q
        BY <3>6, <3>7, <4>3
      <4> QED BY <3>7, <4>1, <4>2, <4>3
    <3>15. ASSUME Stage(ps2, q) = "pending", Up(ps2, q) # 0, Stage(ps2, Up(ps2, q)) = "done"
           PROVE  Sees(ps2, ts2, q) = f[Up(ps2, q)]
      <4>1. Sees(ps, ts, q) = f[Up(ps, q)]
        BY <2>7, <3>2, <3>3, <3>4, <3>13, <3>15 DEF TablesAt
      <4> QED BY <3>3, <3>10, <3>11, <3>15, <4>1
    <3>16. ASSUME Up(ps2, q) = 0, Stage(ps2, q) # "done" PROVE Tab(ts2, c, 1) = Own(ps2, q)
      BY <2>6, <2>7, <3>2, <3>3, <3>6, <3>13, <3>16 DEF TablesAt
    <3>17. ASSUME Stage(ps2, q) = "done", Linked(ps2, q), Kid(ps2, q) \in {0, Many} PROVE Leaves(ps2, ts2, q) = f[q]
      <4>1. CASE q # p
        <5>1. Kid(ps2, q) = Kid(ps, q)
          BY <1>4, <4>1
        <5> QED BY <2>7, <3>2, <3>3, <3>9, <3>12, <3>13, <3>17, <5>1 DEF TablesAt
      <4>2. CASE q = p
        <5>1. PICK w : /\ w # NoSegment
                       /\ \A r \in DOMAIN ps : Ctx(ps, r) = c /\ Up(ps, r) = 0 => Own(ps, r) = w
          <6>1. \A r \in DOMAIN ps : Ctx(ps, r) = c /\ Up(ps, r) = 0 => Own(ps, r) # NoSegment
            BY <1>1, <1>3 DEF ChainsGood, Placed
          <6>2. CASE \E r \in DOMAIN ps : Ctx(ps, r) = c /\ Up(ps, r) = 0
            BY <1>1, <1>3, <6>1, <6>2 DEF OneRoot
          <6>3. CASE ~ \E r \in DOMAIN ps : Ctx(ps, r) = c /\ Up(ps, r) = 0
            <7>1. v # NoSegment /\ \A r \in DOMAIN ps : Ctx(ps, r) = c /\ Up(ps, r) = 0 => Own(ps, r) = v
              BY <2>6, <6>3
            <7> QED BY <7>1
          <6> QED BY <6>2, <6>3
        <5>2. CASE Own(ps, p) # NoSegment
          <6>1. \A r \in DOMAIN ps : Ctx(ps, r) = c /\ p < r => Up(ps, r) # 0 /\ r # p
            BY <1>1, <1>2, <1>3, <1>9, <2>3, OneLineOnly, <1>5
          <6>2. NoneAfter(ps, p)
            <7> SUFFICES ASSUME NEW r \in DOMAIN ps, Ctx(ps, r) = c, r > p PROVE Own(ps, r) = NoSegment
              BY <1>2 DEF NoneAfter
            <7>1. p < r
              BY <1>3, <1>5
            <7> QED BY <2>1, <6>1, <7>1
          <6>3. Tab(ts, c, 1) = Own(ps, p)
            BY <1>2, <1>3, <2>2, <2>3, <3>2, <5>2, <6>2 DEF TablesAt
          <6>4. f[p] = OrElse(Own(ps, p), f[Up(ps, p)])
            BY <1>3, <3>1 DEF ReachedBy
          <6> QED BY <2>6, <3>9, <4>2, <5>2, <6>3, <6>4 DEF OrElse
        <5>3. CASE Own(ps, p) = NoSegment
          <6>1. \A r \in DOMAIN ps : Ctx(ps, r) = c => Own(ps, r) \in {NoSegment, w} /\ (Up(ps, r) = 0 => Own(ps, r) = w)
            BY <2>1, <5>1, <5>3
          <6>2. f[p] = w
            <7>1. OwnsOnly(ps, c, w)
              BY <6>1 DEF OwnsOnly
            <7>2. p \in DOMAIN ps /\ Ctx(ps, p) = c
              BY <1>2, <1>3
            <7> QED BY <1>1, <3>1, <5>1, <7>1, <7>2, OneSegment
          <6>3. PICK r \in DOMAIN ps : Ctx(ps, r) = c /\ Own(ps, r) = v
            BY <1>1, <1>3, <2>6 DEF ChainsGood, Owned
          <6>4. v = w
            BY <2>6, <6>1, <6>3
          <6> QED BY <3>9, <4>2, <6>2, <6>4
        <5> QED BY <5>2, <5>3
      <4> QED BY <4>1, <4>2
    <3>18. ~Unbranched(ps2, c)
      BY <1>2, <1>3, <1>4 DEF Unbranched
    <3>19. ASSUME Ran(ps2, q) # NoSegment, Up(ps2, q) # 0 PROVE Ran(ps2, q) = f[Up(ps2, q)]
      BY <3>2, <3>3, <3>13, <3>19, <2>7 DEF TablesAt
    <3> QED BY <3>3, <3>14, <3>15, <3>16, <3>17, <3>18, <3>19 DEF TablesAt
  <2>8. ASSUME NEW f, ReachedBy(ps2, f) PROVE TablesGood(ps2, ts2, cr, f)
    <3> SUFFICES ASSUME NEW q \in DOMAIN ps2 PROVE TablesAt(ps2, ts2, cr, f, q)
      BY TablesOneByOne
    <3>1. CASE Ctx(ps2, q) # c
      BY <1>3, <2>8, <3>1, ElsewhereAtPeace
    <3>2. CASE Ctx(ps2, q) = c
      BY <1>3, <1>4, <2>7, <2>8, <3>2
    <3> QED BY <3>1, <3>2
  <2> QED BY <1>1, <2>5, <2>8 DEF Good
<1> QED BY <1>8, <1>9

-----------------------------------------------------------------------------
\* A promise with none, or with several children, gets one more.
Appends(ps, ts, ps2, ts2, p, n) ==
    /\ OneMore(ps, ps2, n) /\ p \in DOMAIN ps /\ Linked(ps, p)
    /\ \A q \in DOMAIN ps : Untouched(ps, ps2, q)
    /\ \A q \in DOMAIN ps : q # p => Kid(ps2, q) = Kid(ps, q)
    /\ Ctx(ps2, n) = Ctx(ps, p) /\ Up(ps2, n) = p /\ Prev(ps2, n) = p /\ Par(ps2, n) = Idx(ps, p) /\ Kid(ps2, n) = 0
    /\ Linked(ps2, n) /\ Stage(ps2, n) = "pending" /\ Own(ps2, n) = NoSegment /\ Ran(ps2, n) = NoSegment
    /\ Len(ts2) = Len(ts)
    /\ \A d \in 1..Len(ts) : \A i \in 1..Size(ts, d) : Tab(ts2, d, i) = Tab(ts, d, i)
    /\ \A d \in 1..Len(ts) : d # Ctx(ps, p) => Size(ts2, d) = Size(ts, d)
    /\ \/ Kid(ps, p) = 0 /\ Kid(ps2, p) = n /\ Idx(ps2, n) = Idx(ps, p) /\ Size(ts2, Ctx(ps, p)) = Size(ts, Ctx(ps, p))
       \/ /\ Kid(ps, p) = Many /\ Kid(ps2, p) = Many /\ Idx(ps2, n) = Size(ts, Ctx(ps, p)) + 1
          /\ Size(ts2, Ctx(ps, p)) = Size(ts, Ctx(ps, p)) + 1
          /\ Tab(ts2, Ctx(ps, p), Size(ts, Ctx(ps, p)) + 1) = NoSegment

Appended(ps, ts, ps2, ts2, p, n) ==
    /\ Ctx(ps, p) \in 1..Len(ts) /\ Ctx(ps, p) # 0 /\ p \in DOMAIN ps /\ Elsewhere(ps, ts, ps2, ts2, Ctx(ps, p))
    /\ n \in Nat /\ n # 0 /\ n \notin DOMAIN ps /\ DOMAIN ps2 = DOMAIN ps \cup {n} /\ \A q \in DOMAIN ps : q < n /\ q \in Nat
    /\ \A d \in 1..Len(ts) : \A i \in 1..Size(ts2, d) :
           (i \in 1..Size(ts, d) /\ Tab(ts2, d, i) = Tab(ts, d, i)) \/ Tab(ts2, d, i) = NoSegment
    /\ \A d \in 1..Len(ts) : Size(ts, d) \in Nat /\ Size(ts2, d) \in Nat /\ Size(ts, d) <= Size(ts2, d)
    /\ Kid(ps, p) \in {0, Many} /\ Kid(ps2, p) \in {n, Many}
    /\ Idx(ps2, n) \in 1..Size(ts2, Ctx(ps, p)) /\ Idx(ps, p) \in 1..Size(ts, Ctx(ps, p)) /\ Idx(ps, p) # 0
    /\ Kid(ps, p) = 0 <=> Kid(ps2, p) = n
    /\ Kid(ps, p) = 0 => Idx(ps2, n) = Idx(ps, p)
    /\ Kid(ps, p) = Many => /\ \A q \in DOMAIN ps : Ctx(ps, q) = Ctx(ps, p) => Idx(ps, q) # Idx(ps2, n)
                            /\ Idx(ps2, n) # 1 /\ Tab(ts2, Ctx(ps, p), Idx(ps2, n)) = NoSegment
LEMMA AppendsFacts ==
    ASSUME NEW ps, NEW ts, NEW ps2, NEW ts2, NEW p, NEW n, ChainsGood(ps, ts), Appends(ps, ts, ps2, ts2, p, n)
    PROVE  Appended(ps, ts, ps2, ts2, p, n)
<1>1. /\ p \in DOMAIN ps /\ Linked(ps, p) /\ n \in Nat /\ n # 0 /\ n \notin DOMAIN ps /\ DOMAIN ps2 = DOMAIN ps \cup {n}
      /\ \A q \in DOMAIN ps : q < n /\ q \in Nat
  BY DEF Appends, OneMore
<1>2. PICK c : c = Ctx(ps, p)
  OBVIOUS
<1>3. c # 0
  BY <1>1, <1>2 DEF ChainsGood, Placed
<1>4. c \in 1..Len(ts) /\ Idx(ps, p) \in 1..Size(ts, c)
  BY <1>1, <1>2, <1>3, InsideTables
<1>5. \A d \in 1..Len(ts) : Size(ts, d) \in Nat /\ Size(ts, d) > 0
  BY InsideTables
<1>6. PICK k \in Nat : k = Size(ts, c) /\ k > 0
  BY <1>4, <1>5
<1>7. /\ \A d \in 1..Len(ts) : \A i \in 1..Size(ts, d) : Tab(ts2, d, i) = Tab(ts, d, i)
      /\ \A d \in 1..Len(ts) : d # c => Size(ts2, d) = Size(ts, d)
  BY <1>2 DEF Appends
<1>8. \/ Kid(ps, p) = 0 /\ Kid(ps2, p) = n /\ Idx(ps2, n) = Idx(ps, p) /\ Size(ts2, c) = k
      \/ Kid(ps, p) = Many /\ Kid(ps2, p) = Many /\ Idx(ps2, n) = k + 1 /\ Size(ts2, c) = k + 1 /\ Tab(ts2, c, k + 1) = NoSegment
  BY <1>2, <1>6 DEF Appends
<1>9. Elsewhere(ps, ts, ps2, ts2, c)
  <2>1. \A q \in DOMAIN ps : Untouched(ps, ps2, q) /\ (q # p => Kid(ps2, q) = Kid(ps, q))
    BY DEF Appends
  <2>2. Len(ts2) = Len(ts) /\ Ctx(ps2, n) = c
    BY <1>2 DEF Appends
  <2> QED BY <1>1, <1>2, <1>7, <2>1, <2>2 DEF Elsewhere, Untouched
<1>10. ASSUME NEW d \in 1..Len(ts), NEW i \in 1..Size(ts2, d)
       PROVE  (i \in 1..Size(ts, d) /\ Tab(ts2, d, i) = Tab(ts, d, i)) \/ Tab(ts2, d, i) = NoSegment
  <2>1. CASE d = c
    <3>1. i \in 1..k \/ (i = k + 1 /\ Tab(ts2, c, k + 1) = NoSegment)
      BY <1>6, <1>8, <1>10, <2>1
    <3> QED BY <1>6, <1>7, <2>1, <3>1
  <2>2. CASE d # c
    BY <1>7, <2>2
  <2> QED BY <2>1, <2>2
<1>11. ASSUME NEW d \in 1..Len(ts) PROVE Size(ts, d) \in Nat /\ Size(ts2, d) \in Nat /\ Size(ts, d) <= Size(ts2, d)
  <2>1. CASE d = c
    BY <1>6, <1>8, <2>1
  <2>2. CASE d # c
    BY <1>5, <1>7, <2>2
  <2> QED BY <2>1, <2>2
<1>12. Idx(ps, p) \in 1..k /\ Idx(ps, p) # 0 /\ Idx(ps2, n) \in 1..Size(ts2, c)
  BY <1>4, <1>6, <1>8
<1>13. Kid(ps, p) = Many => /\ \A q \in DOMAIN ps : Ctx(ps, q) = c => Idx(ps, q) # Idx(ps2, n)
                            /\ Idx(ps2, n) # 1 /\ Tab(ts2, c, Idx(ps2, n)) = NoSegment
  <2> SUFFICES ASSUME Kid(ps, p) = Many
               PROVE  /\ \A q \in DOMAIN ps : Ctx(ps, q) = c => Idx(ps, q) # Idx(ps2, n)
                      /\ Idx(ps2, n) # 1 /\ Tab(ts2, c, Idx(ps2, n)) = NoSegment
    OBVIOUS
  <2>1. Idx(ps2, n) = k + 1 /\ Tab(ts2, c, k + 1) = NoSegment
    BY <1>8 DEF Many
  <2>2. \A q \in DOMAIN ps : Ctx(ps, q) = c => Idx(ps, q) \in 1..k
    BY <1>3, <1>6, InsideTables
  <2>3. k + 1 \notin 1..k /\ k + 1 # 1
    BY <1>6
  <2> QED BY <2>1, <2>2, <2>3
<1>14. Kid(ps, p) = 0 <=> Kid(ps2, p) = n
  BY <1>1, <1>8 DEF Many
<1> QED BY <1>1, <1>2, <1>3, <1>4, <1>6, <1>8, <1>9, <1>10, <1>11, <1>12, <1>13, <1>14 DEF Many, Appended

LEMMA AppendsInChains ==
    ASSUME NEW ps, NEW ts, NEW ps2, NEW ts2, NEW p, NEW n, ChainsGood(ps, ts), Appends(ps, ts, ps2, ts2, p, n),
           ps2 \in Seq(Promises), ts2 \in Seq(Seq(SegmentOrNone))
    PROVE  ChainsGood(ps2, ts2)
<1>1. PICK c : c = Ctx(ps, p)
  OBVIOUS
<1>2. /\ c \in 1..Len(ts) /\ c # 0 /\ p \in DOMAIN ps
      /\ n \in Nat /\ n # 0 /\ n \notin DOMAIN ps /\ DOMAIN ps2 = DOMAIN ps \cup {n} /\ \A q \in DOMAIN ps : q < n /\ q \in Nat
      /\ \A d \in 1..Len(ts) : \A i \in 1..Size(ts2, d) :
             (i \in 1..Size(ts, d) /\ Tab(ts2, d, i) = Tab(ts, d, i)) \/ Tab(ts2, d, i) = NoSegment
      /\ \A d \in 1..Len(ts) : Size(ts, d) \in Nat /\ Size(ts2, d) \in Nat /\ Size(ts, d) <= Size(ts2, d)
      /\ Kid(ps, p) \in {0, Many} /\ Kid(ps2, p) \in {n, Many}
      /\ Idx(ps2, n) \in 1..Size(ts2, c) /\ Idx(ps, p) \in 1..Size(ts, c) /\ Idx(ps, p) # 0
      /\ (Kid(ps, p) = 0 <=> Kid(ps2, p) = n)
  <2>1. Appended(ps, ts, ps2, ts2, p, n)
    BY AppendsFacts
  <2> QED BY <1>1, <2>1 DEF Appended
<1>3. /\ \A q \in DOMAIN ps : Untouched(ps, ps2, q)
      /\ \A q \in DOMAIN ps : q # p => Kid(ps2, q) = Kid(ps, q)
      /\ Ctx(ps2, n) = c /\ Up(ps2, n) = p /\ Prev(ps2, n) = p /\ Par(ps2, n) = Idx(ps, p) /\ Kid(ps2, n) = 0
      /\ Linked(ps2, n) /\ Stage(ps2, n) = "pending" /\ Own(ps2, n) = NoSegment /\ Ran(ps2, n) = NoSegment
      /\ Len(ts2) = Len(ts)
      /\ \A d \in 1..Len(ts) : \A i \in 1..Size(ts, d) : Tab(ts2, d, i) = Tab(ts, d, i)
  BY <1>1 DEF Appends
<1>4. Placed(ps, ts) /\ Descended(ps) /\ OneRoot(ps) /\ InTurn(ps) /\ Filled(ts) /\ Owned(ps, ts) /\ RootFirst(ps, ts)
  BY DEF ChainsGood
<1>5. Placed(ps2, ts2)
  <2>1. ASSUME NEW q \in DOMAIN ps
        PROVE  /\ Ctx(ps2, q) # 0 => /\ Ctx(ps2, q) \in 1..Len(ts2)
                                     /\ Idx(ps2, q) \in 1..Size(ts2, Ctx(ps2, q))
                                     /\ Par(ps2, q) \in 0..Size(ts2, Ctx(ps2, q))
               /\ Ctx(ps2, q) = 0 => /\ ~Linked(ps2, q) /\ Up(ps2, q) = 0
                                     /\ Own(ps2, q) = NoSegment /\ Ran(ps2, q) = NoSegment
               /\ Up(ps2, q) = 0 /\ Ctx(ps2, q) # 0 => Own(ps2, q) # NoSegment /\ Idx(ps2, q) = 1 /\ Par(ps2, q) = 0
    <3>1. Untouched(ps, ps2, q)
      BY <1>3
    <3>2. Ctx(ps, q) # 0 => /\ Ctx(ps, q) \in 1..Len(ts)
                            /\ Idx(ps, q) \in 1..Size(ts2, Ctx(ps, q)) /\ Par(ps, q) \in 0..Size(ts2, Ctx(ps, q))
      <4> SUFFICES ASSUME Ctx(ps, q) # 0
                   PROVE  /\ Ctx(ps, q) \in 1..Len(ts)
                          /\ Idx(ps, q) \in 1..Size(ts2, Ctx(ps, q)) /\ Par(ps, q) \in 0..Size(ts2, Ctx(ps, q))
        OBVIOUS
      <4>1. PICK d \in 1..Len(ts) : d = Ctx(ps, q) /\ Idx(ps, q) \in 1..Size(ts, d) /\ Par(ps, q) \in 0..Size(ts, d)
        BY <1>4 DEF Placed
      <4>2. PICK k \in Nat, m \in Nat : k = Size(ts, d) /\ m = Size(ts2, d) /\ k <= m
        BY <1>2
      <4>3. Idx(ps, q) \in 1..m /\ Par(ps, q) \in 0..m
        BY <4>1, <4>2
      <4> QED BY <4>1, <4>2, <4>3
    <3> QED BY <1>3, <1>4, <3>1, <3>2 DEF Placed, Untouched
  <2>2. /\ Ctx(ps2, n) \in 1..Len(ts2) /\ Ctx(ps2, n) # 0 /\ Up(ps2, n) # 0 /\ Idx(ps2, n) \in 1..Size(ts2, c)
        /\ Par(ps2, n) \in 0..Size(ts2, c)
    <3>1. PICK k \in Nat, m \in Nat : k = Size(ts, c) /\ m = Size(ts2, c) /\ k <= m
      BY <1>2
    <3>2. Idx(ps, p) \in 0..m
      BY <1>2, <3>1
    <3>3. p # 0
      BY PromiseTypes, <1>2 DEF ChainsGood
    <3> QED BY <1>2, <1>3, <3>1, <3>2, <3>3
  <2> QED BY <1>2, <1>3, <2>1, <2>2 DEF Placed
<1>6. Descended(ps2)
  <2>1. ASSUME NEW q \in DOMAIN ps
        PROVE  /\ Prev(ps2, q) # 0 => Prev(ps2, q) \in DOMAIN ps2 /\ Prev(ps2, q) < q
               /\ Up(ps2, q) # 0 => /\ Up(ps2, q) = Prev(ps2, q) /\ Up(ps2, q) \in DOMAIN ps2 /\ Up(ps2, q) < q
                                    /\ Ctx(ps2, Up(ps2, q)) = Ctx(ps2, q) /\ Ctx(ps2, q) # 0 /\ Par(ps2, q) # 0
                                    /\ Kid(ps2, Up(ps2, q)) \in {q, Many}
               /\ Kid(ps2, q) \notin {0, Many} => /\ Kid(ps2, q) \in DOMAIN ps2 /\ q < Kid(ps2, q)
                                                  /\ Up(ps2, Kid(ps2, q)) = q
    <3>1. Untouched(ps, ps2, q)
      BY <1>3
    <3>2. /\ Prev(ps, q) # 0 => Prev(ps, q) \in DOMAIN ps /\ Prev(ps, q) < q
          /\ Up(ps, q) # 0 => /\ Up(ps, q) = Prev(ps, q) /\ Up(ps, q) \in DOMAIN ps /\ Up(ps, q) < q
                              /\ Ctx(ps, Up(ps, q)) = Ctx(ps, q) /\ Ctx(ps, q) # 0 /\ Par(ps, q) # 0
                              /\ Kid(ps, Up(ps, q)) \in {q, Many}
          /\ Kid(ps, q) \notin {0, Many} => /\ Kid(ps, q) \in DOMAIN ps /\ q < Kid(ps, q) /\ Up(ps, Kid(ps, q)) = q
      BY <1>4 DEF Descended
    <3>3. Kid(ps2, q) \notin {0, Many} => Kid(ps2, q) \in DOMAIN ps2 /\ q < Kid(ps2, q) /\ Up(ps2, Kid(ps2, q)) = q
      <4>1. CASE q = p
        BY <1>2, <1>3, <4>1
      <4>2. CASE q # p
        BY <1>2, <1>3, <3>2, <4>2 DEF Untouched
      <4> QED BY <4>1, <4>2
    <3>4. Up(ps, q) # 0 => Kid(ps2, Up(ps, q)) \in {q, Many}
      <4>1. q # 0
        BY PromiseTypes DEF ChainsGood
      <4>2. Up(ps, q) = p /\ Up(ps, q) # 0 => Kid(ps, p) = Many
        BY <1>2, <3>2, <4>1
      <4>3. Kid(ps, p) = Many => Kid(ps2, p) = Many
        BY <1>2 DEF Many
      <4> QED BY <1>3, <3>2, <4>2, <4>3
    <3> QED BY <1>2, <1>3, <3>1, <3>2, <3>3, <3>4 DEF Untouched
  <2>2. /\ Prev(ps2, n) \in DOMAIN ps2 /\ Prev(ps2, n) < n /\ Up(ps2, n) = Prev(ps2, n) /\ Up(ps2, n) \in DOMAIN ps2
        /\ Ctx(ps2, Up(ps2, n)) = Ctx(ps2, n) /\ Ctx(ps2, n) # 0 /\ Par(ps2, n) # 0 /\ Kid(ps2, Up(ps2, n)) \in {n, Many}
        /\ Kid(ps2, n) = 0
    BY <1>1, <1>2, <1>3 DEF Untouched
  <2> QED BY <1>2, <2>1, <2>2 DEF Descended
<1>7. p # 0
  BY <1>2, PromiseTypes DEF ChainsGood
<1>8. OneRoot(ps2)
  <2> SUFFICES ASSUME NEW q \in DOMAIN ps2, NEW r \in DOMAIN ps2,
                      Ctx(ps2, q) = Ctx(ps2, r), Ctx(ps2, q) # 0, Up(ps2, q) = 0, Up(ps2, r) = 0
               PROVE  q = r
    BY DEF OneRoot
  <2>1. q \in DOMAIN ps /\ r \in DOMAIN ps
    BY <1>2, <1>3, <1>7
  <2> QED BY <1>3, <1>4, <2>1 DEF OneRoot, Untouched
<1>9. InTurn(ps2)
  <2>1. ASSUME NEW q \in DOMAIN ps2
        PROVE  /\ Stage(ps2, q) = "waiting" => Cont(ps2, q) # NoSegment /\ Ctx(ps2, q) # 0
               /\ Stage(ps2, q) # "pending" /\ Prev(ps2, q) # 0 => Stage(ps2, Prev(ps2, q)) = "done"
               /\ Own(ps2, q) # NoSegment /\ Up(ps2, q) # 0 => Stage(ps2, q) = "done"
               /\ Ran(ps2, q) # NoSegment => Stage(ps2, q) # "pending"
    <3>1. CASE q \in DOMAIN ps
      <4>1. Prev(ps, q) # 0 => Prev(ps, q) \in DOMAIN ps
        BY <1>4, <3>1 DEF Descended
      <4> QED BY <1>3, <1>4, <3>1, <4>1 DEF InTurn, Untouched
    <3>2. CASE q = n
      BY <1>3, <3>2
    <3> QED BY <1>2, <3>1, <3>2
  <2> QED BY <2>1 DEF InTurn
<1>10. Filled(ts2)
  <2>1. ASSUME NEW d \in 1..Len(ts) PROVE Size(ts2, d) > 0 /\ Tab(ts2, d, 1) # NoSegment
    <3>1. 1 \in 1..Size(ts, d) /\ Tab(ts, d, 1) # NoSegment /\ Size(ts, d) > 0
      BY InsideTables
    <3>2. Size(ts2, d) > 0
      BY <1>2, <3>1
    <3> QED BY <1>3, <3>1, <3>2
  <2> QED BY <1>3, <2>1 DEF Filled
<1>11. Owned(ps2, ts2)
  <2>1. ASSUME NEW d \in 1..Len(ts), NEW i \in 1..Size(ts2, d), Tab(ts2, d, i) # NoSegment
        PROVE  \E q \in DOMAIN ps2 : Ctx(ps2, q) = d /\ Own(ps2, q) = Tab(ts2, d, i)
    <3>1. i \in 1..Size(ts, d) /\ Tab(ts2, d, i) = Tab(ts, d, i)
      BY <1>2, <2>1
    <3>2. PICK q \in DOMAIN ps : Ctx(ps, q) = d /\ Own(ps, q) = Tab(ts, d, i)
      BY <1>4, <2>1, <3>1 DEF Owned
    <3> QED BY <1>2, <1>3, <3>1, <3>2 DEF Untouched
  <2>2. ASSUME NEW q \in DOMAIN ps2, Ran(ps2, q) # NoSegment, Up(ps2, q) # 0
        PROVE  \E r \in DOMAIN ps2 : Ctx(ps2, r) = Ctx(ps2, q) /\ Own(ps2, r) = Ran(ps2, q)
    <3>1. q \in DOMAIN ps /\ Untouched(ps, ps2, q)
      BY <1>2, <1>3, <2>2
    <3>2. PICK r \in DOMAIN ps : Ctx(ps, r) = Ctx(ps, q) /\ Own(ps, r) = Ran(ps, q)
      BY <1>4, <2>2, <3>1 DEF Owned, Untouched
    <3> QED BY <1>2, <1>3, <3>1, <3>2 DEF Untouched
  <2> QED BY <1>3, <2>1, <2>2 DEF Owned
<1>12. RootFirst(ps2, ts2)
  <2> SUFFICES ASSUME NEW r \in DOMAIN ps2, Ctx(ps2, r) # 0, Up(ps2, r) = 0, Stage(ps2, r) # "done"
               PROVE  /\ \A q \in DOMAIN ps2 : Ctx(ps2, q) = Ctx(ps2, r) /\ q # r =>
                             Stage(ps2, q) = "pending" /\ Ran(ps2, q) = NoSegment
                      /\ \A i \in 2..Size(ts2, Ctx(ps2, r)) : Tab(ts2, Ctx(ps2, r), i) = NoSegment
    BY DEF RootFirst
  <2>1. r \in DOMAIN ps
    BY <1>2, <1>3, <1>7
  <2>2. Untouched(ps, ps2, r)
    BY <1>3, <2>1
  <2>3. /\ \A q \in DOMAIN ps : Ctx(ps, q) = Ctx(ps, r) /\ q # r => Stage(ps, q) = "pending" /\ Ran(ps, q) = NoSegment
        /\ \A i \in 2..Size(ts, Ctx(ps, r)) : Tab(ts, Ctx(ps, r), i) = NoSegment
    BY <1>4, <2>1, <2>2 DEF RootFirst, Untouched
  <2>4. \A q \in DOMAIN ps2 : Ctx(ps2, q) = Ctx(ps2, r) /\ q # r => Stage(ps2, q) = "pending" /\ Ran(ps2, q) = NoSegment
    BY <1>2, <1>3, <2>2, <2>3 DEF Untouched
  <2>5. PICK d \in 1..Len(ts) : d = Ctx(ps2, r) /\ d = Ctx(ps, r)
    BY <2>1, <2>2, InsideTables DEF Untouched
  <2>6. ASSUME NEW i \in 2..Size(ts2, d) PROVE Tab(ts2, d, i) = NoSegment
    <3>1. Size(ts2, d) \in Nat /\ Size(ts, d) \in Nat
      BY <1>2
    <3>2. i \in 1..Size(ts2, d) /\ (i \in 1..Size(ts, d) => i \in 2..Size(ts, d))
      BY <2>6, <3>1
    <3> QED BY <1>2, <2>3, <2>5, <3>2
  <2> QED BY <2>4, <2>5, <2>6
<1> QED BY <1>5, <1>6, <1>8, <1>9, <1>10, <1>11, <1>12 DEF ChainsGood

\* At the end of the trunk nothing has branched off.
LEMMA TrunkIsAll ==
    ASSUME NEW ps, NEW ts, NEW cr, ChainsGood(ps, ts), ShapeGood(ps, cr), NEW p, Plain(ps, cr, p), Idx(ps, p) = 1,
           Kid(ps, p) = 0
    PROVE  \A q \in DOMAIN ps : Ctx(ps, q) = Ctx(ps, p) => Idx(ps, q) = 1
<1>1. ps \in Seq(Promises) /\ Descended(ps) /\ Placed(ps, ts) /\ p \in DOMAIN ps /\ Ctx(ps, p) # 0
  BY DEF ChainsGood, Plain
<1>2. \A q \in DOMAIN ps : q \in Nat /\ q # 0
  BY <1>1, PromiseTypes
<1>3. PICK T : T = {q \in DOMAIN ps : Ctx(ps, q) = Ctx(ps, p) /\ Idx(ps, q) # 1}
  OBVIOUS
<1>4. SUFFICES ASSUME T # {} PROVE FALSE
  BY <1>3
<1>5. T \subseteq Nat
  BY <1>2, <1>3
<1>6. PICK q \in T : \A r \in T : q <= r
  BY <1>4, <1>5, LeastElement
<1>7. q \in DOMAIN ps /\ Ctx(ps, q) = Ctx(ps, p) /\ Idx(ps, q) # 1
  BY <1>3, <1>6
<1>8. Up(ps, q) # 0
  BY <1>1, <1>7 DEF Placed
<1>9. PICK u \in DOMAIN ps : u = Up(ps, q) /\ u < q /\ Ctx(ps, u) = Ctx(ps, p) /\ Kid(ps, u) \in {q, Many}
  BY <1>1, <1>7, <1>8 DEF Descended
<1>10. u \notin T
  <2>1. u \in Nat /\ q \in Nat
    BY <1>2, <1>7
  <2> QED BY <2>1, <1>6, <1>9
<1>11. Idx(ps, u) = 1
  BY <1>3, <1>9, <1>10
<1>12. Together(ps, cr, q, p)
  BY <1>1, <1>7 DEF Together, Plain
<1>13. p <= u
  BY <1>1, <1>7, <1>8, <1>9, <1>11, <1>12 DEF ShapeGood, TrunkEnds
<1>14. u # p
  <2>1. q # 0
    BY <1>2, <1>7
  <2> QED BY <1>9, <2>1 DEF Many
<1>15. p < u
  BY <1>1, <1>2, <1>13, <1>14
<1>16. Alike(ps, cr, p, u)
  BY <1>1, <1>9, <1>11 DEF Alike, Together
<1>17. Kid(ps, p) \in DOMAIN ps
  BY <1>1, <1>15, <1>16 DEF ShapeGood, InLine
<1> QED BY <1>2, <1>17

LEMMA AppendsInShape ==
    ASSUME NEW ps, NEW ts, NEW cr, NEW ps2, NEW ts2, NEW p, NEW n, ChainsGood(ps, ts), ShapeGood(ps, cr),
           Appends(ps, ts, ps2, ts2, p, n)
    PROVE  ShapeGood(ps2, cr)
<1>1. PICK c : c = Ctx(ps, p)
  OBVIOUS
<1>2. /\ c # 0 /\ p \in DOMAIN ps
      /\ n \in Nat /\ n # 0 /\ n \notin DOMAIN ps /\ DOMAIN ps2 = DOMAIN ps \cup {n} /\ \A q \in DOMAIN ps : q < n /\ q \in Nat
      /\ Kid(ps, p) \in {0, Many} /\ Kid(ps2, p) \in {n, Many}
      /\ (Kid(ps, p) = 0 <=> Kid(ps2, p) = n)
      /\ (Kid(ps, p) = 0 => Idx(ps2, n) = Idx(ps, p))
      /\ (Kid(ps, p) = Many => Idx(ps2, n) # 1 /\ \A q \in DOMAIN ps : Ctx(ps, q) = c => Idx(ps, q) # Idx(ps2, n))
  <2>1. Appended(ps, ts, ps2, ts2, p, n)
    BY AppendsFacts
  <2> QED BY <1>1, <2>1 DEF Appended
<1>3. /\ \A q \in DOMAIN ps : Untouched(ps, ps2, q)
      /\ \A q \in DOMAIN ps : q # p => Kid(ps2, q) = Kid(ps, q)
      /\ Ctx(ps2, n) = c /\ Up(ps2, n) = p /\ Par(ps2, n) = Idx(ps, p) /\ Kid(ps2, n) = 0
      /\ Linked(ps2, n) /\ Stage(ps2, n) = "pending" /\ Linked(ps, p)
  BY <1>1 DEF Appends
<1>4. ps \in Seq(Promises) /\ Descended(ps)
  BY DEF ChainsGood
<1>5. \A q \in DOMAIN ps : q \in Nat /\ q # 0 /\ q # Many
  BY <1>4, PromiseTypes DEF Many
<1>6. /\ 0 # Many /\ Kid(ps, p) \notin DOMAIN ps /\ p < n /\ p \in Nat /\ p # 0
      /\ (Kid(ps2, p) = Many <=> Kid(ps, p) = Many)
  BY <1>2, <1>5 DEF Many
<1>7. /\ \A q \in DOMAIN ps : Plain(ps2, cr, q) => Plain(ps, cr, q)
      /\ \A q \in DOMAIN ps, r \in DOMAIN ps : Together(ps2, cr, q, r) => Together(ps, cr, q, r)
      /\ \A q \in DOMAIN ps, r \in DOMAIN ps : Alike(ps2, cr, q, r) => Alike(ps, cr, q, r)
  BY <1>3 DEF Alike, Together, Plain, Untouched
<1>8. \A q \in DOMAIN ps : /\ Kid(ps2, q) = Many <=> Kid(ps, q) = Many
                           /\ Ctx(ps2, q) = Ctx(ps, q) /\ Idx(ps2, q) = Idx(ps, q) /\ Par(ps2, q) = Par(ps, q)
                           /\ Up(ps2, q) = Up(ps, q) /\ Stage(ps2, q) = Stage(ps, q)
                           /\ (Linked(ps2, q) <=> Linked(ps, q))
  BY <1>3, <1>6 DEF Untouched
<1>9. \A q \in DOMAIN ps : Up(ps, q) # 0 => Up(ps, q) \in DOMAIN ps
  BY <1>4 DEF Descended
<1>10. ASSUME NEW q \in DOMAIN ps, Ctx(ps, q) = c, Plain(ps2, cr, n)
       PROVE  /\ Plain(ps, cr, p) /\ Plain(ps, cr, q)
              /\ Idx(ps, q) = Idx(ps, p) => Alike(ps, cr, p, q) /\ Alike(ps, cr, q, p)
              /\ Idx(ps, q) = Idx(ps, p) => q <= p
  <2>1. c \notin cr
    BY <1>3, <1>10 DEF Plain
  <2>2. Plain(ps, cr, p) /\ Plain(ps, cr, q)
    BY <1>1, <1>2, <1>10, <2>1 DEF Plain
  <2>3. Idx(ps, q) = Idx(ps, p) => Alike(ps, cr, p, q) /\ Alike(ps, cr, q, p)
    BY <1>1, <1>2, <1>10, <2>2 DEF Alike, Together
  <2>4. Idx(ps, q) = Idx(ps, p) => ~(p < q)
    BY <1>2, <1>6, <2>3 DEF ShapeGood, InLine
  <2>5. q \in Nat
    BY <1>5
  <2> QED BY <1>6, <2>2, <2>3, <2>4, <2>5
<1>11. ASSUME Plain(ps2, cr, n), Idx(ps2, n) = 1
       PROVE  \A q \in DOMAIN ps : Ctx(ps, q) = c => Idx(ps, q) = 1
  <2>1. Kid(ps, p) = 0 /\ Idx(ps, p) = 1
    BY <1>2, <1>11
  <2>2. Plain(ps, cr, p)
    BY <1>1, <1>2, <1>10, <1>11
  <2> QED BY <1>1, <2>1, <2>2, TrunkIsAll
<1>12. OneBranching(ps2, cr)
  <2> SUFFICES ASSUME NEW q \in DOMAIN ps2, NEW r \in DOMAIN ps2, Together(ps2, cr, q, r),
                      Kid(ps2, q) = Many, Kid(ps2, r) = Many
               PROVE  q = r
    BY DEF OneBranching
  <2>1. q \in DOMAIN ps /\ r \in DOMAIN ps
    BY <1>2, <1>3, <1>6
  <2> QED BY <1>7, <1>8, <2>1 DEF ShapeGood, OneBranching
<1>13. NoGaps(ps2, cr)
  <2> SUFFICES ASSUME NEW q \in DOMAIN ps2, Plain(ps2, cr, q), Stage(ps2, q) = "pending", ~Linked(ps2, q)
               PROVE  Kid(ps2, q) = 0
    BY DEF NoGaps
  <2>1. q \in DOMAIN ps /\ q # p
    BY <1>2, <1>3, <1>8
  <2> QED BY <1>3, <1>7, <1>8, <2>1 DEF ShapeGood, NoGaps
<1>14. FromAbove(ps2, cr)
  <2> SUFFICES ASSUME NEW q \in DOMAIN ps2, Plain(ps2, cr, q), Up(ps2, q) # 0
               PROVE  Par(ps2, q) = Idx(ps2, Up(ps2, q))
    BY DEF FromAbove
  <2>1. CASE q = n
    BY <1>2, <1>3, <1>8, <2>1
  <2>2. CASE q \in DOMAIN ps
    BY <1>7, <1>8, <1>9, <2>2 DEF ShapeGood, FromAbove
  <2> QED BY <1>2, <2>1, <2>2
<1>15. InLine(ps2, cr)
  <2> SUFFICES ASSUME NEW q \in DOMAIN ps2, NEW r \in DOMAIN ps2, Alike(ps2, cr, q, r), q < r
               PROVE  /\ Up(ps2, r) # 0 /\ Idx(ps2, Up(ps2, r)) = Idx(ps2, r) /\ q <= Up(ps2, r)
                      /\ Kid(ps2, q) \in DOMAIN ps2 /\ Kid(ps2, q) <= r /\ Idx(ps2, Kid(ps2, q)) = Idx(ps2, q)
    BY DEF InLine
  <2>1. q \in DOMAIN ps
    <3> SUFFICES ASSUME q = n PROVE FALSE
      BY <1>2
    <3>1. r \in Nat /\ (r < n \/ r = n)
      BY <1>2
    <3> QED BY <1>2, <3>1
  <2>2. CASE r \in DOMAIN ps
    <3>1. /\ Up(ps, r) # 0 /\ Idx(ps, Up(ps, r)) = Idx(ps, r) /\ q <= Up(ps, r)
          /\ Kid(ps, q) \in DOMAIN ps /\ Kid(ps, q) <= r /\ Idx(ps, Kid(ps, q)) = Idx(ps, q)
      BY <1>7, <2>1, <2>2 DEF ShapeGood, InLine
    <3>2. q # p
      BY <1>6, <3>1
    <3> QED BY <1>2, <1>3, <1>8, <1>9, <2>1, <2>2, <3>1, <3>2
  <2>3. CASE r = n
    <3>1. Ctx(ps, q) = c /\ Idx(ps, q) = Idx(ps2, n) /\ Plain(ps2, cr, n)
      BY <1>2, <1>3, <1>8, <2>1, <2>3 DEF Alike, Together, Plain
    <3>2. Kid(ps, p) = 0 /\ Kid(ps2, p) = n /\ Idx(ps, q) = Idx(ps, p) /\ Idx(ps2, n) = Idx(ps, p)
      BY <1>2, <2>1, <3>1
    <3>3. q <= p /\ Alike(ps, cr, q, p)
      BY <1>10, <2>1, <3>1, <3>2
    <3>4. CASE q = p
      BY <1>2, <1>3, <1>6, <1>8, <2>3, <3>2, <3>4
    <3>5. CASE q # p
      <4>1. q < p
        BY <1>5, <1>6, <2>1, <3>3, <3>5
      <4>2. Kid(ps, q) \in DOMAIN ps /\ Idx(ps, Kid(ps, q)) = Idx(ps, q)
        BY <1>2, <2>1, <3>3, <4>1 DEF ShapeGood, InLine
      <4>3. Kid(ps2, q) = Kid(ps, q) /\ Kid(ps, q) <= n
        BY <1>2, <1>3, <2>1, <3>5, <4>2
      <4> QED BY <1>2, <1>3, <1>6, <1>8, <2>1, <2>3, <3>2, <3>3, <4>2, <4>3
    <3> QED BY <3>4, <3>5
  <2> QED BY <1>2, <2>2, <2>3
<1>16. OneLine(ps2, cr)
  <2> SUFFICES ASSUME NEW q \in DOMAIN ps2, Plain(ps2, cr, q), Unbranched(ps2, Ctx(ps2, q)) PROVE Idx(ps2, q) = 1
    BY DEF OneLine
  <2>1. Unbranched(ps, Ctx(ps2, q))
    BY <1>2, <1>8 DEF Unbranched
  <2>2. CASE q \in DOMAIN ps
    BY <1>7, <1>8, <2>1, <2>2 DEF ShapeGood, OneLine
  <2>3. CASE q = n
    <3>1. Kid(ps, p) # Many /\ Unbranched(ps, Ctx(ps, p))
      BY <1>1, <1>2, <1>3, <2>1, <2>3 DEF Unbranched
    <3>2. Plain(ps, cr, p)
      BY <1>1, <1>2, <1>10, <2>3
    <3>3. Idx(ps, p) = 1
      BY <1>2, <3>1, <3>2 DEF ShapeGood, OneLine
    <3> QED BY <1>2, <2>3, <3>1, <3>3
  <2> QED BY <1>2, <2>2, <2>3
<1>17. TrunkEnds(ps2, cr)
  <2> SUFFICES ASSUME NEW q \in DOMAIN ps2, NEW r \in DOMAIN ps2, Together(ps2, cr, q, r),
                      Idx(ps2, q) # 1, Idx(ps2, r) = 1, Up(ps2, q) # 0, Idx(ps2, Up(ps2, q)) = 1
               PROVE  r <= Up(ps2, q)
    BY DEF TrunkEnds
  <2>1. CASE q \in DOMAIN ps /\ r \in DOMAIN ps
    BY <1>7, <1>8, <1>9, <2>1 DEF ShapeGood, TrunkEnds
  <2>2. CASE q = n
    <3>1. r \in DOMAIN ps /\ Idx(ps, r) = 1 /\ Idx(ps, p) = 1 /\ Ctx(ps, r) = c /\ Plain(ps2, cr, n)
      BY <1>2, <1>3, <1>8, <2>2 DEF Together, Plain
    <3> QED BY <1>3, <1>10, <2>2, <3>1
  <2>3. CASE q \in DOMAIN ps /\ r = n
    <3>1. Plain(ps2, cr, n) /\ Idx(ps2, n) = 1 /\ Ctx(ps, q) = c
      BY <1>2, <1>3, <1>8, <2>3 DEF Together, Plain
    <3> QED BY <1>8, <1>11, <2>3, <3>1
  <2> QED BY <1>2, <2>1, <2>2, <2>3
<1>18. LineInTurn(ps2, cr)
  <2> SUFFICES ASSUME NEW q \in DOMAIN ps2, NEW r \in DOMAIN ps2, Alike(ps2, cr, q, r), q < r, Stage(ps2, r) # "pending"
               PROVE  Stage(ps2, q) = "done"
    BY DEF LineInTurn
  <2>1. r \in DOMAIN ps
    BY <1>2, <1>3
  <2>2. q # n
    <3>1. r \in Nat /\ r < n
      BY <1>2, <2>1
    <3> QED BY <1>2, <3>1
  <2> QED BY <1>2, <1>7, <1>8, <2>1, <2>2 DEF ShapeGood, LineInTurn
<1>19. TrunkInTurn(ps2, cr)
  <2> SUFFICES ASSUME NEW q \in DOMAIN ps2, NEW r \in DOMAIN ps2, Together(ps2, cr, q, r),
                      Idx(ps2, q) # 1, Idx(ps2, r) = 1, Stage(ps2, q) # "pending"
               PROVE  Stage(ps2, r) = "done"
    BY DEF TrunkInTurn
  <2>1. q \in DOMAIN ps
    BY <1>2, <1>3
  <2>2. CASE r \in DOMAIN ps
    BY <1>7, <1>8, <2>1, <2>2 DEF ShapeGood, TrunkInTurn
  <2>3. CASE r = n
    <3>1. Plain(ps2, cr, n) /\ Idx(ps2, n) = 1 /\ Ctx(ps, q) = c
      BY <1>2, <1>3, <1>8, <2>1, <2>3 DEF Together, Plain
    <3> QED BY <1>8, <1>11, <2>1, <3>1
  <2> QED BY <1>2, <2>2, <2>3
<1> QED BY <1>12, <1>13, <1>14, <1>15, <1>16, <1>17, <1>18, <1>19 DEF ShapeGood

LEMMA AppendsKeep ==
    ASSUME NEW ps, NEW ts, NEW cr, NEW ps2, NEW ts2, NEW p, NEW n, Good(ps, ts, cr), Appends(ps, ts, ps2, ts2, p, n),
           ps2 \in Seq(Promises), ts2 \in Seq(Seq(SegmentOrNone))
    PROVE  Good(ps2, ts2, cr)
<1>1. ChainsGood(ps, ts) /\ ShapeGood(ps, cr) /\ ChainsGood(ps2, ts2) /\ ShapeGood(ps2, cr) /\ Descended(ps)
  <2>1. ChainsGood(ps, ts) /\ ShapeGood(ps, cr)
    BY DEF Good
  <2>2. ChainsGood(ps2, ts2)
    BY <2>1, AppendsInChains
  <2>3. ShapeGood(ps2, cr)
    BY <2>1, AppendsInShape
  <2> QED BY <2>1, <2>2, <2>3 DEF ChainsGood
<1>2. PICK c : c = Ctx(ps, p)
  OBVIOUS
<1>3. /\ c \in 1..Len(ts) /\ c # 0 /\ p \in DOMAIN ps /\ Elsewhere(ps, ts, ps2, ts2, c)
      /\ n \in Nat /\ n # 0 /\ n \notin DOMAIN ps /\ DOMAIN ps2 = DOMAIN ps \cup {n} /\ \A q \in DOMAIN ps : q < n /\ q \in Nat
      /\ Kid(ps, p) \in {0, Many} /\ Kid(ps2, p) \in {n, Many}
      /\ (Kid(ps, p) = 0 <=> Kid(ps2, p) = n)
      /\ Idx(ps, p) \in 1..Size(ts, c)
      /\ (Kid(ps, p) = 0 => Idx(ps2, n) = Idx(ps, p))
      /\ (Kid(ps, p) = Many => Idx(ps2, n) # 1 /\ Tab(ts2, c, Idx(ps2, n)) = NoSegment)
  <2>1. Appended(ps, ts, ps2, ts2, p, n)
    BY <1>1, AppendsFacts
  <2> QED BY <1>2, <2>1 DEF Appended
<1>4. /\ \A q \in DOMAIN ps : Untouched(ps, ps2, q)
      /\ \A q \in DOMAIN ps : q # p => Kid(ps2, q) = Kid(ps, q)
      /\ Ctx(ps2, n) = c /\ Up(ps2, n) = p /\ Par(ps2, n) = Idx(ps, p) /\ Kid(ps2, n) = 0
      /\ Linked(ps2, n) /\ Stage(ps2, n) = "pending" /\ Linked(ps, p) /\ Own(ps2, n) = NoSegment /\ Ran(ps2, n) = NoSegment
      /\ \A d \in 1..Len(ts) : \A i \in 1..Size(ts, d) : Tab(ts2, d, i) = Tab(ts, d, i)
  BY <1>2 DEF Appends
<1>5. 0 # Many /\ p # 0 /\ p # Many /\ n # Many /\ 1 \in 1..Size(ts, c)
  BY <1>1, <1>3, PromiseTypes, InsideTables DEF ChainsGood, Many
<1>6. ASSUME NEW f, ReachedBy(ps2, f), c \notin cr, NEW q \in DOMAIN ps2, Ctx(ps2, q) = c
      PROVE  TablesAt(ps2, ts2, cr, f, q)
  <2>1. ReachedBy(ps, f)
    BY <1>3, <1>4, <1>6 DEF ReachedBy, Untouched
  <2>2. \A r \in DOMAIN ps : TablesAt(ps, ts, cr, f, r)
    BY <2>1, TablesOneByOne DEF Good
  <2>3. Unbranched(ps2, c) => Unbranched(ps, c)
    BY <1>3, <1>4, <1>5 DEF Unbranched, Untouched
  <2>4. CASE q \in DOMAIN ps
    <3>1. /\ Ctx(ps, q) = c /\ Idx(ps2, q) = Idx(ps, q) /\ Par(ps2, q) = Par(ps, q) /\ Up(ps2, q) = Up(ps, q)
          /\ Stage(ps2, q) = Stage(ps, q) /\ Own(ps2, q) = Own(ps, q) /\ Ran(ps2, q) = Ran(ps, q)
          /\ (Linked(ps2, q) <=> Linked(ps, q))
      BY <1>4, <1>6, <2>4 DEF Untouched
    <3>2. Plain(ps, cr, q)
      BY <1>3, <1>6, <2>4, <3>1 DEF Plain
    <3>3. Up(ps, q) # 0 => /\ Up(ps, q) \in DOMAIN ps /\ Par(ps, q) # 0
                           /\ Stage(ps2, Up(ps, q)) = Stage(ps, Up(ps, q)) /\ Idx(ps2, Up(ps, q)) = Idx(ps, Up(ps, q))
      BY <1>1, <1>4, <2>4 DEF Descended, Untouched
    <3>4. Idx(ps, q) \in 1..Size(ts, c) /\ (Par(ps, q) # 0 => Par(ps, q) \in 1..Size(ts, c))
      BY <1>1, <1>3, <2>4, <3>1, InsideTables
    <3>5. /\ Tab(ts2, c, Idx(ps, q)) = Tab(ts, c, Idx(ps, q)) /\ Tab(ts2, c, 1) = Tab(ts, c, 1)
          /\ Par(ps, q) # 0 => Tab(ts2, c, Par(ps, q)) = Tab(ts, c, Par(ps, q))
      BY <1>3, <1>4, <1>5, <3>4
    <3>6. Leaves(ps2, ts2, q) = Leaves(ps, ts, q)
      BY <1>6, <3>1, <3>5 DEF Leaves
    <3>7. Up(ps, q) # 0 => Sees(ps2, ts2, q) = Sees(ps, ts, q)
      BY <1>6, <3>1, <3>3, <3>5 DEF Sees
    <3>8. Kid(ps2, q) \in {0, Many} => Kid(ps, q) \in {0, Many}
      BY <1>3, <1>4, <2>4
    <3>9. NoneAfter(ps2, q) => NoneAfter(ps, q)
      BY <1>3, <1>4, <2>4 DEF NoneAfter, Untouched
    <3>10. Stage(ps2, q) = "pending" /\ Up(ps2, q) # 0 /\ Idx(ps2, q) # Idx(ps2, Up(ps2, q))
           => Tab(ts2, c, Idx(ps2, q)) = NoSegment
      BY <2>2, <2>4, <3>1, <3>2, <3>3, <3>5 DEF TablesAt
    <3>11. Stage(ps2, q) = "pending" /\ Up(ps2, q) # 0 /\ Stage(ps2, Up(ps2, q)) = "done"
           => Sees(ps2, ts2, q) = f[Up(ps2, q)]
      BY <2>2, <2>4, <3>1, <3>2, <3>3, <3>7 DEF TablesAt
    <3>12. Up(ps2, q) = 0 /\ Stage(ps2, q) # "done" => Tab(ts2, c, 1) = Own(ps2, q)
      BY <2>2, <2>4, <3>1, <3>2, <3>5 DEF TablesAt
    <3>13. Stage(ps2, q) = "done" /\ Linked(ps2, q) /\ Kid(ps2, q) \in {0, Many} => Leaves(ps2, ts2, q) = f[q]
      BY <2>2, <2>4, <3>1, <3>2, <3>6, <3>8 DEF TablesAt
    <3>14. Unbranched(ps2, c) /\ Own(ps2, q) # NoSegment /\ NoneAfter(ps2, q) => Tab(ts2, c, 1) = Own(ps2, q)
      BY <2>2, <2>3, <2>4, <3>1, <3>2, <3>5, <3>9 DEF TablesAt
    <3>15. Ran(ps2, q) # NoSegment /\ Up(ps2, q) # 0 => Ran(ps2, q) = f[Up(ps2, q)]
      BY <2>2, <2>4, <3>1, <3>2 DEF TablesAt
    <3> QED BY <1>6, <3>10, <3>11, <3>12, <3>13, <3>14, <3>15 DEF TablesAt
  <2>5. CASE q = n
    <3>1. /\ Up(ps2, q) = p /\ Stage(ps2, q) = "pending" /\ Own(ps2, q) = NoSegment /\ Ran(ps2, q) = NoSegment
          /\ Par(ps2, q) = Idx(ps, p) /\ Idx(ps2, p) = Idx(ps, p) /\ Stage(ps2, p) = Stage(ps, p)
      BY <1>3, <1>4, <2>5 DEF Untouched
    <3>2. Idx(ps2, q) # Idx(ps2, p) => Tab(ts2, c, Idx(ps2, q)) = NoSegment
      BY <1>3, <2>5, <3>1
    <3>3. ASSUME Stage(ps2, p) = "done" PROVE Sees(ps2, ts2, q) = f[p]
      <4>1. Plain(ps, cr, p)
        BY <1>2, <1>3, <1>6 DEF Plain
      <4>2. Leaves(ps, ts, p) = f[p]
        BY <1>3, <1>4, <2>2, <3>1, <3>3, <4>1 DEF TablesAt
      <4>3. Tab(ts2, c, Idx(ps, p)) = Tab(ts, c, Idx(ps, p)) /\ Tab(ts2, c, 1) = Tab(ts, c, 1)
        BY <1>3, <1>4, <1>5
      <4>4. Tab(ts2, c, Idx(ps2, q)) \in {NoSegment, Tab(ts, c, Idx(ps, p))}
        BY <1>3, <2>5, <4>3
      <4>5. Sees(ps2, ts2, q) = OrElse(Tab(ts2, c, Idx(ps2, q)), Leaves(ps, ts, p))
        BY <1>2, <1>6, <3>1, <4>3 DEF Sees, Leaves
      <4>6. Leaves(ps, ts, p) = OrElse(Tab(ts, c, Idx(ps, p)), Tab(ts, c, 1))
        BY <1>2 DEF Leaves
      <4> QED BY <4>2, <4>4, <4>5, <4>6 DEF OrElse
    <3> QED BY <1>5, <1>6, <3>1, <3>2, <3>3 DEF TablesAt
  <2> QED BY <1>3, <2>4, <2>5
<1>7. ASSUME NEW f, ReachedBy(ps2, f) PROVE TablesGood(ps2, ts2, cr, f)
  <2> SUFFICES ASSUME NEW q \in DOMAIN ps2 PROVE TablesAt(ps2, ts2, cr, f, q)
    BY TablesOneByOne
  <2>1. CASE Ctx(ps2, q) # c
    BY <1>3, <1>7, <2>1, ElsewhereAtPeace
  <2>2. CASE Ctx(ps2, q) = c /\ c \notin cr
    BY <1>6, <1>7, <2>2
  <2>3. CASE Ctx(ps2, q) = c /\ c \in cr
    BY <2>3 DEF TablesAt, Plain
  <2> QED BY <2>1, <2>2, <2>3
<1> QED BY <1>1, <1>7 DEF Good
-----------------------------------------------------------------------------
\* One promise is another record, one is appended, one place or one table is another.
Same(ps, ps2, q) == Untouched(ps, ps2, q) /\ Kid(ps2, q) = Kid(ps, q)

OneDiffers(ps, ps2, p) ==
    /\ ps2 = [q \in DOMAIN ps |-> ps2[q]] /\ ps2[p] \in Promises
    /\ \A q \in DOMAIN ps : q # p => ps2[q] = ps[q]

LEMMA OneIsOther ==
    ASSUME NEW ps, ps \in Seq(Promises), NEW p \in DOMAIN ps, NEW ps2, OneDiffers(ps, ps2, p)
    PROVE  /\ ps2 \in Seq(Promises) /\ DOMAIN ps2 = DOMAIN ps
           /\ \A q \in DOMAIN ps : q # p => Same(ps, ps2, q)
<1>1. Len(ps) \in Nat /\ DOMAIN ps = 1..Len(ps) /\ DOMAIN ps2 = DOMAIN ps
  BY PromiseTypes DEF OneDiffers
<1>2. \A q \in 1..Len(ps) : ps2[q] \in Promises
  BY <1>1, PromiseTypes DEF OneDiffers
<1>3. ps2 \in [1..Len(ps) -> Promises]
  BY <1>1, <1>2 DEF OneDiffers
<1>4. ps2 \in Seq(Promises)
  BY <1>1, <1>3, SeqDef
<1>5. \A q \in DOMAIN ps : q # p => Same(ps, ps2, q)
  BY DEF OneDiffers, Same, Untouched, Ctx, Idx, Par, Kid, Up, Prev, Stage, Cont, Own, Ran, Linked
<1> QED BY <1>1, <1>4, <1>5

LEMMA OneIsNew ==
    ASSUME NEW ps, ps \in Seq(Promises), NEW r \in Promises, NEW ps2, ps2 = Append(ps, r)
    PROVE  /\ ps2 \in Seq(Promises) /\ OneMore(ps, ps2, Len(ps) + 1) /\ ps2[Len(ps) + 1] = r
           /\ \A q \in DOMAIN ps : ps2[q] = ps[q]
           /\ \A q \in DOMAIN ps : Same(ps, ps2, q)
<1>1. Len(ps) \in Nat /\ DOMAIN ps = 1..Len(ps)
  BY PromiseTypes
<1>2. /\ ps2 \in Seq(Promises) /\ Len(ps2) = Len(ps) + 1
      /\ \A q \in 1..Len(ps) : ps2[q] = ps[q]
      /\ ps2[Len(ps) + 1] = r
  BY <1>1, AppendProperties
<1>3. DOMAIN ps2 = 1..(Len(ps) + 1)
  BY <1>2, PromiseTypes
<1>4. OneMore(ps, ps2, Len(ps) + 1)
  BY <1>1, <1>3 DEF OneMore
<1>5. \A q \in DOMAIN ps : ps2[q] = ps[q]
  BY <1>1, <1>2
<1>6. \A q \in DOMAIN ps : Same(ps, ps2, q)
  BY <1>5 DEF Same, Untouched, Ctx, Idx, Par, Kid, Up, Prev, Stage, Cont, Own, Ran, Linked
<1> QED BY <1>2, <1>4, <1>5, <1>6

LEMMA OneTableIsOther ==
    ASSUME NEW ts, ts \in Seq(Seq(SegmentOrNone)), NEW c \in 1..Len(ts), NEW t \in Seq(SegmentOrNone),
           NEW ts2, ts2 = [ts EXCEPT ![c] = t]
    PROVE  /\ ts2 \in Seq(Seq(SegmentOrNone)) /\ Len(ts2) = Len(ts) /\ ts2[c] = t
           /\ \A d \in 1..Len(ts) : d # c => ts2[d] = ts[d]
<1>1. ts2 \in Seq(Seq(SegmentOrNone)) /\ Len(ts2) = Len(ts)
  BY ExceptSeq
<1>2. \A d \in 1..Len(ts) : ts2[d] = IF d = c THEN t ELSE ts[d]
  BY ExceptSeq
<1> QED BY <1>1, <1>2

LEMMA OnePlaceIsOther ==
    ASSUME NEW ts, ts \in Seq(Seq(SegmentOrNone)), NEW c \in 1..Len(ts), NEW i \in 1..Size(ts, c),
           NEW v \in SegmentOrNone, NEW ts2, ts2 = [ts EXCEPT ![c][i] = v]
    PROVE  ts2 \in Seq(Seq(SegmentOrNone)) /\ PutAt(ts, ts2, c, i, v)
<1>1. ts[c] \in Seq(SegmentOrNone)
  BY ElementOfSeq
<1>2. PICK t : t = [ts[c] EXCEPT ![i] = v]
  OBVIOUS
<1>3. t \in Seq(SegmentOrNone) /\ Len(t) = Len(ts[c])
  BY <1>1, <1>2, ExceptSeq DEF Size
<1>4. \A j \in 1..Len(ts[c]) : t[j] = IF j = i THEN v ELSE ts[c][j]
  BY <1>1, <1>2, ExceptSeq DEF Size
<1>5. DOMAIN ts = 1..Len(ts) /\ Len(ts) \in Nat /\ DOMAIN ts2 = DOMAIN ts
  BY LenProperties
<1>6. /\ ts2 \in Seq(Seq(SegmentOrNone)) /\ Len(ts2) = Len(ts) /\ ts2[c] = t
      /\ \A d \in 1..Len(ts) : d # c => ts2[d] = ts[d]
  <2>1. ts2[c] = t /\ \A d \in DOMAIN ts : d # c => ts2[d] = ts[d]
    BY <1>2, <1>5, SMT
  <2>2. \A d \in 1..Len(ts) : ts2[d] \in Seq(SegmentOrNone)
    BY <1>3, <1>5, <2>1, ElementOfSeq
  <2>3. ts2 = [d \in 1..Len(ts) |-> ts2[d]]
    BY <1>5
  <2>4. ts2 \in [1..Len(ts) -> Seq(SegmentOrNone)]
    BY <2>2, <2>3
  <2>5. ts2 \in Seq(Seq(SegmentOrNone))
    BY <2>4, <1>5, SeqDef
  <2>6. Len(ts2) = Len(ts)
    BY <2>5, <1>5, LenProperties
  <2> QED BY <1>5, <2>1, <2>5, <2>6
<1>7. \A d \in 1..Len(ts) : Size(ts2, d) = Size(ts, d)
  BY <1>3, <1>6 DEF Size
<1>8. \A d \in 1..Len(ts) : \A j \in 1..Size(ts, d) : (d = c /\ j = i) \/ Tab(ts2, d, j) = Tab(ts, d, j)
  BY <1>4, <1>6 DEF Size, Tab
<1>9. Tab(ts2, c, i) = v
  BY <1>4, <1>6 DEF Size, Tab
<1> QED BY <1>6, <1>7, <1>8, <1>9 DEF PutAt

\* The records the actions make.
LEMMA FreshIsPromise ==
    ASSUME NEW q \in Nat
    PROVE  /\ Fresh(q) \in Promises
           /\ Fresh(q).linked = FALSE /\ Fresh(q).link = Unlinked /\ Fresh(q).prev = q /\ Fresh(q).up = 0
           /\ Fresh(q).status = "pending" /\ Fresh(q).cont = NoSegment /\ Fresh(q).own = NoSegment
           /\ Fresh(q).ran = NoSegment
<1>1. Unlinked \in Links
  BY DEF Unlinked, Links
<1>2. NoSegment \in SegmentOrNone
  BY DEF SegmentOrNone
<1> QED BY <1>1, <1>2 DEF Fresh, Promises

\* What is so of each promise.
LEMMA OneOfThem ==
    ASSUME NEW ps, NEW ts, ChainsGood(ps, ts), NEW p \in DOMAIN ps
    PROVE  /\ ps[p] \in Promises /\ p \in Nat /\ p # 0
           /\ Linked(ps, p) => Ctx(ps, p) # 0
           /\ Ctx(ps, p) # 0 => /\ Ctx(ps, p) \in 1..Len(ts) /\ Idx(ps, p) \in 1..Size(ts, Ctx(ps, p)) /\ Idx(ps, p) # 0
                                /\ Tab(ts, Ctx(ps, p), 1) # NoSegment
           /\ Ctx(ps, p) = 0 => Up(ps, p) = 0 /\ Own(ps, p) = NoSegment /\ Ran(ps, p) = NoSegment
           /\ Up(ps, p) = 0 /\ Ctx(ps, p) # 0 => Idx(ps, p) = 1 /\ Par(ps, p) = 0 /\ Own(ps, p) # NoSegment
           /\ Up(ps, p) # 0 => Up(ps, p) = Prev(ps, p) /\ Par(ps, p) # 0 /\ Ctx(ps, p) # 0
           /\ Stage(ps, p) = "waiting" => Cont(ps, p) # NoSegment /\ Ctx(ps, p) # 0
           /\ Stage(ps, p) # "pending" /\ Prev(ps, p) # 0 => Stage(ps, Prev(ps, p)) = "done"
           /\ Own(ps, p) # NoSegment /\ Up(ps, p) # 0 => Stage(ps, p) = "done"
<1>1. ps[p] \in Promises /\ p \in Nat /\ p # 0
  BY PromiseTypes DEF ChainsGood
<1>2. /\ Ctx(ps, p) # 0 => /\ Ctx(ps, p) \in 1..Len(ts) /\ Idx(ps, p) \in 1..Size(ts, Ctx(ps, p))
                           /\ Tab(ts, Ctx(ps, p), 1) # NoSegment
      /\ Ctx(ps, p) # 0 => Idx(ps, p) # 0
  BY InsideTables
<1>3. /\ Linked(ps, p) => Ctx(ps, p) # 0
      /\ Ctx(ps, p) = 0 => Up(ps, p) = 0 /\ Own(ps, p) = NoSegment /\ Ran(ps, p) = NoSegment
      /\ Up(ps, p) = 0 /\ Ctx(ps, p) # 0 => Idx(ps, p) = 1 /\ Par(ps, p) = 0 /\ Own(ps, p) # NoSegment
  BY DEF ChainsGood, Placed
<1>4. Up(ps, p) # 0 => Up(ps, p) = Prev(ps, p) /\ Par(ps, p) # 0 /\ Ctx(ps, p) # 0
  BY DEF ChainsGood, Descended
<1>5. /\ Stage(ps, p) = "waiting" => Cont(ps, p) # NoSegment /\ Ctx(ps, p) # 0
      /\ Stage(ps, p) # "pending" /\ Prev(ps, p) # 0 => Stage(ps, Prev(ps, p)) = "done"
      /\ Own(ps, p) # NoSegment /\ Up(ps, p) # 0 => Stage(ps, p) = "done"
  BY DEF ChainsGood, InTurn
<1> QED BY <1>1, <1>2, <1>3, <1>4, <1>5

\* A promise gets further: only what it is run with changes.
Further(ps, ps2, p) ==
    /\ OneDiffers(ps, ps2, p) /\ ps2[p].linked = ps[p].linked /\ ps2[p].link = ps[p].link
    /\ ps2[p].prev = ps[p].prev /\ ps2[p].up = ps[p].up
LEMMA FurtherPlaces ==
    ASSUME NEW ps, ps \in Seq(Promises), NEW p \in DOMAIN ps, NEW ps2, Further(ps, ps2, p)
    PROVE  /\ ps2 \in Seq(Promises) /\ SamePlaces(ps, ps2)
           /\ \A q \in DOMAIN ps : Linked(ps2, q) <=> Linked(ps, q)
           /\ \A q \in DOMAIN ps : q # p => /\ Stage(ps2, q) = Stage(ps, q) /\ Cont(ps2, q) = Cont(ps, q)
                                            /\ Own(ps2, q) = Own(ps, q) /\ Ran(ps2, q) = Ran(ps, q)
<1>1. /\ ps2 \in Seq(Promises) /\ DOMAIN ps2 = DOMAIN ps
      /\ \A q \in DOMAIN ps : q # p => Same(ps, ps2, q)
  BY OneIsOther DEF Further
<1>2. /\ Ctx(ps2, p) = Ctx(ps, p) /\ Idx(ps2, p) = Idx(ps, p) /\ Par(ps2, p) = Par(ps, p)
      /\ Kid(ps2, p) = Kid(ps, p) /\ Up(ps2, p) = Up(ps, p) /\ Prev(ps2, p) = Prev(ps, p)
      /\ Linked(ps2, p) <=> Linked(ps, p)
  BY DEF Further, Ctx, Idx, Par, Kid, Up, Prev, Linked
<1>3. SamePlaces(ps, ps2)
  BY <1>1, <1>2 DEF SamePlaces, Same, Untouched
<1>4. \A q \in DOMAIN ps : Linked(ps2, q) <=> Linked(ps, q)
  BY <1>1, <1>2 DEF Same, Untouched
<1> QED BY <1>1, <1>3, <1>4 DEF Same, Untouched

LEMMA SettleKeeps ==
    ASSUME PromInv, NEW p \in Chain, Settle(p)
    PROVE  PromInv'
<1>1. PICK ps : ps = promises
  OBVIOUS
<1>2. PICK ps2 : ps2 = promises'
  OBVIOUS
<1>3. p \in DOMAIN ps /\ Good(ps, tables, crossed) /\ ChainsGood(ps, tables) /\ ps \in Seq(Promises)
  BY <1>1 DEF PromInv, Good, ChainsGood, Chain
<1>4. ps[p] \in Promises
  BY <1>3, OneOfThem
<1>5. ps2 = [ps EXCEPT ![p].status = "done"] /\ ps[p].prev = 0 /\ ps[p].status = "pending"
  BY <1>1, <1>2 DEF Settle
<1>6. /\ ps2 = [q \in DOMAIN ps |-> ps2[q]] /\ \A q \in DOMAIN ps : q # p => ps2[q] = ps[q]
      /\ ps2[p] = [ps[p] EXCEPT !.status = "done"]
  BY <1>3, <1>5
<1>7. /\ ps2[p] \in Promises /\ ps2[p].linked = ps[p].linked /\ ps2[p].link = ps[p].link
      /\ ps2[p].prev = ps[p].prev /\ ps2[p].up = ps[p].up /\ ps2[p].status = "done"
      /\ ps2[p].cont = ps[p].cont /\ ps2[p].own = ps[p].own /\ ps2[p].ran = ps[p].ran
  BY <1>4, <1>6 DEF Promises
<1>8. Further(ps, ps2, p)
  BY <1>6, <1>7 DEF Further, OneDiffers
<1>9. /\ Stage(ps2, p) = "done" /\ Own(ps2, p) = Own(ps, p) /\ Ran(ps2, p) = Ran(ps, p)
      /\ Prev(ps, p) = 0 /\ Stage(ps, p) = "pending"
  BY <1>5, <1>7 DEF Stage, Own, Ran, Prev
<1>10. Up(ps, p) = 0
  BY <1>3, <1>9, OneOfThem
<1>11. ps2 \in Seq(Promises) /\ OneGoes(ps, ps2, p)
  <2>1. /\ Ctx(ps, p) = 0 => Own(ps, p) = NoSegment /\ Ran(ps, p) = NoSegment
        /\ Up(ps, p) = 0 /\ Ctx(ps, p) # 0 => Own(ps, p) # NoSegment
    BY <1>3, OneOfThem
  <2>2. /\ ps2 \in Seq(Promises) /\ SamePlaces(ps, ps2)
        /\ \A q \in DOMAIN ps : Linked(ps2, q) <=> Linked(ps, q)
        /\ \A q \in DOMAIN ps : q # p => /\ Stage(ps2, q) = Stage(ps, q) /\ Cont(ps2, q) = Cont(ps, q)
                                         /\ Own(ps2, q) = Own(ps, q) /\ Ran(ps2, q) = Ran(ps, q)
    BY <1>3, <1>8, FurtherPlaces
  <2> QED BY <2>1, <2>2, <1>3, <1>9, <1>10 DEF OneGoes
<1>12. RootGoes(ps, tables, ps2, tables, p)
  BY <1>9, <1>10, <1>11 DEF RootGoes
<1>13. tables \in Seq(Seq(SegmentOrNone))
  BY <1>3 DEF ChainsGood
<1>14. Good(ps2, tables, crossed)
  BY <1>3, <1>11, <1>12, <1>13, RootGoesKeeps
<1> QED BY <1>2, <1>14 DEF PromInv, Settle

\* The handler of a promise, whether it is linked or not.
LEMMA HandlerKeeps ==
    ASSUME PromInv, NEW p \in Chain, NEW returned \in SegmentOrNone, Handler(p, returned)
    PROVE  PromInv'
<1>1. PICK ps : ps = promises
  OBVIOUS
<1>2. PICK ps2 : ps2 = promises'
  OBVIOUS
<1>3. PICK ts : ts = tables
  OBVIOUS
<1>4. PICK ts2 : ts2 = tables'
  OBVIOUS
<1>5. /\ p \in DOMAIN ps /\ Good(ps, ts, crossed) /\ ChainsGood(ps, ts) /\ ps \in Seq(Promises)
      /\ ts \in Seq(Seq(SegmentOrNone)) /\ Filled(ts)
  BY <1>1, <1>3 DEF PromInv, Good, ChainsGood, Chain
<1>6. /\ ps[p] \in Promises
      /\ Linked(ps, p) => Ctx(ps, p) # 0
      /\ Ctx(ps, p) # 0 => /\ Ctx(ps, p) \in 1..Len(ts) /\ Idx(ps, p) \in 1..Size(ts, Ctx(ps, p)) /\ Idx(ps, p) # 0
                           /\ Tab(ts, Ctx(ps, p), 1) # NoSegment
      /\ Ctx(ps, p) = 0 => Up(ps, p) = 0 /\ Own(ps, p) = NoSegment /\ Ran(ps, p) = NoSegment
      /\ Up(ps, p) = 0 /\ Ctx(ps, p) # 0 => Idx(ps, p) = 1 /\ Par(ps, p) = 0 /\ Own(ps, p) # NoSegment
      /\ Up(ps, p) # 0 => Up(ps, p) = Prev(ps, p) /\ Par(ps, p) # 0 /\ Ctx(ps, p) # 0
      /\ Own(ps, p) # NoSegment /\ Up(ps, p) # 0 => Stage(ps, p) = "done"
  BY <1>5, OneOfThem
<1>7. PICK segment : segment = IF Linked(ps, p) THEN SegmentAt(ts, ps[p].link) ELSE NoSegment
  OBVIOUS
<1>8. PICK stage : stage = IF returned = NoSegment THEN "done" ELSE "waiting"
  OBVIOUS
<1>9. ps[p].linked \in BOOLEAN
  BY <1>6 DEF Promises
<1>10. /\ ps[p].status = "pending" /\ ps[p].prev # 0 /\ ps[ps[p].prev].status = "done"
       /\ ~Linked(ps, p) => returned = NoSegment
       /\ ts2 = IF Linked(ps, p) THEN Kept(ts, ps[p].link) ELSE ts
       /\ ps2 = [ps EXCEPT ![p].ran = segment, ![p].cont = returned, ![p].status = stage]
       /\ crossed' = crossed
  BY <1>1, <1>2, <1>3, <1>4, <1>7, <1>8, <1>9, Zenon DEF Handler, HasItsTurn, Linked
<1>11. segment \in SegmentOrNone
  <2>1. CASE ~Linked(ps, p)
    BY <2>1, <1>7 DEF SegmentOrNone
  <2>2. CASE Linked(ps, p)
    <3>1. /\ Ctx(ps, p) \in 1..Len(ts) /\ Idx(ps, p) \in 1..Size(ts, Ctx(ps, p)) /\ 1 \in 1..Size(ts, Ctx(ps, p))
          /\ Par(ps, p) # 0 => Par(ps, p) \in 1..Size(ts, Ctx(ps, p))
      BY <2>2, <1>5, <1>6, InsideTables
    <3>2. PICK t : t = ts[Ctx(ps, p)]
      OBVIOUS
    <3>3. t \in Seq(SegmentOrNone)
      BY <1>5, <3>1, <3>2, ElementOfSeq
    <3>4. /\ t[Idx(ps, p)] \in SegmentOrNone /\ t[1] \in SegmentOrNone
          /\ Par(ps, p) # 0 => t[Par(ps, p)] \in SegmentOrNone
      BY <3>1, <3>2, <3>3, ElementOfSeq DEF Size
    <3>5. SegmentAt(ts, ps[p].link) = OrElse(At(t, Idx(ps, p)), OrElse(At(t, Par(ps, p)), t[1]))
      BY <3>2 DEF SegmentAt, Ctx, Idx, Par
    <3>6. At(t, Idx(ps, p)) \in SegmentOrNone /\ At(t, Par(ps, p)) \in SegmentOrNone
      BY <3>4 DEF At, SegmentOrNone
    <3> QED BY <2>2, <1>7, <3>4, <3>5, <3>6 DEF OrElse
  <2> QED BY <2>1, <2>2
<1>12. /\ ps2 = [q \in DOMAIN ps |-> ps2[q]] /\ \A q \in DOMAIN ps : q # p => ps2[q] = ps[q]
       /\ ps2[p] = [ps[p] EXCEPT !.ran = segment, !.cont = returned, !.status = stage]
  BY <1>5, <1>10
<1>13. /\ ps2[p] \in Promises /\ ps2[p].linked = ps[p].linked /\ ps2[p].link = ps[p].link
       /\ ps2[p].prev = ps[p].prev /\ ps2[p].up = ps[p].up /\ ps2[p].status = stage
       /\ ps2[p].cont = returned /\ ps2[p].own = ps[p].own /\ ps2[p].ran = segment
  BY <1>6, <1>8, <1>11, <1>12 DEF Promises
<1>14. Further(ps, ps2, p)
  BY <1>12, <1>13 DEF Further, OneDiffers
<1>15. /\ Stage(ps2, p) = stage /\ Own(ps2, p) = Own(ps, p) /\ Ran(ps2, p) = segment /\ Cont(ps2, p) = returned
       /\ Prev(ps, p) # 0 /\ Stage(ps, Prev(ps, p)) = "done" /\ Stage(ps, p) = "pending"
  BY <1>10, <1>13 DEF Stage, Own, Ran, Prev, Cont
<1>16. ps2 \in Seq(Promises) /\ OneGoes(ps, ps2, p)
  <2>1. /\ ps2 \in Seq(Promises) /\ SamePlaces(ps, ps2)
        /\ \A q \in DOMAIN ps : Linked(ps2, q) <=> Linked(ps, q)
        /\ \A q \in DOMAIN ps : q # p => /\ Stage(ps2, q) = Stage(ps, q) /\ Cont(ps2, q) = Cont(ps, q)
                                         /\ Own(ps2, q) = Own(ps, q) /\ Ran(ps2, q) = Ran(ps, q)
    BY <1>5, <1>14, FurtherPlaces
  <2>2. Stage(ps2, p) = "waiting" => Cont(ps2, p) # NoSegment /\ Ctx(ps, p) # 0
    BY <1>6, <1>8, <1>10, <1>15
  <2>3. Ctx(ps, p) = 0 => Own(ps2, p) = NoSegment /\ Ran(ps2, p) = NoSegment
    BY <1>6, <1>7, <1>15
  <2>4. Stage(ps2, p) \in {"waiting", "done"}
    BY <1>8, <1>15
  <2> QED BY <2>1, <2>2, <2>3, <2>4, <1>5, <1>6, <1>15 DEF OneGoes
<1>17. CASE Linked(ps, p)
  <2>1. /\ ts2 = [ts EXCEPT ![Ctx(ps, p)][Idx(ps, p)] = segment]
        /\ segment = SegmentAt(ts, ps[p].link)
    BY <1>7, <1>10, <1>17 DEF Kept, Ctx, Idx
  <2>2. ts2 \in Seq(Seq(SegmentOrNone)) /\ PutAt(ts, ts2, Ctx(ps, p), Idx(ps, p), segment)
    BY <1>5, <1>6, <1>11, <1>17, <2>1, OnePlaceIsOther
  <2>3. segment # NoSegment
    BY <1>6, <1>17, <2>1, SomethingIsSeen
  <2>4. CASE Up(ps, p) = 0
    <3>1. segment = Tab(ts, Ctx(ps, p), 1)
      BY <2>1, <2>4, <1>6, <1>17, WhatRootSees
    <3>2. /\ Len(ts2) = Len(ts)
          /\ \A d \in 1..Len(ts) : Size(ts2, d) = Size(ts, d) /\ \A i \in 1..Size(ts, d) : Tab(ts2, d, i) = Tab(ts, d, i)
      BY <2>2, <2>4, <3>1, <1>6, <1>17 DEF PutAt
    <3>3. RootGoes(ps, ts, ps2, ts2, p)
      BY <3>2, <2>4, <1>15, <1>16 DEF RootGoes
    <3>4. Good(ps2, ts2, crossed)
      BY <3>3, <2>2, <1>5, <1>16, RootGoesKeeps
    <3> QED BY <3>4, <1>2, <1>4, <1>10 DEF PromInv
  <2>5. CASE Up(ps, p) # 0
    <3>1. segment = Sees(ps, ts, p)
      BY <2>1, <2>5, <1>6, <1>17, WhatIsSeen
    <3>2. Fills(ps, ts, ps2, ts2, p, segment)
      BY <3>1, <2>2, <2>3, <2>5, <1>15, <1>16 DEF Fills
    <3>3. Good(ps2, ts2, crossed)
      BY <3>2, <2>2, <1>5, <1>16, FillsKeep
    <3> QED BY <3>3, <1>2, <1>4, <1>10 DEF PromInv
  <2> QED BY <2>4, <2>5
<1>18. CASE ~Linked(ps, p)
  <2>1. ts2 = ts /\ segment = NoSegment
    BY <1>7, <1>10, <1>18
  <2>2. CASE Up(ps, p) = 0
    <3>1. RootGoes(ps, ts, ps2, ts2, p)
      BY <2>1, <2>2, <1>15, <1>16 DEF RootGoes
    <3>2. Good(ps2, ts2, crossed)
      BY <3>1, <2>1, <1>5, <1>16, RootGoesKeeps
    <3> QED BY <3>2, <1>2, <1>4, <1>10 DEF PromInv
  <2>3. CASE Up(ps, p) # 0
    <3>1. Passes(ps, ps2, crossed, p)
      BY <2>1, <2>3, <1>15, <1>16, <1>18 DEF Passes
    <3>2. Good(ps2, ts, crossed)
      BY <3>1, <1>5, <1>16, PassesKeep
    <3> QED BY <3>2, <2>1, <1>2, <1>4, <1>10 DEF PromInv
  <2> QED BY <2>2, <2>3
<1> QED BY <1>17, <1>18

\* A promise that is passed over: its place is filled already, or its context is from now on
\* one the algorithm does not account for.
LEMMA SkipKeeps ==
    ASSUME PromInv, NEW p \in Chain, Skip(p)
    PROVE  PromInv'
<1>1. PICK ps : ps = promises
  OBVIOUS
<1>2. PICK ps2 : ps2 = promises'
  OBVIOUS
<1>3. PICK ts : ts = tables
  OBVIOUS
<1>4. PICK cr : cr = crossed'
  OBVIOUS
<1>5. /\ p \in DOMAIN ps /\ Good(ps, ts, crossed) /\ ChainsGood(ps, ts) /\ ps \in Seq(Promises)
      /\ ts \in Seq(Seq(SegmentOrNone)) /\ Filled(ts)
  BY <1>1, <1>3 DEF PromInv, Good, ChainsGood, Chain
<1>6. /\ ps[p] \in Promises
      /\ Linked(ps, p) => Ctx(ps, p) # 0
      /\ Ctx(ps, p) # 0 => Ctx(ps, p) \in 1..Len(ts) /\ Idx(ps, p) \in 1..Size(ts, Ctx(ps, p)) /\ Idx(ps, p) # 0
      /\ Ctx(ps, p) = 0 => Up(ps, p) = 0 /\ Own(ps, p) = NoSegment /\ Ran(ps, p) = NoSegment
      /\ Up(ps, p) = 0 /\ Ctx(ps, p) # 0 => Idx(ps, p) = 1 /\ Par(ps, p) = 0 /\ Own(ps, p) # NoSegment
      /\ Up(ps, p) # 0 => Up(ps, p) = Prev(ps, p) /\ Par(ps, p) # 0 /\ Ctx(ps, p) # 0
      /\ Own(ps, p) # NoSegment /\ Up(ps, p) # 0 => Stage(ps, p) = "done"
  BY <1>5, OneOfThem
<1>7. PICK empty \in BOOLEAN : empty <=> Linked(ps, p) /\ Tab(ts, Ctx(ps, p), Idx(ps, p)) = NoSegment
  OBVIOUS
<1>8. SkipsAPlace(p) <=> empty
  <2>1. ps[p].linked \in BOOLEAN
    BY <1>6 DEF Promises
  <2> QED BY <1>1, <1>3, <1>7, <2>1 DEF SkipsAPlace, Linked, Tab, Ctx, Idx
<1>9. /\ ps[p].status = "pending" /\ ps[p].prev # 0 /\ ps[ps[p].prev].status = "done"
      /\ ps2 = [ps EXCEPT ![p].status = "done"] /\ tables' = ts
      /\ cr = IF empty THEN crossed \cup {Ctx(ps, p)} ELSE crossed
  BY <1>1, <1>2, <1>3, <1>4, <1>8 DEF Skip, HasItsTurn, Ctx
<1>10. /\ ps2 = [q \in DOMAIN ps |-> ps2[q]] /\ \A q \in DOMAIN ps : q # p => ps2[q] = ps[q]
       /\ ps2[p] = [ps[p] EXCEPT !.status = "done"]
  BY <1>5, <1>9
<1>11. /\ ps2[p] \in Promises /\ ps2[p].linked = ps[p].linked /\ ps2[p].link = ps[p].link
       /\ ps2[p].prev = ps[p].prev /\ ps2[p].up = ps[p].up /\ ps2[p].status = "done"
       /\ ps2[p].own = ps[p].own /\ ps2[p].ran = ps[p].ran
  BY <1>6, <1>10 DEF Promises
<1>12. Further(ps, ps2, p)
  BY <1>10, <1>11 DEF Further, OneDiffers
<1>13. /\ Stage(ps2, p) = "done" /\ Own(ps2, p) = Own(ps, p) /\ Ran(ps2, p) = Ran(ps, p)
       /\ Prev(ps, p) # 0 /\ Stage(ps, Prev(ps, p)) = "done" /\ Stage(ps, p) = "pending"
  BY <1>9, <1>11 DEF Stage, Own, Ran, Prev
<1>14. Ran(ps, p) = NoSegment
  BY <1>5, <1>13 DEF ChainsGood, InTurn
<1>15. ps2 \in Seq(Promises) /\ OneGoes(ps, ps2, p)
  <2>1. /\ ps2 \in Seq(Promises) /\ SamePlaces(ps, ps2)
        /\ \A q \in DOMAIN ps : Linked(ps2, q) <=> Linked(ps, q)
        /\ \A q \in DOMAIN ps : q # p => /\ Stage(ps2, q) = Stage(ps, q) /\ Cont(ps2, q) = Cont(ps, q)
                                         /\ Own(ps2, q) = Own(ps, q) /\ Ran(ps2, q) = Ran(ps, q)
    BY <1>5, <1>12, FurtherPlaces
  <2> QED BY <2>1, <1>5, <1>6, <1>13, <1>14 DEF OneGoes
<1>16. Good(ps, ts, cr)
  <2>1. crossed \subseteq cr
    BY <1>9
  <2> QED BY <2>1, <1>5, FewerArePlain
<1>17. CASE Up(ps, p) = 0
  <2>1. RootGoes(ps, ts, ps2, ts, p)
    BY <1>13, <1>15, <1>17 DEF RootGoes
  <2>2. Good(ps2, ts, cr)
    BY <2>1, <1>5, <1>15, <1>16, RootGoesKeeps
  <2> QED BY <2>2, <1>2, <1>4, <1>9 DEF PromInv
<1>18. CASE Up(ps, p) # 0 /\ (~Linked(ps, p) \/ empty)
  <2>1. Plain(ps, cr, p) => ~Linked(ps, p)
    BY <1>9, <1>18 DEF Plain
  <2>2. Passes(ps, ps2, cr, p)
    BY <2>1, <1>13, <1>14, <1>15, <1>18 DEF Passes
  <2>3. Good(ps2, ts, cr)
    BY <2>2, <1>15, <1>16, PassesKeep
  <2> QED BY <2>3, <1>2, <1>4, <1>9 DEF PromInv
<1>19. CASE Up(ps, p) # 0 /\ Linked(ps, p) /\ ~empty
  <2>1. PICK v : v = Tab(ts, Ctx(ps, p), Idx(ps, p))
    OBVIOUS
  <2>2. v # NoSegment /\ v = Sees(ps, ts, p)
    BY <2>1, <1>7, <1>19 DEF Sees, OrElse
  <2>3. PutAt(ts, ts, Ctx(ps, p), Idx(ps, p), v)
    BY <2>1, <1>6, <1>19 DEF PutAt
  <2>4. Fills(ps, ts, ps2, ts, p, v)
    BY <2>2, <2>3, <1>13, <1>14, <1>15, <1>19 DEF Fills
  <2>5. Good(ps2, ts, cr)
    BY <2>4, <1>5, <1>15, <1>16, FillsKeep
  <2> QED BY <2>5, <1>2, <1>4, <1>9 DEF PromInv
<1> QED BY <1>17, <1>18, <1>19

LEMMA ContinueKeeps ==
    ASSUME PromInv, NEW p \in Chain, ContinueContext(p)
    PROVE  PromInv'
<1>1. PICK ps : ps = promises
  OBVIOUS
<1>2. PICK ps2 : ps2 = promises'
  OBVIOUS
<1>3. PICK ts : ts = tables
  OBVIOUS
<1>4. PICK ts2 : ts2 = tables'
  OBVIOUS
<1>5. /\ p \in DOMAIN ps /\ Good(ps, ts, crossed) /\ ChainsGood(ps, ts) /\ ps \in Seq(Promises)
      /\ ts \in Seq(Seq(SegmentOrNone))
  BY <1>1, <1>3 DEF PromInv, Good, ChainsGood, Chain
<1>6. PICK cont : cont = ps[p].cont
  OBVIOUS
<1>7. /\ ps[p].status = "waiting" /\ crossed' = crossed
      /\ ps2 = [ps EXCEPT ![p].status = "done", ![p].own = cont, ![p].cont = NoSegment]
      /\ ts2 = [ts EXCEPT ![Ctx(ps, p)][Idx(ps, p)] = cont]
  BY <1>1, <1>2, <1>3, <1>4, <1>6, Zenon DEF ContinueContext, Ctx, Idx
<1>8. Stage(ps, p) = "waiting" /\ cont = Cont(ps, p)
  BY <1>6, <1>7 DEF Stage, Cont
<1>9. /\ ps[p] \in Promises
      /\ Ctx(ps, p) # 0 /\ cont # NoSegment
      /\ Ctx(ps, p) \in 1..Len(ts) /\ Idx(ps, p) \in 1..Size(ts, Ctx(ps, p))
      /\ Up(ps, p) = 0 => Idx(ps, p) = 1
      /\ Prev(ps, p) # 0 => Stage(ps, Prev(ps, p)) = "done"
  BY <1>5, <1>8, OneOfThem
<1>10. cont \in SegmentOrNone /\ NoSegment \in SegmentOrNone
  BY <1>6, <1>9 DEF Promises, SegmentOrNone
<1>11. /\ ps2 = [q \in DOMAIN ps |-> ps2[q]] /\ \A q \in DOMAIN ps : q # p => ps2[q] = ps[q]
       /\ ps2[p] = [ps[p] EXCEPT !.status = "done", !.own = cont, !.cont = NoSegment]
  BY <1>5, <1>7
<1>12. /\ ps2[p] \in Promises /\ ps2[p].linked = ps[p].linked /\ ps2[p].link = ps[p].link
       /\ ps2[p].prev = ps[p].prev /\ ps2[p].up = ps[p].up /\ ps2[p].status = "done"
       /\ ps2[p].own = cont /\ ps2[p].ran = ps[p].ran
  BY <1>9, <1>10, <1>11 DEF Promises
<1>13. Further(ps, ps2, p)
  BY <1>11, <1>12 DEF Further, OneDiffers
<1>14. Stage(ps2, p) = "done" /\ Own(ps2, p) = cont /\ Ran(ps2, p) = Ran(ps, p)
  BY <1>12 DEF Stage, Own, Ran
<1>15. ps2 \in Seq(Promises) /\ OneGoes(ps, ps2, p)
  <2>1. /\ ps2 \in Seq(Promises) /\ SamePlaces(ps, ps2)
        /\ \A q \in DOMAIN ps : Linked(ps2, q) <=> Linked(ps, q)
        /\ \A q \in DOMAIN ps : q # p => /\ Stage(ps2, q) = Stage(ps, q) /\ Cont(ps2, q) = Cont(ps, q)
                                         /\ Own(ps2, q) = Own(ps, q) /\ Ran(ps2, q) = Ran(ps, q)
    BY <1>5, <1>13, FurtherPlaces
  <2> QED BY <2>1, <1>5, <1>8, <1>9, <1>14 DEF OneGoes
<1>16. ts2 \in Seq(Seq(SegmentOrNone)) /\ PutAt(ts, ts2, Ctx(ps, p), Idx(ps, p), cont)
  BY <1>5, <1>7, <1>9, <1>10, OnePlaceIsOther
<1>17. CASE Up(ps, p) = 0
  <2>1. RootGoes(ps, ts, ps2, ts2, p)
    BY <1>9, <1>14, <1>15, <1>16, <1>17 DEF RootGoes
  <2>2. Good(ps2, ts2, crossed)
    BY <2>1, <1>5, <1>15, <1>16, RootGoesKeeps
  <2> QED BY <2>2, <1>2, <1>4, <1>7 DEF PromInv
<1>18. CASE Up(ps, p) # 0
  <2>1. Fills(ps, ts, ps2, ts2, p, cont)
    BY <1>9, <1>14, <1>15, <1>16, <1>18 DEF Fills
  <2>2. Good(ps2, ts2, crossed)
    BY <2>1, <1>5, <1>15, <1>16, FillsKeep
  <2> QED BY <2>2, <1>2, <1>4, <1>7 DEF PromInv
<1> QED BY <1>17, <1>18

\* The root of a chain, or a promise without a segment.
LEMMA RootIsLinked ==
    ASSUME NEW ps, NEW cr, Good(ps, tables, cr), NEW q \in Nat, q = 0 \/ q \in DOMAIN ps,
           NEW segment \in SegmentOrNone, LinkRoot(ps, Fresh(q), segment)
    PROVE  Good(promises', tables', cr)
<1>1. PICK ts : ts = tables
  OBVIOUS
<1>2. PICK ps2 : ps2 = promises'
  OBVIOUS
<1>3. PICK ts2 : ts2 = tables'
  OBVIOUS
<1>4. Good(ps, ts, cr) /\ ps \in Seq(Promises) /\ ts \in Seq(Seq(SegmentOrNone)) /\ Len(ts) \in Nat
  BY <1>1, LenProperties DEF Good, ChainsGood
<1>5. PICK n : n = Len(ps) + 1
  OBVIOUS
<1>6. PICK next : next = Fresh(q)
  OBVIOUS
<1>7. /\ next \in Promises
      /\ next.linked = FALSE /\ next.link = Unlinked /\ next.prev = q /\ next.up = 0
      /\ next.status = "pending" /\ next.own = NoSegment /\ next.ran = NoSegment
  BY <1>6, FreshIsPromise
<1>8. Prev(ps2, n) = q => Prev(ps2, n) = 0 \/ Prev(ps2, n) \in DOMAIN ps
  OBVIOUS
<1>9. CASE segment = NoSegment
  <2>1. ps2 = Append(ps, next) /\ ts2 = ts
    BY <1>1, <1>2, <1>3, <1>6, <1>9 DEF LinkRoot
  <2>2. /\ ps2 \in Seq(Promises) /\ OneMore(ps, ps2, n) /\ ps2[n] = next
        /\ \A p \in DOMAIN ps : Same(ps, ps2, p)
    <3>1. ps \in Seq(Promises) /\ next \in Promises /\ ps2 = Append(ps, next)
      BY <1>4, <1>7, <2>1
    <3>2. /\ ps2 \in Seq(Promises) /\ OneMore(ps, ps2, Len(ps) + 1) /\ ps2[Len(ps) + 1] = next
          /\ \A p \in DOMAIN ps : Same(ps, ps2, p)
      BY ONLY <3>1, OneIsNew, Zenon
    <3> QED BY <3>2, <1>5
  <2>3. /\ Ctx(ps2, n) = 0 /\ Kid(ps2, n) = 0 /\ Up(ps2, n) = 0 /\ Stage(ps2, n) = "pending" /\ Ran(ps2, n) = NoSegment
        /\ Own(ps2, n) = NoSegment /\ ~Linked(ps2, n) /\ Prev(ps2, n) = q
    BY <1>7, <2>2 DEF Unlinked, Ctx, Kid, Up, Stage, Ran, Own, Linked, Prev
  <2>4. SameTables(ts, ts2)
    BY <2>1 DEF SameTables
  <2>5. AtTop(ps, ts, ps2, ts2, n)
    BY <1>4, <1>8, <2>1, <2>2, <2>3, <2>4 DEF AtTop, Same
  <2>6. Good(ps2, ts2, cr)
    BY <1>4, <2>1, <2>2, <2>5, TopKeeps
  <2> QED BY <1>2, <1>3, <2>6
<1>10. CASE segment # NoSegment
  <2>1. PICK c : c = Len(ts) + 1
    OBVIOUS
  <2>2. PICK link : link = [Unlinked EXCEPT !.context = c, !.idx = 1]
    OBVIOUS
  <2>3. PICK r : r = [next EXCEPT !.own = segment, !.linked = TRUE, !.link = link]
    OBVIOUS
  <2>4. ps2 = Append(ps, r) /\ ts2 = Append(ts, <<segment>>)
    BY <1>1, <1>2, <1>3, <1>6, <1>10, <2>1, <2>2, <2>3, Zenon DEF LinkRoot
  <2>5. c \in Nat
    BY <1>4, <2>1
  <2>6. link \in Links /\ link.context = c /\ link.idx = 1 /\ link.parentIdx = 0 /\ link.child = 0
    BY <2>2, <2>5 DEF Unlinked, Links
  <2>7. /\ r \in Promises /\ r.linked = TRUE /\ r.link = link /\ r.prev = q /\ r.up = 0
        /\ r.status = "pending" /\ r.own = segment /\ r.ran = NoSegment
    BY <1>7, <2>3, <2>6 DEF Promises
  <2>8. /\ ps2 \in Seq(Promises) /\ OneMore(ps, ps2, n) /\ ps2[n] = r
        /\ \A p \in DOMAIN ps : Same(ps, ps2, p)
    <3>1. ps \in Seq(Promises) /\ r \in Promises /\ ps2 = Append(ps, r)
      BY <1>4, <2>4, <2>7
    <3>2. /\ ps2 \in Seq(Promises) /\ OneMore(ps, ps2, Len(ps) + 1) /\ ps2[Len(ps) + 1] = r
          /\ \A p \in DOMAIN ps : Same(ps, ps2, p)
      BY ONLY <3>1, OneIsNew, Zenon
    <3> QED BY <3>2, <1>5
  <2>9. /\ Ctx(ps2, n) = c /\ Idx(ps2, n) = 1 /\ Par(ps2, n) = 0 /\ Kid(ps2, n) = 0 /\ Up(ps2, n) = 0
        /\ Stage(ps2, n) = "pending" /\ Ran(ps2, n) = NoSegment
        /\ Own(ps2, n) = segment /\ Linked(ps2, n) /\ Prev(ps2, n) = q
    BY <2>6, <2>7, <2>8 DEF Ctx, Idx, Par, Kid, Up, Stage, Ran, Own, Linked, Prev
  <2>10. <<segment>> \in Seq(SegmentOrNone) /\ Len(<<segment>>) = 1 /\ <<segment>>[1] = segment
    OBVIOUS
  <2>11. /\ ts2 \in Seq(Seq(SegmentOrNone)) /\ Len(ts2) = Len(ts) + 1
         /\ \A d \in 1..Len(ts) : ts2[d] = ts[d]
         /\ ts2[c] = <<segment>>
    BY <1>4, <2>1, <2>4, <2>10, AppendProperties
  <2>12. SameTables(ts, ts2) /\ Size(ts2, c) = 1 /\ Tab(ts2, c, 1) = segment
    BY <2>10, <2>11 DEF SameTables, Size, Tab
  <2>13. AtTop(ps, ts, ps2, ts2, n)
    <3>1. \A p \in DOMAIN ps : Untouched(ps, ps2, p) /\ Kid(ps2, p) = Kid(ps, p)
      BY <2>8 DEF Same
    <3>2. Prev(ps2, n) = 0 \/ Prev(ps2, n) \in DOMAIN ps
      BY <1>8, <2>9
    <3> QED BY <3>1, <3>2, <1>4, <1>10, <2>1, <2>8, <2>9, <2>11, <2>12 DEF AtTop
  <2>14. Good(ps2, ts2, cr)
    BY <1>4, <2>8, <2>11, <2>13, TopKeeps
  <2> QED BY <1>2, <1>3, <2>14
<1> QED BY <1>9, <1>10

LEMMA MadeKeeps ==
    ASSUME PromInv, NEW segment \in PromSegments, Construct(segment) \/ Cast(segment)
    PROVE  PromInv'
<1>1. Good(promises, tables, crossed)
  BY DEF PromInv
<1>2. crossed' = crossed
  BY DEF Construct, Cast
<1>3. segment \in SegmentOrNone /\ NoSegment \in SegmentOrNone
  BY DEF SegmentOrNone
<1>4. PICK s \in SegmentOrNone : LinkRoot(promises, Fresh(0), s)
  BY <1>3 DEF Construct, Cast
<1>5. Good(promises', tables', crossed)
  BY <1>1, <1>4, RootIsLinked
<1> QED BY <1>2, <1>5 DEF PromInv

\* A promise that drops its link, as the one before another that is not linked to it.
LEMMA ThenUnlinked ==
    ASSUME PromInv, NEW prev \in Chain, NEW segment \in SegmentOrNone, NEW isWrapped \in BOOLEAN,
           Then(prev, segment, isWrapped), isWrapped \/ ~IsActive(prev)
    PROVE  PromInv'
<1>1. Good(promises, tables, crossed) /\ prev \in DOMAIN promises
  BY DEF PromInv, Chain
<1>2. NoSegment \in SegmentOrNone
  BY DEF SegmentOrNone
<1>3. ChainsGood(promises, tables) /\ promises \in Seq(Promises)
  BY <1>1 DEF Good, ChainsGood
<1>4. promises[prev] \in Promises /\ prev \in Nat /\ prev # 0
  BY <1>1, <1>3, OneOfThem
<1>5. CASE isWrapped
  <2>1. crossed' = crossed /\ LinkRoot(promises, Fresh(prev), NoSegment)
    BY <1>5 DEF Then, LinkRoot
  <2>2. Good(promises', tables', crossed)
    BY <1>1, <1>2, <1>4, <2>1, RootIsLinked
  <2> QED BY <2>1, <2>2 DEF PromInv
<1>6. CASE ~isWrapped
  <2>1. PICK ps : ps = [promises EXCEPT ![prev].linked = FALSE]
    OBVIOUS
  <2>2. PICK cr : cr = IF LeavesGap(prev) THEN crossed \cup {promises[prev].link.context} ELSE crossed
    OBVIOUS
  <2>3. crossed' = cr /\ LinkRoot(ps, Fresh(prev), segment)
    BY <1>6, <2>1, <2>2, Zenon DEF Then
  <2>4. /\ ps = [q \in DOMAIN promises |-> ps[q]] /\ \A q \in DOMAIN promises : q # prev => ps[q] = promises[q]
        /\ ps[prev] = [promises[prev] EXCEPT !.linked = FALSE]
    BY <1>1, <2>1
  <2>5. /\ ps[prev] \in Promises /\ ps[prev].linked = FALSE /\ ps[prev].link = promises[prev].link
        /\ ps[prev].prev = promises[prev].prev /\ ps[prev].up = promises[prev].up
        /\ ps[prev].status = promises[prev].status /\ ps[prev].cont = promises[prev].cont
        /\ ps[prev].own = promises[prev].own /\ ps[prev].ran = promises[prev].ran
    BY <1>4, <2>4 DEF Promises
  <2>6. /\ ps \in Seq(Promises) /\ DOMAIN ps = DOMAIN promises
        /\ \A q \in DOMAIN promises : q # prev => Same(promises, ps, q)
    BY <1>1, <1>3, <2>4, <2>5, OneIsOther DEF OneDiffers
  <2>7. /\ Ctx(ps, prev) = Ctx(promises, prev) /\ Idx(ps, prev) = Idx(promises, prev)
        /\ Par(ps, prev) = Par(promises, prev) /\ Kid(ps, prev) = Kid(promises, prev)
        /\ Up(ps, prev) = Up(promises, prev) /\ Prev(ps, prev) = Prev(promises, prev) /\ ~Linked(ps, prev)
    BY <2>5 DEF Ctx, Idx, Par, Kid, Up, Prev, Linked
  <2>8. /\ Stage(ps, prev) = Stage(promises, prev) /\ Cont(ps, prev) = Cont(promises, prev)
        /\ Own(ps, prev) = Own(promises, prev) /\ Ran(ps, prev) = Ran(promises, prev)
    BY <2>5 DEF Stage, Cont, Own, Ran
  <2>9. SamePlaces(promises, ps) /\ SameRuns(promises, ps)
    BY <2>6, <2>7, <2>8 DEF SamePlaces, SameRuns, Same, Untouched
  <2>10. \A q \in DOMAIN promises : q # prev => (Linked(ps, q) <=> Linked(promises, q))
    BY <2>6 DEF Same, Untouched
  <2>11. Linked(promises, prev) /\ Kid(promises, prev) # 0 /\ Stage(promises, prev) = "pending" => Ctx(promises, prev) \in cr
    BY <2>2 DEF LeavesGap, Linked, Kid, Stage, Ctx
  <2>12. Good(promises, tables, cr)
    BY <1>1, <2>2, FewerArePlain
  <2>13. Good(ps, tables, cr)
    BY <1>1, <2>6, <2>7, <2>9, <2>10, <2>11, <2>12, DroppingKeeps
  <2>14. Good(promises', tables', cr)
    BY <1>1, <1>4, <2>3, <2>6, <2>13, RootIsLinked
  <2> QED BY <2>3, <2>14 DEF PromInv
<1> QED BY <1>5, <1>6

\* A promise is linked to one that has no child yet, or has several.
LinkOf(ps, ts, p) ==
    [context |-> Ctx(ps, p), idx |-> IF Kid(ps, p) = Many THEN Size(ts, Ctx(ps, p)) + 1 ELSE Idx(ps, p),
     parentIdx |-> Idx(ps, p), child |-> 0]
Linking(ps, ts, ps2, ts2, p) ==
    /\ p \in DOMAIN ps /\ Linked(ps, p) /\ Kid(ps, p) \in {0, Many}
    /\ ps2 = Append(IF Kid(ps, p) = 0 THEN [ps EXCEPT ![p].link.child = Len(ps) + 1] ELSE ps,
                    [Fresh(p) EXCEPT !.linked = TRUE, !.link = LinkOf(ps, ts, p), !.up = p])
    /\ ts2 \in Seq(Seq(SegmentOrNone)) /\ Len(ts2) = Len(ts)
    /\ ts2[Ctx(ps, p)] = IF Kid(ps, p) = Many THEN Append(ts[Ctx(ps, p)], NoSegment) ELSE ts[Ctx(ps, p)]
    /\ \A d \in 1..Len(ts) : d # Ctx(ps, p) => ts2[d] = ts[d]

MadeOf(r, p, link) == r = [Fresh(p) EXCEPT !.linked = TRUE, !.link = link, !.up = p]
LinkedTo(r, p, link) ==
    /\ r \in Promises /\ r.linked = TRUE /\ r.link = link /\ r.up = p /\ r.prev = p
    /\ r.status = "pending" /\ r.own = NoSegment /\ r.ran = NoSegment
LEMMA LinkedIsPromise ==
    ASSUME NEW p \in Nat, NEW link \in Links, NEW r, MadeOf(r, p, link)
    PROVE  LinkedTo(r, p, link)
<1>1. PICK next : next = Fresh(p)
  OBVIOUS
<1>2. /\ next \in Promises /\ next.prev = p /\ next.status = "pending"
      /\ next.own = NoSegment /\ next.ran = NoSegment
  BY <1>1, FreshIsPromise
<1>3. r = [next EXCEPT !.linked = TRUE, !.link = link, !.up = p]
  BY <1>1 DEF MadeOf
<1> QED BY <1>2, <1>3 DEF Promises, LinkedTo

LinkedIn(ps, ts, ps2, p, n) ==
    /\ ps2 \in Seq(Promises) /\ OneMore(ps, ps2, n)
    /\ \A q \in DOMAIN ps : Untouched(ps, ps2, q) /\ (q # p => Kid(ps2, q) = Kid(ps, q))
    /\ Kid(ps2, p) = IF Kid(ps, p) = 0 THEN n ELSE Many
    /\ LinkedTo(ps2[n], p, LinkOf(ps, ts, p))
LEMMA LinkingPromises ==
    ASSUME NEW ps, NEW ts, ChainsGood(ps, ts), NEW ps2, NEW ts2, NEW p, Linking(ps, ts, ps2, ts2, p)
    PROVE  LinkedIn(ps, ts, ps2, p, Len(ps) + 1)
<1>1. /\ p \in DOMAIN ps /\ ps \in Seq(Promises) /\ ps[p] \in Promises /\ p \in Nat /\ p # 0 /\ Ctx(ps, p) # 0
      /\ Kid(ps, p) \in {0, Many} /\ Len(ps) \in Nat
  BY OneOfThem, PromiseTypes DEF Linking, ChainsGood
<1>2. /\ Idx(ps, p) \in Nat /\ Ctx(ps, p) \in Nat /\ Size(ts, Ctx(ps, p)) \in Nat
  BY <1>1, InsideTables, PromiseTypes
<1>3. PICK r : MadeOf(r, p, LinkOf(ps, ts, p))
  BY DEF MadeOf
<1>4. LinkOf(ps, ts, p) \in Links
  BY <1>2 DEF LinkOf, Links
<1>5. LinkedTo(r, p, LinkOf(ps, ts, p)) /\ r \in Promises
  <2>1. LinkedTo(r, p, LinkOf(ps, ts, p))
    BY <1>1, <1>3, <1>4, LinkedIsPromise
  <2> QED BY <2>1 DEF LinkedTo
<1>6. PICK n : n = Len(ps) + 1
  OBVIOUS
<1>7. PICK ps1 : ps1 = IF Kid(ps, p) = 0 THEN [ps EXCEPT ![p].link.child = n] ELSE ps
  OBVIOUS
<1>8. /\ ps1 \in Seq(Promises) /\ DOMAIN ps1 = DOMAIN ps
      /\ \A q \in DOMAIN ps : Untouched(ps, ps1, q) /\ (q # p => Kid(ps1, q) = Kid(ps, q))
      /\ Kid(ps1, p) = IF Kid(ps, p) = 0 THEN n ELSE Many
  <2>1. CASE Kid(ps, p) = 0
    <3>1. ps1 = [ps EXCEPT ![p].link.child = n]
      BY <1>7, <2>1
    <3>2. /\ ps1 = [q \in DOMAIN ps |-> ps1[q]] /\ \A q \in DOMAIN ps : q # p => ps1[q] = ps[q]
          /\ ps1[p] = [ps[p] EXCEPT !.link.child = n]
      BY <1>1, <3>1
    <3>3. PICK link : link = [ps[p].link EXCEPT !.child = n]
      OBVIOUS
    <3>4. ps[p].link \in Links /\ n \in Nat
      BY <1>1, <1>6 DEF Promises
    <3>5. /\ link \in Links /\ link.context = ps[p].link.context /\ link.idx = ps[p].link.idx
          /\ link.parentIdx = ps[p].link.parentIdx /\ link.child = n
      BY <3>3, <3>4 DEF Links
    <3>6. ps1[p] = [ps[p] EXCEPT !.link = link]
      BY <3>2, <3>3
    <3>7. /\ ps1[p] \in Promises /\ ps1[p].linked = ps[p].linked /\ ps1[p].link = link
          /\ ps1[p].prev = ps[p].prev /\ ps1[p].up = ps[p].up /\ ps1[p].status = ps[p].status
          /\ ps1[p].cont = ps[p].cont /\ ps1[p].own = ps[p].own /\ ps1[p].ran = ps[p].ran
      BY <1>1, <3>5, <3>6 DEF Promises
    <3>8. /\ Ctx(ps1, p) = Ctx(ps, p) /\ Idx(ps1, p) = Idx(ps, p) /\ Par(ps1, p) = Par(ps, p) /\ Kid(ps1, p) = n
      BY <3>5, <3>7 DEF Ctx, Idx, Par, Kid
    <3>9. Untouched(ps, ps1, p)
      BY <3>7, <3>8 DEF Untouched, Up, Prev, Stage, Cont, Own, Ran, Linked
    <3>10. /\ ps1 \in Seq(Promises) /\ DOMAIN ps1 = DOMAIN ps
           /\ \A q \in DOMAIN ps : q # p => Same(ps, ps1, q)
      BY <1>1, <3>2, <3>7, OneIsOther DEF OneDiffers
    <3> QED BY <2>1, <3>8, <3>9, <3>10 DEF Same
  <2>2. CASE Kid(ps, p) = Many
    <3>1. ps1 = ps
      BY <1>7, <2>2 DEF Many
    <3>2. Kid(ps1, p) = IF Kid(ps, p) = 0 THEN n ELSE Many
      BY <2>2, <3>1 DEF Many
    <3> QED BY <1>1, <3>1, <3>2 DEF Untouched
  <2> QED BY <1>1, <2>1, <2>2
<1>9. Len(ps1) = Len(ps)
  BY <1>1, <1>8, PromiseTypes
<1>10. ps2 = Append(ps1, r)
  BY <1>3, <1>6, <1>7 DEF Linking, MadeOf
<1>11. /\ ps2 \in Seq(Promises) /\ OneMore(ps1, ps2, Len(ps1) + 1) /\ ps2[Len(ps1) + 1] = r
       /\ \A q \in DOMAIN ps1 : Same(ps1, ps2, q)
  <2>1. ps1 \in Seq(Promises) /\ r \in Promises /\ ps2 = Append(ps1, r)
    BY <1>5, <1>8, <1>10
  <2> QED BY ONLY <2>1, OneIsNew, Zenon
<1>12. OneMore(ps, ps2, Len(ps) + 1)
  BY <1>8, <1>9, <1>11 DEF OneMore
<1>13. \A q \in DOMAIN ps : Untouched(ps, ps2, q) /\ (q # p => Kid(ps2, q) = Kid(ps, q))
  BY <1>8, <1>11 DEF Same, Untouched
<1>14. Kid(ps2, p) = IF Kid(ps, p) = 0 THEN Len(ps) + 1 ELSE Many
  BY <1>1, <1>6, <1>8, <1>11 DEF Same
<1>15. ps2[Len(ps) + 1] = r
  BY <1>9, <1>11
<1>16. ps2 \in Seq(Promises)
  BY <1>11
<1> QED BY <1>5, <1>12, <1>13, <1>14, <1>15, <1>16 DEF LinkedIn

LEMMA LinkingAppends ==
    ASSUME NEW ps, NEW ts, ChainsGood(ps, ts), NEW ps2, NEW ts2, NEW p, Linking(ps, ts, ps2, ts2, p)
    PROVE  Appends(ps, ts, ps2, ts2, p, Len(ps) + 1)
<1>1. PICK c : c = Ctx(ps, p)
  OBVIOUS
<1>2. PICK n : n = Len(ps) + 1
  OBVIOUS
<1>3. /\ ps2 \in Seq(Promises) /\ OneMore(ps, ps2, n)
      /\ \A q \in DOMAIN ps : Untouched(ps, ps2, q) /\ (q # p => Kid(ps2, q) = Kid(ps, q))
      /\ Kid(ps2, p) = IF Kid(ps, p) = 0 THEN n ELSE Many
      /\ LinkedTo(ps2[n], p, LinkOf(ps, ts, p))
  <2>1. LinkedIn(ps, ts, ps2, p, Len(ps) + 1)
    BY LinkingPromises
  <2> QED BY <1>2, <2>1 DEF LinkedIn
<1>4. /\ p \in DOMAIN ps /\ Linked(ps, p) /\ Kid(ps, p) \in {0, Many} /\ p \in Nat /\ c # 0 /\ c \in 1..Len(ts)
      /\ ts[c] \in Seq(SegmentOrNone) /\ Size(ts, c) \in Nat
  BY <1>1, OneOfThem, InsideTables DEF Linking
<1>5. /\ ps2[n].linked = TRUE /\ ps2[n].link = LinkOf(ps, ts, p) /\ ps2[n].up = p /\ ps2[n].prev = p
      /\ ps2[n].status = "pending" /\ ps2[n].own = NoSegment /\ ps2[n].ran = NoSegment
  BY <1>3 DEF LinkedTo
<1>6. /\ Linked(ps2, n) /\ Up(ps2, n) = p /\ Prev(ps2, n) = p /\ Stage(ps2, n) = "pending"
      /\ Own(ps2, n) = NoSegment /\ Ran(ps2, n) = NoSegment
  BY <1>5 DEF Linked, Up, Prev, Stage, Own, Ran
<1>7. /\ Ctx(ps2, n) = c /\ Par(ps2, n) = Idx(ps, p) /\ Kid(ps2, n) = 0
      /\ Idx(ps2, n) = IF Kid(ps, p) = Many THEN Size(ts, c) + 1 ELSE Idx(ps, p)
  <2>1. /\ LinkOf(ps, ts, p).context = c /\ LinkOf(ps, ts, p).parentIdx = Idx(ps, p) /\ LinkOf(ps, ts, p).child = 0
        /\ LinkOf(ps, ts, p).idx = IF Kid(ps, p) = Many THEN Size(ts, c) + 1 ELSE Idx(ps, p)
    BY <1>1 DEF LinkOf
  <2>2. /\ Ctx(ps2, n) = LinkOf(ps, ts, p).context /\ Par(ps2, n) = LinkOf(ps, ts, p).parentIdx
        /\ Kid(ps2, n) = LinkOf(ps, ts, p).child /\ Idx(ps2, n) = LinkOf(ps, ts, p).idx
    BY <1>5 DEF Ctx, Par, Kid, Idx
  <2> QED BY <2>1, <2>2
<1>8. /\ Len(ts2) = Len(ts) /\ \A d \in 1..Len(ts) : d # c => ts2[d] = ts[d]
      /\ ts2[c] = IF Kid(ps, p) = Many THEN Append(ts[c], NoSegment) ELSE ts[c]
  BY <1>1 DEF Linking
<1>9. /\ Len(Append(ts[c], NoSegment)) = Size(ts, c) + 1
      /\ \A i \in 1..Size(ts, c) : Append(ts[c], NoSegment)[i] = ts[c][i]
      /\ Append(ts[c], NoSegment)[Size(ts, c) + 1] = NoSegment
  <2>1. NoSegment \in SegmentOrNone
    BY DEF SegmentOrNone
  <2> QED BY <1>4, <2>1, AppendProperties DEF Size
<1>10. \A d \in 1..Len(ts) : d # c => Size(ts2, d) = Size(ts, d) /\ \A i \in 1..Size(ts, d) : Tab(ts2, d, i) = Tab(ts, d, i)
  BY <1>8 DEF Size, Tab
<1>11. /\ \A i \in 1..Size(ts, c) : Tab(ts2, c, i) = Tab(ts, c, i)
       /\ Kid(ps, p) = Many => Size(ts2, c) = Size(ts, c) + 1 /\ Tab(ts2, c, Size(ts, c) + 1) = NoSegment
       /\ Kid(ps, p) # Many => Size(ts2, c) = Size(ts, c)
  BY <1>8, <1>9 DEF Size, Tab
<1>12. \A d \in 1..Len(ts) : \A i \in 1..Size(ts, d) : Tab(ts2, d, i) = Tab(ts, d, i)
  BY <1>10, <1>11
<1>13. \/ Kid(ps, p) = 0 /\ Kid(ps2, p) = n /\ Idx(ps2, n) = Idx(ps, p) /\ Size(ts2, c) = Size(ts, c)
       \/ /\ Kid(ps, p) = Many /\ Kid(ps2, p) = Many /\ Idx(ps2, n) = Size(ts, c) + 1
          /\ Size(ts2, c) = Size(ts, c) + 1 /\ Tab(ts2, c, Size(ts, c) + 1) = NoSegment
  BY <1>3, <1>4, <1>7, <1>11 DEF Many
<1>14. \A d \in 1..Len(ts) : d # c => Size(ts2, d) = Size(ts, d)
  BY <1>10
<1>15. Appends(ps, ts, ps2, ts2, p, n)
  BY <1>1, <1>3, <1>4, <1>6, <1>7, <1>8, <1>12, <1>13, <1>14 DEF Appends
<1> QED BY <1>2, <1>15

\* A promise with another link, and one with two of its link's fields changed.
LinkIs(r, r2, link) ==
    /\ r2 \in Promises /\ r2.linked = r.linked /\ r2.link = link /\ r2.prev = r.prev /\ r2.up = r.up
    /\ r2.status = r.status /\ r2.cont = r.cont /\ r2.own = r.own /\ r2.ran = r.ran
Relinked(r, r2, child, idx, par) ==
    \E link \in Links : /\ LinkIs(r, r2, link) /\ link.context = r.link.context
                        /\ link.child = child /\ link.idx = idx /\ link.parentIdx = par
WithLink(r, r2, link) == r2 = [r EXCEPT !.link = link]
WithSeveral(r, r2, place) == r2 = [r EXCEPT !.link.child = Many, !.link.idx = place]
WithPlaces(r, r2, branch, par) == r2 = [r EXCEPT !.link.idx = branch, !.link.parentIdx = par]
LEMMA OtherLink ==
    ASSUME NEW r \in Promises, NEW link \in Links, NEW r2, WithLink(r, r2, link)
    PROVE  LinkIs(r, r2, link)
  BY DEF Promises, LinkIs, WithLink
LEMMA ChildAndPlace ==
    ASSUME NEW r \in Promises, NEW place \in Nat, NEW r2, WithSeveral(r, r2, place)
    PROVE  Relinked(r, r2, Many, place, r.link.parentIdx)
<1>1. PICK r1 : r1 = [r EXCEPT !.link.child = Many]
  OBVIOUS
<1>2. PICK l1 : l1 = [r.link EXCEPT !.child = Many]
  OBVIOUS
<1>3. PICK l2 : l2 = [l1 EXCEPT !.idx = place]
  OBVIOUS
<1>4. r.link \in Links
  BY DEF Promises
<1>5. /\ l1 \in Links /\ l1.context = r.link.context /\ l1.parentIdx = r.link.parentIdx /\ l1.child = Many
  BY <1>2, <1>4 DEF Links
<1>6. /\ l2 \in Links /\ l2.context = r.link.context /\ l2.parentIdx = r.link.parentIdx /\ l2.child = Many
      /\ l2.idx = place
  BY <1>3, <1>5 DEF Links
<1>7. WithLink(r, r1, l1)
  BY <1>1, <1>2 DEF WithLink
<1>8. LinkIs(r, r1, l1)
  BY <1>5, <1>7, OtherLink
<1>9. r2 = [r1 EXCEPT !.link.idx = place]
  BY <1>1 DEF WithSeveral
<1>10. WithLink(r1, r2, l2) /\ r1 \in Promises
  BY <1>3, <1>8, <1>9 DEF LinkIs, WithLink
<1>11. LinkIs(r1, r2, l2)
  BY <1>6, <1>10, OtherLink
<1>12. LinkIs(r, r2, l2)
  BY <1>8, <1>11 DEF LinkIs
<1> QED BY <1>6, <1>12 DEF Relinked
LEMMA PlaceAndParent ==
    ASSUME NEW r \in Promises, NEW branch \in Nat, NEW par \in Nat, NEW r2, WithPlaces(r, r2, branch, par)
    PROVE  Relinked(r, r2, r.link.child, branch, par)
<1>1. PICK r1 : r1 = [r EXCEPT !.link.idx = branch]
  OBVIOUS
<1>2. PICK l1 : l1 = [r.link EXCEPT !.idx = branch]
  OBVIOUS
<1>3. PICK l2 : l2 = [l1 EXCEPT !.parentIdx = par]
  OBVIOUS
<1>4. r.link \in Links
  BY DEF Promises
<1>5. /\ l1 \in Links /\ l1.context = r.link.context /\ l1.child = r.link.child /\ l1.idx = branch
  BY <1>2, <1>4 DEF Links
<1>6. /\ l2 \in Links /\ l2.context = r.link.context /\ l2.parentIdx = par /\ l2.child = r.link.child
      /\ l2.idx = branch
  BY <1>3, <1>5 DEF Links
<1>7. WithLink(r, r1, l1)
  BY <1>1, <1>2 DEF WithLink
<1>8. LinkIs(r, r1, l1)
  BY <1>5, <1>7, OtherLink
<1>9. r2 = [r1 EXCEPT !.link.parentIdx = par]
  BY <1>1 DEF WithPlaces
<1>10. WithLink(r1, r2, l2) /\ r1 \in Promises
  BY <1>3, <1>8, <1>9 DEF LinkIs, WithLink
<1>11. LinkIs(r1, r2, l2)
  BY <1>6, <1>10, OtherLink
<1>12. LinkIs(r, r2, l2)
  BY <1>8, <1>11 DEF LinkIs
<1> QED BY <1>6, <1>12 DEF Relinked

\* What Branched makes, and the table it makes of the context's.
Branching(ps, ts, ps2, ts2, p) ==
    /\ p \in DOMAIN ps /\ Linked(ps, p) /\ Kid(ps, p) \in DOMAIN ps
    /\ ps2 = Branched(ps, ts, p).promises
    /\ ts2 = [ts EXCEPT ![Ctx(ps, p)] = Branched(ps, ts, p).table]
BranchedTo(ps, ts, ps2, ts2, p) ==
    /\ ps2 \in Seq(Promises) /\ ts2 \in Seq(Seq(SegmentOrNone)) /\ Len(ps2) = Len(ps)
    /\ \E place, branch \in Nat : Branches(ps, ts, ps2, ts2, p, place, branch)

LEMMA BranchingBranches ==
    ASSUME NEW ps, NEW ts, ChainsGood(ps, ts), NEW ps2, NEW ts2, NEW p, Branching(ps, ts, ps2, ts2, p)
    PROVE  BranchedTo(ps, ts, ps2, ts2, p)
<1>1. /\ p \in DOMAIN ps /\ Linked(ps, p) /\ Kid(ps, p) \in DOMAIN ps
      /\ ps \in Seq(Promises) /\ ts \in Seq(Seq(SegmentOrNone)) /\ DOMAIN ps = 1..Len(ps) /\ Len(ps) \in Nat
  BY PromiseTypes DEF Branching, ChainsGood
<1>2. PICK c : c = Ctx(ps, p)
  OBVIOUS
<1>3. /\ c # 0 /\ c \in 1..Len(ts) /\ ts[c] \in Seq(SegmentOrNone) /\ Size(ts, c) \in Nat
      /\ Idx(ps, p) \in 1..Size(ts, c)
  BY <1>1, <1>2, OneOfThem, InsideTables
<1>4. PICK k : k = Size(ts, c)
  OBVIOUS
<1>5. PICK own : own = IF Par(ps, p) # 0 THEN Append(ts[c], NoSegment) ELSE ts[c]
  OBVIOUS
<1>6. PICK place : place = IF Par(ps, p) # 0 THEN Len(own) ELSE Idx(ps, p)
  OBVIOUS
<1>7. PICK branch : branch = Len(own) + 1
  OBVIOUS
<1>8. PICK t : t = Append(own, NoSegment)
  OBVIOUS
<1>9. NoSegment \in SegmentOrNone
  BY DEF SegmentOrNone
<1>10. /\ own \in Seq(SegmentOrNone)
       /\ Par(ps, p) # 0 => /\ Len(own) = k + 1 /\ own[k + 1] = NoSegment
                            /\ \A i \in 1..k : own[i] = ts[c][i]
       /\ Par(ps, p) = 0 => own = ts[c] /\ Len(own) = k
  BY <1>3, <1>4, <1>5, <1>9, AppendProperties DEF Size
<1>11. /\ t \in Seq(SegmentOrNone) /\ Len(t) = Len(own) + 1 /\ t[Len(own) + 1] = NoSegment
       /\ \A i \in 1..Len(own) : t[i] = own[i]
  BY <1>8, <1>9, <1>10, AppendProperties
<1>12. PICK line : line = Line(ps, p)
  OBVIOUS
<1>13. /\ Branched(ps, ts, p).table = t
       /\ Branched(ps, ts, p).promises = [q \in DOMAIN ps |->
              IF q = p THEN [ps[q] EXCEPT !.link.child = Many, !.link.idx = place]
              ELSE IF q \in line
              THEN [ps[q] EXCEPT !.link.idx = branch, !.link.parentIdx = IF q = Kid(ps, p) THEN place ELSE branch]
              ELSE ps[q]]
  BY <1>2, <1>5, <1>6, <1>7, <1>8, <1>12, Zenon DEF Branched, Ctx, Par, Idx, Kid
<1>14. /\ place \in Nat /\ branch \in Nat
       /\ \/ Par(ps, p) # 0 /\ place = k + 1 /\ branch = k + 2
          \/ Par(ps, p) = 0 /\ place = Idx(ps, p) /\ branch = k + 1
  BY <1>3, <1>4, <1>6, <1>7, <1>10
<1>15. /\ ts2 \in Seq(Seq(SegmentOrNone)) /\ Len(ts2) = Len(ts) /\ ts2[c] = t
       /\ \A d \in 1..Len(ts) : d # c => ts2[d] = ts[d]
  <2>1. ts2 = [ts EXCEPT ![c] = t]
    BY <1>2, <1>13 DEF Branching
  <2> QED BY <1>1, <1>3, <1>11, <2>1, OneTableIsOther
<1>16. /\ Size(ts2, c) = branch
       /\ \A d \in 1..Len(ts) : d # c =>
              Size(ts2, d) = Size(ts, d) /\ \A i \in 1..Size(ts, d) : Tab(ts2, d, i) = Tab(ts, d, i)
       /\ \A i \in 1..branch : IF i \in 1..k THEN Tab(ts2, c, i) = Tab(ts, c, i) ELSE Tab(ts2, c, i) = NoSegment
  <2>1. \A i \in 1..branch : IF i \in 1..k THEN t[i] = ts[c][i] ELSE t[i] = NoSegment
    BY <1>3, <1>4, <1>7, <1>10, <1>11
  <2> QED BY <1>7, <1>11, <1>15, <2>1 DEF Size, Tab
<1>17. /\ DOMAIN ps2 = DOMAIN ps /\ ps2 = [q \in DOMAIN ps |-> ps2[q]]
       /\ ps2[p] = [ps[p] EXCEPT !.link.child = Many, !.link.idx = place]
       /\ \A q \in DOMAIN ps : q # p /\ q \in line =>
              ps2[q] = [ps[q] EXCEPT !.link.idx = branch, !.link.parentIdx = IF q = Kid(ps, p) THEN place ELSE branch]
       /\ \A q \in DOMAIN ps : q # p /\ q \notin line => ps2[q] = ps[q]
  BY <1>1, <1>13 DEF Branching
\* Of each promise, all but where it is and who comes from it.
<1> DEFINE Moved(q) == /\ Ctx(ps2, q) = Ctx(ps, q) /\ Up(ps2, q) = Up(ps, q) /\ Prev(ps2, q) = Prev(ps, q)
                       /\ Linked(ps2, q) <=> Linked(ps, q)
                       /\ Stage(ps2, q) = Stage(ps, q) /\ Cont(ps2, q) = Cont(ps, q)
                       /\ Own(ps2, q) = Own(ps, q) /\ Ran(ps2, q) = Ran(ps, q)
<1>18. ASSUME NEW q \in DOMAIN ps, NEW link, LinkIs(ps[q], ps2[q], link), link.context = ps[q].link.context
       PROVE  ps2[q] \in Promises /\ Moved(q) /\ ps2[q].link = link
  BY <1>18 DEF LinkIs, Ctx, Up, Prev, Linked, Stage, Cont, Own, Ran
<1>19. /\ ps2[p] \in Promises /\ Moved(p)
       /\ Kid(ps2, p) = Many /\ Idx(ps2, p) = place /\ Par(ps2, p) = Par(ps, p)
  <2>1. ps[p] \in Promises /\ WithSeveral(ps[p], ps2[p], place)
    BY <1>1, <1>17, PromiseTypes DEF WithSeveral
  <2>2. PICK link \in Links : /\ LinkIs(ps[p], ps2[p], link) /\ link.context = ps[p].link.context
                              /\ link.parentIdx = ps[p].link.parentIdx /\ link.child = Many /\ link.idx = place
    <3>1. Relinked(ps[p], ps2[p], Many, place, ps[p].link.parentIdx)
      BY <1>14, <2>1, ChildAndPlace
    <3> QED BY <3>1 DEF Relinked
  <2>3. ps2[p] \in Promises /\ Moved(p) /\ ps2[p].link = link
    BY <1>1, <1>18, <2>2
  <2> QED BY <2>2, <2>3 DEF Kid, Idx, Par
<1>20. ASSUME NEW q \in DOMAIN ps, q # p, q \in line
       PROVE  /\ ps2[q] \in Promises /\ Moved(q) /\ Kid(ps2, q) = Kid(ps, q)
              /\ Idx(ps2, q) = branch /\ Par(ps2, q) = IF q = Kid(ps, p) THEN place ELSE branch
  <2>1. PICK par : par = IF q = Kid(ps, p) THEN place ELSE branch
    OBVIOUS
  <2>2. par \in Nat
    BY <1>14, <2>1
  <2>3. ps[q] \in Promises /\ WithPlaces(ps[q], ps2[q], branch, par)
    BY <1>1, <1>17, <1>20, <2>1, PromiseTypes DEF WithPlaces
  <2>4. PICK link \in Links : /\ LinkIs(ps[q], ps2[q], link) /\ link.context = ps[q].link.context
                              /\ link.parentIdx = par /\ link.child = ps[q].link.child /\ link.idx = branch
    <3>1. Relinked(ps[q], ps2[q], ps[q].link.child, branch, par)
      BY <1>14, <2>2, <2>3, PlaceAndParent
    <3> QED BY <3>1 DEF Relinked
  <2>5. ps2[q] \in Promises /\ Moved(q) /\ ps2[q].link = link
    BY <1>18, <2>4
  <2> QED BY <2>1, <2>4, <2>5 DEF Kid, Idx, Par
<1>21. ASSUME NEW q \in DOMAIN ps, q # p, q \notin line
       PROVE  /\ ps2[q] \in Promises /\ Moved(q) /\ Kid(ps2, q) = Kid(ps, q)
              /\ Idx(ps2, q) = Idx(ps, q) /\ Par(ps2, q) = Par(ps, q)
  <2>1. ps2[q] = ps[q]
    BY <1>17, <1>21
  <2> QED BY <1>1, <2>1, PromiseTypes DEF Ctx, Up, Prev, Linked, Stage, Cont, Own, Ran, Kid, Idx, Par
<1>22. \A q \in DOMAIN ps : ps2[q] \in Promises /\ Moved(q) /\ (q # p => Kid(ps2, q) = Kid(ps, q))
  <2> HIDE DEF Moved
  <2> QED BY <1>19, <1>20, <1>21
<1>23. ps2 \in Seq(Promises) /\ Len(ps2) = Len(ps)
  <2>1. /\ ps2 = [q \in 1..Len(ps) |-> ps2[q]] /\ DOMAIN ps2 = 1..Len(ps)
        /\ \A q \in 1..Len(ps) : ps2[q] \in Promises
    <3>1. ps2 = [q \in DOMAIN ps |-> ps2[q]] /\ DOMAIN ps2 = DOMAIN ps
      BY <1>17
    <3>2. \A q \in DOMAIN ps : ps2[q] \in Promises
      BY <1>22, Zenon
    <3> QED BY <1>1, <3>1, <3>2
  <2>2. ps2 \in [1..Len(ps) -> Promises]
    BY <2>1
  <2>3. ps2 \in Seq(Promises)
    <3>1. Len(ps) \in Nat
      BY <1>1
    <3> QED BY ONLY <2>2, <3>1, SeqDef
  <2>4. Len(ps2) \in Nat /\ DOMAIN ps2 = 1..Len(ps2)
    BY <2>3, LenProperties
  <2>5. Len(ps2) = Len(ps)
    BY <1>1, <2>1, <2>4
  <2> QED BY <2>3, <2>5
<1>24. SameRuns(ps, ps2)
  BY <1>17, <1>22 DEF SameRuns
<1>25. Branches(ps, ts, ps2, ts2, p, place, branch)
  <2>1. \A q \in DOMAIN ps : /\ Ctx(ps2, q) = Ctx(ps, q) /\ Up(ps2, q) = Up(ps, q) /\ Prev(ps2, q) = Prev(ps, q)
                             /\ Linked(ps2, q) <=> Linked(ps, q)
                             /\ q # p => Kid(ps2, q) = Kid(ps, q)
                             /\ q # p /\ q \notin Line(ps, p) => Idx(ps2, q) = Idx(ps, q) /\ Par(ps2, q) = Par(ps, q)
                             /\ q # p /\ q \in Line(ps, p) =>
                                    /\ Idx(ps2, q) = branch
                                    /\ Par(ps2, q) = IF q = Kid(ps, p) THEN place ELSE branch
    BY <1>12, <1>20, <1>21, <1>22
  <2> HIDE DEF Moved
  <2> QED BY <2>1, <1>1, <1>2, <1>4, <1>14, <1>15, <1>16, <1>19, <1>24 DEF Branches
<1> HIDE DEF Moved
<1> QED BY <1>14, <1>15, <1>23, <1>25 DEF BranchedTo

\* The step of LinkNext after that: ts and ts1 are the tables before and after a branching.
Follows(ps, ts, ps1, ts1, ps2, ts2, p) ==
    /\ p \in DOMAIN ps1 /\ Linked(ps1, p) /\ Kid(ps1, p) \in {0, Many} /\ Len(ps1) = Len(ps)
    /\ ts \in Seq(Seq(SegmentOrNone)) /\ Len(ts1) = Len(ts)
    /\ \A d \in 1..Len(ts) : d # Ctx(ps1, p) => ts1[d] = ts[d]
    /\ ts2 = [ts EXCEPT ![Ctx(ps1, p)] = IF Kid(ps1, p) = Many THEN Append(ts1[Ctx(ps1, p)], NoSegment)
                                         ELSE ts1[Ctx(ps1, p)]]
    /\ ps2 = Append(IF Kid(ps1, p) = 0 THEN [ps1 EXCEPT ![p].link.child = Len(ps) + 1] ELSE ps1,
                    [Fresh(p) EXCEPT !.linked = TRUE, !.link = LinkOf(ps1, ts1, p), !.up = p])
LEMMA FollowingLinks ==
    ASSUME NEW ps, NEW ts, NEW ps1, NEW ts1, NEW ps2, NEW ts2, NEW p, ChainsGood(ps1, ts1),
           Follows(ps, ts, ps1, ts1, ps2, ts2, p)
    PROVE  Linking(ps1, ts1, ps2, ts2, p)
<1>1. PICK c : c = Ctx(ps1, p)
  OBVIOUS
<1>2. PICK t : t = IF Kid(ps1, p) = Many THEN Append(ts1[c], NoSegment) ELSE ts1[c]
  OBVIOUS
<1>3. p \in DOMAIN ps1 /\ Linked(ps1, p)
  BY DEF Follows
<1>4. c \in 1..Len(ts1) /\ ts1[c] \in Seq(SegmentOrNone)
  BY <1>1, <1>3, OneOfThem, InsideTables
<1>5. ts \in Seq(Seq(SegmentOrNone)) /\ c \in 1..Len(ts)
  BY <1>4 DEF Follows
<1>6. t \in Seq(SegmentOrNone)
  <2>1. NoSegment \in SegmentOrNone
    BY DEF SegmentOrNone
  <2> QED BY <1>2, <1>4, <2>1, AppendProperties
<1>7. ts2 = [ts EXCEPT ![c] = t]
  BY <1>1, <1>2, Zenon DEF Follows
<1>8. /\ ts2 \in Seq(Seq(SegmentOrNone)) /\ Len(ts2) = Len(ts) /\ ts2[c] = t
      /\ \A d \in 1..Len(ts) : d # c => ts2[d] = ts[d]
  BY <1>5, <1>6, <1>7, OneTableIsOther
<1>9. Len(ts2) = Len(ts1) /\ \A d \in 1..Len(ts1) : d # c => ts2[d] = ts1[d]
  BY <1>1, <1>8 DEF Follows
<1>10. ps2 = Append(IF Kid(ps1, p) = 0 THEN [ps1 EXCEPT ![p].link.child = Len(ps1) + 1] ELSE ps1,
                    [Fresh(p) EXCEPT !.linked = TRUE, !.link = LinkOf(ps1, ts1, p), !.up = p])
  BY Zenon DEF Follows
<1>11. Kid(ps1, p) \in {0, Many}
  BY DEF Follows
<1> QED BY <1>1, <1>2, <1>3, <1>8, <1>9, <1>10, <1>11, Zenon DEF Linking

\* The promise before has a context: it is linked to it.
LEMMA ThenLinked ==
    ASSUME PromInv, NEW prev \in Chain, NEW segment \in SegmentOrNone, NEW isWrapped \in BOOLEAN,
           Then(prev, segment, isWrapped), ~isWrapped, IsActive(prev)
    PROVE  PromInv'
<1>1. PICK ps : ps = promises
  OBVIOUS
<1>2. PICK ts : ts = tables
  OBVIOUS
<1>3. PICK ps2 : ps2 = promises'
  OBVIOUS
<1>4. PICK ts2 : ts2 = tables'
  OBVIOUS
<1>5. PICK cr : cr = IF Crossing(prev) THEN crossed \cup {promises[prev].link.context} ELSE crossed
  OBVIOUS
<1>6. crossed' = cr /\ LinkNext(prev, Fresh(prev))
  BY <1>5, Zenon DEF Then
<1>7. Good(promises, tables, crossed) /\ prev \in DOMAIN ps
  BY <1>1 DEF PromInv, Chain
<1>8. crossed \subseteq cr
  BY <1>5
<1>9. Good(ps, ts, cr)
  BY <1>1, <1>2, <1>7, <1>8, FewerArePlain
<1>10. /\ ChainsGood(ps, ts) /\ ps \in Seq(Promises) /\ ts \in Seq(Seq(SegmentOrNone)) /\ Len(ps) \in Nat
       /\ Descended(ps)
  BY <1>9, PromiseTypes DEF Good, ChainsGood
<1>11. Linked(ps, prev)
  <2>1. promises[prev].linked
    BY DEF IsActive
  <2>2. promises[prev] \in Promises
    BY <1>1, <1>7, <1>10, OneOfThem
  <2> QED BY <2>1, <2>2, <1>1 DEF Linked, Promises
<1>12. PICK c : c = Ctx(ps, prev)
  OBVIOUS
<1>13. c # 0 /\ c \in 1..Len(ts) /\ Kid(ps, prev) \in Nat \cup {Many}
  BY <1>7, <1>10, <1>11, <1>12, OneOfThem, PromiseTypes
<1> DEFINE unbranched == [table |-> tables[promises[prev].link.context], promises |-> promises]
<1>14. PICK b : b = IF promises[prev].link.child > 0 THEN Branched(promises, tables, prev) ELSE unbranched
  OBVIOUS
<1>15. PICK l : l = b.promises[prev].link
  OBVIOUS
<1>16. PICK link : link = [context |-> l.context, idx |-> IF l.child = Many THEN Len(b.table) + 1 ELSE l.idx,
                           parentIdx |-> l.idx, child |-> 0]
  OBVIOUS
<1>17. /\ ts2 = [ts EXCEPT ![l.context] = IF l.child = Many THEN Append(b.table, NoSegment) ELSE b.table]
       /\ ps2 = Append(IF l.child = 0 THEN [b.promises EXCEPT ![prev].link.child = Len(ps) + 1] ELSE b.promises,
                       [Fresh(prev) EXCEPT !.linked = TRUE, !.link = link, !.up = prev])
  BY <1>1, <1>2, <1>3, <1>4, <1>6, <1>14, <1>15, <1>16, Zenon DEF LinkNext
<1>18. CASE ~(Kid(ps, prev) > 0)
  <2>1. Kid(ps, prev) \in {0, Many}
    BY <1>13, <1>18 DEF Many
  <2>2. Linking(ps, ts, ps2, ts2, prev)
    <3>1. b = unbranched
      BY <1>1, <1>18, <1>14 DEF Kid
    <3>2. b.promises = ps /\ b.table = ts[c] /\ l.context = c /\ l.child = Kid(ps, prev) /\ l.idx = Idx(ps, prev)
      BY <1>1, <1>2, <1>12, <1>15, <3>1 DEF Ctx, Kid, Idx
    <3>3. link = LinkOf(ps, ts, prev)
      BY <1>12, <1>16, <3>2 DEF LinkOf, Size
    <3>4. Follows(ps, ts, ps, ts, ps2, ts2, prev)
      BY <1>7, <1>10, <1>11, <1>12, <1>17, <2>1, <3>2, <3>3, Zenon DEF Follows
    <3> QED BY <1>10, <3>4, FollowingLinks
  <2>3. Appends(ps, ts, ps2, ts2, prev, Len(ps) + 1)
    BY <1>10, <2>2, LinkingAppends
  <2>4. LinkedIn(ps, ts, ps2, prev, Len(ps) + 1)
    BY <1>10, <2>2, LinkingPromises
  <2>5. ps2 \in Seq(Promises) /\ ts2 \in Seq(Seq(SegmentOrNone))
    BY <2>2, <2>4 DEF LinkedIn, Linking
  <2>6. Good(ps2, ts2, cr)
    BY <1>9, <2>3, <2>5, AppendsKeep
  <2> QED BY <1>3, <1>4, <1>6, <2>6 DEF PromInv
<1>19. CASE Kid(ps, prev) > 0
  <2>1. PICK ps1 : ps1 = Branched(ps, ts, prev).promises
    OBVIOUS
  <2>2. PICK ts1 : ts1 = [ts EXCEPT ![c] = Branched(ps, ts, prev).table]
    OBVIOUS
  <2>3. Kid(ps, prev) \in DOMAIN ps
    BY <1>7, <1>10, <1>13, <1>19 DEF Descended, Many
  <2>4. Branching(ps, ts, ps1, ts1, prev)
    BY <1>7, <1>11, <1>12, <2>1, <2>2, <2>3 DEF Branching
  <2>5. BranchedTo(ps, ts, ps1, ts1, prev)
    BY <1>10, <2>4, BranchingBranches
  <2>6. PICK place, branch \in Nat : Branches(ps, ts, ps1, ts1, prev, place, branch)
    BY <2>5 DEF BranchedTo
  <2>7. ps1 \in Seq(Promises) /\ ts1 \in Seq(Seq(SegmentOrNone)) /\ Len(ps1) = Len(ps)
    BY <2>5 DEF BranchedTo
  <2>8. c \in cr \/ \A q \in DOMAIN ps : q # prev /\ Ctx(ps, q) = c =>
                        Kid(ps, q) # Many /\ (Up(ps, q) = 0 \/ Own(ps, q) = NoSegment)
    <3>1. CASE Crossing(prev)
      BY <3>1, <1>1, <1>5, <1>12 DEF Ctx
    <3>2. CASE ~Crossing(prev)
      <4>1. Kid(ps, prev) # 0
        BY <1>13, <1>19
      <4>2. ASSUME NEW q \in DOMAIN ps, q # prev, Ctx(ps, q) = c
            PROVE  Kid(ps, q) # Many /\ (Up(ps, q) = 0 \/ Own(ps, q) = NoSegment)
        BY <1>1, <1>12, <3>2, <4>1, <4>2 DEF Crossing, Chain, Ctx, Kid, Up, Own
      <4> QED BY <4>2
    <3> QED BY <3>1, <3>2
  <2>9. Good(ps1, ts1, cr)
    BY <1>9, <1>12, <2>6, <2>7, <2>8, BranchesKeep
  <2>10. /\ prev \in DOMAIN ps1 /\ Linked(ps1, prev) /\ Kid(ps1, prev) = Many /\ Ctx(ps1, prev) = c /\ Len(ts1) = Len(ts)
    BY <1>7, <1>11, <1>12, <2>6 DEF Branches, SameRuns
  <2>11. ChainsGood(ps1, ts1)
    BY <2>9 DEF Good
  <2>12. Linking(ps1, ts1, ps2, ts2, prev)
    <3>1. b = Branched(ps, ts, prev)
      BY <1>1, <1>2, <1>19, <1>14 DEF Kid
    <3>2. l.context = c /\ l.child = Many /\ l.idx = Idx(ps1, prev) /\ b.promises = ps1
      BY <1>15, <2>1, <2>10, <3>1 DEF Ctx, Kid, Idx
    <3>3. c \in DOMAIN ts /\ DOMAIN ts = 1..Len(ts)
      BY <1>10, <1>13, LenProperties
    <3>4. ts1[c] = b.table /\ \A d \in 1..Len(ts) : d # c => ts1[d] = ts[d]
      BY <2>2, <3>1, <3>3
    <3>5. link = LinkOf(ps1, ts1, prev)
      BY <1>16, <2>10, <3>2, <3>4 DEF LinkOf, Size
    <3>6. Follows(ps, ts, ps1, ts1, ps2, ts2, prev)
      <4>1. ts2 = [ts EXCEPT ![c] = IF Kid(ps1, prev) = Many THEN Append(ts1[c], NoSegment) ELSE ts1[c]]
        BY <1>17, <2>10, <3>2, <3>4, Zenon
      <4>2. ps2 = Append(IF Kid(ps1, prev) = 0 THEN [ps1 EXCEPT ![prev].link.child = Len(ps) + 1] ELSE ps1,
                         [Fresh(prev) EXCEPT !.linked = TRUE, !.link = LinkOf(ps1, ts1, prev), !.up = prev])
        BY <1>17, <2>10, <3>2, <3>5, Zenon
      <4> QED BY <1>10, <2>7, <2>10, <3>4, <4>1, <4>2 DEF Follows
    <3> QED BY <2>11, <3>6, FollowingLinks
  <2>13. Appends(ps1, ts1, ps2, ts2, prev, Len(ps1) + 1)
    BY <2>12, <2>11, LinkingAppends
  <2>14. LinkedIn(ps1, ts1, ps2, prev, Len(ps1) + 1)
    BY <2>12, <2>11, LinkingPromises
  <2>15. ps2 \in Seq(Promises) /\ ts2 \in Seq(Seq(SegmentOrNone))
    BY <2>12, <2>14 DEF LinkedIn, Linking
  <2>16. Good(ps2, ts2, cr)
    BY <2>9, <2>13, <2>15, AppendsKeep
  <2> QED BY <1>3, <1>4, <1>6, <2>16 DEF PromInv
<1> QED BY <1>13, <1>18, <1>19

-----------------------------------------------------------------------------
\* Each step keeps what is so of promises, places and segments.
LEMMA PromStep == PromInv /\ [PromNext]_promVars => PromInv'
<1> SUFFICES ASSUME PromInv, [PromNext]_promVars PROVE PromInv'
  OBVIOUS
<1>1. CASE UNCHANGED promVars
  BY <1>1 DEF promVars, PromInv
<1>2. ASSUME NEW s \in PromSegments, Construct(s) \/ Cast(s) PROVE PromInv'
  BY <1>2, MadeKeeps
<1>3. ASSUME NEW p \in Chain, NEW s \in SegmentOrNone, NEW w \in BOOLEAN, Then(p, s, w) PROVE PromInv'
  BY <1>3, ThenUnlinked, ThenLinked
<1>4. ASSUME NEW p \in Chain, NEW s \in SegmentOrNone, Handler(p, s) PROVE PromInv'
  BY <1>4, HandlerKeeps
<1>5. ASSUME NEW p \in Chain, Settle(p) PROVE PromInv'
  BY <1>5, SettleKeeps
<1>6. ASSUME NEW p \in Chain, ContinueContext(p) PROVE PromInv'
  BY <1>6, ContinueKeeps
<1>7. ASSUME NEW s \in PromSegments, EndTx(TxOf(s)) PROVE PromInv'
  BY <1>7 DEF EndTx, PromInv
<1>8. ASSUME NEW p \in Chain, Skip(p) PROVE PromInv'
  BY <1>8, SkipKeeps
<1> QED BY <1>1, <1>2, <1>3, <1>4, <1>5, <1>6, <1>7, <1>8 DEF PromNext, SegmentOrNone

\* The segment a handler runs under is the one its chain had reached, whatever else is chained
\* to the promises before it and whichever handlers are passed over, if its branches are ones
\* the algorithm accounts for and no place is left empty; and one of its own chain however
\* they are.
THEOREM PromisesFollowTheirChain == PromSpec => []PromisesCorrect
<1>1. PromInit => PromInv
  BY PromStarts
<1>2. PromInv /\ [PromNext]_promVars => PromInv'
  BY PromStep
<1>3. PromInv => PromisesCorrect
  BY PromInvGives
<1> QED BY <1>1, <1>2, <1>3, PTL DEF PromSpec
=============================================================================
