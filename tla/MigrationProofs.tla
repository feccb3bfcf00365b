-------------------------- MODULE MigrationProofs --------------------------
(***************************************************************************)
(* Proofs about Migration for every history whose tiers agree, any sources,*)
(* slugs and submits, and any number of kills and failed runs.             *)
(***************************************************************************)
EXTENDS Migration, WellFoundedInduction, TLAPS

-----------------------------------------------------------------------------
(* Least and greatest members *)

\* A set of integers that is bounded from below has a least member.
LEMMA Least ==
    ASSUME NEW S \in SUBSET Int, NEW b \in Int, \A x \in S : b <= x, S # {}
    PROVE  Min(S) \in S /\ \A x \in S : Min(S) <= x
<1> DEFINE N == {x - b : x \in S}
           R == {p \in Nat \X Nat : p[1] < p[2]}
<1>1. N \subseteq Nat /\ N # {}
    <2>1. \A x \in S : x \in Int /\ x - b \in Nat
        OBVIOUS
    <2>2. \E x : x \in S
        OBVIOUS
    <2> QED
        BY <2>1, <2>2
<1>2. IsWellFoundedOn(R, Nat)
    BY NatLessThanWellFounded DEF OpToRel
<1> HIDE DEF N
<1>3. PICK n \in N : \A m \in N : <<m, n>> \notin R
    <2> HIDE DEF R
    <2> QED
        BY <1>1, <1>2, WFMin, Zenon
<1>4. \A m \in N : n <= m
    <2> SUFFICES ASSUME NEW m \in N PROVE n <= m
        OBVIOUS
    <2>1. n \in Nat /\ m \in Nat /\ <<m, n>> \notin R
        BY <1>1, <1>3
    <2> HIDE DEF N
    <2> QED
        BY <2>1
<1> USE DEF N
<1>5. PICK x \in S : n = x - b
    BY <1>3
<1>6. \A y \in S : x <= y
    <2> SUFFICES ASSUME NEW y \in S PROVE x <= y
        OBVIOUS
    <2>1. n <= y - b
        BY <1>4
    <2> QED
        BY <1>5, <2>1
<1> HIDE DEF N, R
<1>7. \E z \in S : \A y \in S : z <= y
    BY <1>6
<1> QED
    BY <1>7 DEF Min

\* A set of integers that is bounded from above has a greatest member.
LEMMA Greatest ==
    ASSUME NEW S \in SUBSET Int, NEW b \in Int, \A x \in S : x <= b, S # {}
    PROVE  Max(S) \in S /\ \A x \in S : x <= Max(S)
<1> DEFINE N == {b - x : x \in S}
<1>1. N \subseteq Int /\ N # {} /\ \A n \in N : 0 <= n
    <2>1. \A x \in S : b - x \in Int /\ 0 <= b - x
        OBVIOUS
    <2>2. \E x : x \in S
        OBVIOUS
    <2> QED
        BY <2>1, <2>2
<1>2. Min(N) \in N /\ \A n \in N : Min(N) <= n
    <2> HIDE DEF N
    <2> QED
        BY <1>1, Least
<1>3. PICK x \in S : Min(N) = b - x
    BY <1>2
<1>4. \A y \in S : y <= x
    <2> SUFFICES ASSUME NEW y \in S PROVE y <= x
        OBVIOUS
    <2>1. Min(N) <= b - y
        BY <1>2
    <2> HIDE DEF N
    <2> QED
        BY <1>3, <2>1
<1> HIDE DEF N
<1>5. \E z \in S : \A y \in S : z >= y
    BY <1>4
<1>6. Max(S) \in S /\ \A y \in S : Max(S) >= y
    BY <1>5 DEF Max
<1> QED
    BY <1>6

\* The extremes of two numbers.
LEMMA OfTwo ==
    ASSUME NEW a \in Int, NEW b \in Int
    PROVE  /\ Min({a, b}) = IF a <= b THEN a ELSE b
           /\ Max({a, b}) = IF a >= b THEN a ELSE b
<1>1. Min({a, b}) \in {a, b} /\ \A x \in {a, b} : Min({a, b}) <= x
    <2>1. \E m \in Int : \A x \in {a, b} : m <= x
        BY a <= b \/ b <= a
    <2> QED
        BY <2>1, Least
<1>2. Max({a, b}) \in {a, b} /\ \A x \in {a, b} : x <= Max({a, b})
    <2>1. \E m \in Int : \A x \in {a, b} : x <= m
        BY a <= b \/ b <= a
    <2> QED
        BY <2>1, Greatest
<1> QED
    BY <1>1, <1>2

-----------------------------------------------------------------------------
(* Days and buckets *)

\* A multiple of a width that is below another is below it by the width.
LEMMA Multiples ==
    ASSUME NEW p \in Nat \ {0}, NEW i \in Int, NEW j \in Int, i * p < j * p
    PROVE  i * p + p <= j * p
<1>1. i < j
    <2> SUFFICES ASSUME j <= i PROVE j * p <= i * p
        OBVIOUS
    <2>1. (i - j) * p >= 0
        OBVIOUS
    <2> QED
        BY <2>1
<1>2. (j - (i + 1)) * p >= 0
    BY <1>1
<1> QED
    BY <1>2

\* What leaves no remainder is a multiple.
LEMMA NoRemainder ==
    ASSUME NEW p \in Nat \ {0}, NEW a \in Int, a % p = 0
    PROVE  a \div p \in Int /\ a = (a \div p) * p
OBVIOUS

\* An hour is a whole part of a day.
LEMMA HoursOfDay ==
    /\ SlotsPerHour \in Nat \ {0} /\ SlotsPerDay \in Nat \ {0}
    /\ \E q \in Nat : SlotsPerDay = q * SlotsPerHour
    /\ SlotsPerHour <= SlotsPerDay
<1>1. SlotsPerHour \in Nat \ {0} /\ SlotsPerDay \in Nat \ {0} /\ SlotsPerDay % SlotsPerHour = 0
    BY HistoriesAssumption
<1> DEFINE q == SlotsPerDay \div SlotsPerHour
<1>2. q \in Nat /\ SlotsPerDay = q * SlotsPerHour
    BY <1>1
<1>3. 0 * SlotsPerHour < q * SlotsPerHour
    BY <1>1, <1>2
<1>4. 0 * SlotsPerHour + SlotsPerHour <= q * SlotsPerHour
    BY <1>1, <1>2, <1>3, Multiples
<1> QED
    BY <1>1, <1>2, <1>4

\* Days follow each other and end with the horizon.
LEMMA Calendar ==
    /\ Horizon \in Nat /\ Days \in Nat \ {0} /\ DayStart(0) = 0 /\ DayStart(Days) = Horizon
    /\ \A d \in Nat : DayStart(d) \in Nat /\ DayStart(d + 1) = DayStart(d) + SlotsPerDay
    /\ \A d, e \in Nat : d < e => DayStart(d + 1) <= DayStart(e)
<1>1. SlotsPerDay \in Nat \ {0} /\ Days \in Nat \ {0}
    BY HistoriesAssumption
<1>2. \A d \in Nat : DayStart(d) \in Nat /\ DayStart(d + 1) = DayStart(d) + SlotsPerDay
    BY <1>1 DEF DayStart
<1>3. ASSUME NEW d \in Nat, NEW e \in Nat, d < e PROVE DayStart(d + 1) <= DayStart(e)
    <2>1. (e - (d + 1)) * SlotsPerDay >= 0
        BY <1>1, <1>3
    <2> QED
        BY <1>1, <2>1 DEF DayStart
<1>4. Horizon \in Nat /\ DayStart(0) = 0 /\ DayStart(Days) = Horizon
    BY <1>1 DEF DayStart, Horizon
<1> QED
    BY <1>1, <1>2, <1>3, <1>4

\* Slot s lies in day d.
InDay(s, d) == DayStart(d) <= s /\ s < DayStart(d + 1)

\* Every slot lies in one day.
LEMMA DayOfSlot ==
    ASSUME NEW s \in Slots
    PROVE  /\ \E d \in 0..(Days - 1) : InDay(s, d)
           /\ \A d, e \in Nat : InDay(s, d) /\ InDay(s, e) => d = e
<1>1. s \in Nat /\ s < Horizon /\ SlotsPerDay \in Nat \ {0}
    BY Calendar, HoursOfDay DEF Slots
<1> DEFINE d == s \div SlotsPerDay
<1>2. d \in Nat /\ d * SlotsPerDay <= s /\ s < d * SlotsPerDay + SlotsPerDay
    BY <1>1
<1>3. DayStart(d) <= s /\ s < DayStart(d + 1)
    BY <1>2, Calendar DEF DayStart
<1> HIDE DEF d
<1>4. d < Days
    <2> SUFFICES ASSUME Days <= d PROVE FALSE
        BY <1>2, Calendar
    <2>1. DayStart(Days) <= DayStart(d)
        <3>1. CASE d = Days
            BY <3>1, Calendar
        <3>2. CASE Days < d
            BY <1>2, <3>2, Calendar, HoursOfDay
        <3> QED
            BY <1>2, <3>1, <3>2, Calendar
    <2> QED
        BY <1>1, <1>2, <1>3, <2>1, Calendar
<1>5. ASSUME NEW x \in Nat, NEW y \in Nat, InDay(s, x), InDay(s, y) PROVE x = y
    <2>1. ~(x < y)
        BY <1>1, <1>5, Calendar DEF InDay
    <2>2. ~(y < x)
        BY <1>1, <1>5, Calendar DEF InDay
    <2> QED
        BY <2>1, <2>2
<1> QED
    BY <1>2, <1>3, <1>4, <1>5, Calendar DEF InDay

\* b is where a bucket of the tier may begin.
Aligned(b, tier) == b \in Slots /\ b % Width(tier) = 0

\* Widths of the tiers.
LEMMA Widths ==
    /\ Width("minute") = 1 /\ Width("raw") = 1
    /\ Width("hourly") = SlotsPerHour /\ Width("daily") = SlotsPerDay
    /\ \A t \in Relations : /\ Width(t) \in Nat \ {0} /\ Width(t) <= SlotsPerDay
                            /\ \E q \in Nat : SlotsPerDay = q * Width(t)
<1>1. /\ Width("minute") = 1 /\ Width("raw") = 1
      /\ Width("hourly") = SlotsPerHour /\ Width("daily") = SlotsPerDay
    BY DEF Width
<1>2. 1 \in Nat /\ SlotsPerDay \in Nat /\ SlotsPerDay = SlotsPerDay * 1 /\ SlotsPerDay = 1 * SlotsPerDay
    BY HoursOfDay
<1>3. \A t \in Relations : \E q \in Nat : SlotsPerDay = q * Width(t)
    <2> SUFFICES ASSUME NEW t \in Relations PROVE \E q \in Nat : SlotsPerDay = q * Width(t)
        OBVIOUS
    <2>1. CASE t = "hourly"
        BY <1>1, <2>1, HoursOfDay
    <2>2. CASE t = "daily"
        BY <1>1, <1>2, <2>2
    <2>3. CASE t = "minute" \/ t = "raw"
        BY <1>1, <1>2, <2>3
    <2> QED
        BY <2>1, <2>2, <2>3 DEF Relations
<1>4. \A t \in Relations : Width(t) \in Nat \ {0} /\ Width(t) <= SlotsPerDay
    BY <1>1, HoursOfDay DEF Relations
<1> QED
    BY <1>1, <1>3, <1>4

\* A bucket lies within its day, and buckets of a tier do not overlap.
LEMMA BucketInDay ==
    ASSUME NEW t \in Relations, NEW b, Aligned(b, t), NEW d \in Nat, InDay(b, d)
    PROVE  b + Width(t) <= DayStart(d + 1)
<1>1. Width(t) \in Nat \ {0} /\ b \in Int /\ DayStart(d + 1) = (d + 1) * SlotsPerDay
    BY Widths, Calendar DEF Aligned, Slots, DayStart
<1>2. PICK q \in Nat : SlotsPerDay = q * Width(t)
    BY Widths
<1>3. PICK k \in Int : b = k * Width(t)
    BY <1>1, NoRemainder DEF Aligned
<1>4. (d + 1) * (q * Width(t)) = ((d + 1) * q) * Width(t) /\ (d + 1) * q \in Int
    BY <1>1, <1>2
<1>5. DayStart(d + 1) = ((d + 1) * q) * Width(t)
    BY <1>1, <1>2, <1>4
<1>6. k * Width(t) < ((d + 1) * q) * Width(t)
    BY <1>3, <1>5 DEF InDay
<1>7. k * Width(t) + Width(t) <= ((d + 1) * q) * Width(t)
    <2> HIDE DEF InDay
    <2> QED
        BY <1>1, <1>4, <1>6, Multiples
<1> QED
    BY <1>3, <1>5, <1>7

\* Two buckets of one tier are a whole width apart.
LEMMA BucketsApart ==
    ASSUME NEW t \in Relations, NEW a, Aligned(a, t), NEW b, Aligned(b, t), a < b
    PROVE  a + Width(t) <= b
<1>1. Width(t) \in Nat \ {0} /\ a \in Int /\ b \in Int
    BY Widths DEF Aligned, Slots
<1>2. PICK i \in Int : a = i * Width(t)
    BY <1>1, NoRemainder DEF Aligned
<1>3. PICK j \in Int : b = j * Width(t)
    BY <1>1, NoRemainder DEF Aligned
<1> QED
    BY <1>1, <1>2, <1>3, Multiples

-----------------------------------------------------------------------------
(* A plan of one source *)

\* What a plan is made from: where the buckets of each tier begin.
Holdings == {f \in [NewTiers -> SUBSET Slots] :
               \A t \in NewTiers : \A b \in f[t] : Aligned(b, t)}

\* The bounds of the chunk of day d, and the reach of a tier inside it.
ChunkFrom(f, to, d) ==
    IF Span(f, to).from >= DayStart(d) THEN Span(f, to).from ELSE DayStart(d)
ChunkTo(f, to, d) ==
    IF Span(f, to).to <= DayStart(d + 1) THEN Span(f, to).to ELSE DayStart(d + 1)
Lo(f, t, from) == IF Window(f, t).from >= from THEN Window(f, t).from ELSE from
Hi(f, t, to) == IF Window(f, t).to <= to THEN Window(f, t).to ELSE to

\* Tier t may be read for a chunk.
UsableAt(f, t, from, end, isFirst, isLast) ==
    LET W == Window(f, t)
    IN  /\ f[t] # {}
        /\ Lo(f, t, from) < Hi(f, t, end)
        /\ \/ W.from <= from /\ W.to >= end
           \/ isFirst /\ W.to >= end
           \/ isLast /\ W.from <= from

\* Tier t may be read for the chunk of day d.
Usable(f, to, d, t) ==
    UsableAt(f, t, ChunkFrom(f, to, d), ChunkTo(f, to, d),
             ChunkFrom(f, to, d) = Span(f, to).from, DayStart(d + 1) >= Span(f, to).to)

\* Finer tiers come first.
Finer(t) == CASE t = "minute" -> {} [] t = "hourly" -> {"minute"}
              [] OTHER -> {"minute", "hourly"}

\* c is the chunk of day d.
IsChunk(f, to, d, c) ==
    /\ ChunkFrom(f, to, d) < ChunkTo(f, to, d)
    /\ \E t \in NewTiers :
         /\ Usable(f, to, d, t) /\ \A u \in Finer(t) : ~Usable(f, to, d, u)
         /\ c = [tier |-> t, start |-> Lo(f, t, ChunkFrom(f, to, d)),
                 end |-> Hi(f, t, ChunkTo(f, to, d))]

\* What a plan reads are buckets.
LEMMA Held ==
    ASSUME NEW f \in Holdings, NEW t \in NewTiers, NEW x \in f[t]
    PROVE  /\ x \in Nat /\ x \in Slots /\ Aligned(x, t) /\ t \in Relations
           /\ Width(t) \in Nat \ {0}
<1>1. x \in Slots /\ Aligned(x, t)
    BY DEF Holdings
<1>2. t \in Relations
    BY DEF NewTiers, Relations
<1>3. x \in Nat
    BY <1>1, Calendar DEF Slots
<1> QED
    BY <1>1, <1>2, <1>3, Widths

\* What a tier reaches over: from its first bucket to the end of its last.
LEMMA Reach ==
    ASSUME NEW f \in Holdings, NEW t \in NewTiers, f[t] # {}
    PROVE  /\ Window(f, t).from \in f[t] /\ Window(f, t).from \in Nat
           /\ \A b \in f[t] : Window(f, t).from <= b /\ b + Width(t) <= Window(f, t).to
           /\ Window(f, t).to \in Nat
           /\ \E b \in f[t] : Window(f, t).to = b + Width(t)
           /\ Window(f, t).from < Window(f, t).to
<1>1. f[t] \subseteq Slots /\ t \in Relations
    BY DEF Holdings, NewTiers, Relations
<1>2. \A b \in f[t] : b \in Nat /\ 0 <= b /\ b <= Horizon
    BY <1>1, Calendar DEF Slots
<1>3. Min(f[t]) \in f[t] /\ \A b \in f[t] : Min(f[t]) <= b
    BY <1>2, Least
<1>4. Max(f[t]) \in f[t] /\ \A b \in f[t] : b <= Max(f[t])
    <2>1. f[t] \in SUBSET Int /\ Horizon \in Int /\ \A b \in f[t] : b <= Horizon
        BY <1>2, Calendar
    <2> QED
        BY <2>1, Greatest
<1>5. Width(t) \in Nat \ {0}
    BY <1>1, Widths
<1>6. Window(f, t).from = Min(f[t]) /\ Window(f, t).to = Max(f[t]) + Width(t)
    BY DEF Window
<1> QED
    BY <1>2, <1>3, <1>4, <1>5, <1>6

\* The span of a plan: from the first bucket of all, to the end asked for or the
\* end of the last bucket of all.
LEMMA SpanIs ==
    ASSUME NEW f \in Holdings, NEW to \in 0..Horizon, \E t \in NewTiers : f[t] # {}
    PROVE  /\ Span(f, to).from \in Nat /\ Span(f, to).to \in Nat
           /\ \A t \in NewTiers : f[t] # {} => Span(f, to).from <= Window(f, t).from
           /\ \E t \in NewTiers : f[t] # {} /\ Span(f, to).from = Window(f, t).from
           /\ Span(f, to).to <= to
           /\ \/ Span(f, to).to = to
              \/ \A t \in NewTiers : f[t] # {} => Window(f, t).to <= Span(f, to).to
           /\ \E t \in NewTiers : f[t] # {} /\ Span(f, to).to <= Window(f, t).to
<1> DEFINE K == {t \in NewTiers : f[t] # {}}
           A == {Window(f, t).from : t \in K}
           B == {Window(f, t).to : t \in K}
<1>1. \A t \in K : Window(f, t).from \in Nat /\ Window(f, t).to \in Nat
    BY Reach
<1>2. K # {}
    OBVIOUS
<1>3. A \subseteq Nat /\ A # {}
    BY <1>1, <1>2
<1>4. Min(A) \in A /\ \A x \in A : Min(A) <= x
    <2> HIDE DEF A
    <2> QED
        BY <1>3, Least
<1>5. B \subseteq Nat /\ B # {}
    BY <1>1, <1>2
<1>6. \E u \in Nat : \A x \in B : x <= u
    <2>1. \A t \in K : Window(f, t).to <= Horizon + SlotsPerDay
        <3> SUFFICES ASSUME NEW t \in K PROVE Window(f, t).to <= Horizon + SlotsPerDay
            OBVIOUS
        <3>1. PICK b \in f[t] : Window(f, t).to = b + Width(t)
            BY Reach
        <3>2. b \in Nat /\ b <= Horizon /\ t \in Relations
            BY Calendar DEF Holdings, Slots, NewTiers, Relations
        <3> QED
            BY <3>1, <3>2, Widths, HoursOfDay, Calendar
    <2>2. Horizon + SlotsPerDay \in Nat
        BY Calendar, HoursOfDay
    <2>3. \A x \in B : x <= Horizon + SlotsPerDay
        BY <2>1
    <2> QED
        BY <2>2, <2>3
<1>7. Max(B) \in B /\ \A x \in B : x <= Max(B)
    <2> HIDE DEF B
    <2> QED
        BY <1>5, <1>6, Greatest
<1>8. DOMAIN f = NewTiers
    BY DEF Holdings
<1>9. Span(f, to).from = Min(A) /\ Span(f, to).to = Min({to, Max(B)})
    BY <1>8 DEF Span
<1>10. to \in Nat /\ Max(B) \in Nat
    BY <1>5, <1>7, Calendar
<1>11. Span(f, to).to = IF to <= Max(B) THEN to ELSE Max(B)
    <2> HIDE DEF B
    <2> QED
        BY <1>9, <1>10, OfTwo
<1>12. PICK t \in K : Max(B) = Window(f, t).to
    BY <1>7
<1>13. PICK u \in K : Min(A) = Window(f, u).from
    BY <1>4
<1>14. \A v \in K : Min(A) <= Window(f, v).from /\ Window(f, v).to <= Max(B)
    BY <1>4, <1>7
<1> HIDE DEF A, B
<1> QED
    BY <1>1, <1>9, <1>10, <1>11, <1>12, <1>13, <1>14

\* A tier whose reach meets a chunk only where it may be read.
LEMMA Reaches ==
    ASSUME NEW f \in Holdings, NEW t \in NewTiers, f[t] # {}, NEW x \in Nat
    PROVE  /\ Max({Window(f, t).from, x}) = Lo(f, t, x) /\ Lo(f, t, x) \in Nat
           /\ Min({Window(f, t).to, x}) = Hi(f, t, x) /\ Hi(f, t, x) \in Nat
<1>1. Window(f, t).from \in Int /\ Window(f, t).to \in Int
    BY Reach
<1>2. /\ Max({Window(f, t).from, x}) = IF Window(f, t).from >= x THEN Window(f, t).from ELSE x
      /\ Min({Window(f, t).to, x}) = IF Window(f, t).to <= x THEN Window(f, t).to ELSE x
    <2> DEFINE a == Window(f, t).from
               b == Window(f, t).to
    <2>1. a \in Int /\ b \in Int /\ x \in Int
        BY <1>1
    <2> HIDE DEF a, b
    <2>2. Max({a, x}) = IF a >= x THEN a ELSE x
        BY <2>1, OfTwo
    <2>3. Min({b, x}) = IF b <= x THEN b ELSE x
        BY <2>1, OfTwo
    <2> QED
        BY <2>2, <2>3 DEF a, b
<1> QED
    BY <1>1, <1>2, Reach DEF Lo, Hi

\* planOneChunk() takes the finest tier that may be read.
LEMMA OneChunk ==
    ASSUME NEW f \in Holdings, NEW from \in Nat, NEW end \in Nat, from < end,
           NEW isFirst \in BOOLEAN, NEW isLast \in BOOLEAN, NEW c
    PROVE  c \in PlanOneChunk(f, [from |-> from, to |-> end], isFirst, isLast) <=>
             \E t \in NewTiers :
               /\ UsableAt(f, t, from, end, isFirst, isLast)
               /\ \A u \in Finer(t) : ~UsableAt(f, u, from, end, isFirst, isLast)
               /\ c = [tier |-> t, start |-> Lo(f, t, from), end |-> Hi(f, t, end)]
<1> DEFINE W(i) == Window(f, Tiers[i])
           Start(i) == Max({W(i).from, from})
           End(i) == Min({W(i).to, end})
           Covering(i) == W(i).from <= from /\ W(i).to >= end
           AtEdge(i) == /\ Start(i) < End(i)
                        /\ \/ Covering(i)
                           \/ isFirst /\ W(i).to >= end
                           \/ isLast /\ W(i).from <= from
           U == {i \in {j \in 1..3 : f[Tiers[j]] # {}} :
                   IF isFirst \/ isLast THEN AtEdge(i) ELSE Covering(i)}
           C(t) == [tier |-> t, start |-> Lo(f, t, from), end |-> Hi(f, t, end)]
           Fit(t) == UsableAt(f, t, from, end, isFirst, isLast)
<1>1. /\ Tiers[1] = "minute" /\ Tiers[2] = "hourly" /\ Tiers[3] = "daily"
      /\ \A i \in 1..3 : Tiers[i] \in NewTiers
    BY DEF Tiers, NewTiers
<1>2. ASSUME NEW i \in 1..3, f[Tiers[i]] # {}
      PROVE  /\ Start(i) = Lo(f, Tiers[i], from) /\ End(i) = Hi(f, Tiers[i], end)
             /\ W(i).from \in Nat /\ W(i).to \in Nat
    BY <1>1, <1>2, Reaches, Reach
<1>3. ASSUME NEW i \in 1..3 PROVE i \in U <=> Fit(Tiers[i])
    <2>1. CASE f[Tiers[i]] = {}
        BY <2>1 DEF UsableAt
    <2>2. CASE f[Tiers[i]] # {}
        <3> DEFINE T == Tiers[i]
        <3>1. T \in NewTiers /\ f[T] # {} /\ Window(f, T).from \in Nat /\ Window(f, T).to \in Nat
            BY <1>1, <1>2, <2>2
        <3>2. Covering(i) => Lo(f, T, from) < Hi(f, T, end)
            BY <3>1 DEF Lo, Hi
        <3>3. Start(i) = Lo(f, T, from) /\ End(i) = Hi(f, T, end)
            BY <1>2, <2>2
        <3>4. i \in U <=> IF isFirst \/ isLast THEN AtEdge(i) ELSE Covering(i)
            BY <2>2
        <3> HIDE DEF T, Start, End
        <3> QED
            BY <3>1, <3>2, <3>3, <3>4 DEF UsableAt, T
    <2> QED
        BY <2>1, <2>2
<1>4. c \in PlanOneChunk(f, [from |-> from, to |-> end], isFirst, isLast) <=>
        \E i \in IF U = {} THEN {} ELSE {Min(U)} :
          c = [tier |-> Tiers[i], start |-> Start(i), end |-> End(i)]
    BY DEF PlanOneChunk
<1>5. U # {} => Min(U) \in U /\ \A i \in U : Min(U) <= i
    <2>1. U \in SUBSET Int /\ \A i \in U : 0 <= i
        OBVIOUS
    <2> HIDE DEF U
    <2>2. ASSUME U # {} PROVE Min(U) \in U /\ \A i \in U : Min(U) <= i
        <3>1. 0 \in Int
            OBVIOUS
        <3> QED
            BY <2>1, <2>2, <3>1, Least
    <2> QED
        BY <2>2
<1>6. U \subseteq 1..3 /\ \A i \in U : f[Tiers[i]] # {}
    OBVIOUS
<1>7. c \in PlanOneChunk(f, [from |-> from, to |-> end], isFirst, isLast) <=>
        \E i \in U : (\A j \in U : i <= j) /\ c = C(Tiers[i])
    <2> HIDE DEF U
    <2>1. ASSUME NEW i \in U PROVE [tier |-> Tiers[i], start |-> Start(i), end |-> End(i)] = C(Tiers[i])
        BY <1>2, <1>6
    <2> HIDE DEF C, Start, End
    <2>2. ASSUME NEW i \in U, \A j \in U : i <= j PROVE i = Min(U)
        <3>1. Min(U) \in U /\ Min(U) <= i /\ i <= Min(U)
            BY <1>5, <2>2
        <3>2. Min(U) \in 1..3 /\ i \in 1..3
            BY <1>6, <3>1
        <3> QED
            BY <3>1, <3>2
    <2> QED
        BY <1>4, <1>5, <2>1, <2>2
<1>8. \A i \in U : (\A j \in U : i <= j) <=> \A u \in Finer(Tiers[i]) : ~Fit(u)
    <2> HIDE DEF U, Fit
    <2> SUFFICES ASSUME NEW i \in U
                 PROVE (\A j \in U : i <= j) <=> \A u \in Finer(Tiers[i]) : ~Fit(u)
        OBVIOUS
    <2>1. (1 \in U <=> Fit("minute")) /\ (2 \in U <=> Fit("hourly"))
        BY <1>1, <1>3
    <2>2. i = 1 \/ i = 2 \/ i = 3
        BY <1>6
    <2>3. CASE i = 1
        <3>1. Finer(Tiers[i]) = {}
            BY <1>1, <2>3 DEF Finer
        <3>2. \A j \in U : i <= j
            BY <1>6, <2>3
        <3> QED
            BY <3>1, <3>2
    <2>4. CASE i = 2
        <3>1. Finer(Tiers[i]) = {"minute"}
            BY <1>1, <2>4 DEF Finer
        <3>2. (\A j \in U : i <= j) <=> 1 \notin U
            BY <1>6, <2>4
        <3> QED
            BY <2>1, <3>1, <3>2
    <2>5. CASE i = 3
        <3>1. Finer(Tiers[i]) = {"minute", "hourly"}
            BY <1>1, <2>5 DEF Finer
        <3>2. (\A j \in U : i <= j) <=> 1 \notin U /\ 2 \notin U
            BY <1>6, <2>5
        <3> QED
            BY <2>1, <3>1, <3>2
    <2> QED
        BY <2>2, <2>3, <2>4, <2>5
<1>9. \A t \in NewTiers : \E i \in 1..3 : t = Tiers[i]
    BY <1>1 DEF NewTiers
<1> HIDE DEF U, C, Fit
<1>10. c \in PlanOneChunk(f, [from |-> from, to |-> end], isFirst, isLast) <=>
        \E t \in NewTiers : Fit(t) /\ (\A u \in Finer(t) : ~Fit(u)) /\ c = C(t)
    BY <1>1, <1>3, <1>6, <1>7, <1>8, <1>9
<1> QED
    BY <1>10 DEF Fit, C

\* planReplay() is a chunk for each day the span meets.
LEMMA PlanIs ==
    ASSUME NEW f \in Holdings, NEW to \in 0..Horizon, \E t \in NewTiers : f[t] # {}, NEW c
    PROVE  c \in PlanReplay(f, to) <=> \E d \in 0..(Days - 1) : IsChunk(f, to, d, c)
<1> DEFINE span == Span(f, to)
           start(d) == Max({span.from, DayStart(d)})
           end(d) == Min({span.to, DayStart(d + 1)})
           E(d) == IF start(d) >= end(d) THEN {}
                   ELSE PlanOneChunk(f, [from |-> start(d), to |-> end(d)],
                                     start(d) = span.from, DayStart(d + 1) >= span.to)
<1>1. DOMAIN f = NewTiers
    BY DEF Holdings
<1>2. PlanReplay(f, to) = UNION {E(d) : d \in 0..(Days - 1)}
    BY <1>1 DEF PlanReplay
<1>3. span.from \in Nat /\ span.to \in Nat
    BY SpanIs
<1>4. ASSUME NEW d \in 0..(Days - 1) PROVE c \in E(d) <=> IsChunk(f, to, d, c)
    <2>1. d \in Nat /\ d + 1 \in Nat /\ DayStart(d) \in Nat /\ DayStart(d + 1) \in Nat
        BY Calendar
    <2>2. start(d) = ChunkFrom(f, to, d) /\ start(d) \in Nat
        <3>1. start(d) = IF span.from >= DayStart(d) THEN span.from ELSE DayStart(d)
            <4>1. span.from \in Int /\ DayStart(d) \in Int
                BY <1>3, <2>1
            <4> HIDE DEF span
            <4> QED
                BY <4>1, OfTwo
        <3> QED
            BY <1>3, <2>1, <3>1 DEF ChunkFrom
    <2>3. end(d) = ChunkTo(f, to, d) /\ end(d) \in Nat
        <3>1. end(d) = IF span.to <= DayStart(d + 1) THEN span.to ELSE DayStart(d + 1)
            BY <1>3, <2>1, OfTwo
        <3> QED
            BY <1>3, <2>1, <3>1 DEF ChunkTo
    <2> DEFINE x == start(d)
               y == end(d)
               isFirst == x = span.from
               isLast == DayStart(d + 1) >= span.to
    <2>4. x < y => (c \in E(d) <=> c \in PlanOneChunk(f, [from |-> x, to |-> y], isFirst, isLast))
        BY <2>2, <2>3
    <2>5. ~(x < y) => E(d) = {}
        BY <2>2, <2>3
    <2>6. isFirst \in BOOLEAN /\ isLast \in BOOLEAN
        OBVIOUS
    <2> HIDE DEF x, y, isFirst, isLast, E
    <2>7. x \in Nat /\ y \in Nat
        BY <2>2, <2>3 DEF x, y
    <2>8. x < y => (c \in PlanOneChunk(f, [from |-> x, to |-> y], isFirst, isLast) <=>
             \E t \in NewTiers :
               /\ UsableAt(f, t, x, y, isFirst, isLast)
               /\ \A u \in Finer(t) : ~UsableAt(f, u, x, y, isFirst, isLast)
               /\ c = [tier |-> t, start |-> Lo(f, t, x), end |-> Hi(f, t, y)])
        BY <2>6, <2>7, OneChunk
    <2>9. x = ChunkFrom(f, to, d) /\ y = ChunkTo(f, to, d)
        BY <2>2, <2>3 DEF x, y
    <2>10. \A t : UsableAt(f, t, x, y, isFirst, isLast) <=> Usable(f, to, d, t)
        BY <2>9 DEF Usable, isFirst, isLast
    <2> QED
        BY <2>4, <2>5, <2>8, <2>9, <2>10 DEF IsChunk
<1> HIDE DEF E
<1> QED
    BY <1>2, <1>4

\* A chunk lies in its day, ends where the plan does at the latest, and takes
\* every bucket of its tier that begins in its day and in the span.
LEMMA ChunkShape ==
    ASSUME NEW f \in Holdings, NEW to \in 0..Horizon, \E t \in NewTiers : f[t] # {},
           NEW d \in 0..(Days - 1), NEW c, IsChunk(f, to, d, c)
    PROVE  /\ c.tier \in NewTiers /\ f[c.tier] # {} /\ Usable(f, to, d, c.tier)
           /\ c.start \in Nat /\ c.end \in Nat /\ DayStart(d) <= c.start /\ c.start < c.end
           /\ c.end <= DayStart(d + 1) /\ c.end <= to
           /\ \A x \in f[c.tier] : InDay(x, d) /\ x < ChunkTo(f, to, d) =>
                c.start <= x /\ x < c.end
<1> DEFINE from == ChunkFrom(f, to, d)
           end == ChunkTo(f, to, d)
<1>1. PICK t \in NewTiers :
        /\ Usable(f, to, d, t) /\ \A u \in Finer(t) : ~Usable(f, to, d, u)
        /\ c = [tier |-> t, start |-> Lo(f, t, from), end |-> Hi(f, t, end)]
    BY DEF IsChunk
<1>2. c.tier = t /\ c.start = Lo(f, t, from) /\ c.end = Hi(f, t, end)
    BY <1>1
<1>3. f[t] # {} /\ Lo(f, t, from) < Hi(f, t, end)
    BY <1>1 DEF Usable, UsableAt
<1>4. d \in Nat /\ d + 1 \in Nat /\ DayStart(d) \in Nat /\ DayStart(d + 1) \in Nat
    BY Calendar
<1>5. /\ from \in Nat /\ end \in Nat /\ DayStart(d) <= from /\ end <= DayStart(d + 1)
      /\ end <= to /\ Span(f, to).from <= Window(f, t).from
      /\ from = Span(f, to).from \/ from = DayStart(d)
    BY <1>3, <1>4, SpanIs DEF ChunkFrom, ChunkTo
<1> HIDE DEF from, end
<1>6. /\ Lo(f, t, from) \in Nat /\ Hi(f, t, end) \in Nat
      /\ from <= Lo(f, t, from) /\ Hi(f, t, end) <= end
    BY <1>3, <1>5, Reach DEF Lo, Hi
<1>7. \A x \in f[t] : /\ x \in Nat /\ Window(f, t).from <= x /\ x < Window(f, t).to
                      /\ Window(f, t).from \in Nat /\ Window(f, t).to \in Nat
    <2> SUFFICES ASSUME NEW x \in f[t]
                 PROVE  /\ x \in Nat /\ Window(f, t).from <= x /\ x < Window(f, t).to
                        /\ Window(f, t).from \in Nat /\ Window(f, t).to \in Nat
        OBVIOUS
    <2>1. x \in Nat /\ Width(t) \in Nat \ {0}
        BY Held
    <2>2. /\ Window(f, t).from <= x /\ x + Width(t) <= Window(f, t).to
          /\ Window(f, t).from \in Nat /\ Window(f, t).to \in Nat
        BY <1>3, Reach
    <2> QED
        BY <2>1, <2>2
<1>8. ASSUME NEW x \in f[t], InDay(x, d), x < end
      PROVE  Lo(f, t, from) <= x /\ x < Hi(f, t, end)
    <2>1. from <= x
        BY <1>5, <1>7, <1>8, SpanIs DEF InDay
    <2> QED
        BY <1>5, <1>7, <1>8, <2>1 DEF Lo, Hi
<1>9. \A x \in f[t] : InDay(x, d) /\ x < end => Lo(f, t, from) <= x /\ x < Hi(f, t, end)
    BY <1>8
<1>10. to \in Nat
    BY Calendar
<1> QED
    BY <1>1, <1>2, <1>3, <1>4, <1>5, <1>6, <1>9, <1>10 DEF end

\* A day has one chunk.
LEMMA OneADay ==
    ASSUME NEW f \in Holdings, NEW to, NEW d, NEW c, NEW e,
           IsChunk(f, to, d, c), IsChunk(f, to, d, e)
    PROVE  c = e
<1>1. PICK t \in NewTiers :
        /\ Usable(f, to, d, t) /\ \A u \in Finer(t) : ~Usable(f, to, d, u)
        /\ c = [tier |-> t, start |-> Lo(f, t, ChunkFrom(f, to, d)),
                end |-> Hi(f, t, ChunkTo(f, to, d))]
    BY DEF IsChunk
<1>2. PICK s \in NewTiers :
        /\ Usable(f, to, d, s) /\ \A u \in Finer(s) : ~Usable(f, to, d, u)
        /\ e = [tier |-> s, start |-> Lo(f, s, ChunkFrom(f, to, d)),
                end |-> Hi(f, s, ChunkTo(f, to, d))]
    BY DEF IsChunk
<1>3. t \in Finer(s) \/ s \in Finer(t) \/ s = t
    BY DEF Finer, NewTiers
<1> QED
    BY <1>1, <1>2, <1>3

\* Two chunks of a plan have no slot in common.
LEMMA ChunksApart ==
    ASSUME NEW f \in Holdings, NEW to \in 0..Horizon, \E t \in NewTiers : f[t] # {},
           NEW c \in PlanReplay(f, to), NEW e \in PlanReplay(f, to),
           NEW x \in Nat, c.start <= x, x < c.end, e.start <= x, x < e.end
    PROVE  c = e
<1>1. PICK d \in 0..(Days - 1) : IsChunk(f, to, d, c)
    BY PlanIs
<1>2. PICK g \in 0..(Days - 1) : IsChunk(f, to, g, e)
    BY PlanIs
<1>3. /\ c.start \in Nat /\ c.end \in Nat /\ DayStart(d) <= c.start
      /\ c.end <= DayStart(d + 1) /\ c.end <= to
    BY <1>1, ChunkShape
<1>4. /\ e.start \in Nat /\ e.end \in Nat /\ DayStart(g) <= e.start
      /\ e.end <= DayStart(g + 1)
    BY <1>2, ChunkShape
<1>5. d \in Nat /\ g \in Nat /\ DayStart(d) \in Nat /\ DayStart(g) \in Nat
        /\ DayStart(d + 1) \in Nat /\ DayStart(g + 1) \in Nat /\ to \in Nat /\ to <= Horizon
    BY Calendar
<1>6. InDay(x, d) /\ InDay(x, g) /\ x \in Slots
    BY <1>3, <1>4, <1>5, Calendar DEF InDay, Slots
<1>7. d = g
    BY <1>5, <1>6, DayOfSlot
<1> QED
    BY <1>1, <1>2, <1>7, OneADay

\* A plan has buckets to read, and its chunks are slots of the days.
LEMMA PlanShape ==
    ASSUME NEW f \in Holdings, NEW to \in 0..Horizon, NEW c \in PlanReplay(f, to)
    PROVE  /\ \E t \in NewTiers : f[t] # {}
           /\ c.tier \in NewTiers /\ c.start \in Nat /\ c.end \in Nat /\ c.start < c.end
           /\ c.end <= to
           /\ \A e \in PlanReplay(f, to) : e.start = c.start => e = c
           /\ \E d \in 0..(Days - 1) : IsChunk(f, to, d, c)
<1>1. \E t \in NewTiers : f[t] # {}
    <2>1. DOMAIN f = NewTiers
        BY DEF Holdings
    <2> QED
        BY <2>1 DEF PlanReplay
<1>2. PICK d \in 0..(Days - 1) : IsChunk(f, to, d, c)
    BY <1>1, PlanIs
<1>3. /\ c.tier \in NewTiers /\ c.start \in Nat /\ c.end \in Nat /\ c.start < c.end
      /\ c.end <= to
    BY <1>1, <1>2, ChunkShape
<1>4. ASSUME NEW e \in PlanReplay(f, to), e.start = c.start PROVE e = c
    <2>1. PICK g \in 0..(Days - 1) : IsChunk(f, to, g, e)
        BY <1>1, PlanIs
    <2>2. e.start \in Nat /\ e.end \in Nat /\ e.start < e.end
        BY <1>1, <2>1, ChunkShape
    <2>3. e.start <= c.start /\ c.start < e.end /\ c.start <= c.start
        BY <1>3, <1>4, <2>2
    <2> QED
        BY <1>1, <1>3, <2>3, ChunksApart
<1> QED
    BY <1>1, <1>2, <1>3, <1>4

-----------------------------------------------------------------------------
(* The plans of a history *)

\* What 1.2.0 left are slots, and buckets that begin where buckets do.
LEMMA HistoryIs ==
    ASSUME NEW h \in Histories
    PROVE  /\ h.raw \subseteq Slots
           /\ \A id \in Ids : /\ \A b \in h.minute[id] : Aligned(b, "minute")
                              /\ \A b \in h.hourly[id] : Aligned(b, "hourly")
                              /\ \A b \in h.daily[id] : Aligned(b, "daily")
<1>1. h \in [raw : SUBSET Slots, inside : BOOLEAN, minute : [Ids -> SUBSET Slots],
             hourly : [Ids -> SUBSET {s \in Slots : s % SlotsPerHour = 0}],
             daily : [Ids -> SUBSET {s \in Slots : s % SlotsPerDay = 0}]]
    BY HistoriesAssumption
<1>2. h.raw \subseteq Slots
    BY <1>1
<1>3. ASSUME NEW id \in Ids
      PROVE  /\ \A b \in h.minute[id] : b \in Slots
             /\ \A b \in h.hourly[id] : b \in Slots /\ b % SlotsPerHour = 0
             /\ \A b \in h.daily[id] : b \in Slots /\ b % SlotsPerDay = 0
    BY <1>1
<1>4. \A b \in Slots : b % 1 = 0
    BY Calendar DEF Slots
<1> QED
    BY <1>2, <1>3, <1>4, Widths DEF Aligned

\* The raw window begins with the first sample, or where the history ends.
LEMMA RawBegins ==
    ASSUME NEW h \in Histories
    PROVE  /\ ReplayEnd(h) \in 0..Horizon
           /\ h.raw # {} => /\ Min(h.raw) \in Nat /\ \A x \in h.raw : x \in Nat /\ Min(h.raw) <= x
                            /\ ReplayEnd(h) <= Min(h.raw) + 1
<1>1. CASE h.raw = {}
    BY <1>1, Calendar DEF ReplayEnd
<1>2. CASE h.raw # {}
    <2>1. \A x \in h.raw : x \in Nat /\ x < Horizon /\ 0 <= x
        BY HistoryIs, Calendar DEF Slots
    <2>2. h.raw \in SUBSET Int /\ 0 \in Int
        BY <2>1
    <2>3. Min(h.raw) \in h.raw /\ \A x \in h.raw : Min(h.raw) <= x
        BY <1>2, <2>1, <2>2, Least
    <2>4. ReplayEnd(h) = Min(h.raw) + IF h.inside THEN 1 ELSE 0
        BY <1>2 DEF ReplayEnd
    <2> QED
        BY <1>2, <2>1, <2>3, <2>4, Calendar
<1> QED
    BY <1>1, <1>2

\* The two plans read holdings.
LEMMA CarryReads ==
    ASSUME NEW h \in Histories
    PROVE  /\ CarryHolds(h) \in Holdings /\ CarryHolds(h)["minute"] = h.raw
           /\ CarryHolds(h)["hourly"] = {} /\ CarryHolds(h)["daily"] = {}
           /\ CarryPlan[h] = PlanReplay(CarryHolds(h), Horizon)
           /\ Horizon \in 0..Horizon
<1>1. /\ CarryHolds(h) \in [NewTiers -> SUBSET Slots] /\ CarryHolds(h)["minute"] = h.raw
      /\ CarryHolds(h)["hourly"] = {} /\ CarryHolds(h)["daily"] = {}
    BY HistoryIs DEF CarryHolds, NewTiers
<1>2. \A b \in h.raw : Aligned(b, "minute")
    <2>1. \A b \in Slots : b % 1 = 0
        BY Calendar DEF Slots
    <2> QED
        BY <2>1, HistoryIs, Widths DEF Aligned
<1>3. CarryHolds(h) \in Holdings
    BY <1>1, <1>2 DEF Holdings, NewTiers
<1> QED
    BY <1>1, <1>3, Calendar DEF CarryPlan

\* A source's plan reads its own three tiers.
LEMMA BucketReads ==
    ASSUME NEW h \in Histories, NEW id \in Ids
    PROVE  /\ BucketHolds(h, id) \in Holdings
           /\ BucketHolds(h, id)["minute"] = h.minute[id]
           /\ BucketHolds(h, id)["hourly"] = h.hourly[id]
           /\ BucketHolds(h, id)["daily"] = h.daily[id]
           /\ \A t \in NewTiers : BucketHolds(h, id)[t] = h[t][id]
           /\ BucketPlan[h][id] = PlanReplay(BucketHolds(h, id), ReplayEnd(h))
<1>1. /\ BucketHolds(h, id)["minute"] = h.minute[id]
      /\ BucketHolds(h, id)["hourly"] = h.hourly[id]
      /\ BucketHolds(h, id)["daily"] = h.daily[id]
      /\ \A t \in NewTiers : BucketHolds(h, id)[t] = h[t][id]
    BY DEF BucketHolds, NewTiers
<1>2. \A t \in NewTiers : \A b \in BucketHolds(h, id)[t] : Aligned(b, t)
    BY <1>1, HistoryIs DEF NewTiers
<1>3. \A t \in NewTiers : BucketHolds(h, id)[t] \in SUBSET Slots
    BY <1>2 DEF Aligned
<1>4. BucketHolds(h, id) \in [NewTiers -> SUBSET Slots]
    BY <1>3 DEF BucketHolds
<1>5. BucketHolds(h, id) \in Holdings
    BY <1>2, <1>4 DEF Holdings
<1> QED
    BY <1>1, <1>5 DEF BucketPlan

\* A daily bucket begins a day.
LEMMA DayBegins ==
    ASSUME NEW e, Aligned(e, "daily")
    PROVE  \E k \in 0..(Days - 1) : e = DayStart(k) /\ InDay(e, k) /\ DayStart(k + 1) = e + SlotsPerDay
<1>1. e \in Slots /\ e % SlotsPerDay = 0 /\ SlotsPerDay \in Nat \ {0}
    BY Widths, HoursOfDay DEF Aligned
<1>2. PICK k \in 0..(Days - 1) : InDay(e, k)
    BY <1>1, DayOfSlot
<1>3. k \in Nat /\ e \in Nat /\ DayStart(k) = k * SlotsPerDay /\ DayStart(k + 1) = k * SlotsPerDay + SlotsPerDay
    BY <1>1, Calendar DEF Slots, DayStart
<1>4. PICK j \in Int : e = j * SlotsPerDay
    <2>1. e \div SlotsPerDay \in Int /\ e = (e \div SlotsPerDay) * SlotsPerDay
        BY <1>1, <1>3, NoRemainder
    <2> QED
        BY <2>1
<1>5. DayStart(k) \in Nat /\ DayStart(k + 1) = DayStart(k) + SlotsPerDay /\ ~(DayStart(k) < e)
    <2>1. DayStart(k) \in Nat /\ DayStart(k + 1) = DayStart(k) + SlotsPerDay
        BY <1>3, Calendar
    <2>2. ASSUME DayStart(k) < e PROVE FALSE
        <3>1. k \in Int /\ k * SlotsPerDay < j * SlotsPerDay
            BY <1>3, <1>4, <2>2
        <3>2. k * SlotsPerDay + SlotsPerDay <= j * SlotsPerDay
            BY <1>1, <3>1, Multiples
        <3>3. DayStart(k) + SlotsPerDay <= e
            BY <1>3, <1>4, <3>2
        <3> QED
            BY <1>1, <1>2, <1>3, <2>1, <3>3 DEF InDay
    <2> QED
        BY <2>1, <2>2
<1>6. e = DayStart(k)
    <2>1. DayStart(k) <= e /\ e \in Nat
        BY <1>2, <1>3 DEF InDay
    <2> QED
        BY <1>5, <2>1
<1> QED
    BY <1>2, <1>5, <1>6

\* Each bucket lies in a bucket of every coarser tier.
LEMMA Above ==
    ASSUME NEW h \in Histories, NEW id \in Ids
    PROVE  /\ \A m \in h.minute[id] : \E b \in h.hourly[id] : b <= m /\ m + 1 <= b + SlotsPerHour
           /\ \A b \in h.hourly[id] : \E e \in h.daily[id] : e <= b /\ b + SlotsPerHour <= e + SlotsPerDay
           /\ \A m \in h.minute[id] : \E e \in h.daily[id] : e <= m /\ m + 1 <= e + SlotsPerDay
<1>1. TiersAgree(h.minute[id], h.hourly[id], h.daily[id])
    BY TiersAssumption
<1>2. /\ SlotsPerHour \in Nat \ {0} /\ SlotsPerDay \in Nat \ {0}
      /\ \A b \in h.minute[id] \union h.hourly[id] \union h.daily[id] : b \in Nat
    BY HoursOfDay, HistoryIs, Calendar DEF Aligned, Slots
<1>3. ASSUME NEW m \in h.minute[id] PROVE \E b \in h.hourly[id] : b <= m /\ m + 1 <= b + SlotsPerHour
    <2>1. PICK b \in h.hourly[id] : m \in HourOf(b)
        BY <1>1 DEF TiersAgree
    <2> QED
        BY <1>2, <2>1 DEF HourOf
<1>4. ASSUME NEW b \in h.hourly[id]
      PROVE  \E e \in h.daily[id] : e <= b /\ b + SlotsPerHour <= e + SlotsPerDay
    <2>1. PICK e \in h.daily[id] : b \in DayOf(e)
        BY <1>1 DEF TiersAgree
    <2>2. Aligned(e, "daily") /\ Aligned(b, "hourly") /\ "hourly" \in Relations
        BY HistoryIs DEF Relations
    <2>3. PICK k \in 0..(Days - 1) : e = DayStart(k) /\ DayStart(k + 1) = e + SlotsPerDay
        BY <2>2, DayBegins
    <2>4. e <= b /\ b < e + SlotsPerDay
        BY <1>2, <2>1 DEF DayOf
    <2>5. k \in Nat /\ InDay(b, k)
        BY <2>3, <2>4, Calendar DEF InDay
    <2>6. b + Width("hourly") <= DayStart(k + 1)
        BY <2>2, <2>5, BucketInDay
    <2> QED
        BY <2>3, <2>4, <2>6, Widths
<1>5. ASSUME NEW m \in h.minute[id]
      PROVE  \E e \in h.daily[id] : e <= m /\ m + 1 <= e + SlotsPerDay
    <2>1. PICK b \in h.hourly[id] : b <= m /\ m + 1 <= b + SlotsPerHour
        BY <1>3
    <2>2. PICK e \in h.daily[id] : e <= b /\ b + SlotsPerHour <= e + SlotsPerDay
        BY <1>4
    <2>3. m \in Nat /\ b \in Nat /\ e \in Nat
        BY <1>2
    <2> QED
        BY <1>2, <2>1, <2>2, <2>3
<1> QED
    BY <1>3, <1>4, <1>5

\* The daily tier reaches as far as any: a plan's span is its, up to where the
\* raw window begins.
LEMMA DailyReaches ==
    ASSUME NEW h \in Histories, NEW id \in Ids, NEW f, f = BucketHolds(h, id),
           \E t \in NewTiers : f[t] # {}
    PROVE  /\ f["daily"] # {}
           /\ \A t \in NewTiers : f[t] # {} =>
                /\ Window(f, "daily").from <= Window(f, t).from
                /\ Window(f, t).to <= Window(f, "daily").to
           /\ Span(f, ReplayEnd(h)).from = Window(f, "daily").from
           /\ Span(f, ReplayEnd(h)).to <= Window(f, "daily").to
           /\ \/ Span(f, ReplayEnd(h)).to = ReplayEnd(h)
              \/ Span(f, ReplayEnd(h)).to = Window(f, "daily").to
<1>1. /\ f \in Holdings /\ f["minute"] = h.minute[id] /\ f["hourly"] = h.hourly[id]
      /\ f["daily"] = h.daily[id] /\ "daily" \in NewTiers
    BY BucketReads DEF NewTiers
<1>2. ASSUME NEW t \in NewTiers, NEW x \in f[t]
      PROVE  \E e \in f["daily"] : e <= x /\ x + Width(t) <= e + Width("daily")
    <2>1. x \in Nat
        BY <1>1, Held
    <2>2. CASE t = "minute"
        BY <1>1, <1>2, <2>2, Above, Widths
    <2>3. CASE t = "hourly"
        BY <1>1, <1>2, <2>3, Above, Widths
    <2>4. CASE t = "daily"
        BY <1>1, <1>2, <2>1, <2>4, Widths, HoursOfDay
    <2> QED
        BY <2>2, <2>3, <2>4 DEF NewTiers
<1>3. f["daily"] # {}
    BY <1>2
<1>4. ASSUME NEW t \in NewTiers, f[t] # {}
      PROVE  /\ Window(f, "daily").from <= Window(f, t).from
             /\ Window(f, t).to <= Window(f, "daily").to
             /\ Window(f, t).from \in Nat /\ Window(f, t).to \in Nat
    <2>1. Window(f, t).from \in f[t] /\ Window(f, t).from \in Nat /\ Window(f, t).to \in Nat
        BY <1>1, <1>4, Reach
    <2>2. PICK b \in f[t] : Window(f, t).to = b + Width(t)
        BY <1>1, <1>4, Reach
    <2>3. /\ \A e \in f["daily"] : /\ Window(f, "daily").from <= e
                                   /\ e + Width("daily") <= Window(f, "daily").to
          /\ Window(f, "daily").from \in Nat /\ Window(f, "daily").to \in Nat
        BY <1>1, <1>3, Reach
    <2>4. PICK e \in f["daily"] : e <= Window(f, t).from
        BY <1>2, <2>1
    <2>5. PICK g \in f["daily"] : b + Width(t) <= g + Width("daily")
        BY <1>2, <2>2
    <2>6. e \in Nat /\ g \in Nat /\ b \in Nat /\ Width(t) \in Nat /\ Width("daily") \in Nat
        BY <1>1, <2>2, <2>4, <2>5, Held
    <2>7. Window(f, "daily").from <= e /\ g + Width("daily") <= Window(f, "daily").to
        BY <2>3
    <2> QED
        BY <2>1, <2>2, <2>3, <2>4, <2>5, <2>6, <2>7
<1>5. ReplayEnd(h) \in 0..Horizon /\ ReplayEnd(h) \in Nat
    BY RawBegins, Calendar
<1> DEFINE S == Span(f, ReplayEnd(h))
<1>6. /\ S.from \in Nat /\ S.to \in Nat
      /\ \A t \in NewTiers : f[t] # {} => S.from <= Window(f, t).from
      /\ \E t \in NewTiers : f[t] # {} /\ S.from = Window(f, t).from
      /\ S.to <= ReplayEnd(h)
      /\ \/ S.to = ReplayEnd(h)
         \/ \A t \in NewTiers : f[t] # {} => Window(f, t).to <= S.to
      /\ \E t \in NewTiers : f[t] # {} /\ S.to <= Window(f, t).to
    BY <1>1, <1>5, SpanIs
<1> HIDE DEF S
<1>7. Window(f, "daily").from \in Nat /\ Window(f, "daily").to \in Nat
    BY <1>1, <1>3, <1>4
<1>8. S.from = Window(f, "daily").from
    <2>1. S.from <= Window(f, "daily").from
        BY <1>1, <1>3, <1>6
    <2>2. PICK t \in NewTiers : f[t] # {} /\ S.from = Window(f, t).from
        BY <1>6
    <2>3. Window(f, "daily").from <= S.from
        BY <1>4, <2>2
    <2> QED
        BY <1>6, <1>7, <2>1, <2>3
<1>9. S.to <= Window(f, "daily").to
    <2>1. PICK t \in NewTiers : f[t] # {} /\ S.to <= Window(f, t).to
        BY <1>6
    <2>2. Window(f, t).to <= Window(f, "daily").to /\ Window(f, t).to \in Nat
        BY <1>4, <2>1
    <2> QED
        BY <1>6, <1>7, <2>1, <2>2
<1>10. S.to = ReplayEnd(h) \/ S.to = Window(f, "daily").to
    BY <1>1, <1>3, <1>6, <1>7, <1>9
<1> QED
    BY <1>3, <1>4, <1>8, <1>9, <1>10 DEF S

\* Where one tier reaches over the whole span, every slot of it has a chunk.
LEMMA DayHasChunk ==
    ASSUME NEW f \in Holdings, NEW to \in 0..Horizon, NEW v \in NewTiers, f[v] # {},
           Window(f, v).from <= Span(f, to).from, Span(f, to).to <= Window(f, v).to,
           NEW x \in Slots, Span(f, to).from <= x, x < Span(f, to).to
    PROVE  \E d \in 0..(Days - 1), c \in PlanReplay(f, to) :
             IsChunk(f, to, d, c) /\ InDay(x, d) /\ x < ChunkTo(f, to, d)
<1>1. PICK d \in 0..(Days - 1) : InDay(x, d)
    BY DayOfSlot
<1>2. /\ d \in Nat /\ d + 1 \in Nat /\ DayStart(d) \in Nat /\ DayStart(d + 1) \in Nat
      /\ Span(f, to).from \in Nat /\ Span(f, to).to \in Nat
      /\ Window(f, v).from \in Nat /\ Window(f, v).to \in Nat /\ x \in Nat
    BY Calendar, SpanIs, Reach DEF Slots
<1> DEFINE from == ChunkFrom(f, to, d)
           end == ChunkTo(f, to, d)
<1>3. /\ from \in Nat /\ end \in Nat /\ Span(f, to).from <= from /\ end <= Span(f, to).to
      /\ from <= x /\ x < end
    BY <1>1, <1>2 DEF ChunkFrom, ChunkTo, InDay
<1>4. Usable(f, to, d, v)
    <2>1. Window(f, v).from <= from /\ Window(f, v).to >= end
        BY <1>2, <1>3
    <2> HIDE DEF from, end
    <2>2. Lo(f, v, from) < Hi(f, v, end)
        BY <1>2, <1>3, <2>1 DEF Lo, Hi
    <2> QED
        BY <2>1, <2>2 DEF Usable, UsableAt, from, end
<1>5. PICK t \in NewTiers : Usable(f, to, d, t) /\ \A u \in Finer(t) : ~Usable(f, to, d, u)
    <2>1. CASE Usable(f, to, d, "minute")
        BY <2>1 DEF Finer, NewTiers
    <2>2. CASE ~Usable(f, to, d, "minute") /\ Usable(f, to, d, "hourly")
        BY <2>2 DEF Finer, NewTiers
    <2>3. CASE ~Usable(f, to, d, "minute") /\ ~Usable(f, to, d, "hourly")
        BY <1>4, <2>3 DEF Finer, NewTiers
    <2> QED
        BY <2>1, <2>2, <2>3
<1> DEFINE c == [tier |-> t, start |-> Lo(f, t, from), end |-> Hi(f, t, end)]
<1>6. IsChunk(f, to, d, c)
    <2>1. from < end
        BY <1>2, <1>3
    <2> QED
        BY <1>5, <2>1 DEF IsChunk
<1> HIDE DEF c, end
<1>7. c \in PlanReplay(f, to)
    BY <1>6, PlanIs
<1> QED
    BY <1>1, <1>3, <1>6, <1>7 DEF end

\* A chunk takes the bucket of its tier that holds a slot of its day.
LEMMA ChunkTakes ==
    ASSUME NEW f \in Holdings, NEW to \in 0..Horizon, NEW d \in 0..(Days - 1),
           NEW c, IsChunk(f, to, d, c), \E t \in NewTiers : f[t] # {},
           NEW x \in Slots, InDay(x, d), x < ChunkTo(f, to, d),
           NEW y \in f[c.tier], y <= x, x < y + Width(c.tier)
    PROVE  c.start <= y /\ y < c.end
<1>1. /\ c.tier \in NewTiers /\ f[c.tier] # {}
      /\ \A z \in f[c.tier] : InDay(z, d) /\ z < ChunkTo(f, to, d) => c.start <= z /\ z < c.end
    BY ChunkShape
<1>2. y \in Nat /\ y \in Slots /\ Aligned(y, c.tier) /\ c.tier \in Relations /\ Width(c.tier) \in Nat \ {0}
    BY <1>1, Held
<1>3. PICK e \in 0..(Days - 1) : InDay(y, e)
    BY <1>2, DayOfSlot
<1>4. e \in Nat /\ d \in Nat /\ DayStart(e) \in Nat /\ DayStart(e + 1) \in Nat /\ x \in Nat
    BY Calendar DEF Slots
<1>5. y + Width(c.tier) <= DayStart(e + 1)
    BY <1>2, <1>3, <1>4, BucketInDay
<1>6. InDay(x, e)
    BY <1>2, <1>3, <1>4, <1>5 DEF InDay
<1>7. e = d
    BY <1>4, <1>6, DayOfSlot
<1>8. Span(f, to).to \in Nat /\ DayStart(d + 1) \in Nat
    BY <1>4, <1>7, SpanIs
<1>9. y < ChunkTo(f, to, d)
    BY <1>2, <1>4, <1>8 DEF ChunkTo
<1> QED
    BY <1>1, <1>3, <1>7, <1>9

-----------------------------------------------------------------------------
(* What the plans write *)

\* The rows the bucket replay writes, and the rows the raw window is carried to.
Buckets(h) ==
    {r \in Row : /\ r.src \in NewTiers
                 /\ \E c \in BucketPlan[h][r.id] : /\ c.tier = r.src /\ r.slot \in h[r.src][r.id]
                                                   /\ c.start <= r.slot /\ r.slot < c.end}
RawRows(h, source) == {r \in Row : r.src = "raw" /\ r.id = source /\ r.slot \in h.raw}
Planned(h, source) == Buckets(h) \union RawRows(h, source)

\* A slot of a bucket that begins before the raw window lies in a bucket the
\* replay writes, whichever tier its chunk is read from.
LEMMA BucketWritten ==
    ASSUME NEW h \in Histories, NEW id \in Ids, NEW f, f = BucketHolds(h, id),
           NEW t \in NewTiers, NEW x \in f[t], x < ReplayEnd(h)
    PROVE  \E d \in 0..(Days - 1), c \in BucketPlan[h][id] :
             /\ IsChunk(f, ReplayEnd(h), d, c)
             /\ InDay(x, d) /\ ChunkFrom(f, ReplayEnd(h), d) <= x /\ x < ChunkTo(f, ReplayEnd(h), d)
             /\ \A y \in f[c.tier] : y <= x /\ x < y + Width(c.tier) =>
                  /\ [src |-> c.tier, id |-> id, slot |-> y] \in Buckets(h)
                  /\ c.start <= y /\ y < c.end
<1> DEFINE R == ReplayEnd(h)
<1>1. f \in Holdings /\ "daily" \in NewTiers /\ BucketPlan[h][id] = PlanReplay(f, R)
        /\ \A u \in NewTiers : f[u] = h[u][id]
    BY BucketReads DEF NewTiers
<1>2. R \in 0..Horizon /\ R \in Nat
    BY RawBegins, Calendar
<1>3. /\ x \in Slots /\ x \in Nat /\ Width(t) \in Nat \ {0}
      /\ Window(f, t).from <= x /\ x + Width(t) <= Window(f, t).to
      /\ Window(f, t).from \in Nat /\ Window(f, t).to \in Nat
    BY <1>1, Held, Reach
<1>4. /\ f["daily"] # {} /\ Span(f, R).from = Window(f, "daily").from
      /\ Window(f, "daily").from <= Window(f, t).from /\ Window(f, t).to <= Window(f, "daily").to
      /\ Span(f, R).to <= Window(f, "daily").to
      /\ Span(f, R).to = R \/ Span(f, R).to = Window(f, "daily").to
    BY DailyReaches
<1>5. Window(f, "daily").from \in Nat /\ Window(f, "daily").to \in Nat
    BY <1>1, <1>4, Reach
<1> HIDE DEF R
<1>6. /\ Span(f, R).from <= x /\ x < Span(f, R).to
      /\ Window(f, "daily").from <= Span(f, R).from
    BY <1>2, <1>3, <1>4, <1>5 DEF R
<1>7. PICK d \in 0..(Days - 1), c \in PlanReplay(f, R) :
        IsChunk(f, R, d, c) /\ InDay(x, d) /\ x < ChunkTo(f, R, d)
    BY <1>1, <1>2, <1>3, <1>4, <1>6, DayHasChunk
<1>8. c.tier \in NewTiers
    BY <1>1, <1>2, <1>7, ChunkShape
<1>9. ASSUME NEW y \in f[c.tier], y <= x, x < y + Width(c.tier)
      PROVE  /\ [src |-> c.tier, id |-> id, slot |-> y] \in Buckets(h)
             /\ c.start <= y /\ y < c.end
    <2>1. c.start <= y /\ y < c.end
        BY <1>1, <1>2, <1>3, <1>7, <1>9, ChunkTakes
    <2>2. y \in Slots /\ c.tier \in Relations
        BY <1>1, <1>8, Held
    <2>3. [src |-> c.tier, id |-> id, slot |-> y] \in Row
        BY <2>2 DEF Row
    <2> QED
        BY <1>1, <1>7, <1>8, <2>1, <2>3 DEF Buckets
<1>10. ChunkFrom(f, R, d) <= x
    BY <1>6, <1>7 DEF ChunkFrom, InDay
<1> QED
    BY <1>1, <1>7, <1>9, <1>10 DEF R

\* A row covers the slots of its bucket.
LEMMA RowCovers ==
    ASSUME NEW src \in Relations, NEW id, NEW y \in Nat, NEW x \in Nat,
           y <= x, x < y + Width(src)
    PROVE  x \in Covers([src |-> src, id |-> id, slot |-> y])
<1>1. Width(src) \in Nat \ {0}
    BY Widths
<1> QED
    BY <1>1 DEF Covers

\* Every minute is in a raw sample or in a bucket of some tier.
LEMMA MinuteOwed ==
    ASSUME NEW h \in Histories, NEW source \in Ids, NEW id \in Ids, NEW m \in h.minute[id]
    PROVE  \E r \in Planned(h, source) : m \in Covers(r)
<1> DEFINE f == BucketHolds(h, id)
           R == ReplayEnd(h)
<1>1. /\ f \in Holdings /\ f["minute"] = h.minute[id] /\ f["hourly"] = h.hourly[id]
      /\ f["daily"] = h.daily[id] /\ "minute" \in NewTiers /\ \A t \in NewTiers : t \in Relations
    BY BucketReads DEF NewTiers, Relations
<1>2. m \in Slots /\ m \in Nat /\ R \in Nat
    BY <1>1, Held, RawBegins, Calendar
<1>3. CASE m >= R
    <2>1. m \in h.raw
        BY <1>3, TiersAssumption DEF BuiltFromRaw
    <2> DEFINE r == [src |-> "raw", id |-> source, slot |-> m]
    <2>2. r \in Planned(h, source)
        BY <1>2, <2>1 DEF Planned, RawRows, Row, Relations
    <2>3. m \in Covers(r)
        BY <1>2, RowCovers, Widths DEF Relations
    <2> QED
        BY <2>2, <2>3
<1>4. CASE m < R
    <2> HIDE DEF f
    <2>1. PICK d \in 0..(Days - 1), c \in BucketPlan[h][id] :
             /\ IsChunk(f, R, d, c)
             /\ \A y \in f[c.tier] : y <= m /\ m < y + Width(c.tier) =>
                  [src |-> c.tier, id |-> id, slot |-> y] \in Buckets(h)
        BY <1>1, <1>4, BucketWritten DEF f
    <2>2. c.tier \in NewTiers
        BY <1>1, <2>1, ChunkShape, RawBegins
    <2>3. \E y \in f[c.tier] : y <= m /\ m + 1 <= y + Width(c.tier)
        BY <1>1, <1>2, <2>2, Above, Widths DEF NewTiers
    <2>4. PICK y \in f[c.tier] : y <= m /\ m + 1 <= y + Width(c.tier)
        BY <2>3
    <2>5. y \in Nat /\ Width(c.tier) \in Nat
        BY <1>1, <2>2, Held
    <2>6. y <= m /\ m < y + Width(c.tier)
        BY <1>2, <2>4, <2>5
    <2> DEFINE r == [src |-> c.tier, id |-> id, slot |-> y]
    <2>7. r \in Planned(h, source)
        BY <2>1, <2>6 DEF Planned
    <2>8. m \in Covers(r)
        BY <1>1, <1>2, <2>2, <2>5, <2>6, RowCovers
    <2> QED
        BY <2>7, <2>8
<1> QED
    BY <1>2, <1>3, <1>4

\* A finer tier is not read for a day it begins after, unless the day is the first.
LEMMA TierBegins ==
    ASSUME NEW h \in Histories, NEW id \in Ids, NEW f, f = BucketHolds(h, id),
           NEW d \in 0..(Days - 1), NEW t \in NewTiers, Usable(f, ReplayEnd(h), d, t)
    PROVE  /\ f[t] # {} /\ \E x \in f[t] : x < DayStart(d + 1)
           /\ \/ \E x \in f[t] : x <= ChunkFrom(f, ReplayEnd(h), d)
              \/ \E x \in f[t] : \A e \in f["daily"] : x < e + SlotsPerDay
<1> DEFINE R == ReplayEnd(h)
           from == ChunkFrom(f, R, d)
           end == ChunkTo(f, R, d)
<1>1. f \in Holdings /\ f[t] # {} /\ R \in 0..Horizon /\ "daily" \in NewTiers /\ "daily" \in Relations
    BY BucketReads, RawBegins DEF Usable, UsableAt, NewTiers, Relations
<1>2. /\ Span(f, R).from \in Nat /\ Span(f, R).to \in Nat /\ Window(f, t).from \in Nat
      /\ Window(f, t).to \in Nat /\ Window(f, t).from \in f[t]
    BY <1>1, SpanIs, Reach
<1>3. d \in Nat /\ d + 1 \in Nat /\ DayStart(d) \in Nat /\ DayStart(d + 1) \in Nat
    BY Calendar
<1>4. from \in Nat /\ end \in Nat /\ end <= DayStart(d + 1) /\ DayStart(d) <= from
    BY <1>2, <1>3 DEF ChunkFrom, ChunkTo
<1>5. /\ Lo(f, t, from) < Hi(f, t, end)
      /\ Window(f, t).from <= from \/ from = Span(f, R).from
    BY DEF Usable, UsableAt
<1> HIDE DEF R, from, end
<1>6. Window(f, t).from < end
    BY <1>2, <1>4, <1>5 DEF Lo, Hi
<1>7. Window(f, t).from < DayStart(d + 1)
    BY <1>2, <1>3, <1>4, <1>6
<1>8. CASE Window(f, t).from <= from
    BY <1>1, <1>2, <1>7, <1>8 DEF R, from
<1>9. CASE from = Span(f, R).from
    <2>1. ASSUME NEW e \in f["daily"] PROVE Window(f, t).from < e + SlotsPerDay
        <3>1. Span(f, R).from = Window(f, "daily").from
            BY <1>1, DailyReaches DEF R
        <3>2. Window(f, "daily").from <= e
            BY <1>1, Reach
        <3>3. Aligned(e, "daily") /\ e \in Nat
            BY <1>1, Held
        <3>4. PICK k \in 0..(Days - 1) : e = DayStart(k) /\ DayStart(k + 1) = e + SlotsPerDay
            BY <3>3, DayBegins
        <3>5. k \in Nat /\ DayStart(k + 1) \in Nat
            BY Calendar
        <3>6. ~(k < d)
            <4> SUFFICES ASSUME k < d PROVE FALSE
                OBVIOUS
            <4>1. DayStart(k + 1) <= DayStart(d)
                BY <1>3, <3>5, Calendar
            <4> QED
                BY <1>2, <1>3, <1>4, <1>9, <3>1, <3>2, <3>3, <3>4, <3>5, <4>1, HoursOfDay
        <3>7. DayStart(d + 1) <= DayStart(k + 1)
            BY <1>3, <3>5, <3>6, Calendar
        <3> QED
            BY <1>2, <1>3, <1>7, <3>4, <3>5, <3>7
    <2> QED
        BY <1>1, <1>2, <1>7, <2>1
<1> QED
    BY <1>5, <1>8, <1>9

\* What begins with the raw window or after it has minutes.
LEMMA BeforeRaw ==
    ASSUME NEW h \in Histories, NEW id \in Ids
    PROVE  /\ \A b \in h.hourly[id] : h.minute[id] \intersect HourOf(b) = {} => b < ReplayEnd(h)
           /\ \A e \in h.daily[id] : h.minute[id] \intersect DayOf(e) = {} => e < ReplayEnd(h)
<1>1. BuiltFromRaw(h, id)
    BY TiersAssumption
<1>2. ReplayEnd(h) \in Nat /\ \A b \in h.hourly[id] \union h.daily[id] : b \in Nat
    BY RawBegins, HistoryIs, Calendar DEF Aligned, Slots
<1> QED
    BY <1>1, <1>2 DEF BuiltFromRaw

\* Every hour the minutes do not have any more is in a bucket, unless it is given up.
LEMMA HourOwed ==
    ASSUME NEW h \in Histories, NEW source \in Ids, NEW id \in Ids, NEW b \in h.hourly[id],
           ~GivenUp(h, id), h.minute[id] \intersect HourOf(b) = {}, NEW o \in HourOf(b)
    PROVE  \E r \in Planned(h, source) : o \in Covers(r)
<1> DEFINE f == BucketHolds(h, id)
           R == ReplayEnd(h)
<1>1. /\ f \in Holdings /\ f["minute"] = h.minute[id] /\ f["hourly"] = h.hourly[id]
      /\ f["daily"] = h.daily[id] /\ "hourly" \in NewTiers /\ \A t \in NewTiers : t \in Relations
    BY BucketReads DEF NewTiers, Relations
<1>2. b \in Slots /\ b \in Nat /\ R \in Nat /\ SlotsPerHour \in Nat \ {0} /\ b < R
    BY <1>1, Held, RawBegins, Calendar, HoursOfDay, BeforeRaw
<1>3. o \in Nat /\ b <= o /\ o < b + SlotsPerHour
    BY <1>2 DEF HourOf
<1>4. TiersAgree(h.minute[id], h.hourly[id], h.daily[id])
    BY TiersAssumption
<1>5. \A m \in f["minute"] : m \in Nat /\ ~(m < b + SlotsPerHour)
    <2>1. \A m \in f["minute"] : ~(m < b + SlotsPerHour)
        BY <1>1, <1>4 DEF TiersAgree
    <2> QED
        BY <1>1, <2>1, Held DEF NewTiers
<1> HIDE DEF f
<1>6. PICK d \in 0..(Days - 1), c \in BucketPlan[h][id] :
         /\ IsChunk(f, R, d, c) /\ ChunkFrom(f, R, d) <= b
         /\ \A y \in f[c.tier] : y <= b /\ b < y + Width(c.tier) =>
              [src |-> c.tier, id |-> id, slot |-> y] \in Buckets(h)
    BY <1>1, <1>2, BucketWritten DEF f
<1>7. c.tier \in NewTiers /\ Usable(f, R, d, c.tier) /\ R \in 0..Horizon
    BY <1>1, <1>6, ChunkShape, RawBegins
<1>8. c.tier # "minute"
    <2> SUFFICES ASSUME c.tier = "minute" PROVE FALSE
        OBVIOUS
    <2>1. \/ \E m \in f["minute"] : m <= ChunkFrom(f, R, d)
          \/ \E m \in f["minute"] : \A e \in f["daily"] : m < e + SlotsPerDay
        BY <1>7, TierBegins DEF f
    <2>2. ASSUME NEW m \in f["minute"], m <= ChunkFrom(f, R, d) PROVE FALSE
        <3>1. ChunkFrom(f, R, d) \in Nat
            BY <1>1, <1>7, SpanIs, Calendar DEF ChunkFrom
        <3> QED
            BY <1>2, <1>5, <1>6, <2>2, <3>1
    <2>3. ASSUME NEW m \in f["minute"], \A e \in f["daily"] : m < e + SlotsPerDay PROVE FALSE
        BY <1>1, <2>3 DEF GivenUp
    <2> QED
        BY <2>1, <2>2, <2>3
<1>9. PICK y \in f[c.tier] : y <= b /\ b + SlotsPerHour <= y + Width(c.tier)
    <2>1. CASE c.tier = "hourly"
        BY <1>1, <1>2, <2>1, Widths
    <2>2. CASE c.tier = "daily"
        BY <1>1, <2>2, Above, Widths
    <2> QED
        BY <1>7, <1>8, <2>1, <2>2 DEF NewTiers
<1>10. y \in Nat /\ Width(c.tier) \in Nat
    BY <1>1, <1>7, Held
<1>11. y <= b /\ b < y + Width(c.tier) /\ y <= o /\ o < y + Width(c.tier)
    BY <1>2, <1>3, <1>9, <1>10
<1> DEFINE r == [src |-> c.tier, id |-> id, slot |-> y]
<1>12. r \in Planned(h, source)
    BY <1>6, <1>11 DEF Planned
<1>13. o \in Covers(r)
    BY <1>1, <1>3, <1>7, <1>10, <1>11, RowCovers
<1> QED
    BY <1>12, <1>13

\* Every day only the daily tier has is in its bucket.
LEMMA DayOwed ==
    ASSUME NEW h \in Histories, NEW source \in Ids, NEW id \in Ids, NEW e \in h.daily[id],
           h.minute[id] \intersect DayOf(e) = {}, h.hourly[id] \intersect DayOf(e) = {},
           NEW o \in DayOf(e)
    PROVE  \E r \in Planned(h, source) : o \in Covers(r)
<1> DEFINE f == BucketHolds(h, id)
           R == ReplayEnd(h)
<1>1. /\ f \in Holdings /\ f["minute"] = h.minute[id] /\ f["hourly"] = h.hourly[id]
      /\ f["daily"] = h.daily[id] /\ "daily" \in NewTiers /\ \A t \in NewTiers : t \in Relations
    BY BucketReads DEF NewTiers, Relations
<1>2. e \in Slots /\ e \in Nat /\ R \in Nat /\ SlotsPerDay \in Nat \ {0} /\ e < R
    BY <1>1, Held, RawBegins, Calendar, HoursOfDay, BeforeRaw
<1>3. o \in Nat /\ e <= o /\ o < e + SlotsPerDay
    BY <1>2 DEF DayOf
<1>4. TiersAgree(h.minute[id], h.hourly[id], h.daily[id])
    BY TiersAssumption
<1>5. \A b \in f["hourly"] : ~(b < e + SlotsPerDay)
    BY <1>1, <1>4 DEF TiersAgree
<1>6. \A m \in f["minute"] : ~(m < e + SlotsPerDay)
    <2> SUFFICES ASSUME NEW m \in f["minute"], m < e + SlotsPerDay PROVE FALSE
        OBVIOUS
    <2>1. PICK b \in f["hourly"] : b <= m
        BY <1>1, Above
    <2>2. m \in Nat /\ b \in Nat
        BY <1>1, Held DEF NewTiers
    <2> QED
        BY <1>2, <1>5, <2>1, <2>2
<1> HIDE DEF f
<1>7. PICK d \in 0..(Days - 1), c \in BucketPlan[h][id] :
         /\ IsChunk(f, R, d, c) /\ InDay(e, d)
         /\ \A y \in f[c.tier] : y <= e /\ e < y + Width(c.tier) =>
              [src |-> c.tier, id |-> id, slot |-> y] \in Buckets(h)
    BY <1>1, <1>2, BucketWritten DEF f
<1>8. c.tier \in NewTiers /\ Usable(f, R, d, c.tier) /\ R \in 0..Horizon
    BY <1>1, <1>7, ChunkShape, RawBegins
<1>9. DayStart(d + 1) = e + SlotsPerDay
    <2>1. Aligned(e, "daily")
        BY <1>1, Held
    <2>2. PICK k \in 0..(Days - 1) : InDay(e, k) /\ DayStart(k + 1) = e + SlotsPerDay
        BY <2>1, DayBegins
    <2>3. k \in Nat /\ d \in Nat
        BY Calendar
    <2>4. k = d
        BY <1>2, <1>7, <2>2, <2>3, DayOfSlot
    <2> QED
        BY <2>2, <2>4
<1>10. \E x \in f[c.tier] : x < e + SlotsPerDay
    BY <1>8, <1>9, TierBegins DEF f
<1>11. c.tier = "daily"
    BY <1>5, <1>6, <1>8, <1>10 DEF NewTiers
<1> DEFINE r == [src |-> "daily", id |-> id, slot |-> e]
<1>12. r \in Planned(h, source)
    BY <1>1, <1>2, <1>7, <1>11, Widths DEF Planned
<1>13. o \in Covers(r)
    BY <1>1, <1>2, <1>3, RowCovers, Widths
<1> QED
    BY <1>12, <1>13

\* What the plans write covers all that is owed.
LEMMA OwedIsPlanned ==
    ASSUME NEW h \in Histories, NEW source \in Ids, NEW o \in OwedBy[h]
    PROVE  \E r \in Planned(h, source) : o \in Covers(r)
<1> DEFINE HO(i) == {b \in h.hourly[i] :
                       ~GivenUp(h, i) /\ Spanned({b}, "hourly") \intersect h.minute[i] = {}}
           DO(i) == {b \in h.daily[i] : Spanned({b}, "daily") \intersect
                                          (h.minute[i] \union h.hourly[i]) = {}}
<1>1. \/ o \in h.raw \/ \E i \in Ids : o \in h.minute[i]
      \/ \E i \in Ids : o \in Spanned(HO(i), "hourly")
      \/ \E i \in Ids : o \in Spanned(DO(i), "daily")
    BY DEF OwedBy
<1>2. \A b : Spanned({b}, "hourly") = HourOf(b) /\ Spanned({b}, "daily") = DayOf(b)
    <2>1. \A b : /\ Spanned({b}, "hourly") = b..(b + Width("hourly") - 1)
                 /\ Spanned({b}, "daily") = b..(b + Width("daily") - 1)
        BY DEF Spanned
    <2> QED
        BY <2>1, Widths DEF HourOf, DayOf
<1>3. CASE o \in h.raw
    <2>1. o \in Slots /\ o \in Nat
        BY <1>3, HistoryIs, Calendar DEF Slots
    <2> DEFINE r == [src |-> "raw", id |-> source, slot |-> o]
    <2>2. r \in Planned(h, source)
        BY <1>3, <2>1 DEF Planned, RawRows, Row, Relations
    <2>3. o \in Covers(r)
        BY <2>1, RowCovers, Widths DEF Relations
    <2> QED
        BY <2>2, <2>3
<1>4. CASE \E i \in Ids : o \in h.minute[i]
    BY <1>4, MinuteOwed
<1>5. ASSUME NEW i \in Ids, o \in Spanned(HO(i), "hourly")
      PROVE  \E r \in Planned(h, source) : o \in Covers(r)
    <2>1. PICK b \in HO(i) : o \in b..(b + Width("hourly") - 1)
        BY <1>5 DEF Spanned
    <2>2. /\ b \in h.hourly[i] /\ ~GivenUp(h, i)
          /\ h.minute[i] \intersect HourOf(b) = {} /\ o \in HourOf(b)
        BY <1>2, <2>1, Widths DEF HourOf
    <2> QED
        BY <2>2, HourOwed
<1>6. ASSUME NEW i \in Ids, o \in Spanned(DO(i), "daily")
      PROVE  \E r \in Planned(h, source) : o \in Covers(r)
    <2>1. PICK b \in DO(i) : o \in b..(b + Width("daily") - 1)
        BY <1>6 DEF Spanned
    <2>2. /\ b \in h.daily[i] /\ DayOf(b) \intersect (h.minute[i] \union h.hourly[i]) = {}
          /\ o \in DayOf(b)
        BY <1>2, <2>1, Widths DEF DayOf
    <2> QED
        BY <2>2, DayOwed
<1> QED
    BY <1>1, <1>3, <1>4, <1>5, <1>6

\* A row of the replay comes from the chunk of its day.
LEMMA BucketRow ==
    ASSUME NEW h \in Histories, NEW r \in Buckets(h), NEW f, f = BucketHolds(h, r.id)
    PROVE  /\ r.src \in NewTiers /\ r.src \in Relations /\ r.id \in Ids /\ r.slot \in f[r.src]
           /\ r.slot \in Nat /\ Aligned(r.slot, r.src) /\ r.slot < ReplayEnd(h)
           /\ \E d \in 0..(Days - 1), c \in BucketPlan[h][r.id] :
                /\ IsChunk(f, ReplayEnd(h), d, c) /\ c.tier = r.src /\ InDay(r.slot, d)
                /\ r.slot + Width(r.src) <= DayStart(d + 1)
<1>1. PICK c \in BucketPlan[h][r.id] :
        /\ c.tier = r.src /\ r.slot \in h[r.src][r.id] /\ c.start <= r.slot /\ r.slot < c.end
    BY DEF Buckets
<1>2. r.src \in NewTiers /\ r.src \in Relations /\ r.id \in Ids
    BY DEF Buckets, Row
<1>3. /\ f \in Holdings /\ BucketPlan[h][r.id] = PlanReplay(f, ReplayEnd(h))
      /\ f[r.src] = h[r.src][r.id] /\ ReplayEnd(h) \in 0..Horizon /\ ReplayEnd(h) \in Nat
    BY <1>2, BucketReads, RawBegins, Calendar
<1>4. r.slot \in f[r.src] /\ r.slot \in Nat /\ Aligned(r.slot, r.src)
    BY <1>1, <1>2, <1>3, Held
<1>5. PICK d \in 0..(Days - 1) : IsChunk(f, ReplayEnd(h), d, c)
    BY <1>1, <1>3, PlanShape
<1>6. /\ c.start \in Nat /\ c.end \in Nat /\ DayStart(d) <= c.start
      /\ c.end <= DayStart(d + 1) /\ c.end <= ReplayEnd(h)
    BY <1>2, <1>3, <1>4, <1>5, ChunkShape
<1>7. d \in Nat /\ DayStart(d) \in Nat /\ DayStart(d + 1) \in Nat
    BY Calendar
<1>8. InDay(r.slot, d) /\ r.slot < ReplayEnd(h)
    BY <1>1, <1>3, <1>4, <1>6, <1>7 DEF InDay
<1>9. r.slot + Width(r.src) <= DayStart(d + 1)
    BY <1>2, <1>4, <1>7, <1>8, BucketInDay
<1> QED
    BY <1>1, <1>2, <1>4, <1>5, <1>8, <1>9

\* Of two rows of the plans that overlap, one is a raw sample in the bucket the raw
\* window begins in, or the two are of two sources: the chunks are a day each, and
\* the buckets of a day's chunk are of one tier.
LEMMA PlannedApart ==
    ASSUME NEW h \in Histories, NEW source \in Ids,
           NEW r \in Planned(h, source), NEW o \in Planned(h, source), r # o,
           o.slot \in Covers(r)
    PROVE  IF "raw" \in {r.src, o.src}
           THEN \E b \in {r, o} : b.src # "raw" /\ Min(h.raw) \in Covers(b)
           ELSE r.id # o.id
<1> DEFINE R == ReplayEnd(h)
           first == Min(h.raw)
<1>1. r \in Row /\ o \in Row
    BY DEF Planned, Buckets, RawRows
<1>2. r.slot \in Nat /\ o.slot \in Nat /\ r.slot \in Slots /\ o.slot \in Slots
        /\ r.src \in Relations /\ Width(r.src) \in Nat \ {0}
    BY <1>1, Widths, Calendar DEF Row, Slots
<1>3. r.slot <= o.slot /\ o.slot < r.slot + Width(r.src)
    BY <1>2 DEF Covers
<1>4. ~(r.src = o.src /\ r.id = o.id /\ r.slot = o.slot)
    BY <1>1 DEF Row
<1>5. R \in Nat /\ (h.raw # {} => first \in Nat /\ R <= first + 1
                               /\ \A x \in h.raw : x \in Nat /\ first <= x)
    BY RawBegins, Calendar
<1>6. ASSUME NEW b \in Buckets(h), NEW x \in h.raw, x \in Covers(b)
      PROVE  b.src # "raw" /\ first \in Covers(b)
    <2>1. b.src \in NewTiers /\ b.src \in Relations /\ b.slot \in Nat /\ b.slot < R
        BY BucketRow
    <2>2. b.slot <= first /\ first <= x /\ x < b.slot + Width(b.src)
        BY <1>5, <1>6, <2>1, Widths DEF Covers
    <2>3. first \in Nat /\ x \in Nat /\ Width(b.src) \in Nat
        BY <1>5, <2>1, Widths
    <2>4. first \in Covers(b)
        BY <2>1, <2>2, <2>3 DEF Covers
    <2> QED
        BY <2>1, <2>4 DEF NewTiers
<1>7. CASE r \in RawRows(h, source)
    <2>1. r.src = "raw" /\ r.id = source /\ r.slot \in h.raw /\ Width(r.src) = 1
        BY <1>7, Widths DEF RawRows
    <2>2. o.slot = r.slot
        BY <1>2, <1>3, <2>1
    <2>3. o \in Buckets(h)
        BY <1>4, <2>1, <2>2 DEF Planned, RawRows
    <2>4. o.src \in Relations /\ Width(o.src) \in Nat \ {0}
        BY <2>3, BucketRow, Widths
    <2>5. r.slot \in Covers(o)
        BY <1>2, <2>2, <2>4 DEF Covers
    <2> QED
        BY <1>6, <2>1, <2>3, <2>5
<1>8. CASE r \in Buckets(h) /\ o \in RawRows(h, source)
    <2>1. o.src = "raw" /\ o.slot \in h.raw
        BY <1>8 DEF RawRows
    <2> QED
        BY <1>6, <1>8, <2>1
<1>9. CASE r \in Buckets(h) /\ o \in Buckets(h)
    <2> DEFINE f == BucketHolds(h, r.id)
               g == BucketHolds(h, o.id)
    <2>1. /\ r.src \in NewTiers /\ r.id \in Ids /\ r.slot \in f[r.src] /\ Aligned(r.slot, r.src)
          /\ o.src \in NewTiers /\ o.id \in Ids /\ o.slot \in g[o.src] /\ Aligned(o.slot, o.src)
        BY <1>9, BucketRow
    <2>2. PICK d \in 0..(Days - 1), c \in BucketPlan[h][r.id] :
            /\ IsChunk(f, R, d, c) /\ c.tier = r.src /\ InDay(r.slot, d)
            /\ r.slot + Width(r.src) <= DayStart(d + 1)
        BY <1>9, BucketRow
    <2>3. PICK n \in 0..(Days - 1), e \in BucketPlan[h][o.id] :
            IsChunk(g, R, n, e) /\ e.tier = o.src /\ InDay(o.slot, n)
        BY <1>9, BucketRow
    <2>4. d \in Nat /\ n \in Nat /\ DayStart(d) \in Nat /\ DayStart(d + 1) \in Nat
        BY Calendar
    <2>5. InDay(o.slot, d)
        BY <1>2, <1>3, <2>2, <2>4 DEF InDay
    <2>6. n = d
        BY <1>2, <2>3, <2>4, <2>5, DayOfSlot
    <2> SUFFICES ASSUME r.id = o.id PROVE FALSE
        BY <2>1 DEF NewTiers
    <2>7. f \in Holdings
        BY <2>1, BucketReads
    <2>8. c = e
        BY <2>2, <2>3, <2>6, <2>7, OneADay
    <2>9. r.src = o.src /\ r.slot < o.slot
        BY <1>2, <1>3, <1>4, <2>2, <2>3, <2>8
    <2>10. r.slot + Width(r.src) <= o.slot
        BY <1>2, <2>1, <2>9, BucketsApart
    <2> QED
        BY <1>2, <1>3, <2>10
<1> QED
    BY <1>7, <1>8, <1>9 DEF Planned

\* Every raw sample is in a chunk of the carry.
LEMMA RawCarried ==
    ASSUME NEW h \in Histories
    PROVE  /\ \A c \in CarryPlan[h] : c.tier = "minute"
           /\ \A x \in h.raw : \E c \in CarryPlan[h] : c.start <= x /\ x < c.end
<1> DEFINE f == CarryHolds(h)
<1>1. /\ f \in Holdings /\ f["minute"] = h.raw /\ CarryPlan[h] = PlanReplay(f, Horizon)
      /\ \A t \in NewTiers : f[t] # {} => t = "minute"
      /\ Horizon \in 0..Horizon /\ "minute" \in NewTiers /\ Width("minute") = 1
    BY CarryReads, Widths DEF NewTiers
<1> HIDE DEF f
<1>2. ASSUME NEW c \in CarryPlan[h] PROVE c.tier = "minute"
    <2>1. PICK d \in 0..(Days - 1) : IsChunk(f, Horizon, d, c)
        BY <1>1, PlanShape
    <2>2. \E t \in NewTiers : f[t] # {}
        BY <1>1, PlanShape
    <2>3. c.tier \in NewTiers /\ f[c.tier] # {}
        BY <1>1, <2>1, <2>2, ChunkShape
    <2> QED
        BY <1>1, <2>3
<1>3. ASSUME NEW x \in h.raw PROVE \E c \in CarryPlan[h] : c.start <= x /\ x < c.end
    <2>1. x \in f["minute"] /\ x \in Slots /\ x \in Nat /\ x < Horizon
        BY <1>1, HistoryIs, Calendar DEF Slots
    <2>2. /\ Window(f, "minute").from <= x /\ x + 1 <= Window(f, "minute").to
          /\ Window(f, "minute").from \in Nat /\ Window(f, "minute").to \in Nat
        BY <1>1, <2>1, Reach
    <2>3. /\ Span(f, Horizon).from \in Nat /\ Span(f, Horizon).to \in Nat
          /\ \E t \in NewTiers : f[t] # {} /\ Span(f, Horizon).from = Window(f, t).from
          /\ \E t \in NewTiers : f[t] # {} /\ Span(f, Horizon).to <= Window(f, t).to
          /\ \/ Span(f, Horizon).to = Horizon
             \/ \A t \in NewTiers : f[t] # {} => Window(f, t).to <= Span(f, Horizon).to
        BY <1>1, <2>1, SpanIs
    <2>4. /\ Span(f, Horizon).from = Window(f, "minute").from
          /\ Span(f, Horizon).to <= Window(f, "minute").to
          /\ Span(f, Horizon).to = Horizon \/ Window(f, "minute").to <= Span(f, Horizon).to
        BY <1>1, <2>1, <2>3
    <2>5. /\ Window(f, "minute").from <= Span(f, Horizon).from
          /\ Span(f, Horizon).from <= x /\ x < Span(f, Horizon).to
        BY <2>1, <2>2, <2>3, <2>4, Calendar
    <2>6. PICK d \in 0..(Days - 1), c \in PlanReplay(f, Horizon) :
            IsChunk(f, Horizon, d, c) /\ InDay(x, d) /\ x < ChunkTo(f, Horizon, d)
        BY <1>1, <2>1, <2>4, <2>5, DayHasChunk
    <2>7. c.tier = "minute"
        BY <1>1, <1>2, <2>6
    <2>8. x \in f[c.tier] /\ x <= x /\ x < x + Width(c.tier)
        BY <1>1, <2>1, <2>7
    <2>9. c.start <= x /\ x < c.end
        BY <1>1, <2>1, <2>6, <2>8, ChunkTakes
    <2> QED
        BY <1>1, <2>6, <2>9
<1> QED
    BY <1>2, <1>3

-----------------------------------------------------------------------------
(* The refresh windows *)

\* Where the bucket of a slot begins.
BucketOf(s, t) == (s \div Width(t)) * Width(t)

\* The windows of a span: one for each start, and every bucket of the span lies
\* in one of them whole.
LEMMA Windows ==
    ASSUME NEW from \in Slots, NEW to \in Slots, NEW t \in NewTiers
    PROVE  /\ \A v \in RefreshWindows[from][to][t] :
                /\ v.start \in Int /\ from - 2 * Width(t) <= v.start
                /\ \A w \in RefreshWindows[from][to][t] : w.start = v.start => w = v
           /\ \A s \in from..to : from < to =>
                \E v \in RefreshWindows[from][to][t] :
                  v.start <= BucketOf(s, t) /\ BucketOf(s, t) + Width(t) <= v.end
<1> DEFINE pad == Width(t)
           first == ((from - pad) \div pad) * pad
           last == -((-(to + pad)) \div pad) * pad
           step == ChunkDays * SlotsPerDay
           starts == {c \in {first + k * step : k \in 0..Days + 2} : c < last}
           final == Max(starts)
           merge == last - final < pad /\ Cardinality(starts) > 1
           kept == IF merge THEN starts \ {final} ELSE starts
           E(c) == IF c = Max(kept) THEN last ELSE c + step
<1>1. RefreshWindows[from][to][t] =
        IF to <= from THEN {} ELSE {[start |-> c, end |-> E(c)] : c \in kept}
    BY DEF RefreshWindows
<1>2. /\ from \in Nat /\ to \in Nat /\ from < Horizon /\ to < Horizon /\ t \in Relations
      /\ Horizon = SlotsPerDay * Days
    BY Calendar DEF Slots, NewTiers, Relations, Horizon
<1>3. pad \in Nat \ {0} /\ pad <= SlotsPerDay /\ SlotsPerDay \in Nat \ {0}
    BY <1>2, Widths, HoursOfDay
<1>4. PICK q \in Nat : SlotsPerDay = q * pad
    BY <1>2, Widths
<1>5. ChunkDays \in Nat \ {0} /\ Days \in Nat \ {0}
    BY HistoriesAssumption
<1> HIDE DEF pad
<1>6. PICK i \in Int : first = i * pad /\ first <= from - pad /\ from - 2 * pad < first
    <2> DEFINE j == (from - pad) \div pad
    <2>1. j \in Int /\ j * pad <= from - pad /\ from - pad < j * pad + pad
        BY <1>2, <1>3
    <2> HIDE DEF j
    <2>2. from - 2 * pad < j * pad
        BY <1>2, <1>3, <2>1
    <2> QED
        BY <2>1, <2>2 DEF j
<1>7. last \in Int /\ to + pad <= last
    <2> DEFINE j == (-(to + pad)) \div pad
    <2>1. j \in Int /\ j * pad <= -(to + pad)
        BY <1>2, <1>3
    <2> HIDE DEF j
    <2>2. -j * pad = -(j * pad)
        BY <1>3, <2>1
    <2>3. last = -j * pad
        BY DEF j
    <2> QED
        BY <1>2, <1>3, <2>1, <2>2, <2>3
<1>8. step \in Nat \ {0} /\ SlotsPerDay <= step
    BY <1>3, <1>5
<1>9. step = (ChunkDays * q) * pad /\ ChunkDays * q \in Nat
    BY <1>3, <1>4, <1>5
<1> HIDE DEF first, last, step
<1>10. first \in Int
    BY <1>3, <1>6
<1>11. \A c \in starts : c \in Int /\ from - 2 * pad <= c
    <2> SUFFICES ASSUME NEW k \in 0..Days + 2
                 PROVE  first + k * step \in Int /\ from - 2 * pad <= first + k * step
        OBVIOUS
    <2>1. k * step \in Nat
        BY <1>5, <1>8
    <2> QED
        BY <1>2, <1>3, <1>6, <1>10, <2>1
<1>12. kept \subseteq starts
    OBVIOUS
<1>13. ASSUME NEW s \in from..to, from < to
       PROVE  \E c \in kept : c <= BucketOf(s, t) /\ BucketOf(s, t) + pad <= E(c)
    <2> DEFINE j == s \div pad
               b == j * pad
               k == (b - first) \div step
               c == first + k * step
    <2>1. s \in Nat /\ from <= s /\ s <= to
        BY <1>2
    <2>2. j \in Nat /\ b \in Nat /\ b <= s /\ s < b + pad
        BY <1>3, <2>1
    <2>3. BucketOf(s, t) = b
        BY DEF BucketOf, pad
    <2> HIDE DEF j
    <2>4. first < b /\ b + pad <= last
        BY <1>2, <1>3, <1>6, <1>7, <1>10, <2>1, <2>2
    <2>5. /\ k \in Nat /\ k * step \in Nat /\ k * step <= b - first
          /\ b - first < k * step + step
        <3>1. b - first \in Nat
            BY <1>10, <2>2, <2>4
        <3> HIDE DEF b
        <3> QED
            BY <1>8, <3>1
    <2>6. c \in Int /\ c <= b /\ b < c + step
        BY <1>10, <1>8, <2>2, <2>5
    <2>7. k <= Days + 2
        <3>1. b - first < (Days + 2) * SlotsPerDay
            <4>1. b <= to /\ to < SlotsPerDay * Days
                BY <1>2, <2>1, <2>2
            <4>2. (Days + 2) * SlotsPerDay = SlotsPerDay * Days + 2 * SlotsPerDay
                BY <1>3, <1>5
            <4>3. SlotsPerDay * Days \in Nat
                BY <1>3, <1>5
            <4> HIDE DEF b
            <4> QED
                BY <1>2, <1>3, <1>6, <1>10, <2>2, <4>1, <4>2, <4>3
        <3>2. (Days + 2) * SlotsPerDay <= (Days + 2) * step
            <4>1. (Days + 2) * (step - SlotsPerDay) >= 0
                BY <1>3, <1>5, <1>8
            <4> QED
                BY <1>3, <1>5, <1>8, <4>1
        <3>3. k * step < (Days + 2) * step
            <4> HIDE DEF b, k
            <4> QED
                BY <1>3, <1>5, <1>8, <1>10, <2>2, <2>5, <3>1, <3>2
        <3> HIDE DEF k, b
        <3> SUFFICES ASSUME Days + 2 < k PROVE FALSE
            BY <1>5, <2>5
        <3>4. (k - (Days + 2)) * step >= 0
            BY <1>5, <1>8, <2>5
        <3> QED
            BY <1>5, <1>8, <2>5, <3>3, <3>4
    <2> HIDE DEF k
    <2>8. c \in starts
        <3>1. c < last
            BY <1>3, <1>7, <2>2, <2>4, <2>6
        <3>2. k \in 0..Days + 2
            BY <1>5, <2>5, <2>7
        <3> QED
            BY <3>1, <3>2
    <2>9. b + pad <= c + step
        <3> DEFINE a == i + k * (ChunkDays * q) + ChunkDays * q
        <3>1. a \in Int /\ c + step = a * pad
            <4>1. k * ((ChunkDays * q) * pad) = (k * (ChunkDays * q)) * pad
                BY <1>3, <1>9, <2>5
            <4>2. k * (ChunkDays * q) \in Int
                BY <1>9, <2>5
            <4> DEFINE u == k * (ChunkDays * q)
                       z == ChunkDays * q
            <4>3. c + step = i * pad + u * pad + z * pad
                BY <1>6, <1>9, <4>1
            <4> HIDE DEF u, z
            <4>4. u \in Int /\ z \in Int
                BY <1>9, <4>2 DEF u, z
            <4>5. (i + u + z) * pad = i * pad + u * pad + z * pad
                BY <1>3, <1>6, <4>4
            <4> QED
                BY <1>6, <4>3, <4>4, <4>5 DEF u, z
        <3> HIDE DEF a, c
        <3>2. j * pad < a * pad
            BY <2>6, <3>1
        <3>3. j * pad + pad <= a * pad
            BY <1>3, <2>2, <3>1, <3>2, Multiples
        <3> QED
            BY <3>1, <3>3
    <2>10. c \in kept
        <3> SUFFICES ASSUME merge, c = final PROVE FALSE
            BY <2>8
        <3>1. last - c < pad
            OBVIOUS
        <3> HIDE DEF b, c
        <3> QED
            BY <1>3, <1>7, <2>2, <2>4, <2>6, <3>1
    <2>11. b + pad <= E(c)
        BY <2>4, <2>9
    <2> QED
        BY <2>3, <2>6, <2>10, <2>11
<1> HIDE DEF starts, kept, final, merge, E
<1>14. \A v \in RefreshWindows[from][to][t] : v.start \in kept /\ v = [start |-> v.start, end |-> E(v.start)]
    BY <1>1
<1>15. from < to => \A c \in kept : [start |-> c, end |-> E(c)] \in RefreshWindows[from][to][t]
    BY <1>1, <1>2
<1>16. ASSUME NEW v \in RefreshWindows[from][to][t]
       PROVE  /\ v.start \in Int /\ from - 2 * Width(t) <= v.start
              /\ \A w \in RefreshWindows[from][to][t] : w.start = v.start => w = v
    BY <1>11, <1>12, <1>14 DEF pad
<1>17. ASSUME NEW s \in from..to, from < to
       PROVE  \E v \in RefreshWindows[from][to][t] :
                v.start <= BucketOf(s, t) /\ BucketOf(s, t) + Width(t) <= v.end
    <2>1. PICK c \in kept : c <= BucketOf(s, t) /\ BucketOf(s, t) + pad <= E(c)
        BY <1>13, <1>17
    <2> DEFINE v == [start |-> c, end |-> E(c)]
    <2>2. v \in RefreshWindows[from][to][t] /\ v.start = c /\ v.end = E(c)
        BY <1>15, <1>17
    <2> HIDE DEF v
    <2> QED
        BY <2>1, <2>2 DEF pad
<1> QED
    BY <1>16, <1>17

-----------------------------------------------------------------------------
(* The inductive invariant *)

\* The rows of the chunks whose watermark is recorded.
Written ==
    {r \in Row :
       \/ /\ r.src = "raw" /\ r.id = record.source /\ r.slot \in history.raw
          /\ \E c \in CarryPlan[history] :
               <<<<"raw">>, c.start>> \in progress /\ c.start <= r.slot /\ r.slot < c.end
       \/ /\ r.src \in NewTiers /\ r.slot \in history[r.src][r.id]
          /\ \E c \in BucketPlan[history][r.id] :
               /\ <<WatermarkSource(r.id), c.start>> \in progress
               /\ c.tier = r.src /\ c.start <= r.slot /\ r.slot < c.end}

\* No chunk of the carry, and none at all, is left.
CarryDone == Pending(CarryPlan[history], <<"raw">>) = {}
AllDone ==
    CarryDone /\ \A i \in Ids : Pending(BucketPlan[history][i], WatermarkSource(i)) = {}

\* Every tier shows every row, unless all of them are of one instant.
Times == {r.slot : r \in BagToSet(rows)}
Shows(t) == \A s \in Times : (\E o \in Times : o # s) => s \in mat[t]
Shown == \A t \in NewTiers : Shows(t)

\* The windows of the written span, and what a refreshed one has shown.
SpanWindows ==
    UNION {{[k |-> k, start |-> v.start, end |-> v.end] :
              v \in RefreshWindows[Min(Times)][Max(Times)][RefreshOrder[k]]} : k \in 1..3}
Refreshed(w) ==
    LET t == RefreshOrder[w.k]
    IN  \A s \in Times :
          w.start <= BucketOf(s, t) /\ BucketOf(s, t) + Width(t) <= w.end => s \in mat[t]

NextRefreshed == NotRefreshed # {} /\ Refreshed(NextOf(NotRefreshed))

\* What a record that was read at any time says.
Claim(rec) ==
    /\ rec \in Record /\ rec.source = record.source /\ rec.stage # "none"
    /\ rec.stage \in Lifted \union {"carried"} => rec.source \in Ids
    /\ rec.stage = "carried" => CarryDone
    /\ rec.stage \in Lifted => AllDone /\ Shown

\* Before the record there is nothing, and nobody at work.
Untouched ==
    record.stage = "none" =>
      /\ rows = EmptyBag /\ progress = {}
      /\ task.pc \in {"idle", "start"} /\ \A r \in Reqs : req[r].pc = "idle"

\* The records in the database and in flight.
Claims ==
    /\ record.stage # "none" => Claim(record)
    /\ task.pc \notin {"idle", "start"} => Claim(task.rec) /\ record.source \in Ids
    /\ \A r \in Reqs : req[r].pc # "idle" => Claim(req[r].rec)

\* What the run has behind it.
Behind ==
    /\ task.pc \in {"carried", "replay", "refresh", "mark", "done"} => CarryDone
    /\ task.pc \in {"refresh", "mark", "done"} => AllDone
    /\ task.pc = "mark" => NextRefreshed
    /\ task.pc = "done" => Shown

\* A window is recorded once all rows are there and it has been refreshed.
Marks ==
    /\ \A p \in progress : p[1] \in {<<"refresh", t>> : t \in NewTiers} => AllDone
    /\ Times # {} => \A w \in SpanWindows : Mark(w) \in progress => Refreshed(w)

\* A relation goes when all it held has been written.
Gone ==
    (\E t \in Relations : catalog[t] = "gone") =>
      AllDone /\ record.source \in Ids /\ record.stage # "none"

Shape ==
    /\ task \in [pc : {"idle", "start", "carry", "carried", "replay", "refresh", "mark", "done"},
                 rec : Record \union {None}]
    /\ req \in [Reqs -> [pc : {"idle", "slug", "stamp", "release"}, rec : Record \union {None},
                         slug : Slugs \union {None}, later : BOOLEAN]]

IInv ==
    /\ TypeOK /\ Shape /\ rows = SetToBag(Written)
    /\ Untouched /\ Claims /\ Behind /\ Marks /\ Gone

\* A step that leaves the watermarks and the source alone.
LEMMA QuietDone ==
    ASSUME UNCHANGED <<history, progress>>, record'.source = record.source
    PROVE  Written' = Written /\ (CarryDone' <=> CarryDone) /\ (AllDone' <=> AllDone)
<1>1. Written' = Written
    BY DEF Written, WatermarkSource
<1>2. CarryDone' <=> CarryDone
    BY DEF CarryDone, Pending
<1>3. AllDone' <=> AllDone
    <2>1. \A i : WatermarkSource(i)' = WatermarkSource(i)
        BY DEF WatermarkSource
    <2>2. \A i : Pending(BucketPlan[history][i], WatermarkSource(i))' =
                 Pending(BucketPlan[history][i], WatermarkSource(i))
        BY <2>1 DEF Pending
    <2> QED
        BY <1>2, <2>2 DEF AllDone
<1> QED
    BY <1>1, <1>2, <1>3

\* A step that leaves rows, watermarks and tiers alone, and the source, changes
\* none of these.
LEMMA Quiet ==
    ASSUME UNCHANGED <<history, rows, progress, mat>>, record'.source = record.source
    PROVE  /\ Written' = Written /\ (CarryDone' <=> CarryDone) /\ (AllDone' <=> AllDone)
           /\ (Shown' <=> Shown) /\ (NextRefreshed' <=> NextRefreshed) /\ (Marks' <=> Marks)
<1>1. Written' = Written /\ (CarryDone' <=> CarryDone)
    BY QuietDone
<1>2. AllDone' <=> AllDone
    BY QuietDone
<1>3. Times' = Times
    BY DEF Times
<1>4. Shown' <=> Shown
    BY <1>3 DEF Shown, Shows
<1>5. NotRefreshed' = NotRefreshed
    BY DEF NotRefreshed
<1>6. \A w : Refreshed(w)' <=> Refreshed(w)
    BY <1>3 DEF Refreshed
<1>7. NextRefreshed' <=> NextRefreshed
    BY <1>3, <1>5 DEF NextRefreshed, Refreshed
<1>8. SpanWindows' = SpanWindows
    BY <1>3 DEF SpanWindows
<1>9. Marks' <=> Marks
    BY <1>2, <1>3, <1>6, <1>8 DEF Marks
<1> QED
    BY <1>1, <1>2, <1>4, <1>7, <1>9

\* The bag of a set holds each of its members once.
LEMMA BagOfSet ==
    ASSUME NEW S
    PROVE  /\ BagToSet(SetToBag(S)) = S /\ \A x \in S : SetToBag(S)[x] = 1
           /\ EmptyBag = SetToBag({})
BY DEF BagToSet, SetToBag, EmptyBag

\* Two sets with nothing in common add up to the bag of their union.
LEMMA BagOfUnion ==
    ASSUME NEW S, NEW T, S \intersect T = {}
    PROVE  SetToBag(S) (+) SetToBag(T) = SetToBag(S \union T)
<1> DEFINE A == SetToBag(S)
           B == SetToBag(T)
<1>1. DOMAIN A = S /\ DOMAIN B = T /\ (\A x \in S : A[x] = 1) /\ \A x \in T : B[x] = 1
    BY DEF SetToBag
<1>2. A (+) B = [e \in S \union T |->
                   (IF e \in S THEN A[e] ELSE 0) + (IF e \in T THEN B[e] ELSE 0)]
    <2> HIDE DEF A, B
    <2> QED
        BY <1>1 DEF (+)
<1>3. \A e \in S \union T : (IF e \in S THEN A[e] ELSE 0) + (IF e \in T THEN B[e] ELSE 0) = 1
    <2> HIDE DEF A, B
    <2> QED
        BY <1>1
<1> QED
    BY <1>2, <1>3 DEF SetToBag

\* What is written is planned; all of it once nothing is left.
LEMMA WrittenIs ==
    ASSUME history \in Histories, record.source \in Ids
    PROVE  /\ Written \subseteq Planned(history, record.source)
           /\ CarryDone => RawRows(history, record.source) \subseteq Written
           /\ AllDone => Written = Planned(history, record.source)
<1>1. ASSUME NEW r \in Written PROVE r \in Planned(history, record.source)
    BY DEF Written, Planned, Buckets, RawRows
<1>2. ASSUME CarryDone, NEW r \in RawRows(history, record.source) PROVE r \in Written
    <2>1. r \in Row /\ r.src = "raw" /\ r.id = record.source /\ r.slot \in history.raw
        BY DEF RawRows
    <2>2. PICK c \in CarryPlan[history] : c.start <= r.slot /\ r.slot < c.end
        BY <2>1, RawCarried
    <2>3. <<<<"raw">>, c.start>> \in progress
        BY <1>2 DEF CarryDone, Pending
    <2> QED
        BY <2>1, <2>2, <2>3 DEF Written
<1>3. ASSUME AllDone, NEW r \in Buckets(history) PROVE r \in Written
    <2>1. r \in Row /\ r.src \in NewTiers /\ r.id \in Ids
        BY DEF Buckets, Row
    <2>2. PICK c \in BucketPlan[history][r.id] :
            /\ c.tier = r.src /\ r.slot \in history[r.src][r.id]
            /\ c.start <= r.slot /\ r.slot < c.end
        BY DEF Buckets
    <2>3. <<WatermarkSource(r.id), c.start>> \in progress
        BY <1>3, <2>1 DEF AllDone, Pending
    <2> QED
        BY <2>1, <2>2, <2>3 DEF Written
<1>4. AllDone => CarryDone
    BY DEF AllDone
<1> QED
    BY <1>1, <1>2, <1>3, <1>4 DEF Planned

\* The instants that are written lie between the first and the last, which differ
\* when there are two.
LEMMA TimesAre ==
    ASSUME history \in Histories, rows = SetToBag(Written), Times # {}
    PROVE  /\ Times = {r.slot : r \in Written} /\ Times \subseteq Slots
           /\ Min(Times) \in Slots /\ Max(Times) \in Slots
           /\ Min(Times) \in Times /\ Max(Times) \in Times
           /\ \A s \in Times : s \in Min(Times)..Max(Times)
           /\ \A s, o \in Times : o # s => Min(Times) < Max(Times)
<1>1. Times = {r.slot : r \in Written}
    BY BagOfSet DEF Times
<1>2. Times \subseteq Slots
    BY <1>1 DEF Written, Row
<1>3. \A s \in Times : s \in Nat /\ 0 <= s /\ s <= Horizon
    BY <1>2, Calendar DEF Slots
<1>4. Times \in SUBSET Int /\ 0 \in Int /\ Horizon \in Int
    BY <1>3, Calendar
<1>5. Min(Times) \in Times /\ \A s \in Times : Min(Times) <= s
    BY <1>3, <1>4, Least
<1>6. Max(Times) \in Times /\ \A s \in Times : s <= Max(Times)
    BY <1>3, <1>4, Greatest
<1>7. ASSUME NEW s \in Times, NEW o \in Times, o # s PROVE Min(Times) < Max(Times)
    <2> HIDE DEF Times
    <2> QED
        BY <1>3, <1>5, <1>6, <1>7
<1>8. \A s \in Times : s \in Min(Times)..Max(Times)
    BY <1>3, <1>5, <1>6
<1> QED
    BY <1>1, <1>2, <1>5, <1>6, <1>7, <1>8

\* The watermarks of two plans, and those of the refresh, are apart.
RefreshKeys == {<<"refresh", t>> : t \in NewTiers}
LEMMA Keys ==
    /\ <<"raw">> \notin RefreshKeys
    /\ \A i \in Ids : WatermarkSource(i) # <<"raw">> /\ WatermarkSource(i) \notin RefreshKeys
    /\ \A i, j \in Ids : WatermarkSource(i) = WatermarkSource(j) => i = j
<1>1. /\ \A t : <<"raw">> # <<"refresh", t>> /\ <<"buckets">> # <<"refresh", t>>
      /\ \A i, t : <<"buckets", i>> # <<"refresh", t>>
      /\ <<"buckets">> # <<"raw">>
      /\ \A i : <<"buckets", i>> # <<"raw">> /\ <<"buckets", i>> # <<"buckets">>
      /\ \A i, j : <<"buckets", i>> = <<"buckets", j>> => i = j
    OBVIOUS
<1>2. \A i : WatermarkSource(i) = IF i = record.source THEN <<"buckets">> ELSE <<"buckets", i>>
    BY DEF WatermarkSource
<1> QED
    BY <1>1, <1>2 DEF RefreshKeys

\* A chunk adds the rows its watermark stands for, and none that are there.
LEMMA CarryWrites ==
    ASSUME history \in Histories, rows = SetToBag(Written), record.source \in Ids,
           NEW c \in Pending(CarryPlan[history], <<"raw">>),
           ReplayChunk("raw", record.source, CarryHolds(history), <<"raw">>, c),
           UNCHANGED <<history, record>>
    PROVE  rows' = SetToBag(Written')
<1> DEFINE f == CarryHolds(history)
           N == {[src |-> "raw", id |-> record.source, slot |-> s] :
                   s \in {x \in f[c.tier] : c.start <= x /\ x < c.end}}
<1>1. /\ c \in CarryPlan[history] /\ <<<<"raw">>, c.start>> \notin progress
      /\ rows' = rows (+) SetToBag(N) /\ progress' = progress \union {<<<<"raw">>, c.start>>}
    BY DEF Pending, ReplayChunk
<1>2. /\ f \in Holdings /\ f["minute"] = history.raw /\ CarryPlan[history] = PlanReplay(f, Horizon)
      /\ Horizon \in 0..Horizon /\ c.tier = "minute" /\ history.raw \subseteq Slots
    BY <1>1, CarryReads, RawCarried, HistoryIs
<1>3. \A e \in CarryPlan[history] : e.start = c.start => e = c
    BY <1>1, <1>2, PlanShape
<1>4. \A r : r \in N <=> /\ r \in Row /\ r.src = "raw" /\ r.id = record.source
                         /\ r.slot \in history.raw /\ c.start <= r.slot /\ r.slot < c.end
    BY <1>2 DEF Row, Relations
<1> HIDE DEF N
<1>5. \A e : <<<<"raw">>, e>> \in progress' <=> <<<<"raw">>, e>> \in progress \/ e = c.start
    BY <1>1
<1>6. \A i \in Ids : \A e : /\ WatermarkSource(i)' = WatermarkSource(i)
                            /\ <<WatermarkSource(i), e>> \in progress' <=>
                                 <<WatermarkSource(i), e>> \in progress
    <2>1. \A i : WatermarkSource(i)' = WatermarkSource(i)
        BY DEF WatermarkSource
    <2> QED
        BY <1>1, <2>1, Keys
<1>7. Written' = Written \union N
    <2>1. ASSUME NEW r \in Row PROVE r \in Written' <=> r \in Written \/ r \in N
        <3> DEFINE P(X) == \E e \in CarryPlan[history] :
                     <<<<"raw">>, e.start>> \in X /\ e.start <= r.slot /\ r.slot < e.end
                   Q == r.src = "raw" /\ r.id = record.source /\ r.slot \in history.raw
                   B == /\ r.src \in NewTiers /\ r.slot \in history[r.src][r.id]
                        /\ \E e \in BucketPlan[history][r.id] :
                             /\ <<WatermarkSource(r.id), e.start>> \in progress
                             /\ e.tier = r.src /\ e.start <= r.slot /\ r.slot < e.end
        <3>1. r \in Written <=> (Q /\ P(progress)) \/ B
            BY DEF Written
        <3>2. r.id \in Ids
            BY DEF Row
        <3>3. r \in Written' <=> (Q /\ P(progress')) \/ B
            BY <1>6, <3>2 DEF Written
        <3>4. P(progress') <=> P(progress) \/ (c.start <= r.slot /\ r.slot < c.end)
            BY <1>1, <1>3, <1>5
        <3>5. r \in N <=> Q /\ c.start <= r.slot /\ r.slot < c.end
            BY <1>4
        <3> HIDE DEF P, Q, B
        <3> QED
            BY <3>1, <3>3, <3>4, <3>5
    <2>2. Written \subseteq Row /\ Written' \subseteq Row /\ N \subseteq Row
        BY <1>4 DEF Written
    <2> QED
        BY <2>1, <2>2
<1>8. Written \intersect N = {}
    <2> SUFFICES ASSUME NEW r \in Written, r \in N PROVE FALSE
        OBVIOUS
    <2>1. r \in Row /\ r.src = "raw" /\ c.start <= r.slot /\ r.slot < c.end
        BY <1>4
    <2>2. PICK e \in CarryPlan[history] :
            <<<<"raw">>, e.start>> \in progress /\ e.start <= r.slot /\ r.slot < e.end
        BY <2>1 DEF Written, NewTiers
    <2>3. r.slot \in Nat
        BY <2>1, Calendar DEF Row, Slots
    <2>4. e = c
        BY <1>1, <1>2, <2>1, <2>2, <2>3, PlanShape, ChunksApart
    <2> QED
        BY <1>1, <2>2, <2>4
<1> QED
    BY <1>1, <1>7, <1>8, BagOfUnion

\* The same for a chunk of the buckets.
LEMMA ReplayWrites ==
    ASSUME history \in Histories, rows = SetToBag(Written), NEW i \in Ids,
           NEW c \in Pending(BucketPlan[history][i], WatermarkSource(i)),
           ReplayChunk(c.tier, i, BucketHolds(history, i), WatermarkSource(i), c),
           UNCHANGED <<history, record>>
    PROVE  rows' = SetToBag(Written')
<1> DEFINE f == BucketHolds(history, i)
           N == {[src |-> c.tier, id |-> i, slot |-> s] :
                   s \in {x \in f[c.tier] : c.start <= x /\ x < c.end}}
<1>1. /\ c \in BucketPlan[history][i] /\ <<WatermarkSource(i), c.start>> \notin progress
      /\ rows' = rows (+) SetToBag(N)
      /\ progress' = progress \union {<<WatermarkSource(i), c.start>>}
    BY DEF Pending, ReplayChunk
<1>2. /\ f \in Holdings /\ BucketPlan[history][i] = PlanReplay(f, ReplayEnd(history))
      /\ ReplayEnd(history) \in 0..Horizon /\ \A t \in NewTiers : f[t] = history[t][i]
    BY BucketReads, RawBegins
<1>3. c.tier \in NewTiers /\ \A e \in BucketPlan[history][i] : e.start = c.start => e = c
    BY <1>1, <1>2, PlanShape
<1>4. \A r : r \in N <=> /\ r \in Row /\ r.src = c.tier /\ r.id = i
                         /\ r.slot \in history[r.src][r.id] /\ c.start <= r.slot /\ r.slot < c.end
    <2>1. f[c.tier] = history[c.tier][i] /\ f[c.tier] \subseteq Slots /\ c.tier \in Relations
        BY <1>2, <1>3 DEF Holdings, NewTiers, Relations
    <2> HIDE DEF f
    <2> QED
        BY <2>1 DEF Row
<1> HIDE DEF N
<1>5. /\ \A j \in Ids : WatermarkSource(j)' = WatermarkSource(j)
      /\ \A e : <<<<"raw">>, e>> \in progress' <=> <<<<"raw">>, e>> \in progress
      /\ \A j \in Ids : \A e : <<WatermarkSource(j), e>> \in progress' <=>
           <<WatermarkSource(j), e>> \in progress \/ (i = j /\ e = c.start)
    <2>1. \A j : WatermarkSource(j)' = WatermarkSource(j)
        BY DEF WatermarkSource
    <2> QED
        BY <1>1, <2>1, Keys
<1>6. Written' = Written \union N
    <2>1. ASSUME NEW r \in Row PROVE r \in Written' <=> r \in Written \/ r \in N
        <3> DEFINE A == /\ r.src = "raw" /\ r.id = record.source /\ r.slot \in history.raw
                        /\ \E e \in CarryPlan[history] :
                             /\ <<<<"raw">>, e.start>> \in progress
                             /\ e.start <= r.slot /\ r.slot < e.end
                   Q == r.src \in NewTiers /\ r.slot \in history[r.src][r.id]
                   P(X) == \E e \in BucketPlan[history][r.id] :
                             /\ <<WatermarkSource(r.id), e.start>> \in X
                             /\ e.tier = r.src /\ e.start <= r.slot /\ r.slot < e.end
        <3>1. r.id \in Ids
            BY DEF Row
        <3>2. r \in Written <=> A \/ (Q /\ P(progress))
            BY DEF Written
        <3>3. r \in Written' <=> A \/ (Q /\ P(progress'))
            BY <1>5, <3>1 DEF Written
        <3>4. P(progress') <=> P(progress) \/ (r.id = i /\ r.src = c.tier /\ c.start <= r.slot /\ r.slot < c.end)
            BY <1>1, <1>3, <1>5, <3>1
        <3>5. r \in N <=> Q /\ r.id = i /\ r.src = c.tier /\ c.start <= r.slot /\ r.slot < c.end
            BY <1>3, <1>4
        <3> HIDE DEF P, Q, A
        <3> QED
            BY <3>2, <3>3, <3>4, <3>5
    <2>2. Written \subseteq Row /\ Written' \subseteq Row /\ N \subseteq Row
        BY <1>4 DEF Written
    <2> QED
        BY <2>1, <2>2
<1>7. Written \intersect N = {}
    <2> SUFFICES ASSUME NEW r \in Written, r \in N PROVE FALSE
        OBVIOUS
    <2>1. r \in Row /\ r.src = c.tier /\ r.id = i /\ c.start <= r.slot /\ r.slot < c.end
        BY <1>4
    <2>2. PICK e \in BucketPlan[history][i] :
            <<WatermarkSource(i), e.start>> \in progress /\ e.start <= r.slot /\ r.slot < e.end
        BY <1>3, <2>1 DEF Written, NewTiers
    <2>3. r.slot \in Nat
        BY <2>1, Calendar DEF Row, Slots
    <2>4. e = c
        BY <1>1, <1>2, <2>1, <2>2, <2>3, PlanShape, ChunksApart
    <2> QED
        BY <1>1, <2>2, <2>4
<1> QED
    BY <1>1, <1>6, <1>7, BagOfUnion

\* The tiers in the order of their refresh.
LEMMA OrderIs ==
    /\ RefreshOrder[1] = "hourly" /\ RefreshOrder[2] = "daily" /\ RefreshOrder[3] = "minute"
    /\ \A k \in 1..3 : RefreshOrder[k] \in NewTiers
    /\ \A t \in NewTiers : \E k \in 1..3 : RefreshOrder[k] = t
    /\ \A j, k \in 1..3 : RefreshOrder[j] = RefreshOrder[k] => j = k
BY DEF RefreshOrder, NewTiers

\* A window of the span is known by its mark.
LEMMA MarkIs ==
    ASSUME history \in Histories, rows = SetToBag(Written), Times # {}
    PROVE  /\ \A w \in SpanWindows : /\ w.k \in 1..3 /\ w.start \in Int
                                     /\ Min(Times) - 2 * SlotsPerDay <= w.start
                                     /\ Mark(w)[1] \in RefreshKeys
           /\ \A v, w \in SpanWindows : Mark(v) = Mark(w) => v = w
<1> DEFINE a == Min(Times)
           z == Max(Times)
           V(k) == RefreshWindows[a][z][RefreshOrder[k]]
<1>1. a \in Slots /\ z \in Slots /\ a \in Nat
    BY TimesAre, Calendar DEF Slots
<1>2. \A w \in SpanWindows : /\ w.k \in 1..3
                             /\ \E v \in V(w.k) : w = [k |-> w.k, start |-> v.start, end |-> v.end]
    BY DEF SpanWindows
<1> HIDE DEF a, z
<1>3. ASSUME NEW k \in 1..3, NEW v \in V(k)
      PROVE  /\ v.start \in Int /\ a - 2 * SlotsPerDay <= v.start
             /\ \A w \in V(k) : w.start = v.start => w = v
    <2> DEFINE t == RefreshOrder[k]
    <2>1. t \in NewTiers /\ t \in Relations
        BY OrderIs DEF NewTiers, Relations
    <2>2. Width(t) \in Nat /\ Width(t) <= SlotsPerDay /\ SlotsPerDay \in Nat
        BY <2>1, Widths, HoursOfDay
    <2>3. /\ v.start \in Int /\ a - 2 * Width(t) <= v.start
          /\ \A w \in V(k) : w.start = v.start => w = v
        BY <1>1, <2>1, Windows
    <2> HIDE DEF t
    <2> QED
        BY <1>1, <2>2, <2>3
<1> HIDE DEF V
<1>4. ASSUME NEW w \in SpanWindows
      PROVE  /\ w.k \in 1..3 /\ w.start \in Int /\ a - 2 * SlotsPerDay <= w.start
             /\ Mark(w) = <<<<"refresh", RefreshOrder[w.k]>>, w.start>>
             /\ Mark(w)[1] \in RefreshKeys
    <2>1. w.k \in 1..3
        BY <1>2
    <2>2. PICK v \in V(w.k) : w = [k |-> w.k, start |-> v.start, end |-> v.end]
        BY <1>2
    <2>3. w.start = v.start
        BY <2>2
    <2>4. v.start \in Int /\ a - 2 * SlotsPerDay <= v.start
        BY <1>3, <2>1
    <2>5. Mark(w)[1] \in RefreshKeys
        BY <2>1, OrderIs DEF Mark, RefreshKeys
    <2> QED
        BY <2>1, <2>3, <2>4, <2>5 DEF Mark
<1>5. ASSUME NEW v \in SpanWindows, NEW w \in SpanWindows, Mark(v) = Mark(w) PROVE v = w
    <2>1. RefreshOrder[v.k] = RefreshOrder[w.k] /\ v.start = w.start
        BY <1>4, <1>5
    <2>2. v.k = w.k
        BY <1>4, <2>1, OrderIs
    <2>3. PICK x \in V(v.k) : v = [k |-> v.k, start |-> x.start, end |-> x.end]
        BY <1>2
    <2>4. PICK y \in V(w.k) : w = [k |-> w.k, start |-> y.start, end |-> y.end]
        BY <1>2
    <2>5. x.start = v.start /\ y.start = w.start
        BY <2>3, <2>4
    <2>6. x = y
        BY <1>3, <1>4, <2>1, <2>2, <2>5
    <2> QED
        BY <2>2, <2>3, <2>4, <2>6
<1> QED
    BY <1>4, <1>5 DEF a

\* What is not refreshed, and the one that comes next.
LEMMA NextIs ==
    ASSUME history \in Histories, rows = SetToBag(Written)
    PROVE  /\ \A w : w \in NotRefreshed <=> Times # {} /\ w \in SpanWindows /\ Mark(w) \notin progress
           /\ NotRefreshed # {} =>
                /\ NextOf(NotRefreshed) \in NotRefreshed
                /\ \A o \in NotRefreshed : NextOf(NotRefreshed).k <= o.k
<1> DEFINE S == NotRefreshed
<1>1. \A w : w \in S <=> Times # {} /\ w \in SpanWindows /\ Mark(w) \notin progress
    BY DEF NotRefreshed, Times, SpanWindows
<1> HIDE DEF S
<1>2. ASSUME S # {}
      PROVE  NextOf(S) \in S /\ \A o \in S : NextOf(S).k <= o.k
    <2>1. /\ Times # {} /\ Min(Times) - 2 * SlotsPerDay \in Int
          /\ \A w \in S : /\ w.k \in 1..3 /\ w.start \in Int
                          /\ Min(Times) - 2 * SlotsPerDay <= w.start
        <3>1. Times # {} /\ S \subseteq SpanWindows
            BY <1>1, <1>2
        <3>2. Min(Times) \in Nat
            BY <3>1, TimesAre, Calendar DEF Slots
        <3>3. \A w \in SpanWindows : /\ w.k \in 1..3 /\ w.start \in Int
                                     /\ Min(Times) - 2 * SlotsPerDay <= w.start
            BY <3>1, MarkIs
        <3> QED
            BY <3>1, <3>2, <3>3, HoursOfDay
    <2> DEFINE K == {w.k : w \in S}
               T == {w \in S : w.k = Min(K)}
               B == {w.start : w \in T}
    <2>2. K \in SUBSET Int /\ 1 \in Int /\ (\A k \in K : 1 <= k) /\ K # {}
        BY <1>2, <2>1
    <2>3. Min(K) \in K /\ \A k \in K : Min(K) <= k
        <3> HIDE DEF K
        <3> QED
            BY <2>2, Least
    <2>4. T # {} /\ T \subseteq S
        BY <2>3
    <2>5. B \in SUBSET Int /\ (\A x \in B : Min(Times) - 2 * SlotsPerDay <= x) /\ B # {}
        BY <2>1, <2>4
    <2>6. Min(B) \in B /\ \A x \in B : Min(B) <= x
        <3> HIDE DEF B
        <3> QED
            BY <2>1, <2>5, Least
    <2>7. PICK w \in T : w.start = Min(B)
        BY <2>6
    <2>8. \A o \in S : w.k < o.k \/ (w.k = o.k /\ w.start <= o.start)
        <3> SUFFICES ASSUME NEW o \in S PROVE w.k < o.k \/ (w.k = o.k /\ w.start <= o.start)
            OBVIOUS
        <3>1. w.k = Min(K) /\ o.k \in K /\ w.k \in Int /\ o.k \in Int
            BY <2>1, <2>4
        <3>2. w.k <= o.k
            BY <2>3, <3>1
        <3>3. w.k = o.k => w.start <= o.start
            <4> SUFFICES ASSUME w.k = o.k PROVE w.start <= o.start
                OBVIOUS
            <4>1. o.start \in B
                BY <3>1
            <4> QED
                BY <2>6, <2>7, <4>1
        <3> HIDE DEF K, T, B
        <3> QED
            BY <3>1, <3>2, <3>3
    <2>9. w \in S
        BY <2>4
    <2> HIDE DEF K, T, B
    <2>10. /\ NextOf(S) \in S
           /\ \A o \in S : \/ NextOf(S).k < o.k
                           \/ NextOf(S).k = o.k /\ NextOf(S).start <= o.start
        BY <2>8, <2>9 DEF NextOf
    <2> QED
        BY <2>1, <2>10
<1> QED
    BY <1>1, <1>2 DEF S

\* A tier none of whose windows is left shows every row.
LEMMA TierShows ==
    ASSUME history \in Histories, rows = SetToBag(Written), record.source \in Ids, AllDone, Marks,
           NEW k \in 1..3, \A w \in NotRefreshed : w.k # k
    PROVE  Shows(RefreshOrder[k])
<1> DEFINE t == RefreshOrder[k]
<1> SUFFICES ASSUME NEW s \in Times, NEW o \in Times, o # s PROVE s \in mat[t]
    BY DEF Shows
<1>1. t \in NewTiers /\ Times # {}
    BY OrderIs
<1>2. Min(Times) \in Slots /\ Max(Times) \in Slots /\ s \in Min(Times)..Max(Times)
        /\ Min(Times) < Max(Times)
    BY TimesAre
<1>3. PICK v \in RefreshWindows[Min(Times)][Max(Times)][t] :
        v.start <= BucketOf(s, t) /\ BucketOf(s, t) + Width(t) <= v.end
    BY <1>1, <1>2, Windows
<1> DEFINE w == [k |-> k, start |-> v.start, end |-> v.end]
<1>4. w \in SpanWindows /\ w.k = k /\ w.start = v.start /\ w.end = v.end
    <2> DEFINE U(j) == {[k |-> j, start |-> u.start, end |-> u.end] :
                          u \in RefreshWindows[Min(Times)][Max(Times)][RefreshOrder[j]]}
    <2>1. w \in U(k)
        BY <1>3
    <2>2. SpanWindows = UNION {U(j) : j \in 1..3}
        BY DEF SpanWindows
    <2> HIDE DEF U
    <2>3. w \in SpanWindows
        BY <2>1, <2>2
    <2> QED
        BY <2>3
<1> HIDE DEF w
<1>5. Mark(w) \in progress
    BY <1>1, <1>4, NextIs
<1>6. Refreshed(w)
    BY <1>1, <1>4, <1>5 DEF Marks
<1> QED
    BY <1>3, <1>4, <1>6 DEF Refreshed

-----------------------------------------------------------------------------
(* Every step keeps the invariant *)

\* A database no upgrade has touched.
LEMMA InitInv == Init => IInv
<1> SUFFICES ASSUME Init PROVE IInv
    OBVIOUS
<1>1. /\ history \in Histories /\ progress = {} /\ rows = EmptyBag /\ task = NoTask
      /\ req = [r \in Reqs |-> NoReq] /\ record = [stage |-> "none", names |-> FALSE, source |-> None]
      /\ catalog = [r \in Relations |-> "old"] /\ mat = [t \in NewTiers |-> {}]
      /\ slug \in Slugs /\ boot = "down" /\ held = FALSE
    BY DEF Init
<1>2. Written = {}
    BY <1>1 DEF Written
<1>3. rows = SetToBag(Written) /\ BagToSet(rows) = {} /\ Times = {}
    BY <1>1, <1>2, BagOfSet DEF Times
<1>4. TypeOK
    <2>1. record \in Record
        BY <1>1 DEF Record, Stages
    <2>2. \A r \in Reqs : req[r] = NoReq
        BY <1>1
    <2> QED
        BY <1>1, <1>3, <2>1, <2>2 DEF TypeOK, NoTask, NoReq, NewTiers, Relations
<1>5. Shape
    BY <1>1 DEF Shape, NoTask, NoReq
<1>6. Untouched /\ Claims /\ Behind
    BY <1>1 DEF Untouched, Claims, Behind, NoTask, NoReq
<1>7. Marks /\ Gone
    BY <1>1, <1>3 DEF Marks, Gone
<1> QED
    BY <1>3, <1>4, <1>5, <1>6, <1>7 DEF IInv

\* What a quiet step keeps.
LEMMA QuietKeeps ==
    ASSUME IInv, UNCHANGED <<history, rows, progress, mat>>, record'.source = record.source
    PROVE  /\ rows' = SetToBag(Written') /\ Marks'
           /\ (CarryDone' <=> CarryDone) /\ (AllDone' <=> AllDone)
           /\ (Shown' <=> Shown) /\ (NextRefreshed' <=> NextRefreshed)
BY Quiet DEF IInv

\* Steps that touch neither the record nor what is at work.
LEMMA StepIdle ==
    ASSUME IInv, UNCHANGED <<history, record, rows, progress, mat, slug, task, req>>,
           catalog' \in [Relations -> {"old", "legacy", "gone"}],
           \A t \in Relations : catalog'[t] = "gone" => catalog[t] = "gone",
           boot' \in {"down", "detach", "rename", "read", "record", "up"}, held' \in BOOLEAN
    PROVE  IInv'
<1>1. /\ rows' = SetToBag(Written') /\ Marks' /\ (CarryDone' <=> CarryDone)
      /\ (AllDone' <=> AllDone) /\ (Shown' <=> Shown) /\ (NextRefreshed' <=> NextRefreshed)
    BY QuietKeeps
<1>2. TypeOK' /\ Shape'
    BY DEF IInv, TypeOK, Shape
<1>3. Untouched'
    BY DEF IInv, Untouched
<1>4. Claims'
    BY <1>1 DEF IInv, Claims, Claim
<1>5. Behind'
    BY <1>1 DEF IInv, Behind
<1>6. Gone'
    BY <1>1 DEF IInv, Gone
<1> QED
    BY <1>1, <1>2, <1>3, <1>4, <1>5, <1>6 DEF IInv

\* The blocking step, up to the record.
LEMMA StepBoot ==
    ASSUME IInv, BootStart \/ Detach \/ DetachFails \/ RenameNext \/ ReadLegacy \/ ReadFails
    PROVE  IInv'
<1>1. catalog \in [Relations -> {"old", "legacy", "gone"}] /\ held \in BOOLEAN
    BY DEF IInv, TypeOK
<1>2. NeedsOnboarding(record) \in BOOLEAN
    BY DEF NeedsOnboarding
<1>3. UNCHANGED <<history, record, rows, progress, mat, slug, task, req>>
    BY DEF BootStart, Detach, DetachFails, RenameNext, ReadLegacy, ReadFails, BootFails, dbVars
<1>4. CASE RenameNext
    <2>1. /\ catalog' = [catalog EXCEPT ![FirstUnder("old")] = "legacy"]
          /\ boot' \in {"read", "rename"} /\ held' = held
        BY <1>4 DEF RenameNext
    <2>2. catalog' \in [Relations -> {"old", "legacy", "gone"}]
        BY <1>1, <2>1
    <2>3. \A t \in Relations : catalog'[t] = "gone" => catalog[t] = "gone"
        BY <1>1, <2>1
    <2> QED
        BY <1>1, <1>3, <2>1, <2>2, <2>3, StepIdle
<1>5. CASE BootStart \/ Detach \/ DetachFails \/ ReadLegacy \/ ReadFails
    <2>1. /\ catalog' = catalog /\ held' \in BOOLEAN
          /\ boot' \in {"down", "detach", "rename", "read", "record", "up"}
        BY <1>1, <1>2, <1>5 DEF BootStart, Detach, DetachFails, ReadLegacy, ReadFails, BootFails, dbVars
    <2> QED
        BY <1>1, <1>3, <2>1, StepIdle
<1> QED
    BY <1>4, <1>5

\* Without raw samples there is nothing to carry.
LEMMA NoRawNoCarry ==
    ASSUME history \in Histories, history.raw = {}
    PROVE  CarryDone
<1> SUFFICES ASSUME NEW c \in CarryPlan[history] PROVE FALSE
    BY DEF CarryDone, Pending
<1>1. \E t \in NewTiers : CarryHolds(history)[t] # {}
    BY CarryReads, PlanShape
<1> QED
    BY <1>1, CarryReads DEF NewTiers

\* Steps of the run and of the submits that leave the database alone.
LEMMA StepTask ==
    ASSUME IInv, Kill \/ StartBackfill \/ ReadTask \/ BackfillFails
    PROVE  IInv'
<1>1. UNCHANGED <<history, catalog, record, rows, progress, mat, slug>>
    BY DEF Kill, StartBackfill, ReadTask, BackfillFails, dbVars
<1>2. /\ rows' = SetToBag(Written') /\ Marks' /\ (CarryDone' <=> CarryDone)
      /\ (AllDone' <=> AllDone) /\ (Shown' <=> Shown) /\ (NextRefreshed' <=> NextRefreshed)
    BY <1>1, QuietKeeps
<1>3. \/ req' = req
      \/ req' = [r \in Reqs |-> NoReq]
    BY DEF Kill, StartBackfill, ReadTask, BackfillFails
<1>4. \/ task' = NoTask \/ task' = [NoTask EXCEPT !.pc = "start"]
      \/ /\ task' = [pc |-> IF history.raw = {} THEN "replay" ELSE "carry", rec |-> record]
         /\ record.stage # "none" /\ record.source # None
    BY DEF Kill, StartBackfill, ReadTask, BackfillFails
<1>5. boot' \in {boot, "down"} /\ held' \in {held, FALSE}
    BY DEF Kill, StartBackfill, ReadTask, BackfillFails
<1>6. record \in Record /\ history \in Histories /\ (record.stage # "none" => Claim(record))
    BY DEF IInv, TypeOK, Claims
<1>7. task'.pc \notin {"idle", "start"} =>
        /\ task'.rec = record /\ record.stage # "none" /\ record.source \in Ids
        /\ task'.pc = "carry" \/ (task'.pc = "replay" /\ CarryDone)
    <2>1. record.source \in Ids \union {None}
        BY <1>6 DEF Record
    <2> QED
        BY <1>4, <1>6, <2>1, NoRawNoCarry DEF NoTask
<1>8. Shape'
    <2>1. task' \in [pc : {"idle", "start", "carry", "carried", "replay", "refresh", "mark", "done"},
                     rec : Record \union {None}]
        BY <1>4, <1>6 DEF NoTask
    <2>2. req' \in [Reqs -> [pc : {"idle", "slug", "stamp", "release"}, rec : Record \union {None},
                             slug : Slugs \union {None}, later : BOOLEAN]]
        <3> DEFINE Req == [pc : {"idle", "slug", "stamp", "release"}, rec : Record \union {None},
                           slug : Slugs \union {None}, later : BOOLEAN]
        <3>1. NoReq \in Req
            BY DEF NoReq
        <3>2. req \in [Reqs -> Req]
            BY DEF IInv, Shape
        <3> HIDE DEF Req
        <3>3. req' \in [Reqs -> Req]
            BY <1>3, <3>1, <3>2
        <3> QED
            BY <3>3 DEF Req
    <2> QED
        BY <2>1, <2>2 DEF Shape
<1>9. TypeOK'
    BY <1>1, <1>5, <1>8 DEF IInv, TypeOK, Shape
<1>10. Untouched'
    BY <1>1, <1>3, <1>7 DEF IInv, Untouched, NoReq
<1>11. Claims'
    <2>1. \A r \in Reqs : req'[r].pc # "idle" => req'[r] = req[r]
        BY <1>3 DEF NoReq
    <2>2. \A r \in Reqs : req[r].pc # "idle" => Claim(req[r].rec)
        BY DEF IInv, Claims
    <2> QED
        BY <1>1, <1>2, <1>6, <1>7, <2>1, <2>2 DEF Claims, Claim
<1>12. Behind'
    BY <1>2, <1>7 DEF Behind
<1>13. Gone'
    BY <1>1, <1>2 DEF IInv, Gone
<1> QED
    BY <1>2, <1>8, <1>9, <1>10, <1>11, <1>12, <1>13 DEF IInv

\* A submit carries a record that was read, and writes slug and gate.
LEMMA StepSubmit ==
    ASSUME IInv, NEW r \in Reqs, Submit(r) \/ WriteSlugs(r) \/ Release(r)
    PROVE  IInv'
<1>1. UNCHANGED <<history, catalog, record, rows, progress, mat, boot>>
    BY DEF Submit, WriteSlugs, Release, dbVars
<1>2. /\ rows' = SetToBag(Written') /\ Marks' /\ (CarryDone' <=> CarryDone)
      /\ (AllDone' <=> AllDone) /\ (Shown' <=> Shown) /\ (NextRefreshed' <=> NextRefreshed)
    BY <1>1, QuietKeeps
<1> DEFINE Req == [pc : {"idle", "slug", "stamp", "release"}, rec : Record \union {None},
                   slug : Slugs \union {None}, later : BOOLEAN]
<1>3. /\ req \in [Reqs -> Req] /\ record \in Record /\ slug \in Slugs
      /\ task \in [pc : {"idle", "start", "carry", "carried", "replay", "refresh", "mark", "done"},
                   rec : Record \union {None}]
    BY DEF IInv, Shape, TypeOK
<1>4. \E q \in Req :
        /\ req' = [req EXCEPT ![r] = q]
        /\ \/ q.pc = "idle"
           \/ q.pc # "idle" /\ q.rec = record /\ record.stage # "none"
           \/ q.pc # "idle" /\ q.rec = req[r].rec /\ req[r].pc # "idle"
    <2>1. CASE Submit(r)
        <3>1. PICK s \in Slugs, later \in BOOLEAN :
                req' = [req EXCEPT ![r] = [pc |-> "slug", rec |-> record,
                          slug |-> IF s = slug THEN None ELSE s, later |-> later]]
            BY <2>1 DEF Submit
        <3>2. record.stage # "none"
            BY <2>1 DEF Submit, NeedsOnboarding, InProgress
        <3> DEFINE q == [pc |-> "slug", rec |-> record,
                         slug |-> IF s = slug THEN None ELSE s, later |-> later]
        <3>3. q \in Req /\ q.pc = "slug" /\ q.rec = record
            BY <1>3
        <3>4. req' = [req EXCEPT ![r] = q]
            BY <3>1
        <3> HIDE DEF q, Req
        <3> QED
            BY <3>2, <3>3, <3>4
    <2>2. CASE WriteSlugs(r)
        <3>1. req' = [req EXCEPT ![r].pc = "stamp"] /\ req[r].pc = "slug"
            BY <2>2 DEF WriteSlugs
        <3> DEFINE q == [req[r] EXCEPT !.pc = "stamp"]
        <3>2. q \in Req /\ q.pc = "stamp" /\ q.rec = req[r].rec
            BY <1>3
        <3>3. req' = [req EXCEPT ![r] = q]
            BY <1>3, <3>1
        <3> QED
            BY <3>1, <3>2, <3>3
    <2>3. CASE Release(r)
        <3>1. req' = [req EXCEPT ![r] = NoReq]
            BY <2>3 DEF Release
        <3>2. NoReq \in Req /\ NoReq.pc = "idle"
            BY DEF NoReq
        <3> QED
            BY <3>1, <3>2
    <2> QED
        BY <2>1, <2>2, <2>3
<1>5. PICK q \in Req :
        /\ req' = [req EXCEPT ![r] = q]
        /\ \/ q.pc = "idle"
           \/ q.pc # "idle" /\ q.rec = record /\ record.stage # "none"
           \/ q.pc # "idle" /\ q.rec = req[r].rec /\ req[r].pc # "idle"
    BY <1>4
<1>6. task' = task \/ task' = [NoTask EXCEPT !.pc = "start"]
    BY DEF Submit, WriteSlugs, Release
<1>7. slug' \in Slugs /\ held' \in {held, FALSE}
    <2>1. req[r].slug \in Slugs \union {None}
        BY <1>3
    <2> QED
        BY <1>3, <2>1 DEF Submit, WriteSlugs, Release, dbVars
<1>8. Shape'
    <2>1. req' \in [Reqs -> Req]
        BY <1>3, <1>5
    <2>2. task' \in [pc : {"idle", "start", "carry", "carried", "replay", "refresh", "mark", "done"},
                     rec : Record \union {None}]
        BY <1>3, <1>6 DEF NoTask
    <2> QED
        BY <2>1, <2>2 DEF Shape
<1>9. TypeOK'
    BY <1>1, <1>7, <1>8 DEF IInv, TypeOK, Shape
<1>10. \A x \in Reqs : req'[x] = IF x = r THEN q ELSE req[x]
    BY <1>3, <1>5
<1>11. task'.pc \notin {"idle", "start"} => task' = task
    BY <1>6 DEF NoTask
<1>12. Untouched'
    <2> SUFFICES ASSUME record'.stage = "none"
                 PROVE  /\ rows' = EmptyBag /\ progress' = {}
                        /\ task'.pc \in {"idle", "start"} /\ \A x \in Reqs : req'[x].pc = "idle"
        BY DEF Untouched
    <2>1. /\ rows = EmptyBag /\ progress = {} /\ record.stage = "none"
          /\ task.pc \in {"idle", "start"} /\ \A x \in Reqs : req[x].pc = "idle"
        BY <1>1 DEF IInv, Untouched
    <2>2. q.pc = "idle"
        BY <1>5, <2>1
    <2> QED
        BY <1>1, <1>10, <1>11, <2>1, <2>2
<1>13. Claims'
    <2>1. /\ record.stage # "none" => Claim(record)
          /\ task.pc \notin {"idle", "start"} => Claim(task.rec) /\ record.source \in Ids
          /\ \A x \in Reqs : req[x].pc # "idle" => Claim(req[x].rec)
        BY DEF IInv, Claims
    <2>2. q.pc # "idle" => Claim(q.rec)
        BY <1>5, <2>1
    <2> QED
        BY <1>1, <1>2, <1>10, <1>11, <2>1, <2>2 DEF Claims, Claim
<1>14. Behind'
    BY <1>2, <1>11 DEF IInv, Behind
<1>15. Gone'
    BY <1>1, <1>2 DEF IInv, Gone
<1> QED
    BY <1>2, <1>8, <1>9, <1>12, <1>13, <1>14, <1>15 DEF IInv

\* Steps that write the record back as somebody read it, with a stage the claim
\* of the writer stands behind.
LEMMA StepRecord ==
    ASSUME IInv, UNCHANGED <<history, rows, progress, mat, slug, boot, held>>,
           record' \in Record, record'.source = record.source, record'.stage # "none",
           record.stage # "none",
           record'.stage \in Lifted \union {"carried"} => record.source \in Ids,
           record'.stage = "carried" => CarryDone,
           record'.stage \in Lifted => AllDone /\ Shown,
           catalog' \in [Relations -> {"old", "legacy", "gone"}],
           (\E t \in Relations : catalog'[t] = "gone") =>
             (\E t \in Relations : catalog[t] = "gone") \/ (AllDone /\ record.source \in Ids),
           Shape', \A r \in Reqs : req'[r].pc # "idle" => req[r].pc # "idle" /\ req'[r].rec = req[r].rec,
           \/ task' = task \/ task' = NoTask
           \/ task.pc = "carried" /\ task'.pc = "replay" /\ task'.rec = record'
    PROVE  IInv'
<1>1. /\ rows' = SetToBag(Written') /\ Marks' /\ (CarryDone' <=> CarryDone)
      /\ (AllDone' <=> AllDone) /\ (Shown' <=> Shown) /\ (NextRefreshed' <=> NextRefreshed)
    BY QuietKeeps
<1>2. TypeOK'
    BY DEF IInv, TypeOK, Shape
<1>3. Untouched'
    BY DEF Untouched
<1>4. Claims'
    <2>1. /\ task.pc \notin {"idle", "start"} => Claim(task.rec) /\ record.source \in Ids
          /\ \A x \in Reqs : req[x].pc # "idle" => Claim(req[x].rec)
        BY DEF IInv, Claims
    <2>2. (record.stage # "none" => Claim(record))'
        BY <1>1 DEF Claim
    <2>3. (task.pc \notin {"idle", "start"} => Claim(task.rec) /\ record.source \in Ids)'
        BY <1>1, <2>1, <2>2 DEF Claim, NoTask
    <2>4. (\A x \in Reqs : req[x].pc # "idle" => Claim(req[x].rec))'
        BY <1>1, <2>1 DEF Claim
    <2> QED
        BY <2>2, <2>3, <2>4 DEF Claims
<1>5. Behind'
    BY <1>1 DEF IInv, Behind, NoTask
<1>6. Gone'
    BY <1>1 DEF IInv, Gone
<1> QED
    BY <1>1, <1>2, <1>3, <1>4, <1>5, <1>6 DEF IInv

\* advance() of the run, from the record it started with.
LEMMA StepAdvance ==
    ASSUME IInv, AdvanceCarried \/ AdvanceBackfilled
    PROVE  IInv'
<1>1. /\ UNCHANGED <<history, catalog, rows, progress, mat, slug, boot, held, req>>
      /\ task.pc \in {"carried", "done"}
    BY DEF AdvanceCarried, AdvanceBackfilled
<1>2. /\ Claim(task.rec) /\ record.source \in Ids /\ record.stage # "none"
      /\ CarryDone /\ (task.pc = "done" => AllDone /\ Shown)
    <2>1. record.stage # "none"
        BY <1>1 DEF IInv, Untouched
    <2> QED
        BY <1>1, <2>1 DEF IInv, Claims, Behind
<1>3. task.rec \in Record /\ task.rec.source = record.source
    BY <1>2 DEF Claim
<1>4. catalog \in [Relations -> {"old", "legacy", "gone"}] /\ Shape
    BY DEF IInv, TypeOK
<1>5. CASE AdvanceCarried
    <2>1. record' = [task.rec EXCEPT !.stage = "carried"] /\ task' = [pc |-> "replay", rec |-> record']
        /\ task.pc = "carried"
        BY <1>5 DEF AdvanceCarried, Advance
    <2>2. record' \in Record /\ record'.source = record.source /\ record'.stage = "carried"
        BY <1>3, <2>1 DEF Record, Stages
    <2>3. Shape'
        BY <1>1, <1>4, <2>1, <2>2 DEF Shape
    <2>4. task'.pc = "replay" /\ task'.rec = record'
        BY <2>1
    <2>5. record'.stage \notin Lifted /\ record'.stage # "none"
        BY <2>2 DEF Lifted
    <2> QED
        BY <1>1, <1>2, <1>4, <2>1, <2>2, <2>3, <2>4, <2>5, StepRecord
<1>6. CASE AdvanceBackfilled
    <2>1. record' = [task.rec EXCEPT !.stage = "backfilled"] /\ task' = NoTask /\ task.pc = "done"
        BY <1>6 DEF AdvanceBackfilled, Advance
    <2>2. record' \in Record /\ record'.source = record.source /\ record'.stage = "backfilled"
        BY <1>3, <2>1 DEF Record, Stages
    <2>3. Shape'
        BY <1>1, <1>4, <2>1 DEF Shape, NoTask
    <2>4. record'.stage # "carried" /\ record'.stage # "none"
        BY <2>2
    <2> QED
        BY <1>1, <1>2, <1>4, <2>1, <2>2, <2>3, <2>4, StepRecord
<1> QED
    BY <1>5, <1>6

\* stampRecord(), from the record the submit started with.
LEMMA StepStamp ==
    ASSUME IInv, NEW r \in Reqs, StampRecord(r)
    PROVE  IInv'
<1> DEFINE Req == [pc : {"idle", "slug", "stamp", "release"}, rec : Record \union {None},
                   slug : Slugs \union {None}, later : BOOLEAN]
<1>1. /\ UNCHANGED <<history, catalog, rows, progress, mat, slug, boot, held, task>>
      /\ req[r].pc = "stamp" /\ req' = [req EXCEPT ![r].pc = "release"]
      /\ record' = [req[r].rec EXCEPT !.names = TRUE,
                      !.stage = IF req[r].later THEN "deferred" ELSE @]
    BY DEF StampRecord
<1>2. Claim(req[r].rec) /\ record.stage # "none"
    <2>1. req[r].pc # "idle"
        BY <1>1
    <2> QED
        BY <2>1 DEF IInv, Untouched, Claims
<1>3. req \in [Reqs -> Req] /\ Shape /\ catalog \in [Relations -> {"old", "legacy", "gone"}]
    BY DEF IInv, Shape, TypeOK
<1>4. /\ record' \in Record /\ record'.source = record.source
      /\ record'.stage = "deferred" \/ record'.stage = req[r].rec.stage
    BY <1>1, <1>2 DEF Claim, Record, Stages
<1>5. /\ record'.stage # "none"
      /\ record'.stage \in Lifted \union {"carried"} => record.source \in Ids
      /\ record'.stage = "carried" => CarryDone
      /\ record'.stage \in Lifted => AllDone /\ Shown
    BY <1>2, <1>4 DEF Claim, Lifted
<1>6. \A x \in Reqs : req'[x] = IF x = r THEN [req[r] EXCEPT !.pc = "release"] ELSE req[x]
    BY <1>1, <1>3
<1>7. req' \in [Reqs -> Req]
    <2>1. [req[r] EXCEPT !.pc = "release"] \in Req
        BY <1>3
    <2>2. req' = [req EXCEPT ![r] = [req[r] EXCEPT !.pc = "release"]]
        BY <1>1, <1>3
    <2> HIDE DEF Req
    <2> QED
        BY <1>3, <2>1, <2>2
<1>8. Shape'
    BY <1>1, <1>3, <1>7 DEF Shape
<1>9. \A x \in Reqs : req'[x].pc # "idle" => req[x].pc # "idle" /\ req'[x].rec = req[x].rec
    BY <1>1, <1>3, <1>6
<1> QED
    BY <1>1, <1>2, <1>3, <1>4, <1>5, <1>8, <1>9, StepRecord

\* The verify and drop phases.
LEMMA StepEnd ==
    ASSUME IInv, Verify \/ DropNext
    PROVE  IInv'
<1>1. /\ UNCHANGED <<history, rows, progress, mat, slug, boot, held, task, req>>
      /\ record.stage \in {"backfilled", "verified"}
    BY DEF Verify, DropNext, MayDropLegacy
<1>2. /\ record \in Record /\ Claim(record)
      /\ Shape /\ catalog \in [Relations -> {"old", "legacy", "gone"}]
    BY <1>1 DEF IInv, TypeOK, Claims
<1>3. AllDone /\ Shown /\ record.source \in Ids
    BY <1>1, <1>2 DEF Claim, Lifted
<1>4. /\ record' \in Record /\ record'.source = record.source
      /\ record'.stage \in {"backfilled", "verified", "dropped"}
    BY <1>1, <1>2 DEF Verify, DropNext, Advance, Record, Stages
<1>5. catalog' \in [Relations -> {"old", "legacy", "gone"}]
    <2>1. CASE Verify
        BY <1>2, <2>1 DEF Verify
    <2>2. CASE DropNext
        <3>1. catalog' = catalog \/ catalog' = [catalog EXCEPT ![FirstUnder("legacy")] = "gone"]
            BY <2>2 DEF DropNext
        <3> QED
            BY <1>2, <3>1
    <2> QED
        BY <2>1, <2>2
<1>6. Shape'
    BY <1>1, <1>2 DEF Shape
<1>7. record'.stage # "none" /\ record'.stage # "carried" /\ record.stage # "none"
    BY <1>1, <1>4
<1> QED
    BY <1>1, <1>3, <1>4, <1>5, <1>6, <1>7, StepRecord

\* The record names the source once, before anything is written.
LEMMA StepWriteRecord ==
    ASSUME IInv, WriteRecord
    PROVE  IInv'
<1>1. /\ UNCHANGED <<history, catalog, rows, progress, mat, slug, task, req>>
      /\ boot' = "up" /\ held' \in BOOLEAN
    BY DEF WriteRecord, NeedsOnboarding
<1>2. /\ history \in Histories /\ Shape /\ TypeOK
      /\ catalog \in [Relations -> {"old", "legacy", "gone"}]
    BY DEF IInv, TypeOK
<1>3. CASE record.stage # "none"
    <2>1. record' = record
        BY <1>3 DEF WriteRecord
    <2> QED
        BY <1>1, <1>2, <2>1, StepIdle
<1>4. CASE record.stage = "none"
    <2>1. /\ rows = EmptyBag /\ progress = {}
          /\ task.pc \in {"idle", "start"} /\ \A r \in Reqs : req[r].pc = "idle"
        BY <1>4 DEF IInv, Untouched
    <2>2. SourceIds \subseteq Ids
        BY HistoriesAssumption DEF SourceIds
    <2>3. record' = [stage |-> "cutover", names |-> FALSE,
                     source |-> IF SourceIds = {} THEN None ELSE CHOOSE i \in SourceIds : TRUE]
        BY <1>4 DEF WriteRecord
    <2>4. record' \in Record /\ record'.stage = "cutover"
        BY <2>2, <2>3 DEF Record, Stages
    <2>5. Written' = {}
        BY <1>1, <2>1 DEF Written
    <2>6. rows' = SetToBag(Written') /\ Times' = {}
        BY <1>1, <2>1, <2>5, BagOfSet DEF Times
    <2>7. TypeOK' /\ Shape'
        BY <1>1, <1>2, <2>4 DEF TypeOK, Shape
    <2>8. Untouched' /\ Behind'
        BY <1>1, <2>1, <2>4 DEF Untouched, Behind
    <2>9. Claims'
        BY <1>1, <2>1, <2>4 DEF Claims, Claim, Lifted
    <2>10. Marks'
        BY <1>1, <2>1, <2>6 DEF Marks
    <2>11. Gone'
        BY <1>1, <1>4 DEF IInv, Gone
    <2> QED
        BY <2>6, <2>7, <2>8, <2>9, <2>10, <2>11 DEF IInv
<1> QED
    BY <1>3, <1>4

\* The next chunk is one of those that are left.
LEMMA FirstIs ==
    ASSUME NEW f \in Holdings, NEW to \in 0..Horizon, NEW S \in SUBSET PlanReplay(f, to), S # {}
    PROVE  First(S) \in S
<1> DEFINE B == {c.start : c \in S}
<1>1. \A c \in S : c.start \in Nat
    BY PlanShape
<1>2. B \in SUBSET Int /\ 0 \in Int /\ (\A x \in B : 0 <= x) /\ B # {}
    BY <1>1
<1>3. Min(B) \in B /\ \A x \in B : Min(B) <= x
    <2> HIDE DEF B
    <2> QED
        BY <1>2, Least
<1>4. PICK c \in S : c.start = Min(B)
    BY <1>3
<1>5. \A o \in S : c.start <= o.start
    BY <1>3, <1>4
<1> HIDE DEF B
<1> QED
    BY <1>5 DEF First

\* The mark of a window is one of the refresh.
LEMMA MarkKey ==
    ASSUME NEW w, w.k \in 1..3
    PROVE  Mark(w)[1] \in RefreshKeys
<1>1. Mark(w)[1] = <<"refresh", RefreshOrder[w.k]>>
    BY DEF Mark
<1> QED
    BY <1>1, OrderIs DEF RefreshKeys

\* A chunk that is written disturbs nothing: what is claimed had not to wait for it.
LEMMA StepChunk ==
    ASSUME IInv, ~AllDone, UNCHANGED <<history, catalog, record, mat, slug, boot, held, task, req>>,
           record.source \in Ids, record.stage # "none", rows' = SetToBag(Written'),
           NEW key, key \notin RefreshKeys, NEW start, progress' = progress \union {<<key, start>>},
           CarryDone => CarryDone', task.pc \in {"carry", "replay"}
    PROVE  IInv'
<1>1. TypeOK' /\ Shape'
    <2>1. BagToSet(rows') = Written'
        BY BagOfSet
    <2>2. Written' \subseteq Row
        BY DEF Written
    <2>3. TypeOK /\ Shape
        BY DEF IInv
    <2>4. BagToSet(rows') \subseteq Row
        BY <2>1, <2>2
    <2> QED
        BY <2>3, <2>4 DEF TypeOK, Shape
<1>2. Untouched'
    BY DEF Untouched
<1>3. Claims'
    <2>1. Claims
        BY DEF IInv
    <2> QED
        BY <2>1 DEF Claims, Claim
<1>4. Behind'
    BY DEF IInv, Behind
<1>5. Marks'
    <2>1. \A p \in progress : p[1] \notin RefreshKeys
        BY DEF IInv, Marks, RefreshKeys
    <2>2. \A p \in progress' : p[1] \notin RefreshKeys
        BY <2>1
    <2>3. \A w \in SpanWindows' : w.k \in 1..3
        BY DEF SpanWindows
    <2>4. \A w \in SpanWindows' : Mark(w) \notin progress'
        BY <2>2, <2>3, MarkKey
    <2> QED
        BY <2>2, <2>4 DEF Marks, RefreshKeys
<1>6. Gone'
    BY DEF IInv, Gone
<1> QED
    BY <1>1, <1>2, <1>3, <1>4, <1>5, <1>6 DEF IInv

\* A run that moves on without writing.
LEMMA StepOn ==
    ASSUME IInv, UNCHANGED <<history, catalog, record, rows, progress, mat, slug, boot, held, req>>,
           NEW pc \in {"carried", "refresh", "done"}, task.pc \notin {"idle", "start"},
           task' = [task EXCEPT !.pc = pc], CarryDone,
           pc \in {"refresh", "done"} => AllDone, pc = "done" => Shown
    PROVE  IInv'
<1>1. /\ rows' = SetToBag(Written') /\ Marks' /\ (CarryDone' <=> CarryDone)
      /\ (AllDone' <=> AllDone) /\ (Shown' <=> Shown) /\ (NextRefreshed' <=> NextRefreshed)
    BY QuietKeeps
<1>2. task'.pc = pc /\ task'.rec = task.rec /\ Shape'
    BY DEF IInv, Shape
<1>3. TypeOK'
    BY <1>2 DEF IInv, TypeOK, Shape
<1>4. Untouched'
    BY DEF IInv, Untouched
<1>5. Claims'
    BY <1>1, <1>2 DEF IInv, Claims, Claim
<1>6. Behind'
    BY <1>1, <1>2 DEF Behind
<1>7. Gone'
    BY <1>1 DEF IInv, Gone
<1> QED
    BY <1>1, <1>2, <1>3, <1>4, <1>5, <1>6, <1>7 DEF IInv

\* A chunk of the raw window, or the end of the carry.
LEMMA StepCarry ==
    ASSUME IInv, Carry
    PROVE  IInv'
<1> DEFINE todo == Pending(CarryPlan[history], <<"raw">>)
<1>1. /\ task.pc = "carry" /\ UNCHANGED <<history, catalog, record, mat, slug, boot, held, req>>
      /\ IF todo = {}
         THEN task' = [task EXCEPT !.pc = "carried"] /\ UNCHANGED <<rows, progress>>
         ELSE /\ ReplayChunk("raw", record.source, CarryHolds(history), <<"raw">>, First(todo))
              /\ UNCHANGED task
    BY DEF Carry
<1>2. /\ history \in Histories /\ rows = SetToBag(Written) /\ record.source \in Ids
      /\ record.stage # "none"
    BY <1>1 DEF IInv, TypeOK, Claims, Untouched
<1>3. CASE todo = {}
    <2>1. CarryDone
        BY <1>3 DEF CarryDone
    <2> QED
        BY <1>1, <1>3, <2>1, StepOn
<1>4. CASE todo # {}
    <2> DEFINE c == First(todo)
    <2>1. todo \in SUBSET PlanReplay(CarryHolds(history), Horizon)
        BY <1>2, CarryReads DEF Pending
    <2>2. c \in todo
        BY <1>2, <1>4, <2>1, CarryReads, FirstIs
    <2>3. ReplayChunk("raw", record.source, CarryHolds(history), <<"raw">>, c) /\ task' = task
        BY <1>1, <1>4
    <2> HIDE DEF c
    <2>4. rows' = SetToBag(Written')
        BY <1>1, <1>2, <2>2, <2>3, CarryWrites
    <2>5. progress' = progress \union {<<<<"raw">>, c.start>>}
        BY <2>3 DEF ReplayChunk
    <2>6. ~CarryDone /\ ~AllDone
        BY <1>4 DEF CarryDone, AllDone
    <2> QED
        BY <1>1, <1>2, <2>3, <2>4, <2>5, <2>6, Keys, StepChunk
<1> QED
    BY <1>3, <1>4

\* A chunk of one source's buckets, or the end of the replay.
LEMMA StepReplay ==
    ASSUME IInv, Replay
    PROVE  IInv'
<1> DEFINE Todo(i) == Pending(BucketPlan[history][i], WatermarkSource(i))
<1>1. /\ task.pc = "replay" /\ UNCHANGED <<history, catalog, record, mat, slug, boot, held, req>>
      /\ \/ /\ \A i \in Ids : Todo(i) = {}
            /\ task' = [task EXCEPT !.pc = "refresh"]
            /\ UNCHANGED <<rows, progress>>
         \/ /\ UNCHANGED task
            /\ \E i \in Ids :
                 /\ Todo(i) # {}
                 /\ ReplayChunk(First(Todo(i)).tier, i, BucketHolds(history, i),
                                WatermarkSource(i), First(Todo(i)))
    BY DEF Replay
<1>2. /\ history \in Histories /\ rows = SetToBag(Written) /\ record.source \in Ids
      /\ record.stage # "none" /\ CarryDone
    BY <1>1 DEF IInv, TypeOK, Claims, Untouched, Behind
<1>3. CASE (\A i \in Ids : Todo(i) = {}) /\ task' = [task EXCEPT !.pc = "refresh"]
             /\ UNCHANGED <<rows, progress>>
    <2>1. AllDone
        BY <1>2, <1>3 DEF AllDone
    <2> QED
        BY <1>1, <1>2, <1>3, <2>1, StepOn
<1>4. ASSUME UNCHANGED task, NEW i \in Ids, Todo(i) # {},
             ReplayChunk(First(Todo(i)).tier, i, BucketHolds(history, i),
                         WatermarkSource(i), First(Todo(i)))
      PROVE  IInv'
    <2> DEFINE c == First(Todo(i))
    <2>1. Todo(i) \in SUBSET PlanReplay(BucketHolds(history, i), ReplayEnd(history))
        BY <1>2, BucketReads DEF Pending
    <2>2. c \in Todo(i)
        BY <1>2, <1>4, <2>1, BucketReads, RawBegins, FirstIs
    <2>3. ReplayChunk(c.tier, i, BucketHolds(history, i), WatermarkSource(i), c)
        BY <1>4
    <2> HIDE DEF c
    <2>4. rows' = SetToBag(Written')
        BY <1>1, <1>2, <2>2, <2>3, ReplayWrites
    <2>5. progress' = progress \union {<<WatermarkSource(i), c.start>>}
        BY <2>3 DEF ReplayChunk
    <2>6. ~AllDone
        BY <1>4 DEF AllDone
    <2>7. CarryDone => CarryDone'
        BY <1>1, <2>5 DEF CarryDone, Pending
    <2> QED
        BY <1>1, <1>2, <1>4, <2>4, <2>5, <2>6, <2>7, Keys, StepChunk
<1> QED
    BY <1>1, <1>3, <1>4

\* A tier that grows keeps what was shown.
LEMMA Grows ==
    ASSUME history \in Histories, UNCHANGED <<history, rows, progress>>,
           record'.source = record.source, \A t \in NewTiers : mat[t] \subseteq mat'[t]
    PROVE  /\ Times' = Times /\ NotRefreshed' = NotRefreshed
           /\ (Shown => Shown') /\ (Marks => Marks')
           /\ \A w : w.k \in 1..3 /\ Refreshed(w) => Refreshed(w)'
<1>1. Times' = Times
    BY DEF Times
<1>2. NotRefreshed' = NotRefreshed
    BY DEF NotRefreshed
<1>3. Shown => Shown'
    BY <1>1 DEF Shown, Shows
<1>4. ASSUME NEW w, w.k \in 1..3, Refreshed(w) PROVE Refreshed(w)'
    <2>1. RefreshOrder[w.k] \in NewTiers
        BY <1>4, OrderIs
    <2> QED
        BY <1>1, <1>4, <2>1 DEF Refreshed
<1>5. SpanWindows' = SpanWindows
    BY <1>1 DEF SpanWindows
<1>6. AllDone' <=> AllDone
    BY QuietDone
<1>7. \A w \in SpanWindows : w.k \in 1..3
    BY DEF SpanWindows
<1>8. Marks => Marks'
    BY <1>1, <1>4, <1>5, <1>6, <1>7 DEF Marks
<1> QED
    BY <1>1, <1>2, <1>3, <1>4, <1>8

\* There is a window only where there are two instants.
LEMMA TwoTimes ==
    ASSUME history \in Histories, rows = SetToBag(Written), Times # {}, SpanWindows # {}
    PROVE  \E a, b \in Times : a # b
<1> DEFINE W(k) == RefreshWindows[Min(Times)][Max(Times)][RefreshOrder[k]]
<1>1. PICK k \in 1..3 : W(k) # {}
    BY DEF SpanWindows
<1>2. /\ Min(Times) \in Slots /\ Max(Times) \in Slots /\ RefreshOrder[k] \in NewTiers
      /\ Min(Times) \in Times /\ Max(Times) \in Times
    BY TimesAre, OrderIs
<1> HIDE DEF Times
<1>3. Max(Times) <= Min(Times) => W(k) = {}
    BY <1>2 DEF RefreshWindows
<1> QED
    BY <1>1, <1>2, <1>3, Calendar DEF Slots

\* A window that is refreshed shows every row in it: the days are built from
\* hours, and the hours are all there when the first day is refreshed.
LEMMA WindowShows ==
    ASSUME IInv, task.pc = "refresh", NotRefreshed # {}, Materialize(NextOf(NotRefreshed)),
           UNCHANGED <<history, rows, progress>>
    PROVE  /\ mat' \in [NewTiers -> SUBSET Slots]
           /\ \A t \in NewTiers : mat[t] \subseteq mat'[t]
           /\ Refreshed(NextOf(NotRefreshed))'
<1> DEFINE w == NextOf(NotRefreshed)
           t == RefreshOrder[w.k]
           Inside(s) == LET b == (s \div Width(t)) * Width(t)
                        IN  w.start <= b /\ b + Width(t) <= w.end
           from == IF t = "daily" THEN mat["hourly"] ELSE Times
           new == {s \in from : Inside(s)}
<1>1. /\ history \in Histories /\ rows = SetToBag(Written) /\ record.source \in Ids /\ AllDone
      /\ Marks /\ mat \in [NewTiers -> SUBSET Slots]
    BY DEF IInv, TypeOK, Claims, Behind
<1>2. /\ w \in NotRefreshed /\ (\A o \in NotRefreshed : w.k <= o.k)
      /\ Times # {} /\ w \in SpanWindows
    BY <1>1, NextIs
<1>3. w.k \in 1..3 /\ Times \subseteq Slots
    BY <1>1, <1>2, MarkIs, TimesAre
<1>4. t \in NewTiers /\ "hourly" \in NewTiers
    BY <1>3, OrderIs DEF NewTiers
<1>5. mat' = [mat EXCEPT ![t] = @ \union new]
    BY DEF Materialize, Times
<1>6. Times \subseteq from
    <2> SUFFICES ASSUME t = "daily" PROVE Times \subseteq mat["hourly"]
        OBVIOUS
    <2>1. w.k = 2
        <3> HIDE DEF w
        <3> QED
            BY <1>3, OrderIs
    <2>2. \A o \in NotRefreshed : o.k # 1
        <3> HIDE DEF w
        <3> QED
            BY <1>2, <2>1
    <2>3. Shows(RefreshOrder[1])
        BY <1>1, <2>2, TierShows
    <2>4. PICK a, b \in Times : a # b
        BY <1>1, <1>2, TwoTimes
    <2>5. \A s \in Times : \E o \in Times : o # s
        BY <2>4
    <2> QED
        BY <2>3, <2>5, OrderIs DEF Shows
<1>7. new \subseteq Slots
    BY <1>1, <1>3, <1>4
<1>8. \A s \in Times : Inside(s) => s \in new
    BY <1>6
<1>9. Times' = Times
    BY DEF Times
<1>10. w' = w
    <2>1. NotRefreshed' = NotRefreshed
        BY DEF NotRefreshed
    <2> QED
        BY <2>1
<1> HIDE DEF new, from
<1>11. mat' \in [NewTiers -> SUBSET Slots] /\ \A u \in NewTiers : mat[u] \subseteq mat'[u]
    <2> HIDE DEF t
    <2> QED
        BY <1>1, <1>4, <1>5, <1>7
<1>12. new \subseteq mat'[t]
    <2> HIDE DEF t
    <2> QED
        BY <1>1, <1>4, <1>5
<1>13. \A s \in Times' : w.start <= BucketOf(s, t) /\ BucketOf(s, t) + Width(t) <= w.end => s \in mat'[t]
    BY <1>8, <1>9, <1>12 DEF BucketOf
<1> QED
    BY <1>10, <1>11, <1>13 DEF Refreshed

\* A window, or the end of the refresh.
LEMMA StepRefresh ==
    ASSUME IInv, Refresh
    PROVE  IInv'
<1> DEFINE w == NextOf(NotRefreshed)
<1>1. /\ task.pc = "refresh"
      /\ UNCHANGED <<history, catalog, record, rows, progress, slug, boot, held, req>>
      /\ IF NotRefreshed = {}
         THEN task' = [task EXCEPT !.pc = "done"] /\ UNCHANGED mat
         ELSE Materialize(w) /\ task' = [task EXCEPT !.pc = "mark"]
    BY DEF Refresh
<1>2. /\ history \in Histories /\ rows = SetToBag(Written) /\ record.source \in Ids /\ AllDone
      /\ CarryDone /\ Marks
    BY <1>1 DEF IInv, TypeOK, Claims, Behind
<1>3. CASE NotRefreshed = {}
    <2>1. Shown
        <3> SUFFICES ASSUME NEW t \in NewTiers PROVE Shows(t)
            BY DEF Shown
        <3>1. PICK k \in 1..3 : RefreshOrder[k] = t
            BY OrderIs
        <3>2. Shows(RefreshOrder[k])
            BY <1>2, <1>3, TierShows
        <3> QED
            BY <3>1, <3>2
    <2> QED
        BY <1>1, <1>2, <1>3, <2>1, StepOn
<1>4. CASE NotRefreshed # {}
    <2>1. Materialize(w) /\ task' = [task EXCEPT !.pc = "mark"]
        BY <1>1, <1>4
    <2>2. /\ mat' \in [NewTiers -> SUBSET Slots]
          /\ (\A t \in NewTiers : mat[t] \subseteq mat'[t]) /\ Refreshed(w)'
        BY <1>1, <1>4, <2>1, WindowShows
    <2>3. NotRefreshed' = NotRefreshed /\ (Shown => Shown') /\ Marks'
        BY <1>1, <1>2, <2>2, Grows
    <2>4. Written' = Written /\ CarryDone' /\ AllDone'
        BY <1>1, <1>2, QuietDone
    <2>5. NextRefreshed'
        BY <1>4, <2>2, <2>3 DEF NextRefreshed
    <2>6. task'.pc = "mark" /\ task'.rec = task.rec /\ Shape'
        BY <1>1, <2>1 DEF IInv, Shape
    <2>7. TypeOK'
        BY <1>1, <2>2, <2>6 DEF IInv, TypeOK, Shape
    <2>8. Untouched'
        BY <1>1 DEF IInv, Untouched
    <2>9. Claims'
        <3>1. /\ record.stage # "none" => Claim(record)
              /\ Claim(task.rec)
              /\ \A r \in Reqs : req[r].pc # "idle" => Claim(req[r].rec)
            BY <1>1 DEF IInv, Claims
        <3> QED
            BY <1>1, <1>2, <2>3, <2>4, <2>6, <3>1 DEF Claims, Claim
    <2>10. Behind'
        BY <2>4, <2>5, <2>6 DEF Behind
    <2>11. Gone'
        BY <1>1, <2>4 DEF IInv, Gone
    <2> QED
        BY <1>1, <1>2, <2>3, <2>4, <2>6, <2>7, <2>8, <2>9, <2>10, <2>11 DEF IInv
<1> QED
    BY <1>3, <1>4

\* The mark of a refreshed window is no watermark of a chunk.
LEMMA MarkWrites ==
    ASSUME NEW w, Mark(w)[1] \in RefreshKeys, progress' = progress \union {Mark(w)},
           UNCHANGED <<history, record>>
    PROVE  Written' = Written /\ (CarryDone' <=> CarryDone) /\ (AllDone' <=> AllDone)
<1>1. \A i : WatermarkSource(i)' = WatermarkSource(i)
    BY DEF WatermarkSource
<1>2. ASSUME NEW key, key \notin RefreshKeys, NEW x
      PROVE  <<key, x>> \in progress' <=> <<key, x>> \in progress
    <2>1. <<key, x>>[1] = key
        OBVIOUS
    <2>2. <<key, x>> # Mark(w)
        BY <1>2, <2>1
    <2> QED
        BY <2>2
<1>3. \A x : <<<<"raw">>, x>> \in progress' <=> <<<<"raw">>, x>> \in progress
    BY <1>2, Keys
<1>4. \A i \in Ids : \A x : <<WatermarkSource(i), x>> \in progress' <=> <<WatermarkSource(i), x>> \in progress
    BY <1>2, Keys
<1>5. Written' = Written
    <2>1. \A r \in Row : r.id \in Ids
        BY DEF Row
    <2> QED
        BY <1>1, <1>3, <1>4, <2>1 DEF Written
<1>6. CarryDone' <=> CarryDone
    BY <1>3 DEF CarryDone, Pending
<1>7. \A i \in Ids : Pending(BucketPlan[history][i], WatermarkSource(i))' =
                      Pending(BucketPlan[history][i], WatermarkSource(i))
    BY <1>1, <1>4 DEF Pending
<1> QED
    BY <1>5, <1>6, <1>7 DEF AllDone

\* The mark of the window that has just been refreshed.
LEMMA StepMark ==
    ASSUME IInv, RecordRefresh
    PROVE  IInv'
<1> DEFINE w == NextOf(NotRefreshed)
<1>1. /\ task.pc = "mark" /\ task' = [task EXCEPT !.pc = "refresh"]
      /\ progress' = progress \union {Mark(w)}
      /\ UNCHANGED <<history, catalog, record, rows, mat, slug, boot, held, req>>
    BY DEF RecordRefresh
<1>2. /\ history \in Histories /\ rows = SetToBag(Written) /\ record.source \in Ids /\ AllDone
      /\ CarryDone /\ Marks /\ NextRefreshed
    BY <1>1 DEF IInv, TypeOK, Claims, Behind
<1>3. w \in NotRefreshed /\ Times # {} /\ w \in SpanWindows /\ Refreshed(w)
    BY <1>2, NextIs DEF NextRefreshed
<1>4. Mark(w)[1] \in RefreshKeys
    BY <1>2, <1>3, MarkIs
<1> HIDE DEF w
<1>5. Written' = Written /\ CarryDone' /\ AllDone'
    BY <1>1, <1>2, <1>4, MarkWrites
<1>6. Times' = Times /\ SpanWindows' = SpanWindows
    BY <1>1 DEF Times, SpanWindows
<1>7. \A v : Refreshed(v)' <=> Refreshed(v)
    BY <1>1, <1>6 DEF Refreshed
<1>8. Shown' <=> Shown
    BY <1>1, <1>6 DEF Shown, Shows
<1>9. Marks'
    <2>1. ASSUME NEW v \in SpanWindows, Mark(v) \in progress' PROVE Refreshed(v)
        <3>1. CASE Mark(v) \in progress
            BY <1>2, <1>3, <3>1 DEF Marks
        <3>2. CASE Mark(v) = Mark(w)
            BY <1>2, <1>3, <3>2, MarkIs
        <3> QED
            BY <1>1, <2>1, <3>1, <3>2
    <2> QED
        BY <1>5, <1>6, <1>7, <2>1 DEF Marks
<1>10. task'.pc = "refresh" /\ task'.rec = task.rec /\ Shape'
    BY <1>1 DEF IInv, Shape
<1>11. TypeOK'
    BY <1>1, <1>10 DEF IInv, TypeOK, Shape
<1>12. Untouched'
    BY <1>1 DEF IInv, Untouched
<1>13. Claims'
    <2>1. /\ record.stage # "none" => Claim(record)
          /\ Claim(task.rec)
          /\ \A r \in Reqs : req[r].pc # "idle" => Claim(req[r].rec)
        BY <1>1 DEF IInv, Claims
    <2> QED
        BY <1>1, <1>2, <1>5, <1>8, <1>10, <2>1 DEF Claims, Claim
<1>14. Behind'
    BY <1>5, <1>10 DEF Behind
<1>15. Gone'
    BY <1>1, <1>5 DEF IInv, Gone
<1> QED
    BY <1>1, <1>2, <1>5, <1>9, <1>10, <1>11, <1>12, <1>13, <1>14, <1>15 DEF IInv

\* Every step of the specification.
LEMMA StepInv == IInv /\ [Next]_vars => IInv'
<1> SUFFICES ASSUME IInv, [Next]_vars PROVE IInv'
    OBVIOUS
<1>1. ASSUME BootStep PROVE IInv'
    BY <1>1, StepBoot, StepWriteRecord DEF BootStep
<1>2. ASSUME TaskStep PROVE IInv'
    <2>1. ASSUME ReadTask PROVE IInv'
        BY <2>1, StepTask
    <2>2. ASSUME AdvanceCarried \/ AdvanceBackfilled PROVE IInv'
        BY <2>2, StepAdvance
    <2> QED
        BY <1>2, <2>1, <2>2, StepCarry, StepReplay, StepRefresh, StepMark DEF TaskStep
<1>3. ASSUME Kill \/ StartBackfill \/ BackfillFails PROVE IInv'
    BY <1>3, StepTask
<1>4. ASSUME NEW r \in Reqs, Submit(r) \/ WriteSlugs(r) \/ StampRecord(r) \/ Release(r) PROVE IInv'
    BY <1>4, StepSubmit, StepStamp
<1>5. ASSUME Verify \/ DropNext PROVE IInv'
    BY <1>5, StepEnd
<1>6. CASE UNCHANGED vars
    <2>1. UNCHANGED <<history, catalog, record, rows, progress, mat, slug, boot, held, task, req>>
        BY <1>6 DEF vars
    <2>2. /\ catalog \in [Relations -> {"old", "legacy", "gone"}] /\ held \in BOOLEAN
          /\ boot \in {"down", "detach", "rename", "read", "record", "up"}
        BY DEF IInv, TypeOK
    <2> QED
        BY <2>1, <2>2, StepIdle
<1> QED
    BY <1>1, <1>2, <1>3, <1>4, <1>5, <1>6 DEF Next

\* A slot of a row that is written is covered.
LEMMA RowsCover ==
    ASSUME rows = SetToBag(Written), NEW r \in Written
    PROVE  Covers(r) \subseteq Covered(rows)
<1>1. BagToSet(rows) = Written
    BY BagOfSet
<1> QED
    BY <1>1 DEF Covered

\* Once nothing is left to write, all that is owed is covered.
LEMMA AllIsCovered ==
    ASSUME history \in Histories, rows = SetToBag(Written), record.source \in Ids, AllDone
    PROVE  Owed \subseteq Covered(rows)
<1> SUFFICES ASSUME NEW o \in OwedBy[history] PROVE o \in Covered(rows)
    BY DEF Owed
<1>1. PICK r \in Planned(history, record.source) : o \in Covers(r)
    BY OwedIsPlanned
<1>2. r \in Written
    BY WrittenIs
<1> QED
    BY <1>1, <1>2, RowsCover

\* The rows are a set, and what is planned is apart but for the two cases.
LEMMA InvReplayedOnce == IInv => ReplayedOnce
<1> SUFFICES ASSUME IInv PROVE ReplayedOnce
    OBVIOUS
<1>1. history \in Histories /\ rows = SetToBag(Written) /\ Primary \in Ids
    BY HistoriesAssumption DEF IInv, TypeOK
<1>2. BagToSet(rows) = Written /\ \A r \in Written : rows[r] = 1
    BY <1>1, BagOfSet
<1>3. PICK source \in Ids : Written \subseteq Planned(history, source)
    <2>1. CASE record.source \in Ids
        BY <1>1, <2>1, WrittenIs
    <2>2. CASE record.source \notin Ids
        <3>1. ASSUME NEW r \in Written PROVE r \in Buckets(history)
            <4>1. r.id # record.source
                BY <2>2 DEF Written, Row
            <4> QED
                BY <4>1 DEF Written, Buckets
        <3> QED
            BY <1>1, <3>1 DEF Planned
    <2> QED
        BY <2>1, <2>2
<1>4. ASSUME NEW r \in Written, NEW o \in Written \ {r}, o.slot \in Covers(r)
      PROVE  IF "raw" \in {r.src, o.src}
             THEN \E b \in {r, o} : b.src # "raw" /\ Min(history.raw) \in Covers(b)
             ELSE r.id # o.id
    BY <1>1, <1>3, <1>4, PlannedApart
<1> QED
    BY <1>2, <1>4 DEF ReplayedOnce

\* What a record claims, read as what is covered and shown.
LEMMA InvLifted == IInv => LiftedIsComplete
<1> SUFFICES ASSUME IInv PROVE LiftedIsComplete
    OBVIOUS
<1>1. history \in Histories /\ rows = SetToBag(Written)
    BY DEF IInv, TypeOK
<1>2. ASSUME record.stage \in Lifted
      PROVE  /\ Owed \subseteq Covered(rows)
             /\ \A t \in NewTiers, r \in BagToSet(rows) :
                  (\E o \in BagToSet(rows) : o.slot # r.slot) => r.slot \in mat[t]
    <2>1. record.stage # "none"
        BY <1>2 DEF Lifted
    <2>2. record.source \in Ids /\ AllDone /\ Shown
        BY <1>2, <2>1 DEF IInv, Claims, Claim
    <2>3. \A t \in NewTiers, r \in BagToSet(rows) :
            (\E o \in BagToSet(rows) : o.slot # r.slot) => r.slot \in mat[t]
        BY <2>2 DEF Shown, Shows, Times
    <2> QED
        BY <1>1, <2>2, <2>3, AllIsCovered
<1>3. ASSUME record.stage = "carried", NEW s \in history.raw PROVE s \in Covered(rows)
    <2>1. record.source \in Ids /\ CarryDone
        BY <1>3 DEF IInv, Claims, Claim
    <2>2. s \in Slots /\ s \in Nat
        BY <1>1, HistoryIs, Calendar DEF Slots
    <2> DEFINE r == [src |-> "raw", id |-> record.source, slot |-> s]
    <2>3. r \in RawRows(history, record.source)
        BY <2>1, <2>2 DEF RawRows, Row, Relations
    <2>4. r \in Written
        BY <1>1, <2>1, <2>3, WrittenIs
    <2>5. s \in Covers(r)
        BY <2>2, RowCovers, Widths DEF Relations
    <2> QED
        BY <1>1, <2>4, <2>5, RowsCover
<1> QED
    BY <1>2, <1>3 DEF LiftedIsComplete

\* What is owed is in the legacy relations, while they are there.
LEMMA OwedIsLegacy ==
    ASSUME NEW h \in Histories, NEW o \in OwedBy[h]
    PROVE  o \in h.raw \/ \E t \in NewTiers : \E i \in Ids : o \in Spanned(h[t][i], t)
<1> DEFINE HO(i) == {b \in h.hourly[i] :
                       ~GivenUp(h, i) /\ Spanned({b}, "hourly") \intersect h.minute[i] = {}}
           DO(i) == {b \in h.daily[i] : Spanned({b}, "daily") \intersect
                                          (h.minute[i] \union h.hourly[i]) = {}}
<1>1. \/ o \in h.raw \/ \E i \in Ids : o \in h.minute[i]
      \/ \E i \in Ids : o \in Spanned(HO(i), "hourly")
      \/ \E i \in Ids : o \in Spanned(DO(i), "daily")
    BY DEF OwedBy
<1>2. h["minute"] = h.minute /\ h["hourly"] = h.hourly /\ h["daily"] = h.daily
    OBVIOUS
<1>3. ASSUME NEW i \in Ids, o \in h.minute[i] PROVE o \in Spanned(h.minute[i], "minute")
    <2>1. o \in Nat
        BY <1>3, HistoryIs, Calendar DEF Aligned, Slots
    <2>2. o \in o..(o + Width("minute") - 1)
        BY <2>1, Widths
    <2> QED
        BY <1>3, <2>2 DEF Spanned
<1>4. \A i \in Ids : o \in Spanned(HO(i), "hourly") => o \in Spanned(h.hourly[i], "hourly")
    BY DEF Spanned
<1>5. \A i \in Ids : o \in Spanned(DO(i), "daily") => o \in Spanned(h.daily[i], "daily")
    BY DEF Spanned
<1> QED
    BY <1>1, <1>2, <1>3, <1>4, <1>5 DEF NewTiers

\* Before the first drop all is in the old relations, after it in the new table.
LEMMA InvKept == IInv => HistoryKept
<1> SUFFICES ASSUME IInv PROVE HistoryKept
    OBVIOUS
<1>1. history \in Histories /\ rows = SetToBag(Written)
    BY DEF IInv, TypeOK
<1> DEFINE In(t) == IF catalog[t] = "gone" THEN {}
                    ELSE UNION {Spanned(history[t][i], t) : i \in Ids}
           raw == IF catalog["raw"] = "gone" THEN {} ELSE history.raw
           legacy == raw \union (UNION {In(t) : t \in NewTiers})
<1>2. CASE \E t \in Relations : catalog[t] = "gone"
    <2>1. AllDone /\ record.source \in Ids
        BY <1>2 DEF IInv, Gone
    <2>2. Owed \subseteq Covered(rows)
        BY <1>1, <2>1, AllIsCovered
    <2> QED
        BY <2>2 DEF HistoryKept
<1>3. CASE \A t \in Relations : catalog[t] # "gone"
    <2>1. ASSUME NEW o \in Owed PROVE o \in legacy
        <3>1. o \in history.raw \/ \E t \in NewTiers : \E i \in Ids : o \in Spanned(history[t][i], t)
            BY <1>1, <2>1, OwedIsLegacy DEF Owed
        <3>2. raw = history.raw
            BY <1>3 DEF Relations
        <3>3. ASSUME NEW t \in NewTiers, NEW i \in Ids, o \in Spanned(history[t][i], t) PROVE o \in In(t)
            BY <1>3, <3>3 DEF Relations, NewTiers
        <3> HIDE DEF In, raw
        <3> QED
            BY <3>1, <3>2, <3>3
    <2> QED
        BY <2>1 DEF HistoryKept
<1> QED
    BY <1>2, <1>3

-----------------------------------------------------------------------------
\* IInv holds at every instant, whatever is killed, fails or is started again.
LEMMA Invariant == Spec => []IInv
BY InitInv, StepInv, PTL DEF Spec

\* The catalog, the record, the new tables and everything in flight are always
\* of their types: no run and no submit writes a record that is none.
THEOREM TypeCorrect == Spec => []TypeOK
<1>1. IInv => TypeOK
    BY DEF IInv
<1> QED
    BY <1>1, Invariant, PTL

\* Whatever is killed, fails or runs again, no row comes twice and no two rows of a
\* source overlap: replayChunk() commits rows and watermark together, no two plans
\* share a watermark, and a source's chunks are a day each, of one tier.  A bucket
\* overlaps raw samples only where the raw window begins inside it.
THEOREM RowsAreReplayedOnce == Spec => []ReplayedOnce
BY Invariant, InvReplayedOnce, PTL

\* A record that no longer withholds history has all of it, in every tier: the
\* stage is written after the last chunk and the last refresh, also by a run that
\* took over from a killed one, and a submit writes back a stage it has read.
THEOREM LiftedIsWhole == Spec => []LiftedIsComplete
BY Invariant, InvLifted, PTL

\* Nothing is lost: a legacy relation is dropped once a verified record says that
\* the backfill has written everything the relations hold.
THEOREM HistoryIsKept == Spec => []HistoryKept
BY Invariant, InvKept, PTL
=============================================================================
