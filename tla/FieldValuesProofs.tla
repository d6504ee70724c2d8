-------------------------- MODULE FieldValuesProofs --------------------------
(***************************************************************************)
(* Theorems about FieldValues, for every day, time, offset from UTC,       *)
(* decimal and duration.                                                   *)
(***************************************************************************)
EXTENDS FieldValues, SequenceTheorems, TLAPS

(* The clock.                                                                  *)

\* The hands of the clock.
LEMMA Clock ==
  /\ Day \in Int /\ Second \in Int /\ 0 < Day /\ 0 < Second
  /\ \A n : n \in 0..(Day - 1) <=> n \in Int /\ 0 <= n /\ n < Day
  /\ \A n : n \in 0..(Second - 1) <=> n \in Int /\ 0 <= n /\ n < Second
<1>1. Day \in Int /\ Second \in Int /\ 0 < Day /\ 0 < Second
  BY SMT DEF Day, Second
<1> QED BY <1>1

\* The days in a number of seconds, and what is left of them.
LEMMA Days ==
  ASSUME NEW n \in Int
  PROVE  /\ n \div Day \in Int /\ n % Day \in Int
         /\ 0 <= n % Day /\ n % Day < Day
         /\ n = Day * (n \div Day) + (n % Day)
<1>1. n \div Day \in Int /\ n % Day \in Int
  BY SMT DEF Day
<1>2. 0 <= n % Day /\ n % Day < Day
  BY SMT DEF Day
<1>3. n = Day * (n \div Day) + (n % Day)
  BY SMT DEF Day
<1> QED BY <1>1, <1>2, <1>3

\* A time of day has no days in it.
LEMMA NoDays ==
  ASSUME NEW n \in Int, 0 <= n, n < Day
  PROVE  n \div Day = 0 /\ n % Day = n
<1>1. n \div Day = 0
  BY SMT DEF Day
<1>2. n % Day = n
  BY <1>1, Days, SMT DEF Day
<1> QED BY <1>1, <1>2

\* The value of these fields.
Val(kind, date, sec, us, aware, offset) ==
    [kind |-> kind, date |-> date, sec |-> sec, us |-> us, aware |-> aware, offset |-> offset]

\* Every moment is the value of its fields.
LEMMA ValueOf ==
  ASSUME NEW v \in Moments
  PROVE  v = Val(v.kind, v.date, v.sec, v.us, v.aware, v.offset)
  BY DEF Moments, Val

\* The fields of a moment.
LEMMA FieldsOf ==
  ASSUME NEW v \in Moments
  PROVE  /\ v.kind \in {"date", "time", "datetime"} /\ v.date \in Int
         /\ v.sec \in 0..(Day - 1) /\ v.us \in 0..(Second - 1)
         /\ v.aware \in BOOLEAN /\ v.offset \in Int
  BY DEF Moments

\* A value of fields that moments have is one.
LEMMA ValueIn ==
  ASSUME NEW k \in {"date", "time", "datetime"}, NEW d \in Int, NEW s \in 0..(Day - 1),
         NEW u \in 0..(Second - 1), NEW a \in BOOLEAN, NEW o \in Int
  PROVE  Val(k, d, s, u, a, o) \in Moments
  BY DEF Moments, Val

\* The fields of a value.
LEMMA FieldsAre ==
  ASSUME NEW k, NEW d, NEW s, NEW u, NEW a, NEW o
  PROVE  /\ Val(k, d, s, u, a, o).kind = k
         /\ Val(k, d, s, u, a, o).date = d
         /\ Val(k, d, s, u, a, o).sec = s
         /\ Val(k, d, s, u, a, o).us = u
         /\ Val(k, d, s, u, a, o).aware = a
         /\ Val(k, d, s, u, a, o).offset = o
  BY DEF Val

\* What an update of one field gives.
WithKind(v, x) == [v EXCEPT !.kind = x]
WithDate(v, x) == [v EXCEPT !.date = x]
WithSec(v, x) == [v EXCEPT !.sec = x]
WithUs(v, x) == [v EXCEPT !.us = x]
WithAware(v, x) == [v EXCEPT !.aware = x]
WithOffset(v, x) == [v EXCEPT !.offset = x]

LEMMA Update ==
  ASSUME NEW v \in Moments, NEW x, NEW b \in BOOLEAN
  PROVE  /\ WithKind(v, x) = Val(x, v.date, v.sec, v.us, v.aware, v.offset)
         /\ WithDate(v, x) = Val(v.kind, x, v.sec, v.us, v.aware, v.offset)
         /\ WithSec(v, x) = Val(v.kind, v.date, x, v.us, v.aware, v.offset)
         /\ WithUs(v, x) = Val(v.kind, v.date, v.sec, x, v.aware, v.offset)
         /\ WithAware(v, b) = Val(v.kind, v.date, v.sec, v.us, b, v.offset)
         /\ WithOffset(v, x) = Val(v.kind, v.date, v.sec, v.us, v.aware, x)
<1>1. WithKind(v, x) = Val(x, v.date, v.sec, v.us, v.aware, v.offset)
  BY DEF Val, Moments, WithKind
<1>2. WithDate(v, x) = Val(v.kind, x, v.sec, v.us, v.aware, v.offset)
  BY DEF Val, Moments, WithDate
<1>3. WithSec(v, x) = Val(v.kind, v.date, x, v.us, v.aware, v.offset)
  BY DEF Val, Moments, WithSec
<1>4. WithUs(v, x) = Val(v.kind, v.date, v.sec, x, v.aware, v.offset)
  BY DEF Val, Moments, WithUs
<1>5. WithAware(v, b) = Val(v.kind, v.date, v.sec, v.us, b, v.offset)
  BY DEF Val, Moments, WithAware
<1>6. WithOffset(v, x) = Val(v.kind, v.date, v.sec, v.us, v.aware, x)
  BY DEF Val, Moments, WithOffset
<1> QED BY <1>1, <1>2, <1>3, <1>4, <1>5, <1>6

\* The fields of a moment that is written as a value.
LEMMA WrittenAs ==
  ASSUME NEW w \in Moments, NEW k, NEW d, NEW s, NEW u, NEW a, NEW o,
         w = Val(k, d, s, u, a, o)
  PROVE  w.kind = k /\ w.date = d /\ w.sec = s /\ w.us = u /\ w.aware = a /\ w.offset = o
  BY FieldsAre

\* A moment some seconds later.
LEMMA PlusIs ==
  ASSUME NEW v \in Moments, NEW n \in Int
  PROVE  /\ Plus(v, n) \in Moments
         /\ Plus(v, n).kind = v.kind /\ Plus(v, n).us = v.us
         /\ Plus(v, n).date = v.date + (v.sec + n) \div Day
         /\ Plus(v, n).sec = (v.sec + n) % Day
         /\ Plus(v, n).aware = v.aware /\ Plus(v, n).offset = v.offset
<1> DEFINE d == v.date + (v.sec + n) \div Day
           s == (v.sec + n) % Day
           w == WithDate(v, d)
<1>1. v.sec + n \in Int
  BY FieldsOf
<1>2. s \in 0..(Day - 1)
  BY <1>1, Days, Clock
<1>3. d \in Int
  BY <1>1, Days, FieldsOf
<1>4. Plus(v, n) = WithSec(w, s)
  BY DEF Plus, Moments, WithSec, WithDate
<1> HIDE DEF d, s
<1>5. w = Val(v.kind, d, v.sec, v.us, v.aware, v.offset)
  BY Update
<1> HIDE DEF w
<1>6. w \in Moments
  BY <1>3, <1>5, FieldsOf, ValueIn
<1>7. /\ w.kind = v.kind /\ w.date = d /\ w.us = v.us
      /\ w.aware = v.aware /\ w.offset = v.offset
  BY <1>5, <1>6, WrittenAs
<1>8. WithSec(w, s) = Val(w.kind, w.date, s, w.us, w.aware, w.offset)
  BY <1>6, Update
<1>9. Plus(v, n) = Val(v.kind, d, s, v.us, v.aware, v.offset)
  BY <1>4, <1>7, <1>8
<1>10. Val(v.kind, d, s, v.us, v.aware, v.offset) \in Moments
  BY <1>2, <1>3, FieldsOf, ValueIn
<1> QED BY <1>9, <1>10, WrittenAs DEF d, s

\* A moment with an offset, and without one.
LEMMA AwareIs ==
  ASSUME NEW v \in Moments, NEW o \in Int
  PROVE  /\ Aware(v, o) \in Moments
         /\ Aware(v, o).kind = v.kind /\ Aware(v, o).date = v.date
         /\ Aware(v, o).sec = v.sec /\ Aware(v, o).us = v.us
         /\ Aware(v, o).aware = TRUE /\ Aware(v, o).offset = o
<1> DEFINE w == WithAware(v, TRUE)
<1>1. Aware(v, o) = WithOffset(w, o)
  BY DEF Aware, WithAware, WithOffset
<1>2. w = Val(v.kind, v.date, v.sec, v.us, TRUE, v.offset)
  BY Update
<1> HIDE DEF w
<1>3. w \in Moments
  BY <1>2, FieldsOf, ValueIn
<1>4. /\ w.kind = v.kind /\ w.date = v.date /\ w.sec = v.sec /\ w.us = v.us
      /\ w.aware = TRUE
  BY <1>2, <1>3, WrittenAs
<1>5. WithOffset(w, o) = Val(w.kind, w.date, w.sec, w.us, w.aware, o)
  BY <1>3, Update
<1>6. Aware(v, o) = Val(v.kind, v.date, v.sec, v.us, TRUE, o)
  BY <1>1, <1>4, <1>5
<1>7. Val(v.kind, v.date, v.sec, v.us, TRUE, o) \in Moments
  BY FieldsOf, ValueIn
<1> DEFINE x == Aware(v, o)
<1>8. x = Val(v.kind, v.date, v.sec, v.us, TRUE, o)
  BY <1>6
<1> HIDE DEF x
<1>9. x \in Moments
  BY <1>7, <1>8
<1>10. /\ x.kind = v.kind /\ x.date = v.date /\ x.sec = v.sec
       /\ x.us = v.us /\ x.aware = TRUE /\ x.offset = o
  BY <1>8, <1>9, WrittenAs
<1> QED BY <1>9, <1>10 DEF x

LEMMA NaiveIs ==
  ASSUME NEW v \in Moments
  PROVE  /\ Naive(v) \in Moments
         /\ Naive(v).kind = v.kind /\ Naive(v).date = v.date
         /\ Naive(v).sec = v.sec /\ Naive(v).us = v.us
         /\ Naive(v).aware = FALSE /\ Naive(v).offset = 0
<1> DEFINE w == WithAware(v, FALSE)
<1>1. Naive(v) = WithOffset(w, 0)
  BY DEF Naive, WithAware, WithOffset
<1>2. w = Val(v.kind, v.date, v.sec, v.us, FALSE, v.offset)
  BY Update
<1> HIDE DEF w
<1>3. w \in Moments
  BY <1>2, FieldsOf, ValueIn
<1>4. /\ w.kind = v.kind /\ w.date = v.date /\ w.sec = v.sec /\ w.us = v.us
      /\ w.aware = FALSE
  BY <1>2, <1>3, WrittenAs
<1>5. WithOffset(w, 0) = Val(w.kind, w.date, w.sec, w.us, w.aware, 0)
  BY <1>3, Update
<1>6. Naive(v) = Val(v.kind, v.date, v.sec, v.us, FALSE, 0)
  BY <1>1, <1>4, <1>5
<1>7. 0 \in Int /\ FALSE \in BOOLEAN
  OBVIOUS
<1>8. Val(v.kind, v.date, v.sec, v.us, FALSE, 0) \in Moments
  BY <1>7, FieldsOf, ValueIn, Zenon
<1> DEFINE x == Naive(v)
<1>9. x = Val(v.kind, v.date, v.sec, v.us, FALSE, 0)
  BY <1>6
<1> HIDE DEF x
<1>10. x \in Moments
  BY <1>8, <1>9
<1>11. /\ x.kind = v.kind /\ x.date = v.date /\ x.sec = v.sec
       /\ x.us = v.us /\ x.aware = FALSE /\ x.offset = 0
  BY <1>9, <1>10, WrittenAs
<1> QED BY <1>10, <1>11 DEF x

\* The moment as UTC has it.
LEMMA UtcIs ==
  ASSUME NEW v \in Moments
  PROVE  /\ NaiveUtc(v) \in Moments
         /\ NaiveUtc(v).kind = v.kind /\ NaiveUtc(v).us = v.us
         /\ NaiveUtc(v).date = v.date + (v.sec - v.offset) \div Day
         /\ NaiveUtc(v).sec = (v.sec - v.offset) % Day
         /\ NaiveUtc(v).aware = FALSE /\ NaiveUtc(v).offset = 0
<1> DEFINE p == Plus(v, -v.offset)
<1>1. -v.offset \in Int /\ v.sec + (-v.offset) = v.sec - v.offset
  BY FieldsOf
<1>2. /\ p \in Moments
      /\ p.kind = v.kind /\ p.us = v.us
      /\ p.date = v.date + (v.sec - v.offset) \div Day
      /\ p.sec = (v.sec - v.offset) % Day
  BY <1>1, PlusIs
<1>3. NaiveUtc(v) = Naive(p)
  BY DEF NaiveUtc
<1> HIDE DEF p
<1> QED BY <1>2, <1>3, NaiveIs

\* Moments that have the same fields are the same.
LEMMA SameMoment ==
  ASSUME NEW v \in Moments, NEW w \in Moments,
         v.kind = w.kind, v.date = w.date, v.sec = w.sec, v.us = w.us,
         v.aware = w.aware, v.offset = w.offset
  PROVE  v = w
  BY DEF Moments

\* A moment that is in UTC already.
LEMMA UtcOfUtc ==
  ASSUME NEW v \in Moments, v.offset = 0
  PROVE  /\ ~v.aware => NaiveUtc(v) = v
         /\ NaiveUtc(v).date = v.date /\ NaiveUtc(v).sec = v.sec
<1>1. v.sec - v.offset = v.sec /\ v.date + 0 = v.date
  BY FieldsOf
<1>2. v.sec \div Day = 0 /\ v.sec % Day = v.sec
  BY FieldsOf, NoDays, Clock
<1>a. /\ NaiveUtc(v).date = v.date + (v.sec - v.offset) \div Day
      /\ NaiveUtc(v).sec = (v.sec - v.offset) % Day
  BY UtcIs
<1>b. NaiveUtc(v).date = v.date + v.sec \div Day /\ NaiveUtc(v).sec = v.sec % Day
  BY <1>a, <1>1
<1>3. NaiveUtc(v).date = v.date /\ NaiveUtc(v).sec = v.sec
  BY <1>b, <1>1, <1>2
<1>4. ~v.aware => v.aware = FALSE
  BY FieldsOf
<1> QED BY <1>3, <1>4, UtcIs, SameMoment

(* Text.                                                                       *)

\* What is written of a moment.
LEMMA TextIs ==
  ASSUME NEW v \in Moments
  PROVE  /\ Iso(v).at = v /\ Iso(v).form = "dashes"
         /\ IsoT(v).at = v /\ IsoT(v).form = "T"
         /\ Compact(v).at = v /\ Compact(v).form = "compact"
         /\ Compact(v).digits = (IF v.us = 0 THEN 0 ELSE 6)
         /\ Iso(v).digits = (IF v.us = 0 THEN 0 ELSE 6)
         /\ Iso(v) # Raised /\ IsoT(v) # Raised /\ Compact(v) # Raised
<1>1. Iso(v).at = v /\ Iso(v).form = "dashes"
  BY DEF Iso
<1>2. IsoT(v).at = v /\ IsoT(v).form = "T"
  BY DEF IsoT, Iso
<1>3. Compact(v).at = v /\ Compact(v).form = "compact"
  BY DEF Compact, Iso
<1>4. /\ Compact(v).digits = (IF v.us = 0 THEN 0 ELSE 6)
      /\ Iso(v).digits = (IF v.us = 0 THEN 0 ELSE 6)
  BY DEF Compact, Iso
<1>5. Raised.form = "raised"
  BY DEF Raised
<1> QED BY <1>1, <1>2, <1>3, <1>4, <1>5

\* What is left of a fraction of a second that is written in milliseconds.
Milliseconds(us) == (us \div 1000) * 1000

LEMMA MillisecondsIs ==
  ASSUME NEW us \in Int, 0 <= us, us < Second
  PROVE  /\ Milliseconds(us) \in Int
         /\ 0 <= Milliseconds(us) /\ Milliseconds(us) < Second
         /\ us - 999 <= Milliseconds(us) /\ Milliseconds(us) <= us
         /\ us = 0 => Milliseconds(us) = 0
         /\ Milliseconds(us) \div 1000 = us \div 1000
         /\ Milliseconds(Milliseconds(us)) = Milliseconds(us)
<1>1. PICK q : q = us \div 1000
  OBVIOUS
<1>2. q \in Int /\ 0 <= q /\ q <= 999
  BY <1>1, SMT DEF Second
<1>3. us - 999 <= 1000 * q /\ 1000 * q <= us
  BY <1>1, SMT
<1>4. Milliseconds(us) = q * 1000
  BY <1>1 DEF Milliseconds
<1>5. (q * 1000) \div 1000 = q
  BY <1>2, SMT
<1>6. /\ Milliseconds(us) \in Int
      /\ 0 <= Milliseconds(us) /\ Milliseconds(us) < Second
  BY <1>2, <1>4, SMT DEF Second
<1>7. /\ us - 999 <= Milliseconds(us) /\ Milliseconds(us) <= us
      /\ us = 0 => Milliseconds(us) = 0
  BY <1>2, <1>3, <1>4, SMT
<1>8. Milliseconds(us) \div 1000 = us \div 1000
  BY <1>1, <1>4, <1>5
<1>9. Milliseconds(Milliseconds(us)) = Milliseconds(us)
  BY <1>8 DEF Milliseconds
<1> QED BY <1>6, <1>7, <1>8, <1>9

\* A moment to the millisecond.
Truncated(v) == WithUs(v, Milliseconds(v.us))

LEMMA TruncatedIs ==
  ASSUME NEW v \in Moments
  PROVE  /\ Truncated(v) \in Moments
         /\ Truncated(v).kind = v.kind /\ Truncated(v).date = v.date
         /\ Truncated(v).sec = v.sec /\ Truncated(v).us = Milliseconds(v.us)
         /\ Truncated(v).aware = v.aware /\ Truncated(v).offset = v.offset
<1>1. Milliseconds(v.us) \in 0..(Second - 1)
  BY FieldsOf, MillisecondsIs, Clock
<1> DEFINE x == Truncated(v)
           u == Milliseconds(v.us)
<1> HIDE DEF u
<1>2. x = Val(v.kind, v.date, v.sec, u, v.aware, v.offset)
  BY Update DEF Truncated, u
<1> HIDE DEF x
<1>3. x \in Moments
  BY <1>1, <1>2, FieldsOf, ValueIn DEF u
<1>4. /\ x.kind = v.kind /\ x.date = v.date /\ x.sec = v.sec
      /\ x.us = u /\ x.aware = v.aware /\ x.offset = v.offset
  BY <1>2, <1>3, WrittenAs
<1> QED BY <1>3, <1>4 DEF x, u

LEMMA MillisecondText ==
  ASSUME NEW v \in Moments
  PROVE  /\ ToMillisecond(Iso(v)).at = Truncated(v)
         /\ ToMillisecond(Compact(v)).at = Truncated(v)
         /\ ToMillisecond(Compact(v)).form = "compact"
         /\ ToMillisecond(Compact(v)).digits \in {0, 3}
         /\ ToMillisecond(Iso(v)) # Raised /\ ToMillisecond(Compact(v)) # Raised
<1>1. v.us = 0 => Truncated(v) = v
  BY TruncatedIs, FieldsOf, MillisecondsIs, SameMoment, Clock
<1>2. CASE v.us = 0
  <2>1. Iso(v).digits = 0 /\ Compact(v).digits = 0
    BY <1>2, TextIs
  <2>2. ToMillisecond(Iso(v)) = Iso(v) /\ ToMillisecond(Compact(v)) = Compact(v)
    BY <2>1 DEF ToMillisecond
  <2> QED BY <1>1, <1>2, <2>1, <2>2, TextIs
<1>3. CASE v.us # 0
  <2>1. Iso(v).digits # 0 /\ Compact(v).digits # 0
    BY <1>3, TextIs
  <2> DEFINE i == ToMillisecond(Iso(v))
             c == ToMillisecond(Compact(v))
             t == Truncated(v)
  <2>a. ASSUME NEW text, text.digits # 0
        PROVE  ToMillisecond(text) = [text EXCEPT !.digits = 3, !.at = Truncated(text.at)]
    BY <2>a DEF ToMillisecond, Truncated, WithUs, Milliseconds
  <2>b. /\ i = [Iso(v) EXCEPT !.digits = 3, !.at = Truncated(Iso(v).at)]
        /\ c = [Compact(v) EXCEPT !.digits = 3, !.at = Truncated(Compact(v).at)]
    BY <2>1, <2>a
  <2>c. Iso(v).at = v /\ Compact(v).at = v
    BY TextIs
  <2>2. /\ i = [Iso(v) EXCEPT !.digits = 3, !.at = t]
        /\ c = [Compact(v) EXCEPT !.digits = 3, !.at = t]
    BY <2>b, <2>c, Zenon
  <2> HIDE DEF i, c, t
  <2>3. i.form = "dashes" /\ i.at = t
    BY <2>2 DEF Iso
  <2>4. c.form = "compact" /\ c.at = t
    BY <2>2 DEF Iso, Compact
  <2>5. c.digits = 3
    BY <2>2 DEF Iso, Compact
  <2>6. Raised.form = "raised"
    BY DEF Raised
  <2> QED BY <2>3, <2>4, <2>5, <2>6 DEF i, c, t
<1> QED BY <1>2, <1>3

\* The 300th of a second nearest to a fraction, and the fraction it is shown as.
Tick(us) == (3 * (us \div 1000) + 5) \div 10
Shown(tick) == ((20 * tick + 3) \div 6) * 1000

LEMMA TickIs ==
  ASSUME NEW us \in Int, 0 <= us, us < Second
  PROVE  /\ Tick(us) \in Int /\ 0 <= Tick(us) /\ Tick(us) <= 300
         /\ Tick(us) = 300 => Second - us <= 1000
         /\ us = 0 => Tick(us) = 0
         /\ us - 3333 <= Shown(Tick(us)) /\ Shown(Tick(us)) <= us + 3333
<1>1. PICK q : q = us \div 1000
  OBVIOUS
<1>2. q \in Int /\ 0 <= q /\ q <= 999
  BY <1>1, SMT DEF Second
<1>3. 1000 * q <= us /\ us <= 1000 * q + 999
  BY <1>1, SMT
<1>4. PICK t : t = (3 * q + 5) \div 10
  OBVIOUS
<1>5. t \in Int /\ 10 * t <= 3 * q + 5 /\ 3 * q + 5 <= 10 * t + 9
  BY <1>2, <1>4, SMT
<1>6. Tick(us) = t
  BY <1>1, <1>4 DEF Tick
<1>7. 0 <= t /\ t <= 300
  BY <1>2, <1>5, SMT
<1>8. t = 300 => Second - us <= 1000
  BY <1>2, <1>3, <1>5, SMT DEF Second
<1>9. us = 0 => t = 0
  BY <1>2, <1>3, <1>5, SMT
<1>10. PICK m : m = (20 * t + 3) \div 6
  OBVIOUS
<1>11. m \in Int /\ 6 * m <= 20 * t + 3 /\ 20 * t + 3 <= 6 * m + 5
  BY <1>5, <1>10, SMT
<1>12. Shown(t) = m * 1000
  BY <1>10 DEF Shown
<1>13. us - 3333 <= m * 1000 /\ m * 1000 <= us + 3333
  BY <1>2, <1>3, <1>5, <1>11, SMT
<1> QED BY <1>5, <1>6, <1>7, <1>8, <1>9, <1>12, <1>13

\* A fraction that is shown is the one of its 300th.
LEMMA ShownIs ==
  ASSUME NEW t \in Int, 0 <= t, t < 300
  PROVE  /\ Shown(t) \in Int /\ 0 <= Shown(t) /\ Shown(t) < Second
         /\ Tick(Shown(t)) = t
         /\ Milliseconds(Shown(t)) = Shown(t)
         /\ t = 0 => Shown(t) = 0
<1>1. PICK m : m = (20 * t + 3) \div 6
  OBVIOUS
<1>2. m \in Int /\ 6 * m <= 20 * t + 3 /\ 20 * t + 3 <= 6 * m + 5
  BY <1>1, SMT
<1>3. Shown(t) = m * 1000
  BY <1>1 DEF Shown
<1>4. (m * 1000) \div 1000 = m
  BY <1>2, SMT
<1>5. 0 <= m /\ m <= 999
  BY <1>2, SMT
<1>6. (3 * m + 5) \div 10 = t
  BY <1>2, SMT
<1>7. Tick(Shown(t)) = t
  BY <1>3, <1>4, <1>6 DEF Tick
<1>8. Shown(t) \in Int /\ 0 <= Shown(t) /\ Shown(t) < Second
  BY <1>2, <1>3, <1>5, SMT DEF Second
<1>9. t = 0 => Shown(t) = 0
  BY <1>2, <1>3, SMT
<1>10. Milliseconds(Shown(t)) = Shown(t)
  BY <1>3, <1>4 DEF Milliseconds
<1> QED BY <1>7, <1>8, <1>9, <1>10

\* What a datetime column keeps of a moment.
LEMMA TickedIs ==
  ASSUME NEW v \in Moments
  PROVE  /\ Ticked(v) \in Moments
         /\ Ticked(v).kind = v.kind /\ Ticked(v).aware = v.aware
         /\ Ticked(v).offset = v.offset
         /\ Tick(v.us) # 300 =>
               /\ Ticked(v).date = v.date /\ Ticked(v).sec = v.sec
               /\ Ticked(v).us = Shown(Tick(v.us))
         /\ Tick(v.us) = 300 =>
               /\ Ticked(v).date = v.date + (v.sec + 1) \div Day
               /\ Ticked(v).sec = (v.sec + 1) % Day
               /\ Ticked(v).us = 0
<1>1. v.us \in Int /\ 0 <= v.us /\ v.us < Second
  BY FieldsOf, Clock
<1>2. Tick(v.us) \in Int /\ 0 <= Tick(v.us) /\ Tick(v.us) <= 300
  BY <1>1, TickIs
<1> DEFINE x == Ticked(v)
<1>3. CASE Tick(v.us) = 300
  <2> DEFINE p == Plus(v, 1)
  <2>1. x = WithUs(p, 0)
    BY <1>3 DEF Ticked, Tick, WithUs
  <2>2. /\ p \in Moments /\ p.kind = v.kind
        /\ p.date = v.date + (v.sec + 1) \div Day
        /\ p.sec = (v.sec + 1) % Day
        /\ p.aware = v.aware /\ p.offset = v.offset
    BY PlusIs
  <2> HIDE DEF p, x
  <2>3. x = Val(p.kind, p.date, p.sec, 0, p.aware, p.offset)
    BY <2>1, <2>2, Update
  <2>4. 0 \in 0..(Second - 1)
    BY Clock
  <2>5. x \in Moments
    BY <2>2, <2>3, <2>4, FieldsOf, ValueIn, Zenon
  <2>6. /\ x.kind = p.kind /\ x.date = p.date /\ x.sec = p.sec /\ x.us = 0
        /\ x.aware = p.aware /\ x.offset = p.offset
    BY <2>3, <2>5, WrittenAs
  <2> QED BY <1>3, <2>2, <2>5, <2>6 DEF x
<1>4. CASE Tick(v.us) # 300
  <2> DEFINE u == Shown(Tick(v.us))
  <2>1. x = WithUs(v, u)
    BY <1>4 DEF Ticked, Tick, WithUs, Shown
  <2>2. u \in 0..(Second - 1)
    BY <1>2, <1>4, ShownIs, Clock
  <2> HIDE DEF u, x
  <2>3. x = Val(v.kind, v.date, v.sec, u, v.aware, v.offset)
    BY <2>1, Update
  <2>5. x \in Moments
    BY <2>2, <2>3, FieldsOf, ValueIn
  <2>6. /\ x.kind = v.kind /\ x.date = v.date /\ x.sec = v.sec /\ x.us = u
        /\ x.aware = v.aware /\ x.offset = v.offset
    BY <2>3, <2>5, WrittenAs
  <2> QED BY <1>4, <2>5, <2>6 DEF x, u
<1> QED BY <1>3, <1>4

\* It keeps what it shows, and whole seconds.
LEMMA TickedOnce ==
  ASSUME NEW v \in Moments
  PROVE  /\ Ticked(Ticked(v)) = Ticked(v)
         /\ v.us = 0 => Ticked(v) = v
         /\ Truncated(Ticked(v)) = Ticked(v)
<1>1. /\ v.us \in Int /\ 0 <= v.us /\ v.us < Second
      /\ Tick(v.us) \in Int /\ 0 <= Tick(v.us) /\ Tick(v.us) <= 300
  BY FieldsOf, TickIs, Clock
<1>2. 0 \in Int /\ 0 <= 0 /\ 0 < Second /\ 0 # 300
  BY Clock
<1>3. Tick(0) = 0 /\ Shown(0) = 0 /\ Milliseconds(0) = 0
  BY <1>2, TickIs, ShownIs, MillisecondsIs
<1>4. ASSUME NEW x \in Moments, Tick(x.us) # 300, Shown(Tick(x.us)) = x.us
      PROVE  Ticked(x) = x
  BY <1>4, TickedIs, SameMoment
<1>5. ASSUME NEW x \in Moments, Milliseconds(x.us) = x.us
      PROVE  Truncated(x) = x
  BY <1>5, TruncatedIs, SameMoment
<1>6. v.us = 0 => Ticked(v) = v
  BY <1>2, <1>3, <1>4
<1> DEFINE x == Ticked(v)
<1>7. /\ x \in Moments
      /\ Tick(v.us) = 300 => x.us = 0
      /\ Tick(v.us) # 300 => x.us = Shown(Tick(v.us))
  BY TickedIs
<1> HIDE DEF x
<1>8. CASE Tick(v.us) = 300
  BY <1>2, <1>3, <1>4, <1>5, <1>6, <1>7, <1>8 DEF x
<1>9. CASE Tick(v.us) # 300
  <2>1. PICK t : t = Tick(v.us)
    OBVIOUS
  <2>2. t \in Int /\ 0 <= t /\ t < 300
    BY <1>1, <1>9, <2>1
  <2>3. Tick(Shown(t)) = t /\ Milliseconds(Shown(t)) = Shown(t)
    BY <2>2, ShownIs
  <2>4. x.us = Shown(t)
    BY <1>7, <1>9, <2>1
  <2>5. Ticked(x) = x
    BY <1>4, <1>7, <2>2, <2>3, <2>4
  <2>6. Truncated(x) = x
    BY <1>5, <1>7, <2>3, <2>4
  <2> QED BY <1>6, <2>5, <2>6 DEF x
<1> QED BY <1>8, <1>9

\* A datetime column keeps milliseconds of no use to it: they are ticked away.
LEMMA TickedTruncated ==
  ASSUME NEW v \in Moments
  PROVE  Ticked(Truncated(v)) = Ticked(v)
<1> DEFINE w == Truncated(v)
<1>1. /\ w \in Moments
      /\ w.kind = v.kind /\ w.date = v.date /\ w.sec = v.sec
      /\ w.us = Milliseconds(v.us) /\ w.aware = v.aware /\ w.offset = v.offset
  BY TruncatedIs
<1>2. Milliseconds(v.us) \div 1000 = v.us \div 1000
  BY FieldsOf, MillisecondsIs, Clock
<1> HIDE DEF w
<1>3. Tick(w.us) = Tick(v.us)
  BY <1>1, <1>2 DEF Tick
<1>4. w.sec + 1 = v.sec + 1
  BY <1>1
<1>5. /\ Ticked(w).kind = Ticked(v).kind /\ Ticked(w).aware = Ticked(v).aware
      /\ Ticked(w).offset = Ticked(v).offset
  BY <1>1, TickedIs
<1>6. /\ Ticked(w).date = Ticked(v).date /\ Ticked(w).sec = Ticked(v).sec
      /\ Ticked(w).us = Ticked(v).us
  <2>1. CASE Tick(v.us) = 300
    <3>1. /\ Ticked(w).date = w.date + (w.sec + 1) \div Day
          /\ Ticked(w).sec = (w.sec + 1) % Day
          /\ Ticked(w).us = 0
      BY <1>1, <1>3, <2>1, TickedIs
    <3>2. /\ Ticked(v).date = v.date + (v.sec + 1) \div Day
          /\ Ticked(v).sec = (v.sec + 1) % Day
          /\ Ticked(v).us = 0
      BY <2>1, TickedIs
    <3> QED BY <1>1, <1>4, <3>1, <3>2
  <2>2. CASE Tick(v.us) # 300
    BY <1>1, <1>3, <2>2, TickedIs
  <2> QED BY <2>1, <2>2
<1> QED BY <1>1, <1>5, <1>6, TickedIs, SameMoment DEF w

(* Closeness.                                                                  *)

LEMMA PrecisionIs ==
  /\ Precision \in Int /\ 0 <= Precision
  /\ field.type = "datetime" => Precision = 3333
  /\ field.type # "datetime" /\ field.class = "LegacyTimeField" => Precision = 999
<1>1. 1000000 \div 300 = 3333
  BY SMT
<1> QED BY <1>1, SMT DEF Precision, Second

\* Moments of which UTC has the second in common, or one that is the next.
LEMMA CloseIs ==
  ASSUME NEW a \in Moments, NEW b \in Moments, NEW s \in {0, 1},
         SecondsApart(NaiveUtc(a), NaiveUtc(b)) = s,
         -Precision <= s * Second + a.us - b.us, s * Second + a.us - b.us <= Precision
  PROVE  Close(a, b)
<1>1. a.kind # "decimal"
  BY FieldsOf
<1>2. NaiveUtc(a).us = a.us /\ NaiveUtc(b).us = b.us
  BY UtcIs
<1>3. s * Second + a.us - b.us \in -Precision..Precision
  BY FieldsOf, Clock, PrecisionIs
<1> QED BY <1>1, <1>2, <1>3 DEF Close

LEMMA SameSecond ==
  ASSUME NEW a \in Moments, NEW b \in Moments, a.date = b.date, a.sec = b.sec
  PROVE  SecondsApart(a, b) = 0
<1>1. a.date - b.date = 0
  BY FieldsOf
<1>2. 0 * Day = 0
  BY Clock
<1>3. (a.date - b.date) * Day = 0
  BY <1>1, <1>2
<1>4. a.sec \in Int /\ b.sec \in Int
  BY FieldsOf, Clock
<1> QED BY <1>3, <1>4 DEF SecondsApart

LEMMA NextSecond ==
  ASSUME NEW a \in Moments, NEW b \in Moments,
         a.date = b.date + (b.sec + 1) \div Day, a.sec = (b.sec + 1) % Day
  PROVE  SecondsApart(a, b) = 1
<1>1. PICK n \in Int : n = b.sec + 1
  BY FieldsOf, Clock
<1>2. PICK q : q = n \div Day
  OBVIOUS
<1>3. PICK r : r = n % Day
  OBVIOUS
<1>4. q \in Int /\ r \in Int /\ n = Day * q + r
  BY <1>2, <1>3, Days
<1>5. a.date = b.date + q /\ a.sec = r
  BY <1>1, <1>2, <1>3
<1>6. a.date \in Int /\ b.date \in Int /\ a.sec \in Int /\ b.sec \in Int
  BY FieldsOf, Clock
<1>7. (a.date - b.date) * Day + a.sec - b.sec = 1
  BY <1>1, <1>4, <1>5, <1>6, SMT DEF Day
<1> QED BY <1>7 DEF SecondsApart

\* The same moment, to the precision of the column.
LEMMA CloseSame ==
  ASSUME NEW a \in Moments, NEW b \in Moments,
         NaiveUtc(a).date = NaiveUtc(b).date, NaiveUtc(a).sec = NaiveUtc(b).sec,
         b.us - Precision <= a.us, a.us <= b.us + Precision
  PROVE  Close(a, b)
<1>1. SecondsApart(NaiveUtc(a), NaiveUtc(b)) = 0
  BY UtcIs, SameSecond
<1>2. a.us \in Int /\ b.us \in Int
  BY FieldsOf, Clock
<1>3. -Precision <= 0 * Second + a.us - b.us /\ 0 * Second + a.us - b.us <= Precision
  BY <1>2, PrecisionIs, Clock
<1>4. PICK s \in {0, 1} : s = 0
  OBVIOUS
<1>5. SecondsApart(NaiveUtc(a), NaiveUtc(b)) = s
  BY <1>1, <1>4
<1>6. -Precision <= s * Second + a.us - b.us /\ s * Second + a.us - b.us <= Precision
  BY <1>3, <1>4
<1> QED BY <1>5, <1>6, CloseIs

\* What a datetime column keeps of a moment.
LEMMA CloseTicked ==
  ASSUME NEW v \in Moments, field.type = "datetime"
  PROVE  Close(Ticked(NaiveUtc(v)), v)
<1> DEFINE w == NaiveUtc(v)
           x == Ticked(w)
<1>1. w \in Moments /\ w.us = v.us /\ w.aware = FALSE /\ w.offset = 0
  BY UtcIs
<1>2. x \in Moments /\ x.aware = FALSE /\ x.offset = 0
  BY <1>1, TickedIs
<1>3. NaiveUtc(x) = x
  BY <1>2, UtcOfUtc
<1>4. w.us \in Int /\ 0 <= w.us /\ w.us < Second
  BY <1>1, FieldsOf, Clock
<1>5. CASE Tick(w.us) = 300
  <2>1. /\ x.date = w.date + (w.sec + 1) \div Day /\ x.sec = (w.sec + 1) % Day
        /\ x.us = 0
    BY <1>1, <1>5, TickedIs
  <2>2. SecondsApart(x, w) = 1
    BY <1>1, <1>2, <2>1, NextSecond
  <2>3. Second - w.us <= 1000
    BY <1>4, <1>5, TickIs
  <2> HIDE DEF x, w
  <2>4. -3333 <= 1 * Second + x.us - v.us /\ 1 * Second + x.us - v.us <= 3333
    BY <1>1, <1>4, <2>1, <2>3, Clock
  <2>5. PICK s \in {0, 1} : s = 1
    OBVIOUS
  <2>6. SecondsApart(NaiveUtc(x), w) = s
    BY <1>3, <2>2, <2>5
  <2>7. -Precision <= s * Second + x.us - v.us /\ s * Second + x.us - v.us <= Precision
    BY <2>4, <2>5, PrecisionIs
  <2> QED BY <1>2, <2>6, <2>7, CloseIs DEF x, w
<1>6. CASE Tick(w.us) # 300
  <2>1. x.date = w.date /\ x.sec = w.sec /\ x.us = Shown(Tick(w.us))
    BY <1>1, <1>6, TickedIs
  <2>2. w.us - 3333 <= x.us /\ x.us <= w.us + 3333
    BY <1>4, <2>1, TickIs
  <2> HIDE DEF x, w
  <2>3. v.us - Precision <= x.us /\ x.us <= v.us + Precision
    BY <1>1, <2>2, PrecisionIs
  <2>4. NaiveUtc(x).date = w.date /\ NaiveUtc(x).sec = w.sec
    BY <1>3, <2>1
  <2> QED BY <1>2, <2>3, <2>4, CloseSame DEF x, w
<1> QED BY <1>5, <1>6

(* Decimals.                                                                   *)

Digits == 0..9
DecimalSet == [kind : {"decimal"}, sign : {0, 1}, digits : Seq(Digits), exp : Int]
Canonical(d) == Denoted(FormatDecimal(d))

\* Zeros, none of a number that is not positive.
LEMMA ZerosAre ==
  ASSUME NEW n \in Int
  PROVE  /\ Zeros(n) \in Seq(Digits)
         /\ Len(Zeros(n)) = (IF n > 0 THEN n ELSE 0)
         /\ \A i \in 1..n : Zeros(n)[i] = 0
         /\ n <= 0 => Zeros(n) = <<>>
<1>1. CASE n > 0
  <2>1. n \in Nat
    BY <1>1
  <2>2. Zeros(n) \in [1..n -> Digits]
    BY DEF Zeros, Digits
  <2>3. Zeros(n) \in Seq(Digits) /\ Len(Zeros(n)) = n
    BY <2>1, <2>2
  <2> QED BY <1>1, <2>3 DEF Zeros
<1>2. CASE n <= 0
  <2>1. 1..n = {}
    BY <1>2
  <2>2. Zeros(n) = <<>>
    BY <2>1 DEF Zeros
  <2> QED BY <1>2, <2>1, <2>2, EmptySeq
<1> QED BY <1>1, <1>2

\* What is sent of a decimal: its digits, with zeros behind or in front.
LEMMA CanonicalIs ==
  ASSUME NEW d \in DecimalSet
  PROVE  /\ Canonical(d) \in DecimalSet
         /\ Canonical(d).sign = d.sign
         /\ d.exp > 0 => /\ Canonical(d).digits = d.digits \o Zeros(d.exp)
                         /\ Canonical(d).exp = 0
         /\ d.exp <= 0 => /\ Canonical(d).digits
                               = Zeros(1 - d.exp - Len(d.digits)) \o d.digits
                          /\ Canonical(d).exp = d.exp
<1>1. /\ d.sign \in {0, 1} /\ d.digits \in Seq(Digits) /\ d.exp \in Int
      /\ Len(d.digits) \in Nat
  BY LenProperties DEF DecimalSet
<1> DEFINE f == FormatDecimal(d)
           c == Canonical(d)
<1>2. c.digits = f.int \o f.frac /\ c.exp = -Len(f.frac)
  BY DEF Canonical, Denoted
<1>3. c.sign = d.sign
  BY <1>1 DEF Canonical, Denoted, FormatDecimal
<1>4. ASSUME c.digits \in Seq(Digits), c.exp \in Int, c.sign \in {0, 1}
      PROVE  c \in DecimalSet
  BY <1>4 DEF Canonical, Denoted, DecimalSet
<1>5. CASE d.exp > 0
  <2> DEFINE s == d.digits \o Zeros(d.exp)
  <2>1. s \in Seq(Digits)
    BY <1>1, ZerosAre, ConcatProperties
  <2>2. f.int = s /\ f.frac = <<>>
    BY <1>5 DEF FormatDecimal
  <2>3. s \o <<>> = s
    BY <2>1, ConcatEmptySeq
  <2>4. Len(f.frac) = 0
    BY <2>2, EmptySeq
  <2> HIDE DEF f, c, s
  <2>5. c.digits = s
    BY <1>2, <2>2, <2>3, Zenon
  <2>6. c.exp = 0 /\ c.exp \in Int
    <3>1. PICK n \in Int : n = Len(f.frac)
      BY <2>4
    <3>2. c.exp = -n /\ n = 0
      BY <1>2, <2>4, <3>1, Zenon
    <3>3. n + n = 0 => -n = n
      OBVIOUS
    <3>4. n + n = 0
      BY <3>2
    <3> QED BY <3>1, <3>2, <3>3, <3>4, Zenon
  <2>7. c \in DecimalSet
    BY <1>1, <1>3, <1>4, <2>1, <2>5, <2>6, Zenon
  <2>8. ~(d.exp <= 0)
    BY <1>1, <1>5
  <2> QED BY <1>3, <2>5, <2>6, <2>7, <2>8, Zenon DEF c, s
<1>6. CASE d.exp <= 0
  <2> DEFINE z == Zeros(1 - d.exp - Len(d.digits))
             s == z \o d.digits
             point == Len(s) + d.exp
  <2>1. 1 - d.exp - Len(d.digits) \in Int
    BY <1>1
  <2>2. /\ z \in Seq(Digits)
        /\ Len(z) = (IF 1 - d.exp - Len(d.digits) > 0 THEN 1 - d.exp - Len(d.digits) ELSE 0)
    BY <2>1, ZerosAre
  <2>3. s \in Seq(Digits) /\ Len(s) = Len(z) + Len(d.digits)
    BY <1>1, <2>2, ConcatProperties
  <2>4. ~(d.exp > 0)
    BY <1>1, <1>6
  <2>5. f.int = SubSeq(s, 1, point) /\ f.frac = SubSeq(s, point + 1, Len(s))
    BY <2>4 DEF FormatDecimal
  <2> HIDE DEF f, c, s, z
  <2>6. Len(s) \in Nat /\ point \in 1..Len(s) /\ point + 1 \in Int
    BY <1>1, <1>6, <2>2, <2>3
  <2>7. /\ 1 \in 1..Len(s) + 1 /\ point \in 1 - 1..Len(s) /\ Len(s) \in point..Len(s)
    BY <2>6
  <2> HIDE DEF point
  <2>8. SubSeq(s, 1, point) \o SubSeq(s, point + 1, Len(s)) = SubSeq(s, 1, Len(s))
    BY <2>3, <2>7, ConcatAdjacentSubSeq, Zenon
  <2>9. SubSeq(s, 1, Len(s)) = s
    BY <2>3, SubSeqFull
  <2>10. Len(SubSeq(s, point + 1, Len(s))) = -d.exp
    <3>1. \A i \in point + 1..Len(s) : s[i] \in Digits
      BY <2>3, <2>6, ElementOfSeq
    <3>2. Len(SubSeq(s, point + 1, Len(s)))
             = IF point + 1 <= Len(s) THEN Len(s) - (point + 1) + 1 ELSE 0
      BY <2>6, <3>1, SubSeqProperties
    <3> QED BY <1>1, <1>6, <2>6, <3>2 DEF point
  <2>11. c.digits = s
    BY <1>2, <2>5, <2>8, <2>9, Zenon
  <2>12. c.exp = d.exp
    <3>1. Len(f.frac) = -d.exp
      BY <2>5, <2>10, Zenon
    <3> QED BY <1>1, <1>2, <3>1
  <2>13. c \in DecimalSet
    BY <1>1, <1>3, <1>4, <2>3, <2>11, <2>12
  <2> QED BY <1>3, <2>4, <2>11, <2>12, <2>13, Zenon DEF c, s, z
<1>7. d.exp > 0 \/ d.exp <= 0
  BY <1>1
<1> QED BY <1>5, <1>6, <1>7, Zenon

\* Sent again, it gets no more zeros.
LEMMA CanonicalOnce ==
  ASSUME NEW d \in DecimalSet
  PROVE  Canonical(Canonical(d)) = Canonical(d)
<1> DEFINE z == 1 - d.exp - Len(d.digits)
<1>1. /\ d.digits \in Seq(Digits) /\ d.exp \in Int /\ Len(d.digits) \in Nat
  BY LenProperties DEF DecimalSet
<1>2. PICK c \in DecimalSet : c = Canonical(d)
  BY CanonicalIs
<1>3. c.digits \in Seq(Digits) /\ Len(c.digits) \in Nat /\ c.exp \in Int
  BY LenProperties DEF DecimalSet
<1>4. c.exp <= 0 /\ 1 - c.exp - Len(c.digits) <= 0
  <2>1. CASE d.exp > 0
    <3>1. c.digits = d.digits \o Zeros(d.exp) /\ c.exp = 0
      BY <1>2, <2>1, CanonicalIs
    <3>2. Zeros(d.exp) \in Seq(Digits) /\ Len(Zeros(d.exp)) = d.exp
      BY <1>1, <2>1, ZerosAre
    <3>a. Len(d.digits \o Zeros(d.exp)) = Len(d.digits) + Len(Zeros(d.exp))
      BY <1>1, <3>2, ConcatProperties, Zenon
    <3>3. Len(c.digits) = Len(d.digits) + d.exp
      BY <3>1, <3>2, <3>a, Zenon
    <3>4. c.exp = 0
      BY <3>1
    <3> QED BY <1>1, <2>1, <3>3, <3>4
  <2>2. CASE d.exp <= 0
    <3>1. c.digits = Zeros(z) \o d.digits /\ c.exp = d.exp
      BY <1>2, <2>2, CanonicalIs
    <3>2. z \in Int
      BY <1>1
    <3>3. Zeros(z) \in Seq(Digits) /\ Len(Zeros(z)) = (IF z > 0 THEN z ELSE 0)
      BY <3>2, ZerosAre
    <3>a. Len(Zeros(z) \o d.digits) = Len(Zeros(z)) + Len(d.digits)
      BY <1>1, <3>3, ConcatProperties, Zenon
    <3>4. Len(c.digits) = Len(Zeros(z)) + Len(d.digits)
      BY <3>1, <3>a, Zenon
    <3>5. c.exp = d.exp
      BY <3>1
    <3>6. PICK k \in Int : k = Len(Zeros(z))
      BY <3>2, <3>3
    <3>7. /\ k = (IF z > 0 THEN z ELSE 0)
          /\ Len(c.digits) = k + Len(d.digits)
      BY <3>3, <3>4, <3>6, Zenon
    <3> QED BY <1>1, <2>2, <3>5, <3>6, <3>7
  <2>3. d.exp > 0 \/ d.exp <= 0
    BY <1>1
  <2> QED BY <2>1, <2>2, <2>3
<1>5. PICK n \in Int : n = 1 - c.exp - Len(c.digits)
  BY <1>3
<1>6. Zeros(n) = <<>>
  BY <1>4, <1>5, ZerosAre
<1>7. <<>> \o c.digits = c.digits
  BY <1>3, ConcatEmptySeq
<1>8. PICK e \in DecimalSet : e = Canonical(c)
  BY CanonicalIs
<1>9. e.sign = c.sign /\ e.exp = c.exp /\ e.digits = Zeros(n) \o c.digits
  BY <1>4, <1>5, <1>8, CanonicalIs
<1>10. e = c
  BY <1>6, <1>7, <1>9 DEF DecimalSet
<1> QED BY <1>2, <1>8, <1>10

\* It is the number that is meant.
LEMMA CanonicalMeans ==
  ASSUME NEW d \in DecimalSet
  PROVE  SameNumber(Canonical(d), d)
<1> DEFINE z == 1 - d.exp - Len(d.digits)
<1>1. /\ d.digits \in Seq(Digits) /\ d.exp \in Int /\ Len(d.digits) \in Nat
  BY LenProperties DEF DecimalSet
<1>2. PICK c \in DecimalSet : c = Canonical(d)
  BY CanonicalIs
<1>3. c.digits \in Seq(Digits) /\ Len(c.digits) \in Nat /\ c.exp \in Int
  BY LenProperties DEF DecimalSet
<1>4. ASSUME NEW p \in Int
      PROVE  DigitAt(c, p) = DigitAt(d, p)
  <2>1. PICK i \in Int : i = Len(d.digits) + d.exp - p
    BY <1>1
  <2>2. DigitAt(d, p) = (IF i \in 1..Len(d.digits) THEN d.digits[i] ELSE 0)
    BY <2>1 DEF DigitAt
  <2>3. CASE d.exp > 0
    <3>1. c.digits = d.digits \o Zeros(d.exp) /\ c.exp = 0
      BY <1>2, <2>3, CanonicalIs
    <3>2. /\ Zeros(d.exp) \in Seq(Digits) /\ Len(Zeros(d.exp)) = d.exp
          /\ \A j \in 1..d.exp : Zeros(d.exp)[j] = 0
      BY <1>1, <2>3, ZerosAre
    <3>a. Len(d.digits \o Zeros(d.exp)) = Len(d.digits) + Len(Zeros(d.exp))
      BY <1>1, <3>2, ConcatProperties, Zenon
    <3>3. Len(c.digits) = Len(d.digits) + d.exp
      BY <3>1, <3>2, <3>a, Zenon
    <3>b. c.exp = 0
      BY <3>1
    <3>4. Len(c.digits) + c.exp - p = i
      BY <1>1, <2>1, <3>3, <3>b
    <3>5. DigitAt(c, p) = (IF i \in 1..Len(c.digits) THEN c.digits[i] ELSE 0)
      BY <3>4 DEF DigitAt
    <3>6. CASE i \in 1..Len(d.digits)
      <4>a. i \in 1..Len(d.digits) + Len(Zeros(d.exp)) /\ i <= Len(d.digits)
        BY <1>1, <2>3, <3>2, <3>6
      <4>b. (d.digits \o Zeros(d.exp))[i] = d.digits[i]
        BY <1>1, <3>2, <4>a, ConcatProperties
      <4>1. c.digits[i] = d.digits[i]
        BY <3>1, <4>b, Zenon
      <4>2. i \in 1..Len(c.digits)
        BY <1>1, <2>3, <3>3, <3>6
      <4> QED BY <2>2, <3>5, <3>6, <4>1, <4>2
    <3>7. CASE i \notin 1..Len(d.digits) /\ i \in 1..Len(c.digits)
      <4>1. i \in 1..Len(d.digits) + Len(Zeros(d.exp)) /\ ~(i <= Len(d.digits))
        BY <1>1, <1>3, <3>2, <3>3, <3>7
      <4>2. (d.digits \o Zeros(d.exp))[i] = Zeros(d.exp)[i - Len(d.digits)]
        BY <1>1, <3>2, <4>1, ConcatProperties
      <4>3. i - Len(d.digits) \in 1..d.exp
        BY <1>1, <3>2, <4>1
      <4>4. c.digits[i] = 0
        BY <3>1, <3>2, <4>2, <4>3
      <4> QED BY <2>2, <3>5, <3>7, <4>4
    <3>8. CASE i \notin 1..Len(d.digits) /\ i \notin 1..Len(c.digits)
      BY <2>2, <3>5, <3>8
    <3> QED BY <3>6, <3>7, <3>8
  <2>4. CASE d.exp <= 0
    <3>1. c.digits = Zeros(z) \o d.digits /\ c.exp = d.exp
      BY <1>2, <2>4, CanonicalIs
    <3>2. PICK k : k = Len(Zeros(z))
      OBVIOUS
    <3>3. z \in Int
      BY <1>1
    <3>4. /\ Zeros(z) \in Seq(Digits) /\ k \in Nat
          /\ \A j \in 1..k : Zeros(z)[j] = 0
      BY <3>2, <3>3, ZerosAre
    <3>5. Len(c.digits) = k + Len(d.digits)
      BY <1>1, <3>1, <3>2, <3>4, ConcatProperties
    <3>a. c.exp = d.exp /\ k \in Nat
      BY <3>1, <3>4
    <3>6. Len(c.digits) + c.exp - p = k + i
      BY <1>1, <2>1, <3>5, <3>a
    <3>7. DigitAt(c, p) = (IF k + i \in 1..Len(c.digits) THEN c.digits[k + i] ELSE 0)
      BY <3>6 DEF DigitAt
    <3> HIDE DEF z
    <3>8. CASE i \in 1..Len(d.digits)
      <4>1. k + i \in 1..Len(c.digits) /\ ~(k + i <= k) /\ k + i - k = i
        BY <1>1, <3>4, <3>5, <3>8
      <4>2. (Zeros(z) \o d.digits)[k + i] = d.digits[k + i - k]
        BY <1>1, <3>2, <3>4, <3>5, <4>1, ConcatProperties
      <4> QED BY <2>2, <3>1, <3>7, <3>8, <4>1, <4>2
    <3>9. CASE i \notin 1..Len(d.digits) /\ k + i \in 1..Len(c.digits)
      <4>1. k + i <= k /\ k + i \in 1..k + Len(d.digits) /\ k + i \in 1..k
        BY <1>1, <3>4, <3>5, <3>9
      <4>2. (Zeros(z) \o d.digits)[k + i] = Zeros(z)[k + i]
        BY <1>1, <3>2, <3>4, <4>1, ConcatProperties
      <4> QED BY <2>2, <3>1, <3>4, <3>7, <3>9, <4>1, <4>2
    <3>10. CASE i \notin 1..Len(d.digits) /\ k + i \notin 1..Len(c.digits)
      BY <2>2, <3>7, <3>10
    <3> QED BY <3>8, <3>9, <3>10
  <2>5. d.exp > 0 \/ d.exp <= 0
    BY <1>1
  <2> QED BY <2>3, <2>4, <2>5
<1>5. Positions(c) \cup Positions(d) \subseteq Int
  BY <1>1, <1>3 DEF Positions
<1>6. c.sign = d.sign
  BY <1>2, CanonicalIs
<1> QED BY <1>2, <1>4, <1>5, <1>6 DEF SameNumber

(* Fields.                                                                     *)

LEMMA DatatypeIs ==
  /\ Datatype("DateField") = "date" /\ Datatype("NewDateField") = "date"
  /\ Datatype("LegacyDateField") = "datetime"
  /\ Datatype("TimeField") = "time" /\ Datatype("NewTimeField") = "time"
  /\ Datatype("LegacyTimeField") = "time"
  /\ Datatype("DateTimeField") = "datetime2" /\ Datatype("NewDateTimeField") = "datetime2"
  /\ Datatype("LegacyDateTimeField") = "datetime"
  /\ Datatype("DateTimeOffsetField") = "datetimeoffset"
  /\ Datatype("DecimalField") = "decimal"
<1>1. Datatype("DateField") = "date" /\ Datatype("NewDateField") = "date"
  BY Zenon DEF Datatype, Sized, Addresses
<1>2. Datatype("LegacyDateField") = "datetime"
  BY Zenon DEF Datatype, Sized, Addresses
<1>3. Datatype("TimeField") = "time" /\ Datatype("NewTimeField") = "time"
  BY Zenon DEF Datatype, Sized, Addresses
<1>4. Datatype("LegacyTimeField") = "time"
  BY Zenon DEF Datatype, Sized, Addresses
<1>5. Datatype("DateTimeField") = "datetime2"
  BY Zenon DEF Datatype, Sized, Addresses
<1>6. Datatype("NewDateTimeField") = "datetime2"
  BY Zenon DEF Datatype, Sized, Addresses
<1>7. Datatype("LegacyDateTimeField") = "datetime"
  BY Zenon DEF Datatype, Sized, Addresses
<1>8. Datatype("DateTimeOffsetField") = "datetimeoffset"
  BY Zenon DEF Datatype, Sized, Addresses
<1>9. Datatype("DecimalField") = "decimal"
  BY Zenon DEF Datatype, Sized, Addresses
<1> QED BY <1>1, <1>2, <1>3, <1>4, <1>5, <1>6, <1>7, <1>8, <1>9

\* The kinds of field, by what they do with a value.
Plain(f) == \/ f.class \in {"DateField", "NewDateField"} /\ f.type = "date"
            \/ f.class \in {"TimeField", "NewTimeField"} /\ f.type = "time"
LegacyDate(f) == f.class = "LegacyDateField" /\ f.type = "datetime"
LegacyTime(f) == f.class = "LegacyTimeField" /\ f.type = "time"
DjangoDateTime(f) == f.class = "DateTimeField" /\ f.type = "datetime2"
NewDateTime(f) == f.class = "NewDateTimeField" /\ f.type = "datetime2"
LegacyDateTime(f) == f.class = "LegacyDateTimeField" /\ f.type = "datetime"
DateTimeOffset(f) == f.class = "DateTimeOffsetField" /\ f.type = "datetimeoffset"
Fixed(f) == f.class = "DecimalField" /\ f.type = "decimal"
Raw(f) == /\ f.class = "raw"
          /\ f.type \in {"date", "datetime", "datetime2", "datetimeoffset", "time"}

LEMMA FieldIs ==
  ASSUME NEW f \in Fields
  PROVE  \/ Plain(f) \/ LegacyDate(f) \/ LegacyTime(f) \/ DjangoDateTime(f) \/ NewDateTime(f)
         \/ LegacyDateTime(f) \/ DateTimeOffset(f) \/ Fixed(f) \/ Raw(f)
<1> DEFINE Classes == DateClasses \cup TimeClasses \cup DateTimeClasses \cup {"DecimalField"}
<1>1. CASE f \in {[class |-> class, type |-> Datatype(class)] : class \in Classes}
  <2>1. PICK class \in Classes : f = [class |-> class, type |-> Datatype(class)]
    BY <1>1
  <2>2. f.class = class /\ f.type = Datatype(class)
    BY <2>1
  <2>3. class \in {"DateField", "NewDateField", "LegacyDateField", "TimeField", "NewTimeField",
                   "LegacyTimeField", "DateTimeField", "NewDateTimeField",
                   "LegacyDateTimeField", "DateTimeOffsetField", "DecimalField"}
    BY DEF DateClasses, TimeClasses, DateTimeClasses
  <2> QED BY <2>2, <2>3, DatatypeIs DEF Plain, LegacyDate, LegacyTime, DjangoDateTime,
             NewDateTime, LegacyDateTime, DateTimeOffset, Fixed
<1>2. CASE f \in [class : {"raw"}, type : {"date", "datetime", "datetime2", "datetimeoffset",
                                           "time"}]
  BY <1>2 DEF Raw
<1> QED BY <1>1, <1>2 DEF Fields

LEMMA PrepIs ==
  ASSUME NEW v
  PROVE  /\ \A class \in DateClasses : DbPrepValue(class, v) = Iso(v)
         /\ v.aware => \A class \in TimeClasses : DbPrepValue(class, v) = Raised
         /\ ~v.aware => /\ \A class \in {"TimeField", "NewTimeField"} :
                             DbPrepValue(class, v) = Iso(v)
                        /\ DbPrepValue("LegacyTimeField", v) = ToMillisecond(Iso(v))
         /\ DbPrepValue("DateTimeField", v) = NewToDb(DjangoPrep(v))
         /\ NewDateTimeToPython(v) = Raised => DbPrepValue("NewDateTimeField", v) = Raised
         /\ NewDateTimeToPython(v) # Raised
               => DbPrepValue("NewDateTimeField", v) = NewToDb(NewDateTimeToPython(v))
         /\ DbPrepValue("LegacyDateTimeField", v) = LegacyToDb(DjangoPrep(v))
         /\ DbPrepValue("DateTimeOffsetField", v) = IsoT(DjangoPrep(v))
         /\ \A class \in {"DecimalField", "raw"} : DbPrepValue(class, v) = Parameter(v)
<1>1. \A class \in DateClasses : DbPrepValue(class, v) = Iso(v)
  BY Zenon DEF DbPrepValue, DateClasses
<1>b. \A class \in {"TimeField", "NewTimeField"} : DbPrepValue(class, v) = NewTimeToDb(v)
  BY Zenon DEF DbPrepValue, DateClasses
<1>c. DbPrepValue("LegacyTimeField", v) = LegacyTimeToDb(v)
  BY Zenon DEF DbPrepValue, DateClasses
<1>2. v.aware => \A class \in TimeClasses : DbPrepValue(class, v) = Raised
  BY <1>b, <1>c, Zenon DEF TimeClasses, NewTimeToDb, LegacyTimeToDb
<1>3. ~v.aware => /\ \A class \in {"TimeField", "NewTimeField"} : DbPrepValue(class, v) = Iso(v)
                  /\ DbPrepValue("LegacyTimeField", v) = ToMillisecond(Iso(v))
  BY <1>b, <1>c, Zenon DEF NewTimeToDb, LegacyTimeToDb
<1>4. DbPrepValue("DateTimeField", v) = NewToDb(DjangoPrep(v))
  BY Zenon DEF DbPrepValue, DateClasses
<1>5. NewDateTimeToPython(v) = Raised => DbPrepValue("NewDateTimeField", v) = Raised
  BY Zenon DEF DbPrepValue, DateClasses
<1>6. NewDateTimeToPython(v) # Raised
        => DbPrepValue("NewDateTimeField", v) = NewToDb(NewDateTimeToPython(v))
  BY Zenon DEF DbPrepValue, DateClasses
<1>7. DbPrepValue("LegacyDateTimeField", v) = LegacyToDb(DjangoPrep(v))
  BY Zenon DEF DbPrepValue, DateClasses
<1>8. DbPrepValue("DateTimeOffsetField", v) = IsoT(DjangoPrep(v))
  BY Zenon DEF DbPrepValue, DateClasses
<1>9. \A class \in {"DecimalField", "raw"} : DbPrepValue(class, v) = Parameter(v)
  BY Zenon DEF DbPrepValue, DateClasses
<1> QED BY <1>1, <1>2, <1>3, <1>4, <1>5, <1>6, <1>7, <1>8, <1>9, Zenon

(* What is given.                                                              *)

IsDate(v) == /\ v \in Moments /\ v.kind = "date" /\ v.sec = 0 /\ v.us = 0
             /\ v.aware = FALSE /\ v.offset = 0
IsTime(v) == v \in Moments /\ v.kind = "time" /\ v.aware = FALSE /\ v.offset = 0
IsAwareTime(v) == v.kind = "time" /\ v.aware = TRUE
IsDateTime(v) == v \in Moments /\ v.kind = "datetime" /\ (v.aware = FALSE => v.offset = 0)

LEMMA AtIn ==
  ASSUME NEW k \in {"date", "time", "datetime"}, NEW d \in Int,
         NEW s \in 0..(Day - 1), NEW u \in 0..(Second - 1)
  PROVE  At(k, d, s, u) \in Moments
  BY DEF At, Moments

LEMMA DatesAre ==
  ASSUME NEW v \in GivenDates
  PROVE  IsDate(v)
<1>1. PICK date \in Dates : v = At("date", date, 0, 0)
  BY DEF GivenDates
<1>2. /\ v.kind = "date" /\ v.sec = 0 /\ v.us = 0
      /\ v.aware = FALSE /\ v.offset = 0
  BY <1>1 DEF At
<1>3. PICK d \in Int : d = date
  BY DatesAssumption
<1>4. PICK s \in 0..(Day - 1), u \in 0..(Second - 1) : s = 0 /\ u = 0
  BY Clock
<1>5. v = At("date", d, s, u)
  BY <1>1, <1>3, <1>4
<1>6. v \in Moments
  BY <1>5, AtIn
<1> QED BY <1>2, <1>6 DEF IsDate

LEMMA TimesAre ==
  ASSUME NEW v \in GivenTimes
  PROVE  IsTime(v)
<1>1. PICK sec \in Seconds, us \in Micros : v = At("time", 0, sec, us)
  BY DEF GivenTimes
<1>2. v.kind = "time" /\ v.aware = FALSE /\ v.offset = 0
  BY <1>1 DEF At
<1>3. PICK s \in 0..(Day - 1), u \in 0..(Second - 1) : s = sec /\ u = us
  BY TimesAssumption, Zenon
<1>4. PICK d \in Int : d = 0
  OBVIOUS
<1>5. v = At("time", d, s, u)
  BY <1>1, <1>3, <1>4
<1>6. v \in Moments
  BY <1>5, AtIn
<1> QED BY <1>2, <1>6 DEF IsTime

LEMMA NaiveDateTimes ==
  ASSUME NEW date \in Dates, NEW sec \in Seconds, NEW us \in Micros,
         NEW v, v = At("datetime", date, sec, us)
  PROVE  v \in Moments /\ v.kind = "datetime" /\ v.aware = FALSE /\ v.offset = 0
<1>1. v.kind = "datetime" /\ v.aware = FALSE /\ v.offset = 0
  BY DEF At
<1>2. PICK d \in Int : d = date
  BY DatesAssumption
<1>3. PICK s \in 0..(Day - 1), u \in 0..(Second - 1) : s = sec /\ u = us
  BY TimesAssumption, Zenon
<1>4. v = At("datetime", d, s, u)
  BY <1>2, <1>3
<1>5. v \in Moments
  BY <1>4, AtIn
<1> QED BY <1>1, <1>5

LEMMA AwareTimesAre ==
  ASSUME NEW v \in AwareTimes
  PROVE  IsAwareTime(v)
<1>1. PICK t \in GivenTimes, offset \in Offsets : v = Aware(t, offset)
  BY DEF AwareTimes
<1>2. IsTime(t)
  BY TimesAre
<1> QED BY <1>1, <1>2 DEF IsTime, IsAwareTime, Aware, Moments

LEMMA DateTimesAre ==
  ASSUME NEW v \in GivenDateTimes
  PROVE  IsDateTime(v)
<1> DEFINE naive == {At("datetime", date, sec, us) : date \in Dates, sec \in Seconds,
                                                     us \in Micros}
<1> HIDE DEF naive
<1>1. ASSUME NEW w \in naive
      PROVE  w \in Moments /\ w.kind = "datetime" /\ w.aware = FALSE /\ w.offset = 0
  <2>1. PICK date \in Dates, sec \in Seconds, us \in Micros :
            w = At("datetime", date, sec, us)
    BY DEF naive
  <2> QED BY <2>1, NaiveDateTimes, Zenon
<1>2. CASE v \in naive
  BY <1>1, <1>2 DEF IsDateTime
<1>3. CASE v \in {Aware(w, offset) : w \in naive, offset \in Offsets}
  <2>1. PICK w \in naive, offset \in Offsets : v = Aware(w, offset)
    BY <1>3
  <2>2. w \in Moments /\ w.kind = "datetime" /\ offset \in Int
    BY <1>1, ZonesAssumption
  <2>3. PICK o \in Int : o = offset
    BY <2>2
  <2>4. v = Aware(w, o)
    BY <2>1, <2>3
  <2>5. TRUE # FALSE
    OBVIOUS
  <2> QED BY <2>2, <2>4, <2>5, AwareIs, Zenon DEF IsDateTime
<1> QED BY <1>2, <1>3 DEF GivenDateTimes, naive

LEMMA GivenForIs ==
  ASSUME NEW f
  PROVE  /\ f.class \in DateClasses /\ f.type \in {"date", "datetime"}
               => GivenFor(f) = GivenDates
         /\ f.type = "date" => GivenFor(f) = GivenDates
         /\ f.class \in TimeClasses /\ f.type = "time"
               => GivenFor(f) = GivenTimes \cup AwareTimes
         /\ f.class = "raw" /\ f.type = "time" => GivenFor(f) = GivenTimes
         /\ f.class = "DecimalField" /\ f.type = "decimal" => GivenFor(f) = Decimals
         /\ f.class = "raw" /\ f.type = "datetime"
               => GivenFor(f) = GivenDates \cup GivenDateTimes
         /\ f.class \in DateTimeClasses /\ f.type \in {"datetime", "datetime2", "datetimeoffset"}
               => GivenFor(f) = GivenDateTimes
         /\ f.class = "raw" /\ f.type \in {"datetime2", "datetimeoffset"}
               => GivenFor(f) = GivenDateTimes
<1>a. f.class \in DateClasses /\ f.type \in {"date", "datetime"}
        => GivenFor(f) = GivenDates
  BY Zenon DEF GivenFor, DateClasses, TimeClasses
<1>1. f.type = "date" => GivenFor(f) = GivenDates
  BY Zenon DEF GivenFor, DateClasses, TimeClasses
<1>b. f.class \in TimeClasses /\ f.type = "time" => GivenFor(f) = GivenTimes \cup AwareTimes
  BY Zenon DEF GivenFor, DateClasses, TimeClasses
<1>2. f.class = "raw" /\ f.type = "time" => GivenFor(f) = GivenTimes
  BY Zenon DEF GivenFor, DateClasses, TimeClasses
<1>3. f.class = "DecimalField" /\ f.type = "decimal" => GivenFor(f) = Decimals
  BY Zenon DEF GivenFor, DateClasses, TimeClasses
<1>4. f.class = "raw" /\ f.type = "datetime" => GivenFor(f) = GivenDates \cup GivenDateTimes
  BY Zenon DEF GivenFor, DateClasses, TimeClasses
<1>5. f.class \in DateTimeClasses /\ f.type \in {"datetime", "datetime2", "datetimeoffset"}
        => GivenFor(f) = GivenDateTimes
  BY Zenon DEF GivenFor, DateClasses, TimeClasses, DateTimeClasses
<1>6. f.class = "raw" /\ f.type \in {"datetime2", "datetimeoffset"}
        => GivenFor(f) = GivenDateTimes
  BY Zenon DEF GivenFor, DateClasses, TimeClasses
<1> QED BY <1>a, <1>b, <1>1, <1>2, <1>3, <1>4, <1>5, <1>6, Zenon

LEMMA GivenIs ==
  ASSUME NEW f, NEW g \in GivenFor(f)
  PROVE  /\ Plain(f) => \/ IsDate(g) \/ IsTime(g)
                        \/ IsAwareTime(g) /\ f.class \in TimeClasses
         /\ LegacyDate(f) => IsDate(g)
         /\ LegacyTime(f) => IsTime(g) \/ IsAwareTime(g)
         /\ DjangoDateTime(f) \/ NewDateTime(f) \/ LegacyDateTime(f) \/ DateTimeOffset(f)
               => IsDateTime(g)
         /\ Fixed(f) => g \in DecimalSet
         /\ Raw(f) => /\ f.type = "date" => IsDate(g)
                      /\ f.type = "time" => IsTime(g)
                      /\ f.type = "datetime" => IsDate(g) \/ IsDateTime(g)
                      /\ f.type \in {"datetime2", "datetimeoffset"} => IsDateTime(g)
<1>1. Plain(f) => \/ IsDate(g) \/ IsTime(g)
                  \/ IsAwareTime(g) /\ f.class \in TimeClasses
  BY GivenForIs, DatesAre, TimesAre, AwareTimesAre DEF Plain, DateClasses, TimeClasses
<1>2. LegacyDate(f) => IsDate(g)
  BY GivenForIs, DatesAre DEF LegacyDate, DateClasses
<1>3. LegacyTime(f) => IsTime(g) \/ IsAwareTime(g)
  BY GivenForIs, TimesAre, AwareTimesAre DEF LegacyTime, DateClasses, TimeClasses
<1>4. DjangoDateTime(f) \/ NewDateTime(f) \/ LegacyDateTime(f) \/ DateTimeOffset(f)
        => IsDateTime(g)
  BY GivenForIs, DateTimesAre
     DEF DjangoDateTime, NewDateTime, LegacyDateTime, DateTimeOffset, DateTimeClasses
<1>5. Fixed(f) => g \in DecimalSet
  BY GivenForIs, DecimalsAssumption DEF Fixed, DateClasses, DecimalSet, Digits
<1>6. Raw(f) => /\ f.type = "date" => IsDate(g)
                /\ f.type = "time" => IsTime(g)
                /\ f.type = "datetime" => IsDate(g) \/ IsDateTime(g)
                /\ f.type \in {"datetime2", "datetimeoffset"} => IsDateTime(g)
  BY GivenForIs, DatesAre, TimesAre, DateTimesAre DEF Raw, DateClasses
<1> QED BY <1>1, <1>2, <1>3, <1>4, <1>5, <1>6

(* To the column and back.                                                     *)

LEMMA MomentNotRaised ==
  ASSUME NEW v \in Moments
  PROVE  v # Raised
<1>1. "kind" \in DOMAIN v
  BY DEF Moments
<1>2. "kind" \notin DOMAIN Raised
  BY DEF Raised
<1> QED BY <1>1, <1>2

\* Text for a column of the newer types.
LEMMA NewerColumn ==
  ASSUME NEW type \in {"date", "datetime2", "time"}, NEW text
  PROVE  /\ Refused(type, text) <=> text = Raised
         /\ Converted(type, text) = text.at
  BY DEF Refused, Converted

\* And from one.
LEMMA NewerRow ==
  ASSUME NEW type \in {"date", "datetime2", "datetimeoffset", "time"}, NEW v \in Moments, NEW class
  PROVE  /\ class \notin {"DateTimeField", "NewDateTimeField"}
               => Convert(class, Fetched(type, v)) = v
         /\ class \in {"DateTimeField", "NewDateTimeField"}
               => Convert(class, Fetched(type, v)) = NewDateTimeToPython(v)
<1> DEFINE got == [kind |-> "text", spaced |-> v.aware, at |-> v]
<1>1. Fetched(type, v) = got
  BY DEF Fetched
<1>2. got.kind = "text"
  OBVIOUS
<1>3. IsoFormat(got).spaced = FALSE /\ IsoFormat(got).at = v
  BY DEF IsoFormat
<1>4. Parsed(IsoFormat(got)) = v
  BY <1>3 DEF Parsed
<1> HIDE DEF got
<1> QED BY <1>1, <1>2, <1>4, MomentNotRaised DEF Convert

\* Text for a datetime column that is read as it is meant.
LEMMA DatetimeColumn ==
  ASSUME NEW text, text # Raised, text.form # "dashes" \/ dateformat # "dmy"
  PROVE  /\ text.digits \in {0, 3} => ~Refused("datetime", text)
         /\ Converted("datetime", text) = Ticked(text.at)
  BY DEF Refused, Converted

\* And from one.
LEMMA DatetimeRow ==
  ASSUME NEW v \in Moments
  PROVE  LET got == Fetched("datetime", v)
         IN  /\ got \in Moments /\ got.kind = "datetime"
             /\ got.date = v.date /\ got.sec = v.sec /\ got.us = v.us
             /\ useTz => got.aware = TRUE /\ got.offset = 0
             /\ ~useTz => got.aware = v.aware /\ got.offset = v.offset
<1> DEFINE dt == WithKind(v, "datetime")
<1>1. Fetched("datetime", v) = (IF useTz THEN Aware(dt, 0) ELSE dt)
  BY DEF Fetched, ComDate, WithKind
<1>2. dt = Val("datetime", v.date, v.sec, v.us, v.aware, v.offset)
  BY Update
<1> HIDE DEF dt
<1>3. dt \in Moments
  BY <1>2, FieldsOf, ValueIn
<1>4. /\ dt.kind = "datetime" /\ dt.date = v.date /\ dt.sec = v.sec /\ dt.us = v.us
      /\ dt.aware = v.aware /\ dt.offset = v.offset
  BY <1>2, <1>3, WrittenAs
<1>5. PICK o \in Int : o = 0
  OBVIOUS
<1> DEFINE a == Aware(dt, o)
<1>6. /\ a \in Moments /\ a.kind = "datetime" /\ a.date = v.date /\ a.sec = v.sec
      /\ a.us = v.us /\ a.aware = TRUE /\ a.offset = 0
  BY <1>3, <1>4, <1>5, AwareIs
<1> HIDE DEF a
<1>7. Fetched("datetime", v) = (IF useTz THEN a ELSE dt)
  BY <1>1, <1>5 DEF a
<1> QED BY <1>3, <1>4, <1>6, <1>7

LEMMA CloseUtc ==
  ASSUME NEW a \in Moments, NEW b \in Moments, NaiveUtc(a) = NaiveUtc(b)
  PROVE  Close(a, b)
<1>a. NaiveUtc(a).us = a.us /\ NaiveUtc(b).us = b.us
  BY UtcIs
<1>1. a.us = b.us
  BY <1>a
<1>2. b.us - Precision <= a.us /\ a.us <= b.us + Precision
  BY <1>1, PrecisionIs, FieldsOf, Clock
<1> QED BY <1>2, CloseSame

LEMMA CloseLike ==
  ASSUME NEW a \in Moments, NEW b \in Moments, NEW c \in Moments,
         NaiveUtc(a) = NaiveUtc(c), Close(a, b)
  PROVE  Close(c, b)
<1>1. a.kind # "decimal" /\ c.kind # "decimal"
  BY FieldsOf
<1> QED BY <1>1 DEF Close

\* A moment in UTC, said to be in UTC.
LEMMA UtcOfAware ==
  ASSUME NEW v \in Moments, v.aware = FALSE, v.offset = 0,
         NEW w \in Moments, w.kind = v.kind, w.date = v.date, w.sec = v.sec, w.us = v.us,
         w.offset = 0
  PROVE  NaiveUtc(w) = v
<1>1. PICK u : u = NaiveUtc(w)
  OBVIOUS
<1>2. u.date = w.date /\ u.sec = w.sec
  BY <1>1, UtcOfUtc
<1>3. u \in Moments /\ u.kind = w.kind /\ u.us = w.us /\ u.aware = FALSE /\ u.offset = 0
  BY <1>1, UtcIs
<1>4. u = v
  BY <1>2, <1>3, SameMoment
<1> QED BY <1>1, <1>4

(* Datetimes.                                                                  *)

LEMMA PrepOf ==
  ASSUME NEW v, IsDateTime(v), useTz \in BOOLEAN
  PROVE  /\ IsDateTime(DjangoPrep(v))
         /\ useTz => DjangoPrep(v).aware = TRUE
         /\ v.aware = TRUE \/ ~useTz => DjangoPrep(v) = v
<1>1. v \in Moments /\ v.kind = "datetime" /\ v.aware \in BOOLEAN
  BY FieldsOf DEF IsDateTime
<1>2. CASE v.aware = TRUE \/ ~useTz
  BY <1>1, <1>2 DEF DjangoPrep
<1>3. CASE v.aware = FALSE /\ useTz
  <2>1. PICK o \in Int : o = CurrentZone
    BY ZonesAssumption
  <2>2. DjangoPrep(v) = Aware(v, o)
    BY <1>1, <1>3, <2>1 DEF DjangoPrep
  <2>3. Aware(v, o) \in Moments /\ Aware(v, o).kind = "datetime" /\ Aware(v, o).aware = TRUE
    BY <1>1, AwareIs
  <2> QED BY <1>1, <1>3, <2>2, <2>3 DEF IsDateTime
<1> QED BY <1>1, <1>2, <1>3

LEMMA WithoutZoneIs ==
  ASSUME NEW v, IsDateTime(v), useTz \in BOOLEAN
  PROVE  /\ v.aware = TRUE /\ ~useTz => WithoutZone(v) = Raised
         /\ v.aware = FALSE \/ useTz => WithoutZone(v) = NaiveUtc(v)
<1>1. v \in Moments /\ v.aware \in BOOLEAN
  BY FieldsOf DEF IsDateTime
<1>2. v.aware = FALSE => NaiveUtc(v) = v
  BY <1>1, UtcOfUtc DEF IsDateTime
<1> QED BY <1>1, <1>2 DEF WithoutZone, ToUtc

(* Each kind of field.                                                         *)

LEMMA PlainSurvives ==
  ASSUME Plain(field), given \in Moments, given.aware = FALSE
  PROVE  Survives
<1>1. Text(given) = Iso(given)
  BY PrepIs DEF Text, Plain, DateClasses
<1>2. Iso(given) # Raised /\ Iso(given).at = given
  BY TextIs
<1>3. field.type \in {"date", "datetime2", "time"} /\ field.type # "datetime2"
  BY DEF Plain
<1>4. Taken(given) /\ Stored(given) = given
  BY <1>1, <1>2, <1>3, NewerColumn DEF Taken, Stored
<1>5. Loaded(given) = given
  BY <1>3, NewerRow DEF Loaded, Plain
<1>6. Close(given, given)
  BY CloseUtc
<1>7. given # Raised
  BY MomentNotRaised
<1>8. field.class # "DateTimeOffsetField" /\ field.class # "raw"
  BY DEF Plain
<1> QED BY <1>3, <1>4, <1>5, <1>6, <1>7, <1>8 DEF Survives, Proper

LEMMA AwareTimeSurvives ==
  ASSUME field.class \in TimeClasses, IsAwareTime(given)
  PROVE  Survives
<1>1. Text(given) = Raised
  BY PrepIs DEF Text, IsAwareTime
<1>2. ~Taken(given)
  BY <1>1 DEF Taken, Refused
<1>3. MayRefuse
  BY DEF MayRefuse, IsAwareTime
<1> QED BY <1>2, <1>3 DEF Survives

LEMMA LegacyTimeSurvives ==
  ASSUME LegacyTime(field), IsTime(given)
  PROVE  Survives
<1>1. given \in Moments /\ given.kind = "time"
  BY DEF IsTime
<1>2. field.type = "time" /\ field.class = "LegacyTimeField"
  BY DEF LegacyTime
<1>3. ASSUME NEW v \in Moments, v.aware = FALSE
      PROVE  Taken(v) /\ Stored(v) = Truncated(v)
  <2>1. Text(v) = ToMillisecond(Iso(v))
    BY <1>2, <1>3, PrepIs DEF Text
  <2>2. ToMillisecond(Iso(v)) # Raised /\ ToMillisecond(Iso(v)).at = Truncated(v)
    BY MillisecondText
  <2> QED BY <1>2, <2>1, <2>2, NewerColumn DEF Taken, Stored
<1>4. PICK s \in Moments : s = Truncated(given)
  BY <1>1, TruncatedIs
<1>5. /\ s.kind = given.kind /\ s.date = given.date /\ s.sec = given.sec
      /\ s.us = Milliseconds(given.us) /\ s.aware = given.aware /\ s.offset = given.offset
  BY <1>1, <1>4, TruncatedIs
<1>6. given.us \in Int /\ 0 <= given.us /\ given.us < Second
  BY <1>1, FieldsOf, Clock
<1>7. Truncated(s) = s
  <2>1. Milliseconds(s.us) = s.us
    BY <1>5, <1>6, MillisecondsIs
  <2>2. PICK t \in Moments : t = Truncated(s)
    BY TruncatedIs
  <2>3. /\ t.kind = s.kind /\ t.date = s.date /\ t.sec = s.sec
        /\ t.us = s.us /\ t.aware = s.aware /\ t.offset = s.offset
    BY <2>1, <2>2, TruncatedIs
  <2>4. t = s
    BY <2>3, SameMoment
  <2> QED BY <2>2, <2>4
<1>8. Close(s, given)
  <2>1. s.offset = 0 /\ given.offset = 0
    BY <1>5 DEF IsTime
  <2>2. /\ NaiveUtc(s).date = s.date /\ NaiveUtc(s).sec = s.sec
        /\ NaiveUtc(given).date = given.date /\ NaiveUtc(given).sec = given.sec
    BY <1>1, <2>1, UtcOfUtc
  <2>3. given.us - Precision <= s.us /\ s.us <= given.us + Precision
    <3>1. given.us - 999 <= s.us /\ s.us <= given.us /\ s.us \in Int
      BY <1>5, <1>6, MillisecondsIs
    <3> QED BY <1>2, <1>6, <3>1, PrecisionIs
  <2> QED BY <1>1, <1>5, <2>2, <2>3, CloseSame
<1>9. Loaded(s) = s /\ s # Raised
  BY <1>2, NewerRow, MomentNotRaised DEF Loaded
<1>10. Taken(given) /\ Stored(given) = s /\ Taken(s) /\ Stored(s) = s
  BY <1>1, <1>3, <1>4, <1>5, <1>7 DEF IsTime
<1> QED BY <1>1, <1>2, <1>5, <1>8, <1>9, <1>10 DEF Survives

LEMMA LegacyDateSurvives ==
  ASSUME LegacyDate(field), IsDate(given), ~DateOrder
  PROVE  Survives
<1>1. given \in Moments /\ given.kind = "date" /\ given.us = 0
  BY DEF IsDate
<1>2. field.type = "datetime" /\ field.class = "LegacyDateField" /\ dateformat # "dmy"
  BY <1>1 DEF LegacyDate, DateOrder
<1>3. Text(given) = Iso(given)
  BY <1>2, PrepIs DEF Text, DateClasses
<1>4. Iso(given) # Raised /\ Iso(given).at = given /\ Iso(given).digits = 0
  BY <1>1, TextIs
<1>5. Ticked(given) = given
  BY <1>1, TickedOnce
<1>6. Taken(given) /\ Stored(given) = given
  BY <1>2, <1>3, <1>4, <1>5, DatetimeColumn DEF Taken, Stored
<1>7. Loaded(given) = given
  <2>1. PICK got : got = Fetched("datetime", given)
    OBVIOUS
  <2>2. got.kind = "datetime" /\ got.date = given.date
    BY <1>1, <2>1, DatetimeRow
  <2>3. Loaded(given) = At("date", got.date, 0, 0)
    BY <1>2, <2>1, <2>2 DEF Loaded, Convert
  <2>4. PICK d \in Int : d = given.date
    BY <1>1, FieldsOf
  <2>5. At("date", d, 0, 0) = given
    BY <1>1, <2>4 DEF At, IsDate, Moments
  <2> QED BY <2>2, <2>3, <2>4, <2>5
<1>8. Close(given, given) /\ given # Raised
  BY <1>1, CloseUtc, MomentNotRaised
<1> QED BY <1>1, <1>2, <1>6, <1>7, <1>8 DEF Survives

\* What the new types keep of a datetime, and what sqlserver_ado makes of it.
LEMMA NewToDbIs ==
  ASSUME NEW v, IsDateTime(v), useTz \in BOOLEAN
  PROVE  /\ v.aware = TRUE /\ ~useTz => NewToDb(v) = Raised
         /\ v.aware = FALSE \/ useTz => /\ NewToDb(v) # Raised
                                        /\ NewToDb(v).at = NaiveUtc(v)
<1>1. v \in Moments
  BY DEF IsDateTime
<1>2. v.aware = TRUE /\ ~useTz => NewToDb(v) = Raised
  BY WithoutZoneIs DEF NewToDb
<1>3. ASSUME v.aware = FALSE \/ useTz
      PROVE  NewToDb(v) # Raised /\ NewToDb(v).at = NaiveUtc(v)
  <2>1. PICK u \in Moments : u = NaiveUtc(v)
    BY <1>1, UtcIs
  <2>2. WithoutZone(v) = u
    BY <1>3, <2>1, WithoutZoneIs
  <2>3. u # Raised /\ IsoT(u) # Raised /\ IsoT(u).at = u
    BY MomentNotRaised, TextIs
  <2> QED BY <2>1, <2>2, <2>3 DEF NewToDb
<1> QED BY <1>2, <1>3

LEMMA LegacyToDbIs ==
  ASSUME NEW v, IsDateTime(v), useTz \in BOOLEAN
  PROVE  /\ v.aware = TRUE /\ ~useTz => LegacyToDb(v) = Raised
         /\ v.aware = FALSE \/ useTz => /\ LegacyToDb(v) # Raised
                                        /\ LegacyToDb(v).form = "compact"
                                        /\ LegacyToDb(v).digits \in {0, 3}
                                        /\ LegacyToDb(v).at = Truncated(NaiveUtc(v))
<1>1. v \in Moments
  BY DEF IsDateTime
<1>2. v.aware = TRUE /\ ~useTz => LegacyToDb(v) = Raised
  BY WithoutZoneIs DEF LegacyToDb
<1>3. ASSUME v.aware = FALSE \/ useTz
      PROVE  /\ LegacyToDb(v) # Raised
             /\ LegacyToDb(v).form = "compact"
             /\ LegacyToDb(v).digits \in {0, 3}
             /\ LegacyToDb(v).at = Truncated(NaiveUtc(v))
  <2>1. PICK u \in Moments : u = NaiveUtc(v)
    BY <1>1, UtcIs
  <2>2. WithoutZone(v) = u
    BY <1>3, <2>1, WithoutZoneIs
  <2>3. u # Raised
    BY MomentNotRaised
  <2>4. LegacyToDb(v) = ToMillisecond(Compact(u))
    BY <2>2, <2>3 DEF LegacyToDb
  <2> QED BY <2>1, <2>4, MillisecondText
<1> QED BY <1>2, <1>3

\* A moment in UTC as a DateTimeField has it.
LEMMA ToPythonOfUtc ==
  ASSUME NEW v, IsDateTime(v), v.aware = FALSE, useTz \in BOOLEAN
  PROVE  LET l == NewDateTimeToPython(v)
         IN  /\ IsDateTime(l) /\ NaiveUtc(l) = v
             /\ useTz => l.aware = TRUE
             /\ ~useTz => l.aware = FALSE
<1>1. v \in Moments /\ v.kind = "datetime" /\ v.offset = 0
  BY DEF IsDateTime
<1>2. CASE useTz
  <2>1. PICK o \in Int : o = 0
    OBVIOUS
  <2>2. NewDateTimeToPython(v) = Aware(v, o)
    BY <1>2, <2>1 DEF NewDateTimeToPython, MakeAwareUtc
  <2>3. PICK a \in Moments : a = Aware(v, o)
    BY <1>1, AwareIs
  <2>4. /\ a.kind = v.kind /\ a.date = v.date /\ a.sec = v.sec /\ a.us = v.us
        /\ a.aware = TRUE /\ a.offset = 0
    BY <1>1, <2>1, <2>3, AwareIs
  <2>5. NaiveUtc(a) = v
    BY <1>1, <2>4, UtcOfAware
  <2>6. NewDateTimeToPython(v) = a
    BY <2>2, <2>3
  <2> HIDE <2>2, <2>3
  <2> QED BY <1>1, <1>2, <2>4, <2>5, <2>6 DEF IsDateTime
<1>3. CASE ~useTz
  <2>1. NewDateTimeToPython(v) = v
    BY <1>3 DEF NewDateTimeToPython
  <2> QED BY <1>1, <1>3, <2>1, UtcOfUtc
<1> QED BY <1>2, <1>3

LEMMA DjangoDateTimeSurvives ==
  ASSUME DjangoDateTime(field), IsDateTime(given), useTz \in BOOLEAN
  PROVE  Survives
<1>1. field.type = "datetime2" /\ field.class = "DateTimeField"
  BY DEF DjangoDateTime
<1>2. given \in Moments /\ given.kind = "datetime" /\ given.aware \in BOOLEAN
  BY FieldsOf DEF IsDateTime
<1>3. PICK p : p = DjangoPrep(given)
  OBVIOUS
<1>4. IsDateTime(p) /\ (useTz => p.aware = TRUE)
      /\ (given.aware = TRUE \/ ~useTz => p = given)
  BY <1>3, PrepOf
<1>5. p \in Moments /\ p.kind = "datetime" /\ p.aware \in BOOLEAN
  BY <1>4, FieldsOf DEF IsDateTime
<1>6. PICK u \in Moments : u = NaiveUtc(p)
  BY <1>5, UtcIs
<1>7. u.kind = "datetime" /\ u.aware = FALSE /\ u.offset = 0 /\ IsDateTime(u)
  BY <1>5, <1>6, UtcIs DEF IsDateTime
<1>8. PICK l : l = NewDateTimeToPython(u)
  OBVIOUS
<1>9. /\ IsDateTime(l) /\ NaiveUtc(l) = u
      /\ useTz => l.aware = TRUE
      /\ ~useTz => l.aware = FALSE
  BY <1>7, <1>8, ToPythonOfUtc
<1>10. l \in Moments /\ l.kind = "datetime" /\ l # Raised
  BY <1>9, MomentNotRaised DEF IsDateTime
<1>11. Loaded(u) = l
  BY <1>1, <1>8, NewerRow DEF Loaded
<1>12. Text(given) = NewToDb(p)
  BY <1>1, <1>3, PrepIs DEF Text
<1>13. /\ p.aware = TRUE /\ ~useTz => ~Taken(given)
       /\ p.aware = FALSE \/ useTz => Taken(given) /\ Stored(given) = u
  BY <1>1, <1>4, <1>6, <1>12, NewToDbIs, NewerColumn DEF Taken, Stored
<1>14. Taken(l) /\ Stored(l) = u
  <2>1. DjangoPrep(l) = l
    BY <1>9, PrepOf
  <2>2. Text(l) = NewToDb(l)
    BY <1>1, <2>1, PrepIs DEF Text
  <2> QED BY <1>1, <1>9, <2>2, NewToDbIs, NewerColumn DEF Taken, Stored
<1>15. ASSUME Proper
       PROVE  /\ p = given /\ given.aware = useTz
              /\ Close(u, given) /\ Close(l, given)
  <2>1. given.aware = useTz
    BY <1>1, <1>2, <1>15 DEF Proper
  <2>2. p = given
    BY <1>2, <1>4, <2>1
  <2>3. NaiveUtc(u) = u
    BY <1>7, UtcOfUtc
  <2> QED BY <1>2, <1>6, <1>9, <1>10, <2>1, <2>2, <2>3, CloseUtc
<1>16. Proper => Taken(given)
  BY <1>2, <1>13, <1>15
<1>17. Taken(given) => Stored(given) = u
  BY <1>5, <1>13
<1>18. Proper => l.aware = given.aware
  <2>1. useTz = TRUE \/ useTz = FALSE
    OBVIOUS
  <2>2. CASE useTz = TRUE
    BY <1>9, <1>15, <2>2
  <2>3. CASE useTz = FALSE
    BY <1>9, <1>15, <2>3
  <2> QED BY <2>1, <2>2, <2>3
<1> QED BY <1>1, <1>2, <1>10, <1>11, <1>14, <1>15, <1>16, <1>17, <1>18 DEF Survives

LEMMA NewDateTimeSurvives ==
  ASSUME NewDateTime(field), IsDateTime(given), useTz \in BOOLEAN
  PROVE  Survives
<1>1. field.type = "datetime2" /\ field.class = "NewDateTimeField"
  BY DEF NewDateTime
<1>2. given \in Moments /\ given.kind = "datetime" /\ given.aware \in BOOLEAN
  BY FieldsOf DEF IsDateTime
<1>3. ASSUME NEW v, IsDateTime(v), v.aware = FALSE \/ ~useTz
      PROVE  Taken(v) /\ Stored(v) = NaiveUtc(v)
  <2>1. v \in Moments /\ v.aware \in BOOLEAN
    BY <1>3, FieldsOf DEF IsDateTime
  <2>2. PICK u \in Moments : u = NaiveUtc(v)
    BY <2>1, UtcIs
  <2>3. u.kind = "datetime" /\ u.aware = FALSE /\ u.offset = 0 /\ IsDateTime(u)
    BY <1>3, <2>1, <2>2, UtcIs DEF IsDateTime
  <2>4. PICK w : w = NewDateTimeToPython(v)
    OBVIOUS
  <2>5. IsDateTime(w) /\ NaiveUtc(w) = u /\ (w.aware = FALSE \/ useTz)
    <3>1. CASE v.aware = FALSE
      BY <1>3, <2>1, <2>2, <2>4, <3>1, UtcOfUtc, ToPythonOfUtc DEF IsDateTime
    <3>2. CASE v.aware = TRUE
      <4>1. w = u
        BY <1>3, <2>2, <2>4, <3>2 DEF NewDateTimeToPython
      <4> QED BY <2>3, <4>1, UtcOfUtc
    <3> QED BY <2>1, <3>1, <3>2
  <2>6. w # Raised
    BY <2>5, MomentNotRaised DEF IsDateTime
  <2>7. Text(v) = NewToDb(w)
    BY <1>1, <2>4, <2>6, PrepIs DEF Text
  <2> QED BY <1>1, <2>2, <2>5, <2>7, NewToDbIs, NewerColumn DEF Taken, Stored
<1>4. ASSUME NEW v, v.aware = TRUE, useTz
      PROVE  ~Taken(v)
  <2>1. NewDateTimeToPython(v) = Raised
    BY <1>4 DEF NewDateTimeToPython
  <2>2. Text(v) = Raised
    BY <1>1, <2>1, PrepIs DEF Text
  <2> QED BY <1>1, <2>2, NewerColumn DEF Taken
<1>5. PICK u \in Moments : u = NaiveUtc(given)
  BY <1>2, UtcIs
<1>6. u.kind = "datetime" /\ u.aware = FALSE /\ u.offset = 0 /\ IsDateTime(u)
  BY <1>2, <1>5, UtcIs DEF IsDateTime
<1>7. PICK l : l = NewDateTimeToPython(u)
  OBVIOUS
<1>8. /\ IsDateTime(l) /\ NaiveUtc(l) = u
      /\ useTz => l.aware = TRUE
      /\ ~useTz => l.aware = FALSE
  BY <1>6, <1>7, ToPythonOfUtc
<1>9. l \in Moments /\ l.kind = "datetime" /\ l # Raised
  BY <1>8, MomentNotRaised DEF IsDateTime
<1>10. Loaded(u) = l
  BY <1>1, <1>7, NewerRow DEF Loaded
<1>11. Taken(given) => Stored(given) = u
  BY <1>2, <1>3, <1>4, <1>5
<1>12. Taken(l) => Stored(l) = u
  BY <1>3, <1>4, <1>8
<1>13. Close(u, given) /\ Close(l, given)
  <2>1. NaiveUtc(u) = u
    BY <1>6, UtcOfUtc
  <2> QED BY <1>2, <1>5, <1>8, <1>9, <2>1, CloseUtc
<1>14. ~Taken(given) \/ ~Taken(l) => MayRefuse
  BY <1>1, <1>2, <1>3, <1>8 DEF MayRefuse
<1>15. Taken(given) /\ Proper => l.aware = given.aware
  <2>1. Proper => given.aware = useTz
    BY <1>1, <1>2 DEF Proper
  <2>2. CASE useTz = TRUE
    BY <1>8, <2>1, <2>2
  <2>3. CASE useTz = FALSE
    BY <1>8, <2>1, <2>3
  <2> QED BY <2>2, <2>3
<1> QED BY <1>1, <1>2, <1>9, <1>10, <1>11, <1>12, <1>13, <1>14, <1>15 DEF Survives

LEMMA LegacyDateTimeSurvives ==
  ASSUME LegacyDateTime(field), IsDateTime(given), useTz \in BOOLEAN
  PROVE  Survives
<1>1. field.type = "datetime" /\ field.class = "LegacyDateTimeField"
  BY DEF LegacyDateTime
<1>2. given \in Moments /\ given.kind = "datetime" /\ given.aware \in BOOLEAN
  BY FieldsOf DEF IsDateTime
<1>3. ASSUME NEW v, IsDateTime(v)
      PROVE  LET p == DjangoPrep(v)
             IN  /\ p.aware = TRUE /\ ~useTz => ~Taken(v)
                 /\ p.aware = FALSE \/ useTz => Taken(v) /\ Stored(v) = Ticked(NaiveUtc(p))
  <2>1. PICK p : p = DjangoPrep(v)
    OBVIOUS
  <2>2. IsDateTime(p) /\ p \in Moments
    BY <1>3, <2>1, PrepOf DEF IsDateTime
  <2>3. PICK u \in Moments : u = NaiveUtc(p)
    BY <2>2, UtcIs
  <2>4. Text(v) = LegacyToDb(p)
    BY <1>1, <2>1, PrepIs DEF Text
  <2>5. p.aware = TRUE /\ ~useTz => ~Taken(v)
    BY <1>1, <2>2, <2>4, LegacyToDbIs DEF Taken, Refused
  <2>6. ASSUME p.aware = FALSE \/ useTz
        PROVE  Taken(v) /\ Stored(v) = Ticked(u)
    <3>1. PICK text : text = LegacyToDb(p)
      OBVIOUS
    <3>2. /\ text # Raised /\ text.form = "compact" /\ text.digits \in {0, 3}
          /\ text.at = Truncated(u)
      BY <2>2, <2>3, <2>6, <3>1, LegacyToDbIs
    <3>3. ~Refused("datetime", text) /\ Converted("datetime", text) = Ticked(text.at)
      BY <3>2, DatetimeColumn
    <3>4. Ticked(Truncated(u)) = Ticked(u)
      BY TickedTruncated
    <3> QED BY <1>1, <2>4, <3>1, <3>2, <3>3, <3>4 DEF Taken, Stored
  <2> QED BY <2>1, <2>3, <2>5, <2>6
<1>4. PICK p : p = DjangoPrep(given)
  OBVIOUS
<1>5. IsDateTime(p) /\ (useTz => p.aware = TRUE)
      /\ (given.aware = TRUE \/ ~useTz => p = given)
  BY <1>4, PrepOf
<1>6. p \in Moments /\ p.kind = "datetime" /\ p.aware \in BOOLEAN
  BY <1>5, FieldsOf DEF IsDateTime
<1>7. PICK u \in Moments : u = NaiveUtc(p)
  BY <1>6, UtcIs
<1>8. u.kind = "datetime" /\ u.aware = FALSE /\ u.offset = 0
  BY <1>6, <1>7, UtcIs
<1>9. PICK t \in Moments : t = Ticked(u)
  BY TickedIs
<1>10. t.kind = "datetime" /\ t.aware = FALSE /\ t.offset = 0 /\ Ticked(t) = t
  BY <1>8, <1>9, TickedIs, TickedOnce
<1>11. PICK l : l = Fetched("datetime", t)
  OBVIOUS
<1>12. /\ l \in Moments /\ l.kind = "datetime"
       /\ l.date = t.date /\ l.sec = t.sec /\ l.us = t.us /\ l.offset = 0
       /\ useTz => l.aware = TRUE
       /\ ~useTz => l.aware = FALSE
  BY <1>10, <1>11, DatetimeRow
<1>13. NaiveUtc(l) = t /\ NaiveUtc(t) = t
  BY <1>10, <1>12, UtcOfAware, UtcOfUtc
<1>14. Loaded(t) = l
  BY <1>1, <1>11, <1>12 DEF Loaded, Convert
<1>15. l # Raised
  BY <1>12, MomentNotRaised
<1>16. Taken(given) => Stored(given) = t
  BY <1>3, <1>4, <1>6, <1>7, <1>9
<1>17. Taken(l) /\ Stored(l) = t
  <2>1. IsDateTime(l)
    BY <1>12 DEF IsDateTime
  <2>2. DjangoPrep(l) = l
    BY <1>12, <2>1, PrepOf
  <2> QED BY <1>3, <1>10, <1>12, <1>13, <2>1, <2>2
<1>18. ASSUME Proper
       PROVE  Taken(given) /\ Close(t, given) /\ Close(l, given) /\ given.aware = useTz
  <2>1. given.aware = useTz
    BY <1>1, <1>2, <1>18 DEF Proper
  <2>2. p = given
    BY <1>2, <1>5, <2>1
  <2>3. Taken(given)
    BY <1>2, <1>3, <1>4, <2>1, <2>2
  <2>4. Close(t, given)
    BY <1>1, <1>2, <1>7, <1>9, <2>2, CloseTicked
  <2>5. Close(l, given)
    BY <1>2, <1>12, <1>13, <2>4, CloseLike
  <2> QED BY <2>1, <2>3, <2>4, <2>5
<1>19. Proper => l.aware = given.aware
  <2>1. CASE useTz = TRUE
    BY <1>12, <1>18, <2>1
  <2>2. CASE useTz = FALSE
    BY <1>12, <1>18, <2>2
  <2> QED BY <2>1, <2>2
<1> QED BY <1>1, <1>2, <1>12, <1>14, <1>15, <1>16, <1>17, <1>18, <1>19 DEF Survives

\* An aware datetime is one with its offset.
LEMMA AwareAgain ==
  ASSUME NEW v \in Moments, v.aware = TRUE, NEW o, o = v.offset
  PROVE  Aware(v, o) = v
<1>1. PICK n \in Int : n = o
  BY FieldsOf
<1>2. PICK a \in Moments : a = Aware(v, n)
  BY AwareIs
<1>3. /\ a.kind = v.kind /\ a.date = v.date /\ a.sec = v.sec /\ a.us = v.us
      /\ a.aware = v.aware /\ a.offset = v.offset
  BY <1>1, <1>2, AwareIs
<1>4. a = v
  BY <1>3, SameMoment
<1> QED BY <1>1, <1>2, <1>4

LEMMA DateTimeOffsetSurvives ==
  ASSUME DateTimeOffset(field), IsDateTime(given), useTz \in BOOLEAN
  PROVE  Survives
<1>1. field.type = "datetimeoffset" /\ field.class = "DateTimeOffsetField"
  BY DEF DateTimeOffset
<1>2. given \in Moments /\ given.kind = "datetime" /\ given.aware \in BOOLEAN
  BY FieldsOf DEF IsDateTime
<1>3. ASSUME NEW v, IsDateTime(v), NEW p, p = DjangoPrep(v)
      PROVE  Taken(v) /\ Stored(v) = Aware(p, p.offset)
  <2>1. p \in Moments
    BY <1>3, PrepOf DEF IsDateTime
  <2>2. Text(v) = IsoT(p)
    BY <1>1, <1>3, PrepIs DEF Text
  <2>3. IsoT(p) # Raised /\ IsoT(p).at = p
    BY <2>1, TextIs
  <2>4. Taken(v)
    BY <1>1, <2>2, <2>3 DEF Taken, Refused
  <2>5. Stored(v) = Aware(IsoT(p).at, IsoT(p).at.offset)
    BY <1>1, <2>2 DEF Stored, Converted
  <2> QED BY <2>3, <2>4, <2>5
<1>4. PICK p : p = DjangoPrep(given)
  OBVIOUS
<1>5. IsDateTime(p) /\ (given.aware = TRUE \/ ~useTz => p = given)
  BY <1>4, PrepOf
<1>6. p \in Moments /\ p.kind = "datetime"
  BY <1>5 DEF IsDateTime
<1>7. PICK o \in Int : o = p.offset
  BY <1>6, FieldsOf
<1>8. PICK a \in Moments : a = Aware(p, o)
  BY <1>6, AwareIs
<1>9. a.kind = "datetime" /\ a.aware = TRUE
  BY <1>6, <1>8, AwareIs
<1>10. IsDateTime(a)
  BY <1>9 DEF IsDateTime
<1>11. Taken(given) /\ Stored(given) = a
  BY <1>2, <1>3, <1>4, <1>7, <1>8
<1>12. DjangoPrep(a) = a
  BY <1>9, <1>10, PrepOf
<1>13. Taken(a) /\ Stored(a) = a
  <2>1. Taken(a) /\ Stored(a) = Aware(a, a.offset)
    BY <1>3, <1>10, <1>12
  <2>2. Aware(a, a.offset) = a
    BY <1>9, AwareAgain
  <2> QED BY <2>1, <2>2
<1>14. Loaded(a) = a /\ a # Raised
  BY <1>1, NewerRow, MomentNotRaised DEF Loaded
<1>15. Proper => a = given
  <2>1. Proper => given.aware = TRUE
    BY <1>1, <1>2 DEF Proper
  <2> QED BY <1>2, <1>5, <1>7, <1>8, <2>1, AwareAgain
<1>16. Close(given, given)
  BY <1>2, CloseUtc
<1> QED BY <1>1, <1>11, <1>13, <1>14, <1>15, <1>16 DEF Survives

LEMMA FixedSurvives ==
  ASSUME Fixed(field), given \in DecimalSet
  PROVE  Survives
<1>1. field.type = "decimal" /\ field.class = "DecimalField"
  BY DEF Fixed
<1>2. Raised.form = "raised" /\ "kind" \notin DOMAIN Raised
  BY DEF Raised
<1>3. ASSUME NEW d \in DecimalSet
      PROVE  /\ Taken(d) /\ Stored(d) = Canonical(d) /\ Loaded(d) = Canonical(d)
             /\ d.kind = "decimal" /\ d # Raised
  <2>1. d.kind = "decimal" /\ "kind" \in DOMAIN d
    BY DEF DecimalSet
  <2>2. Parameter(d) = [form |-> "fixed", at |-> FormatDecimal(d)]
    BY <2>1, Zenon DEF Parameter
  <2>3. Text(d) = [form |-> "fixed", at |-> FormatDecimal(d)]
    BY <1>1, <2>2, PrepIs DEF Text
  <2>4. Text(d) # Raised /\ Text(d).at = FormatDecimal(d)
    BY <1>2, <2>3
  <2>5. Taken(d)
    BY <1>1, <2>4 DEF Taken, Refused
  <2>6. Stored(d) = Canonical(d)
    BY <1>1, <2>4 DEF Stored, Converted, Canonical
  <2>7. Fetched("decimal", d) = Canonical(d)
    BY DEF Fetched, Canonical
  <2>8. Canonical(d).kind = "decimal"
    BY DEF Canonical, Denoted
  <2>9. Loaded(d) = Canonical(d)
    BY <1>1, <2>7, <2>8 DEF Loaded, Convert
  <2> QED BY <1>2, <2>1, <2>5, <2>6, <2>9
<1>4. PICK c \in DecimalSet : c = Canonical(given)
  BY CanonicalIs
<1>5. Canonical(c) = c
  BY <1>4, CanonicalOnce
<1>6. Close(c, given)
  <2>1. SameNumber(c, given)
    BY <1>4, CanonicalMeans
  <2> QED BY <1>3, <2>1 DEF Close
<1>7. given.kind = "decimal"
  BY <1>3
<1>8. Taken(given) /\ Stored(given) = c
  BY <1>3, <1>4
<1>9. Taken(c) /\ Stored(c) = c /\ Loaded(c) = c /\ c.kind = "decimal" /\ c # Raised
  BY <1>3, <1>5
<1> QED BY <1>1, <1>6, <1>7, <1>8, <1>9 DEF Survives

LEMMA RawSurvives ==
  ASSUME Raw(field), given \in GivenFor(field), ~DateOrder
  PROVE  Survives
<1>1. field.class = "raw"
  BY DEF Raw
<1>2. ASSUME NEW v, IsDate(v) \/ IsTime(v)
      PROVE  Text(v) = Iso(v) /\ v \in Moments
  <2>1. v \in Moments /\ v.kind # "datetime" /\ v.kind # "decimal"
    BY <1>2 DEF IsDate, IsTime
  <2>2. Parameter(v) = Iso(v)
    BY <2>1, Zenon DEF Parameter
  <2> QED BY <1>1, <2>1, <2>2, PrepIs DEF Text
<1>3. ASSUME NEW v, IsDateTime(v)
      PROVE  Text(v) = Compact(NaiveUtc(v)) /\ v \in Moments
  <2>1. v \in Moments /\ v.kind = "datetime"
    BY <1>3 DEF IsDateTime
  <2>2. Parameter(v) = Compact(NaiveUtc(v))
    BY <2>1, Zenon DEF Parameter
  <2> QED BY <1>1, <2>1, <2>2, PrepIs DEF Text
<1>4. CASE field.type \in {"date", "time"}
  <2>1. IsDate(given) \/ IsTime(given)
    BY <1>4, GivenIs
  <2>2. Text(given) = Iso(given) /\ given \in Moments
    BY <1>2, <2>1
  <2>3. Iso(given) # Raised /\ Iso(given).at = given
    BY <2>2, TextIs
  <2>4. field.type \in {"date", "datetime2", "time"} /\ field.type # "datetime2"
    BY <1>4
  <2>5. Taken(given) /\ Stored(given) = given
    BY <2>2, <2>3, <2>4, NewerColumn DEF Taken, Stored
  <2>6. Close(given, given)
    BY <2>2, CloseUtc
  <2> QED BY <1>1, <2>4, <2>5, <2>6 DEF Survives
<1>5. CASE field.type = "datetime" /\ IsDate(given)
  <2>1. Text(given) = Iso(given) /\ given \in Moments /\ given.us = 0
    BY <1>2, <1>5 DEF IsDate
  <2>2. Iso(given) # Raised /\ Iso(given).at = given
    BY <2>1, TextIs
  <2>3. dateformat # "dmy"
    BY <1>5 DEF DateOrder, IsDate
  <2>4. Ticked(given) = given
    BY <2>1, TickedOnce
  <2>5. Stored(given) = given
    BY <1>5, <2>1, <2>2, <2>3, <2>4, DatetimeColumn DEF Stored
  <2>6. Close(given, given)
    BY <2>1, CloseUtc
  <2> QED BY <1>1, <1>5, <2>5, <2>6 DEF Survives, MayRefuse
<1>6. CASE field.type = "datetime" /\ IsDateTime(given)
  <2>1. Text(given) = Compact(NaiveUtc(given)) /\ given \in Moments
    BY <1>3, <1>6
  <2>2. PICK u \in Moments : u = NaiveUtc(given)
    BY <2>1, UtcIs
  <2>3. Compact(u) # Raised /\ Compact(u).at = u /\ Compact(u).form = "compact"
    BY TextIs
  <2>4. Converted("datetime", Compact(u)) = Ticked(u)
    BY <2>3, DatetimeColumn
  <2>5. Stored(given) = Ticked(NaiveUtc(given))
    BY <1>6, <2>1, <2>2, <2>4 DEF Stored
  <2>6. Close(Stored(given), given)
    BY <1>6, <2>1, <2>5, CloseTicked
  <2> QED BY <1>1, <1>6, <2>6 DEF Survives, MayRefuse
<1>7. CASE field.type \in {"datetime2", "datetimeoffset"}
  <2>1. IsDateTime(given)
    BY <1>7, GivenIs
  <2>2. Text(given) = Compact(NaiveUtc(given)) /\ given \in Moments
    BY <1>3, <2>1
  <2>3. PICK u \in Moments : u = NaiveUtc(given)
    BY <2>2, UtcIs
  <2>4. u.aware = FALSE /\ u.offset = 0
    BY <2>2, <2>3, UtcIs
  <2>5. Compact(u) # Raised /\ Compact(u).at = u
    BY TextIs
  <2>6. NaiveUtc(u) = u
    BY <2>4, UtcOfUtc
  <2>7. CASE field.type = "datetime2"
    <3>1. Taken(given) /\ Stored(given) = u
      BY <2>2, <2>3, <2>5, <2>7, NewerColumn DEF Taken, Stored
    <3>2. Close(u, given)
      BY <2>2, <2>3, <2>6, CloseUtc
    <3> QED BY <1>1, <3>1, <3>2 DEF Survives
  <2>8. CASE field.type = "datetimeoffset"
    <3>1. PICK o \in Int : o = u.offset
      BY <2>4
    <3>2. PICK a \in Moments : a = Aware(u, o)
      BY AwareIs
    <3>3. /\ a.kind = u.kind /\ a.date = u.date /\ a.sec = u.sec /\ a.us = u.us
          /\ a.offset = 0
      BY <2>4, <3>1, <3>2, AwareIs
    <3>4. NaiveUtc(a) = u
      BY <2>4, <3>3, UtcOfAware
    <3>5. Taken(given)
      BY <2>2, <2>3, <2>5, <2>8 DEF Taken, Refused
    <3>6. Stored(given) = a
      <4>1. Text(given) = Compact(u)
        BY <2>2, <2>3
      <4>2. Stored(given) = Aware(Compact(u).at, Compact(u).at.offset)
        BY <2>8, <4>1 DEF Stored, Converted
      <4> QED BY <2>5, <3>1, <3>2, <4>2
    <3>7. Close(a, given)
      BY <2>2, <2>3, <3>4, CloseUtc
    <3> QED BY <1>1, <2>8, <3>5, <3>6, <3>7 DEF Survives
  <2> QED BY <1>7, <2>7, <2>8
<1> QED BY <1>4, <1>5, <1>6, <1>7, GivenIs DEF Raw

\* Whatever the field, and whatever is given to it.
LEMMA EverySurvives ==
  ASSUME TypeOK, ~DateOrder
  PROVE  Survives
<1>1. field \in Fields /\ given \in GivenFor(field) /\ useTz \in BOOLEAN
  BY DEF TypeOK
<1>2. CASE Plain(field)
  BY <1>1, <1>2, GivenIs, PlainSurvives, AwareTimeSurvives DEF IsDate, IsTime
<1>3. CASE LegacyDate(field)
  BY <1>1, <1>3, GivenIs, LegacyDateSurvives
<1>4. CASE LegacyTime(field)
  BY <1>1, <1>4, GivenIs, LegacyTimeSurvives, AwareTimeSurvives DEF LegacyTime, TimeClasses
<1>5. CASE DjangoDateTime(field)
  BY <1>1, <1>5, GivenIs, DjangoDateTimeSurvives
<1>6. CASE NewDateTime(field)
  BY <1>1, <1>6, GivenIs, NewDateTimeSurvives
<1>7. CASE LegacyDateTime(field)
  BY <1>1, <1>7, GivenIs, LegacyDateTimeSurvives
<1>8. CASE DateTimeOffset(field)
  BY <1>1, <1>8, GivenIs, DateTimeOffsetSurvives
<1>9. CASE Fixed(field)
  BY <1>1, <1>9, GivenIs, FixedSurvives
<1>10. CASE Raw(field)
  BY <1>1, <1>10, RawSurvives
<1> QED BY <1>1, <1>2, <1>3, <1>4, <1>5, <1>6, <1>7, <1>8, <1>9, <1>10, FieldIs

(* The invariant.                                                              *)

\* What is done with a value depends on the configuration alone.
LEMMA SameText ==
  ASSUME UNCHANGED config, NEW v
  PROVE  Text(v)' = Text(v)
<1>1. useTz' = useTz /\ field' = field
  BY DEF config
<1>2. ASSUME NEW w
      PROVE  WithoutZone(w)' = WithoutZone(w)
  BY <1>1 DEF WithoutZone
<1>3. ASSUME NEW w
      PROVE  NewToDb(w)' = NewToDb(w) /\ LegacyToDb(w)' = LegacyToDb(w)
  BY <1>2 DEF NewToDb, LegacyToDb
<1>4. NewDateTimeToPython(v)' = NewDateTimeToPython(v) /\ DjangoPrep(v)' = DjangoPrep(v)
  BY <1>1 DEF NewDateTimeToPython, DjangoPrep
<1>5. PICK d : d = DjangoPrep(v)
  OBVIOUS
<1>6. PICK n : n = NewDateTimeToPython(v)
  OBVIOUS
<1>7. NewToDb(d)' = NewToDb(d) /\ LegacyToDb(d)' = LegacyToDb(d) /\ NewToDb(n)' = NewToDb(n)
  BY <1>3
<1> QED BY <1>1, <1>4, <1>5, <1>6, <1>7, Zenon DEF Text, DbPrepValue

LEMMA SameFate ==
  ASSUME UNCHANGED config, NEW v
  PROVE  Taken(v)' = Taken(v) /\ Stored(v)' = Stored(v) /\ Loaded(v)' = Loaded(v)
<1>1. useTz' = useTz /\ field' = field /\ dateformat' = dateformat
  BY DEF config
<1>2. PICK text : text = Text(v)
  OBVIOUS
<1>3. Text(v)' = text
  BY <1>2, SameText
<1>4. Taken(v)' = Taken(v)
  BY <1>1, <1>2, <1>3 DEF Taken, Refused
<1>5. Stored(v)' = Stored(v)
  BY <1>1, <1>2, <1>3 DEF Stored, Converted
<1>6. PICK got : got = Fetched(field.type, v)
  OBVIOUS
<1>7. Fetched(field.type, v)' = got
  BY <1>1, <1>6 DEF Fetched, ComDate
<1>8. PICK p : p = Parsed(IsoFormat(got))
  OBVIOUS
<1>9. NewDateTimeToPython(p)' = NewDateTimeToPython(p)
  BY <1>1 DEF NewDateTimeToPython
<1>10. Loaded(v)' = Loaded(v)
  BY <1>1, <1>6, <1>7, <1>8, <1>9 DEF Loaded, Convert
<1> QED BY <1>4, <1>5, <1>10

LEMMA SameConfig ==
  ASSUME UNCHANGED config
  PROVE  /\ Proper' = Proper /\ DateOrder' = DateOrder /\ MayRefuse' = MayRefuse
         /\ useTz' = useTz /\ dateformat' = dateformat /\ field' = field /\ given' = given
<1>1. useTz' = useTz /\ field' = field /\ dateformat' = dateformat /\ given' = given
  BY DEF config
<1> QED BY <1>1 DEF Proper, DateOrder, MayRefuse

LEMMA Initially ==
  ASSUME Init
  PROVE  IInv
  BY DEF Init, IInv, TypeOK

\* Saved, the value given is stored, and so is what was loaded of it.
LEMMA SaveKeeps ==
  ASSUME IInv, Save
  PROVE  IInv'
<1>1. /\ UNCHANGED config /\ status \in {"new", "loaded"} /\ UNCHANGED value
      /\ TypeOK
  BY DEF Save, IInv
<1>2. \/ status' = "raised" /\ UNCHANGED column /\ ~Taken(value)
      \/ status' = "stored" /\ column' = Stored(value) /\ Taken(value)
  BY DEF Save, Text, Taken, Stored
<1>3. PICK g : g = given
  OBVIOUS
<1>4. PICK v : v = value
  OBVIOUS
<1>5. /\ given' = g /\ field' = field /\ dateformat' = dateformat /\ useTz' = useTz
      /\ Proper' = Proper /\ DateOrder' = DateOrder /\ MayRefuse' = MayRefuse
  BY <1>1, <1>3, SameConfig
<1>6. Taken(g)' = Taken(g) /\ Stored(g)' = Stored(g)
  BY <1>1, SameFate
<1>7. CASE DateOrder
  <2>1. field.type # "datetime2" /\ MayRefuse
    BY <1>7 DEF DateOrder, MayRefuse
  <2>2. TypeOK'
    BY <1>1, <1>2, <1>3, <1>5, <2>1 DEF TypeOK
  <2> QED BY <1>2, <1>5, <1>7, <2>1, <2>2 DEF IInv
<1>8. CASE ~DateOrder
  <2>1. Survives
    BY <1>1, <1>8, EverySurvives
  <2>2. \/ v = g
        \/ /\ status = "loaded" /\ Taken(g) /\ field.class # "raw" /\ v = Loaded(Stored(g))
    BY <1>1, <1>3, <1>4, <1>8 DEF IInv
  <2>3. ~Taken(v) /\ Proper => MayRefuse
    BY <1>3, <2>1, <2>2 DEF Survives
  <2>4. Taken(v) => Taken(g) /\ Stored(v) = Stored(g)
    BY <1>3, <2>1, <2>2 DEF Survives
  <2>5. Taken(g) /\ field.type = "datetime2" => Stored(g) \in Moments
    BY <1>3, <2>1 DEF Survives
  <2>6. TypeOK'
    <3>1. status' = "stored" /\ field'.type = "datetime2" => column' \in Moments
      BY <1>2, <1>4, <1>5, <2>4, <2>5
    <3>2. useTz' \in BOOLEAN /\ dateformat' \in {"mdy", "dmy"} /\ field' \in Fields
          /\ given' \in GivenFor(field')
      BY <1>1, <1>3, <1>5 DEF TypeOK
    <3>3. status' \in {"new", "stored", "loaded", "raised", "shifted"}
      BY <1>2
    <3> QED BY <3>1, <3>2, <3>3 DEF TypeOK
  <2>7. status' = "stored" => Taken(g)' /\ column' = Stored(g)'
    BY <1>2, <1>4, <1>6, <2>4
  <2>8. status' = "stored" => Taken(given)' /\ column' = Stored(given)'
    BY <1>5, <2>7
  <2>9. status' = "raised" /\ Proper' => MayRefuse'
    BY <1>2, <1>4, <1>5, <2>3
  <2> QED BY <1>2, <2>6, <2>8, <2>9 DEF IInv
<1> QED BY <1>7, <1>8

LEMMA LoadKeeps ==
  ASSUME IInv, Load
  PROVE  IInv'
<1>1. /\ UNCHANGED config /\ UNCHANGED column /\ status = "stored" /\ field.class # "raw"
      /\ TypeOK
  BY DEF Load, IInv
<1>2. \/ status' = "raised" /\ UNCHANGED value /\ Loaded(column) = Raised
      \/ status' = "loaded" /\ value' = Loaded(column)
  BY DEF Load, Loaded
<1>3. PICK g : g = given
  OBVIOUS
<1>4. PICK c : c = column
  OBVIOUS
<1>5. /\ given' = g /\ field' = field /\ dateformat' = dateformat /\ useTz' = useTz
      /\ Proper' = Proper /\ DateOrder' = DateOrder /\ MayRefuse' = MayRefuse
      /\ column' = c
  BY <1>1, <1>3, <1>4, SameConfig
<1>6. Taken(g)' = Taken(g) /\ Stored(g)' = Stored(g) /\ Loaded(c)' = Loaded(c)
  BY <1>1, SameFate
<1>7. TypeOK'
  BY <1>1, <1>2, <1>3, <1>5 DEF TypeOK
<1>8. CASE DateOrder
  <2>1. MayRefuse
    BY <1>8 DEF MayRefuse
  <2> QED BY <1>2, <1>5, <1>7, <1>8, <2>1 DEF IInv
<1>9. CASE ~DateOrder
  <2>1. Survives
    BY <1>1, <1>9, EverySurvives
  <2>2. Taken(g) /\ c = Stored(g)
    BY <1>1, <1>3, <1>4, <1>9 DEF IInv
  <2>3. Loaded(c) # Raised
    BY <1>1, <1>3, <2>1, <2>2 DEF Survives
  <2>4. status' = "loaded" /\ value' = Loaded(c)
    BY <1>2, <1>4, <2>3
  <2>5. Taken(g)' /\ column' = Stored(g)' /\ value' = Loaded(c)'
    BY <1>5, <1>6, <2>2, <2>4
  <2>6. Taken(given)' /\ column' = Stored(given)' /\ value' = Loaded(column)'
    BY <1>5, <2>5
  <2>7. field'.class # "raw"
    BY <1>1, <1>5
  <2> QED BY <1>7, <2>4, <2>6, <2>7 DEF IInv
<1> QED BY <1>8, <1>9

LEMMA ShiftKeeps ==
  ASSUME IInv, NEW sign, NEW asSql, NEW d, Shift(sign, asSql, d)
  PROVE  IInv'
<1>1. UNCHANGED config /\ status' = "shifted" /\ TypeOK
  BY DEF Shift, IInv
<1>2. given' = given /\ field' = field /\ dateformat' = dateformat /\ useTz' = useTz
  BY <1>1, SameConfig
<1> QED BY <1>1, <1>2 DEF IInv, TypeOK

LEMMA StutterKeeps ==
  ASSUME IInv, UNCHANGED vars
  PROVE  IInv'
<1>1. UNCHANGED config /\ value' = value /\ column' = column /\ status' = status
  BY DEF vars
<1>2. PICK g : g = given
  OBVIOUS
<1>3. PICK c : c = column
  OBVIOUS
<1>4. /\ given' = g /\ field' = field /\ dateformat' = dateformat /\ useTz' = useTz
      /\ Proper' = Proper /\ DateOrder' = DateOrder /\ MayRefuse' = MayRefuse
  BY <1>1, <1>2, SameConfig
<1>5. Taken(g)' = Taken(g) /\ Stored(g)' = Stored(g) /\ Loaded(c)' = Loaded(c)
  BY <1>1, SameFate
<1>6. /\ Taken(given)' = Taken(given) /\ Stored(given)' = Stored(given)
      /\ Loaded(column)' = Loaded(column)
  BY <1>1, <1>2, <1>3, <1>4, <1>5
<1>7. TypeOK'
  BY <1>1, <1>2, <1>4 DEF IInv, TypeOK
<1> QED BY <1>1, <1>2, <1>4, <1>6, <1>7 DEF IInv

\* The column holds what the value given is stored as, the object what is loaded of
\* it, and what the column is sent is refused for a reason: of every field, whatever
\* is given to it and however often it is saved and loaded.
THEOREM Invariance == Spec => []IInv
<1>1. Init => IInv
  BY Initially
<1>2. IInv /\ [Next]_vars => IInv'
  BY SaveKeeps, LoadKeeps, ShiftKeeps, StutterKeeps DEF Next
<1> QED BY <1>1, <1>2, PTL DEF Spec

\* A value is stored as the moment it means, or refused for a reason: the texts that
\* fields.py and operations.py make, as the server reads them.
THEOREM ValuesAreStoredAsMeant == Spec => []StoredAsMeant
<1>1. IInv => StoredAsMeant
  <2> SUFFICES ASSUME IInv, Proper
               PROVE  /\ status = "raised" => MayRefuse
                      /\ status \in {"stored", "loaded"} /\ ~DateOrder => Close(column, given)
    BY DEF StoredAsMeant
  <2>1. status = "raised" => MayRefuse
    BY DEF IInv
  <2>2. ASSUME status \in {"stored", "loaded"}, ~DateOrder
        PROVE  Close(column, given)
    <3>1. Survives
      BY <2>2, EverySurvives DEF IInv
    <3>2. Taken(given) /\ column = Stored(given)
      BY <2>2 DEF IInv
    <3> QED BY <3>1, <3>2 DEF Survives
  <2> QED BY <2>1, <2>2
<1> QED BY <1>1, Invariance, PTL

\* What a field loads is what was given to it, to the precision of its column: the
\* way through get_db_prep_value, the column and the converters loses nothing else.
THEOREM ValuesComeBack == Spec => []RoundTrip
<1>1. IInv => RoundTrip
  <2> SUFFICES ASSUME IInv, Proper, status = "loaded", ~DateOrder
               PROVE  /\ value.kind = given.kind
                      /\ Close(value, given)
                      /\ value.kind = "datetime" => value.aware = given.aware
                      /\ field.class = "DateTimeOffsetField" => value.offset = given.offset
    BY DEF RoundTrip
  <2>1. Survives
    BY EverySurvives DEF IInv
  <2>2. /\ Taken(given) /\ column = Stored(given)
        /\ field.class # "raw" /\ value = Loaded(column)
    BY DEF IInv
  <2>3. PICK l : l = Loaded(Stored(given))
    OBVIOUS
  <2>4. value = l
    BY <2>2, <2>3
  <2>5. /\ l.kind = given.kind
        /\ Close(l, given)
        /\ l.kind = "datetime" => l.aware = given.aware
        /\ field.class = "DateTimeOffsetField" => l.offset = given.offset
    BY <2>1, <2>2, <2>3 DEF Survives
  <2> QED BY <2>4, <2>5
<1> QED BY <1>1, Invariance, PTL

\* Saving an object that was loaded changes nothing in its row: neither the rounding
\* of legacy columns nor the zones of aware values add up.
THEOREM SavedAgainIsTheSame == Spec => ResaveStable
<1>1. ASSUME IInv, [Next]_vars, status = "loaded", status' = "stored", ~DateOrder
      PROVE  column' = column
  <2>1. Save
    BY <1>1 DEF Next, Load, Shift, vars
  <2>2. column' = Stored(value) /\ Taken(value)
    BY <1>1, <2>1 DEF Save, Text, Taken, Stored
  <2>3. Survives
    BY <1>1, EverySurvives DEF IInv
  <2>4. /\ Taken(given) /\ column = Stored(given)
        /\ field.class # "raw" /\ value = Loaded(Stored(given))
    BY <1>1 DEF IInv
  <2> QED BY <2>2, <2>3, <2>4 DEF Survives
<1>2. IInv /\ [Next]_vars
        => [status = "loaded" /\ status' = "stored" /\ ~DateOrder => column' = column]_vars
  BY <1>1
<1> QED BY <1>2, Invariance, PTL DEF Spec, ResaveStable

(* Durations.                                                                  *)

\* The seconds in a number of microseconds, and what is left of them.
LEMMA WholeSeconds ==
  ASSUME NEW n \in Int
  PROVE  /\ n \div Second \in Int /\ n % Second \in Int
         /\ 0 <= n % Second /\ n % Second < Second
         /\ n = Second * (n \div Second) + (n % Second)
<1>1. n \div Second \in Int /\ n % Second \in Int
  BY SMT DEF Second
<1>2. 0 <= n % Second /\ n % Second < Second
  BY SMT DEF Second
<1>3. n = Second * (n \div Second) + (n % Second)
  BY SMT DEF Second
<1> QED BY <1>1, <1>2, <1>3

LEMMA Multiple ==
  ASSUME NEW n \in Int
  PROVE  (Second * n) \div Second = n /\ (Second * n) % Second = 0
<1>1. (Second * n) \div Second = n
  BY SMT DEF Second
<1>2. (Second * n) % Second = 0
  BY SMT DEF Second
<1> QED BY <1>1, <1>2

\* Moments that are some seconds apart.
LEMMA PlusApart ==
  ASSUME NEW v \in Moments, NEW n \in Int, NEW w \in Moments,
         w.date = Plus(v, n).date, w.sec = Plus(v, n).sec
  PROVE  SecondsApart(w, v) = n
<1>1. PICK m \in Int : m = v.sec + n
  BY FieldsOf, Clock
<1>2. PICK q : q = m \div Day
  OBVIOUS
<1>3. PICK r : r = m % Day
  OBVIOUS
<1>4. q \in Int /\ r \in Int /\ m = Day * q + r
  BY <1>2, <1>3, Days
<1>5. w.date = v.date + q /\ w.sec = r
  BY <1>1, <1>2, <1>3, PlusIs
<1>6. w.date \in Int /\ v.date \in Int /\ w.sec \in Int /\ v.sec \in Int
  BY FieldsOf, Clock
<1>7. (w.date - v.date) * Day + w.sec - v.sec = n
  <2>1. w.date - v.date = q
    BY <1>4, <1>5, <1>6
  <2>2. PICK sec \in Int : sec = v.sec
    BY <1>6
  <2>3. Day * q + r = sec + n
    BY <1>1, <1>4, <2>2
  <2>4. q * Day + r - sec = n
    BY <1>4, <2>2, <2>3, SMT DEF Day
  <2> QED BY <1>5, <2>1, <2>2, <2>4
<1> QED BY <1>7 DEF SecondsApart

\* DATEADD of seconds and microseconds moves a moment by them.
LEMMA DateAddIs ==
  ASSUME NEW v \in Moments, NEW s \in Int, NEW m \in Int, NEW w, w = DateAdd(v, s, m)
  PROVE  LET moved == Second * s + m + v.us - w.us
         IN  SecondsApart(w, v) = moved \div Second /\ moved % Second = 0
<1>1. PICK n \in Int : n = v.us + m
  BY FieldsOf, Clock
<1>2. PICK q : q = n \div Second
  OBVIOUS
<1>3. PICK u : u = n % Second
  OBVIOUS
<1>4. q \in Int /\ u \in Int /\ 0 <= u /\ u < Second /\ n = Second * q + u
  BY <1>2, <1>3, WholeSeconds
<1>5. PICK t \in Int : t = s + q
  BY <1>4
<1>6. PICK p \in Moments : p = Plus(v, t)
  BY PlusIs
<1>7. w = WithUs(p, u)
  BY <1>1, <1>2, <1>3, <1>5, <1>6 DEF DateAdd, WithUs
<1>8. u \in 0..(Second - 1)
  BY <1>4, Clock
<1>9. w = Val(p.kind, p.date, p.sec, u, p.aware, p.offset)
  BY <1>7, Update
<1>a. Val(p.kind, p.date, p.sec, u, p.aware, p.offset) \in Moments
  BY <1>8, FieldsOf, ValueIn
<1>10. w \in Moments
  BY <1>9, <1>a
<1>11. w.date = p.date /\ w.sec = p.sec /\ w.us = u
  BY <1>9, <1>10, WrittenAs
<1>12. SecondsApart(w, v) = t
  BY <1>6, <1>10, <1>11, PlusApart
<1>13. Second * s + m + v.us - u = Second * t
  <2>1. PICK us \in Int : us = v.us
    BY FieldsOf, Clock
  <2>2. us + m = Second * q + u
    BY <1>1, <1>4, <2>1
  <2>3. Second * s + m + us - u = Second * t
    BY <1>4, <1>5, <2>2, SMT DEF Second
  <2> QED BY <2>1, <2>3
<1>14. Second * s + m + v.us - w.us = Second * t
  BY <1>11, <1>13
<1> QED BY <1>12, <1>14, Multiple

\* What is added of a duration is all of it, but for the case named.
LEMMA Combined ==
  ASSUME NEW v, NEW sign \in {1, -1}, NEW asSql \in BOOLEAN, NEW d \in Int,
         ~(asSql /\ sign = -1 /\ SqlQuotient(d, Second) # 0)
  PROVE  \E s \in Int, m \in Int : /\ CombineDuration(v, sign, asSql, d) = DateAdd(v, s, m)
                                   /\ Second * s + m = sign * d
<1>1. CASE ~asSql
  <2>1. PICK q : q = d \div Second
    OBVIOUS
  <2>2. PICK r : r = d % Second
    OBVIOUS
  <2>3. q \in Int /\ r \in Int /\ d = Second * q + r
    BY <2>1, <2>2, WholeSeconds
  <2>4. PICK s \in Int, m \in Int : s = sign * q /\ m = sign * r
    BY <2>3
  <2>5. CombineDuration(v, sign, asSql, d) = DateAdd(v, s, m)
    BY <1>1, <2>1, <2>2, <2>4 DEF CombineDuration
  <2>6. Second * s + m = sign * d
    BY <2>3, <2>4, SMT DEF Second
  <2> QED BY <2>5, <2>6
<1>2. CASE asSql
  <2>1. PICK q : q = SqlQuotient(d, Second)
    OBVIOUS
  <2>2. q \in Int
    <3>1. d < 0 => -d \in Int
      OBVIOUS
    <3> QED BY <2>1, <3>1, SMT DEF SqlQuotient, Second
  <2>3. SqlRemainder(d, Second) = d - Second * q
    BY <2>1 DEF SqlRemainder
  <2>4. PICK m \in Int : m = sign * (d - Second * q)
    BY <2>2, Clock
  <2>5. CombineDuration(v, sign, asSql, d) = DateAdd(v, q, m)
    BY <1>2, <2>1, <2>3, <2>4 DEF CombineDuration
  <2>6. Second * q + m = sign * d
    <3>1. sign = 1 \/ q = 0
      BY <1>2, <2>1
    <3> QED BY <2>2, <2>4, <3>1, SMT DEF Second
  <2> QED BY <2>2, <2>5, <2>6
<1> QED BY <1>1, <1>2

\* Adding a duration moves a datetime by it and subtracting moves it back, carries of
\* both signs included, as combine_duration_expression has it sent to the server.
THEOREM DurationsMove == Spec => ShiftsByDuration
<1>1. ASSUME IInv, NEW sign \in {1, -1}, NEW asSql \in BOOLEAN, NEW d \in Durations,
             Shift(sign, asSql, d), ~(asSql /\ sign = -1 /\ SqlQuotient(d, Second) # 0)
      PROVE  LET seconds == sign * d + column.us - column'.us
             IN  /\ SecondsApart(column', column) = seconds \div Second
                 /\ seconds % Second = 0
  <2>1. PICK c \in Moments : c = column
    BY <1>1 DEF IInv, TypeOK, Shift
  <2>2. PICK w : w = column'
    OBVIOUS
  <2>3. w = CombineDuration(c, sign, asSql, d)
    BY <1>1, <2>1, <2>2 DEF Shift
  <2>4. PICK n \in Int : n = d
    BY DurationsAssumption
  <2>5. PICK s \in Int, m \in Int : w = DateAdd(c, s, m) /\ Second * s + m = sign * d
    BY <1>1, <2>3, <2>4, Combined
  <2>6. LET moved == Second * s + m + c.us - w.us
        IN  SecondsApart(w, c) = moved \div Second /\ moved % Second = 0
    BY <2>5, DateAddIs
  <2>7. Second * s + m + c.us - w.us = sign * d + c.us - w.us
    BY <2>5
  <2> QED BY <2>1, <2>2, <2>6, <2>7
<1>2. IInv /\ [Next]_vars =>
        [\A sign \in {1, -1}, asSql \in BOOLEAN, d \in Durations :
           Shift(sign, asSql, d) /\ ~(asSql /\ sign = -1 /\ SqlQuotient(d, Second) # 0)
             => LET seconds == sign * d + column.us - column'.us
                IN  /\ SecondsApart(column', column) = seconds \div Second
                    /\ seconds % Second = 0]_vars
  BY <1>1
<1> QED BY <1>2, Invariance, PTL DEF Spec, ShiftsByDuration
==============================================================================
