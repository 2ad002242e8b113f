-------------------------- MODULE InterleaveProofs --------------------------
(***************************************************************************)
(* Proofs about Interleave, for every number of tracks and packets, all    *)
(* periods and every distance between the clocks.                          *)
(***************************************************************************)
EXTENDS Interleave, WellFoundedInduction, TLAPS

Packets == [src : Sources, n : Nat, dts : Int, keyframe : BOOLEAN]

Outputs ==
  [packets : Seq(Packets), gotVideo : BOOLEAN, gotAudio : BOOLEAN,
   highestVideo : Int, highestAudio : Int, offset : [Sources -> Int]]

TypeOK ==
  /\ next \in [Sources -> Nat] /\ turn \in Tracks
  /\ skew \in Int /\ Origin + skew >= 0
  /\ out \in Outputs /\ sent \in Seq(Packets)
  /\ restarts \in Nat

-----------------------------------------------------------------------------
(* What a queue is like.                                                   *)

(* Packet n of source s comes before packet m of source t, both of them    *)
(* video or both audio.                                                    *)
Before(s, n, t, m) ==
  /\ s = Video <=> t = Video
  /\ n < m \/ (n = m /\ s < t)

Sorted(ps) == \A i, j \in DOMAIN ps : i < j => ps[i].dts <= ps[j].dts

Ordered(ps) ==
  \A i, j \in DOMAIN ps :
    i < j /\ (ps[i].src = Video <=> ps[j].src = Video) =>
      Before(ps[i].src, ps[i].n, ps[j].src, ps[j].n)

(* Of a set of packets: all of them have come, and with one of them all    *)
(* that came after it are there.                                           *)
Came(P, nx) == \A p \in P : p.n < nx[p.src]

Complete(P, nx) ==
  \A p \in P : \A s \in Sources : \A n \in Nat :
    n < nx[s] /\ Before(p.src, p.n, s, n) => \E q \in P : q.src = s /\ q.n = n

(* The offsets of the clocks in an output; system time before it starts.   *)
SystemOffset == [s \in Sources |-> -(Origin + (IF s = Video THEN 0 ELSE skew))]
Offsets(o)   == IF Started(o) THEN o.offset ELSE SystemOffset

Stamp(f, s, n)  == Clock(s, n) - f[s]
Stamped(f, all) == \A p \in Range(all) : p.dts = Stamp(f, p.src, p.n)

InRounds(f) ==
  \A s, t \in Tracks : s <= t => f[t] <= f[s] /\ f[s] <= f[t] + AudioPeriod

(* What holds of the packets all of an output that still has the queue ps, *)
(* by the offsets f, when of each encoder s those below nx[s] have come.   *)
Held(f, all, ps, nx) ==
  /\ InRounds(f) /\ Stamped(f, all)
  /\ Sorted(ps) /\ Ordered(all)
  /\ Came(Range(all), nx) /\ Complete(Range(all), nx)

HasAll(P) == \A s \in Sources : \E p \in P : p.src = s

Good(o, st, nx) ==
  /\ Held(Offsets(o), st \o o.packets, o.packets, nx)
  /\ ~Started(o) => st = <<>>
  /\ ~o.gotVideo => NoVideo(o.packets)
  /\ Started(o) => HasAll(Range(st \o o.packets))

(* The audio thread has served the tracks before its turn once more.       *)
Rounds ==
  \A s \in Tracks : next[s] = next[turn] + (IF s < turn THEN 1 ELSE 0)

IInv == TypeOK /\ Rounds /\ Good(out, sent, next) /\ InSync

(* The highest times so far are no more than d above those of the packets  *)
(* to come; d is what the start of the stream got wrong.                   *)
Ahead(o, f, nx, d) ==
  /\ o.highestVideo <= Stamp(f, Video, nx[Video]) + d
  /\ \A t \in Tracks : o.highestAudio <= Stamp(f, t, nx[t])
Slack(o) == IF Started(o) THEN Reorder ELSE 0

(* What has been sent is in order, and before all that is queued or will   *)
(* come, but for what the video encoder reorders.                          *)
SentFirst(f, st, ps, nx) ==
  /\ \A i, j \in DOMAIN st : i < j => st[i].dts <= st[j].dts + Reorder
  /\ \A i \in DOMAIN st :
       /\ \A j \in DOMAIN ps : st[i].dts <= ps[j].dts + Reorder
       /\ \A s \in Sources : st[i].dts <= Stamp(f, s, nx[s]) + Reorder

Timely(o, st, nx) ==
  /\ Ahead(o, Offsets(o), nx, Slack(o))
  /\ SentFirst(Offsets(o), st, o.packets, nx)

-----------------------------------------------------------------------------
(* The least and the greatest number of a set.                             *)

LEMMA MinIs ==
  ASSUME NEW S, S \subseteq Nat, S # {}
  PROVE  Min(S) \in S /\ \A k \in S : Min(S) <= k
<1> DEFINE Less == OpToRel(<, Nat)
<1>1. IsWellFoundedOn(Less, Nat)
  BY NatLessThanWellFounded
<1>2. \A a, b \in Nat : a < b => <<a, b>> \in Less
  BY Zenon DEF OpToRel
<1> HIDE DEF Less
<1>3. PICK m \in S : \A k \in S : <<k, m>> \notin Less
  BY <1>1, WFMin
<1>4. \A k \in S : m <= k
  <2> TAKE k \in S
  <2>1. k \in Nat /\ m \in Nat
    OBVIOUS
  <2>2. ~(k < m)
    BY <1>2, <1>3, <2>1
  <2> QED BY <2>1, <2>2
<1> QED BY <1>3, <1>4 DEF Min

LEMMA MaxIs ==
  ASSUME NEW n \in Nat, NEW S, S \subseteq 0 .. n, S # {}
  PROVE  Max(S) \in S /\ \A k \in S : k <= Max(S)
<1> DEFINE Above == {m \in Nat : \A k \in S : k <= m}
<1>1. Above \subseteq Nat /\ n \in Above
  OBVIOUS
<1>2. Min(Above) \in Above /\ \A m \in Above : Min(Above) <= m
  BY <1>1, MinIs
<1>3. Min(Above) \in S
  <2> SUFFICES ASSUME Min(Above) \notin S PROVE FALSE
    OBVIOUS
  <2>1. Min(Above) \in Nat /\ \A k \in S : k <= Min(Above) /\ k # Min(Above)
    BY <1>2
  <2>2. Min(Above) - 1 \in Above
    <3>1. PICK k \in S : TRUE
      OBVIOUS
    <3>2. Min(Above) - 1 \in Nat
      BY <2>1, <3>1
    <3> QED BY <2>1, <3>2
  <2> QED BY <1>2, <2>1, <2>2
<1>4. \A k \in S : k <= Min(Above)
  BY <1>2
<1> HIDE DEF Above
<1> QED BY <1>3, <1>4 DEF Max

LEMMA MaxOfTwo ==
  ASSUME NEW a \in Int, NEW b \in Int
  PROVE  Max({a, b}) \in {a, b} /\ a <= Max({a, b}) /\ b <= Max({a, b})
<1>1. \E x \in {a, b} : \A y \in {a, b} : x >= y
  <2>1. CASE a >= b BY <2>1
  <2>2. CASE b >= a BY <2>2
  <2> QED BY <2>1, <2>2
<1> QED BY <1>1 DEF Max

LEMMA SetInduction ==
  ASSUME NEW T, 0 \in T, \A n \in Nat : n \in T => n + 1 \in T
  PROVE  \A n \in Nat : n \in T
<1> SUFFICES ASSUME NEW n \in Nat, n \notin T PROVE FALSE
  OBVIOUS
<1> DEFINE Rest == {k \in Nat : k \notin T}
<1>1. Min(Rest) \in Rest /\ \A k \in Rest : Min(Rest) <= k
  <2>1. Rest \subseteq Nat /\ Rest # {}
    OBVIOUS
  <2> HIDE DEF Rest
  <2> QED BY <2>1, MinIs
<1>2. Min(Rest) \in Nat /\ Min(Rest) # 0
  BY <1>1
<1>3. Min(Rest) - 1 \in Nat /\ Min(Rest) - 1 \notin Rest
  BY <1>1, <1>2
<1>4. (Min(Rest) - 1) + 1 \in T
  BY <1>3
<1> QED BY <1>1, <1>2, <1>4

-----------------------------------------------------------------------------
(* Sequences of packets, for any set of packets.                           *)

(* ys is xs with p inserted at position k.                                 *)
Inserted(xs, ys, k, p) ==
  /\ k \in 1 .. Len(xs) + 1 /\ Len(ys) = Len(xs) + 1
  /\ ys[k] = p
  /\ \A i \in 1 .. Len(xs) :
       /\ i < k => ys[i] = xs[i]
       /\ i >= k => ys[i + 1] = xs[i]

LEMMA InsertAtIs ==
  ASSUME NEW P, NEW xs \in Seq(P), NEW p \in P, NEW k \in 1 .. Len(xs) + 1
  PROVE  InsertAt(xs, k, p) \in Seq(P) /\ Inserted(xs, InsertAt(xs, k, p), k, p)
<1> DEFINE a == SubSeq(xs, 1, k - 1)
           b == SubSeq(xs, k, Len(xs))
<1>1. Len(xs) \in Nat /\ k \in Nat /\ k >= 1 /\ k <= Len(xs) + 1
  OBVIOUS
<1>2. a \in Seq(P) /\ Len(a) = k - 1 /\ \A i \in 1 .. k - 1 : a[i] = xs[i]
  BY <1>1
<1>3. b \in Seq(P) /\ Len(b) = Len(xs) - k + 1
      /\ \A i \in 1 .. Len(xs) - k + 1 : b[i] = xs[k - 1 + i]
  BY <1>1
<1>4. InsertAt(xs, k, p) = (a \o <<p>>) \o b
  BY DEF InsertAt
<1> HIDE DEF a, b
<1> DEFINE c == a \o <<p>>
<1>5. c \in Seq(P) /\ Len(c) = k /\ c[k] = p /\ \A i \in 1 .. k - 1 : c[i] = xs[i]
  BY <1>1, <1>2
<1> HIDE DEF c
<1>6. c \o b \in Seq(P) /\ Len(c \o b) = Len(xs) + 1
      /\ (\A i \in 1 .. k : (c \o b)[i] = c[i])
      /\ \A i \in k + 1 .. Len(xs) + 1 : (c \o b)[i] = b[i - k]
  <2>1. c \o b \in Seq(P) /\ Len(c \o b) = Len(c) + Len(b)
    BY <1>3, <1>5
  <2>2. Len(c \o b) = Len(xs) + 1
    BY <1>1, <1>3, <1>5, <2>1
  <2>3. \A i \in 1 .. k : (c \o b)[i] = c[i]
    BY <1>1, <1>3, <1>5
  <2>4. \A i \in k + 1 .. Len(xs) + 1 : (c \o b)[i] = b[i - k]
    BY <1>1, <1>3, <1>5
  <2> QED BY <2>1, <2>2, <2>3, <2>4
<1>7. InsertAt(xs, k, p) = c \o b
  BY <1>4 DEF c
<1> DEFINE d == c \o b
<1>8. \A i \in 1 .. Len(xs) : /\ i < k => d[i] = xs[i]
                              /\ i >= k => d[i + 1] = xs[i]
  <2> TAKE i \in 1 .. Len(xs)
  <2>1. i < k => d[i] = xs[i]
    BY <1>1, <1>5, <1>6
  <2>2. ASSUME i >= k PROVE d[i + 1] = xs[i]
    <3>1. i + 1 \in k + 1 .. Len(xs) + 1 /\ i + 1 - k \in 1 .. Len(xs) - k + 1
      BY <1>1, <2>2
    <3>2. d[i + 1] = b[i + 1 - k]
      BY <1>6, <3>1
    <3>3. b[i + 1 - k] = xs[k - 1 + (i + 1 - k)]
      BY <1>3, <3>1
    <3>4. k - 1 + (i + 1 - k) = i
      BY <1>1
    <3> QED BY <3>2, <3>3, <3>4
  <2> QED BY <2>1, <2>2
<1>9. d[k] = p /\ k \in 1 .. k
  BY <1>1, <1>5, <1>6
<1> QED BY <1>1, <1>6, <1>7, <1>8, <1>9 DEF Inserted

LEMMA DiscardIs ==
  ASSUME NEW P, NEW xs \in Seq(P), NEW k \in Nat
  PROVE  /\ Discard(xs, k) \in Seq(P)
         /\ Len(Discard(xs, k)) = (IF k <= Len(xs) THEN Len(xs) - k ELSE 0)
         /\ \A i \in 1 .. Len(Discard(xs, k)) :
              i + k \in 1 .. Len(xs) /\ Discard(xs, k)[i] = xs[i + k]
<1>1. Len(xs) \in Nat
  OBVIOUS
<1>2. Discard(xs, k) \in Seq(P)
  BY <1>1 DEF Discard
<1>3. Len(Discard(xs, k)) = (IF k <= Len(xs) THEN Len(xs) - k ELSE 0)
  BY <1>1 DEF Discard
<1>4. ASSUME NEW i \in 1 .. Len(Discard(xs, k))
      PROVE  i + k \in 1 .. Len(xs) /\ Discard(xs, k)[i] = xs[i + k]
  <2>1. k <= Len(xs) /\ i \in 1 .. Len(xs) - k
    BY <1>1, <1>3
  <2>2. SubSeq(xs, k + 1, Len(xs))[i] = xs[(k + 1) + i - 1]
    BY <1>1, <2>1
  <2>3. (k + 1) + i - 1 = i + k
    BY <2>1
  <2> QED BY <1>1, <2>1, <2>2, <2>3 DEF Discard
<1> QED BY <1>2, <1>3, <1>4

-----------------------------------------------------------------------------
(* Times.                                                                  *)

LEMMA Times ==
  ASSUME NEW a \in Nat, NEW b \in Nat, NEW c \in Nat, a < b
  PROVE  a * c \in Nat /\ b * c \in Nat /\ a * c + c <= b * c
<1> DEFINE d == b - a - 1
<1>1. d \in Nat /\ b = a + 1 + d
  OBVIOUS
<1>2. b * c = a * c + c + d * c /\ d * c \in Nat /\ a * c \in Nat
  BY <1>1
<1> QED BY <1>1, <1>2

LEMMA SourcesAre ==
  /\ NumTracks \in Nat /\ NumTracks >= 1 /\ VideoPeriod \in Nat /\ VideoPeriod >= 1
  /\ AudioPeriod \in Nat /\ AudioPeriod >= 1 /\ Reorder \in Nat
  /\ Video = -1 /\ Video \notin Tracks /\ Video \in Sources /\ 0 \in Tracks
  /\ Tracks \subseteq Nat /\ Tracks \subseteq Sources /\ NumTracks - 1 \in Tracks
  /\ \A s \in Sources : s \in Int /\ (s # Video => s \in Tracks)
  /\ \A s \in Tracks : s # Video
BY InterleaveAssumption DEF InterleaveAssumption, Video, Tracks, Sources

Period(s) == IF s = Video THEN VideoPeriod ELSE AudioPeriod

LEMMA ClockIs ==
  ASSUME NEW s \in Sources, NEW n \in Nat
  PROVE  /\ Clock(s, n) = n * Period(s) /\ Clock(s, n) \in Nat
         /\ Period(s) \in Nat /\ Period(s) >= 1
         /\ Clock(s, n + 1) = Clock(s, n) + Period(s)
<1>1. Period(s) \in Nat /\ Period(s) >= 1
  BY SourcesAre DEF Period
<1>2. Clock(s, n) = n * Period(s) /\ Clock(s, n + 1) = (n + 1) * Period(s)
  BY DEF Clock, Period
<1> HIDE DEF Period
<1>3. n * Period(s) \in Nat /\ (n + 1) * Period(s) = n * Period(s) + Period(s)
  BY <1>1
<1> QED BY <1>1, <1>2, <1>3

LEMMA ClockGrows ==
  ASSUME NEW s \in Sources, NEW t \in Sources, Period(s) = Period(t),
         NEW n \in Nat, NEW m \in Nat, n < m
  PROVE  Clock(s, n) + Period(s) <= Clock(t, m)
<1>1. Clock(s, n) = n * Period(s) /\ Clock(t, m) = m * Period(s) /\ Period(s) \in Nat
  BY ClockIs
<1>2. n * Period(s) + Period(s) <= m * Period(s)
  BY <1>1, Times
<1> QED BY <1>1, <1>2

LEMMA BeforeFacts ==
  ASSUME NEW s \in Sources, NEW t \in Sources, NEW r \in Sources,
         NEW n \in Nat, NEW m \in Nat, NEW l \in Nat
  PROVE  /\ Before(s, n, t, m) /\ Before(t, m, r, l) => Before(s, n, r, l)
         /\ ~Before(s, n, s, n)
         /\ Before(s, n, t, m) => ~Before(t, m, s, n)
         /\ (s = Video <=> t = Video) =>
              Before(s, n, t, m) \/ Before(t, m, s, n) \/ (s = t /\ n = m)
BY SourcesAre DEF Before

LEMMA StampOrder ==
  ASSUME NEW f \in [Sources -> Int], InRounds(f),
         NEW s \in Sources, NEW t \in Sources, NEW n \in Nat, NEW m \in Nat,
         Before(s, n, t, m)
  PROVE  /\ Stamp(f, s, n) \in Int /\ Stamp(f, t, m) \in Int
         /\ Stamp(f, s, n) <= Stamp(f, t, m)
         /\ s = Video => Stamp(f, s, n) < Stamp(f, t, m)
<1>1. Clock(s, n) \in Nat /\ Clock(t, m) \in Nat /\ f[s] \in Int /\ f[t] \in Int
      /\ Period(s) \in Nat /\ Period(s) >= 1
  BY ClockIs
<1>2. Period(s) = Period(t) /\ s \in Int /\ t \in Int
  BY SourcesAre DEF Before, Period
<1>3. CASE s = Video
  <2>1. t = s /\ n < m
    BY <1>2, <1>3 DEF Before
  <2>2. Clock(s, n) + Period(s) <= Clock(t, m)
    BY <1>2, <2>1, ClockGrows
  <2> QED BY <1>1, <2>1, <2>2 DEF Stamp
<1>4. CASE s # Video
  <2>1. s \in Tracks /\ t \in Tracks /\ Period(s) = AudioPeriod
    BY <1>4, SourcesAre DEF Before, Period
  <2>2. f[t] <= f[s] + AudioPeriod /\ (s <= t => f[t] <= f[s])
    BY <1>1, <1>2, <2>1, SourcesAre DEF InRounds
  <2>3. CASE n < m
    <3>1. Clock(s, n) + Period(s) <= Clock(t, m)
      BY <1>2, <2>3, ClockGrows
    <3> QED BY <1>1, <1>4, <2>1, <2>2, <3>1, SourcesAre DEF Stamp
  <2>4. CASE n = m /\ s < t
    <3>1. Clock(s, n) = Clock(t, m)
      BY <1>2, <2>4, ClockIs
    <3> QED BY <1>1, <1>2, <1>4, <2>2, <2>4, <3>1 DEF Stamp
  <2> QED BY <2>3, <2>4 DEF Before
<1> QED BY <1>3, <1>4

LEMMA SystemOffsetIs ==
  ASSUME skew \in Int
  PROVE  /\ SystemOffset \in [Sources -> Int] /\ InRounds(SystemOffset)
         /\ \A s \in Sources : \A n \in Nat :
              /\ Packet(s, n) \in Packets
              /\ Packet(s, n).src = s /\ Packet(s, n).n = n
              /\ Packet(s, n).dts = Stamp(SystemOffset, s, n)
<1>1. Origin \in Int
  BY DEF Origin
<1>2. SystemOffset \in [Sources -> Int]
      /\ \A s \in Sources : SystemOffset[s] = -(Origin + (IF s = Video THEN 0 ELSE skew))
  BY <1>1 DEF SystemOffset
<1>3. \A s \in Tracks : SystemOffset[s] = -(Origin + skew)
  BY <1>2, SourcesAre
<1>4. InRounds(SystemOffset)
  <2> SUFFICES ASSUME NEW s \in Tracks, NEW t \in Tracks
               PROVE  SystemOffset[t] <= SystemOffset[s]
                      /\ SystemOffset[s] <= SystemOffset[t] + AudioPeriod
    BY DEF InRounds
  <2>1. SystemOffset[s] = SystemOffset[t] /\ SystemOffset[s] \in Int
    BY <1>1, <1>3
  <2> QED BY <2>1, SourcesAre
<1>5. ASSUME NEW s \in Sources, NEW n \in Nat
      PROVE  /\ Packet(s, n) \in Packets
             /\ Packet(s, n).src = s /\ Packet(s, n).n = n
             /\ Packet(s, n).dts = Stamp(SystemOffset, s, n)
  <2>1. Clock(s, n) \in Nat
    BY ClockIs
  <2>2. Packet(s, n).src = s /\ Packet(s, n).n = n
        /\ Packet(s, n).dts = Origin + Clock(s, n) + (IF s = Video THEN 0 ELSE skew)
    BY DEF Packet
  <2>3. Packet(s, n).dts = Stamp(SystemOffset, s, n)
    BY <1>1, <1>2, <2>1, <2>2 DEF Stamp
  <2>4. Packet(s, n) \in Packets
    BY <1>1, <2>1 DEF Packet, Packets
  <2> QED BY <2>2, <2>3, <2>4
<1> QED BY <1>2, <1>4, <1>5

LEMMA InsertedIs ==
  ASSUME NEW P, NEW xs \in Seq(P), NEW ys \in Seq(P), NEW p \in P,
         NEW k \in Nat, Inserted(xs, ys, k, p)
  PROVE  /\ k \in 1 .. Len(ys) /\ ys[k] = p
         /\ \A j \in 1 .. Len(ys) :
              /\ j < k => j \in 1 .. Len(xs) /\ ys[j] = xs[j]
              /\ j > k => j - 1 \in 1 .. Len(xs) /\ ys[j] = xs[j - 1]
         /\ Range(ys) = Range(xs) \cup {p}
<1>1. /\ Len(xs) \in Nat /\ Len(ys) = Len(xs) + 1 /\ k \in 1 .. Len(ys) /\ ys[k] = p
      /\ \A i \in 1 .. Len(xs) : /\ i < k => ys[i] = xs[i]
                                 /\ i >= k => ys[i + 1] = xs[i]
  BY DEF Inserted
<1>2. ASSUME NEW j \in 1 .. Len(ys)
      PROVE  /\ j < k => j \in 1 .. Len(xs) /\ ys[j] = xs[j]
             /\ j > k => j - 1 \in 1 .. Len(xs) /\ ys[j] = xs[j - 1]
  <2>1. CASE j < k
    BY <1>1, <2>1
  <2>2. CASE j > k
    <3>1. j - 1 \in 1 .. Len(xs) /\ j - 1 >= k /\ (j - 1) + 1 = j
      BY <1>1, <2>2
    <3>2. ys[(j - 1) + 1] = xs[j - 1]
      BY <1>1, <3>1
    <3> QED BY <2>2, <3>1, <3>2
  <2>3. CASE j = k
    BY <1>1, <2>3
  <2> QED BY <1>1, <2>1, <2>2, <2>3
<1>3. DOMAIN xs = 1 .. Len(xs) /\ DOMAIN ys = 1 .. Len(ys)
  OBVIOUS
<1>4. ASSUME NEW y \in Range(ys) PROVE y \in Range(xs) \cup {p}
  <2>1. PICK j \in 1 .. Len(ys) : y = ys[j]
    BY <1>3 DEF Range
  <2>2. CASE j = k
    BY <1>1, <2>1, <2>2
  <2>3. CASE j < k
    BY <1>2, <1>3, <2>1, <2>3 DEF Range
  <2>4. CASE j > k
    BY <1>2, <1>3, <2>1, <2>4 DEF Range
  <2> QED BY <1>1, <2>2, <2>3, <2>4
<1>5. ASSUME NEW y \in Range(xs) PROVE y \in Range(ys)
  <2>1. PICK i \in 1 .. Len(xs) : y = xs[i]
    BY <1>3 DEF Range
  <2>2. CASE i < k
    <3>1. i \in 1 .. Len(ys) /\ ys[i] = y
      BY <1>1, <2>1, <2>2
    <3> QED BY <1>3, <3>1 DEF Range
  <2>3. CASE i >= k
    <3>1. i + 1 \in 1 .. Len(ys) /\ ys[i + 1] = y
      BY <1>1, <2>1, <2>3
    <3> QED BY <1>3, <3>1 DEF Range
  <2> QED BY <1>1, <2>2, <2>3
<1>6. p \in Range(ys)
  BY <1>1, <1>3 DEF Range
<1> QED BY <1>1, <1>2, <1>4, <1>5, <1>6

(* An insertion behind what was sent.                                      *)
LEMMA ConcatIs ==
  ASSUME NEW P, NEW st \in Seq(P), NEW xs \in Seq(P)
  PROVE  /\ st \o xs \in Seq(P) /\ Len(st \o xs) = Len(st) + Len(xs)
         /\ DOMAIN (st \o xs) = 1 .. Len(st) + Len(xs)
         /\ \A i \in 1 .. Len(st) : (st \o xs)[i] = st[i]
         /\ \A i \in 1 .. Len(xs) : (st \o xs)[Len(st) + i] = xs[i]
         /\ Range(st \o xs) = Range(st) \cup Range(xs)
<1>1. Len(st) \in Nat /\ Len(xs) \in Nat /\ st \o xs \in Seq(P)
      /\ Len(st \o xs) = Len(st) + Len(xs)
      /\ DOMAIN st = 1 .. Len(st) /\ DOMAIN xs = 1 .. Len(xs)
  OBVIOUS
<1>2. DOMAIN (st \o xs) = 1 .. Len(st) + Len(xs)
  BY <1>1
<1>3. \A i \in 1 .. Len(st) : (st \o xs)[i] = st[i]
  OBVIOUS
<1>4. \A i \in 1 .. Len(xs) : (st \o xs)[Len(st) + i] = xs[i]
  <2> TAKE i \in 1 .. Len(xs)
  <2>1. Len(st) + i \in 1 .. Len(st) + Len(xs) /\ Len(st) + i > Len(st)
        /\ (Len(st) + i) - Len(st) = i
    BY <1>1
  <2>2. (st \o xs)[Len(st) + i] = xs[(Len(st) + i) - Len(st)]
    BY <1>1, <2>1
  <2> QED BY <2>1, <2>2
<1> DEFINE all == st \o xs
<1> HIDE DEF all
<1>5. /\ DOMAIN all = 1 .. Len(st) + Len(xs)
      /\ \A i \in 1 .. Len(st) : all[i] = st[i]
      /\ \A i \in 1 .. Len(xs) : all[Len(st) + i] = xs[i]
  BY <1>2, <1>3, <1>4 DEF all
<1>6. ASSUME NEW y \in Range(all) PROVE y \in Range(st) \cup Range(xs)
  <2>1. PICK i \in 1 .. Len(st) + Len(xs) : y = all[i]
    BY <1>5 DEF Range
  <2>2. CASE i <= Len(st)
    BY <1>1, <1>5, <2>1, <2>2 DEF Range
  <2>3. CASE i > Len(st)
    <3>1. i - Len(st) \in 1 .. Len(xs) /\ Len(st) + (i - Len(st)) = i
      BY <1>1, <2>3
    <3>2. y = xs[i - Len(st)]
      BY <1>5, <2>1, <3>1
    <3> QED BY <1>1, <3>1, <3>2 DEF Range
  <2> QED BY <1>1, <2>2, <2>3
<1>7. ASSUME NEW y \in Range(st) PROVE y \in Range(all)
  <2>1. PICK i \in 1 .. Len(st) : y = st[i]
    BY <1>1 DEF Range
  <2>2. i \in 1 .. Len(st) + Len(xs) /\ y = all[i]
    BY <1>1, <1>5, <2>1
  <2> QED BY <1>5, <2>2 DEF Range
<1>8. ASSUME NEW y \in Range(xs) PROVE y \in Range(all)
  <2>1. PICK i \in 1 .. Len(xs) : y = xs[i]
    BY <1>1 DEF Range
  <2>2. Len(st) + i \in 1 .. Len(st) + Len(xs) /\ y = all[Len(st) + i]
    BY <1>1, <1>5, <2>1
  <2> QED BY <1>5, <2>2 DEF Range
<1>9. Range(all) = Range(st) \cup Range(xs)
  BY <1>6, <1>7, <1>8
<1> QED BY <1>1, <1>2, <1>3, <1>4, <1>9 DEF all

LEMMA InsertedBehind ==
  ASSUME NEW P, NEW st \in Seq(P), NEW xs \in Seq(P), NEW ys \in Seq(P),
         NEW p \in P, NEW k \in Nat, Inserted(xs, ys, k, p)
  PROVE  Inserted(st \o xs, st \o ys, Len(st) + k, p)
<1> DEFINE a == st \o xs
           b == st \o ys
           l == Len(st) + k
<1>1. Len(st) \in Nat /\ Len(xs) \in Nat /\ Len(ys) = Len(xs) + 1
      /\ k \in 1 .. Len(xs) + 1 /\ ys[k] = p
  BY DEF Inserted
<1>2. /\ Len(a) = Len(st) + Len(xs)
      /\ \A i \in 1 .. Len(st) : a[i] = st[i]
      /\ \A i \in 1 .. Len(xs) : a[Len(st) + i] = xs[i]
  BY ConcatIs
<1>3. /\ Len(b) = Len(st) + Len(ys)
      /\ \A i \in 1 .. Len(st) : b[i] = st[i]
      /\ \A i \in 1 .. Len(ys) : b[Len(st) + i] = ys[i]
  BY ConcatIs
<1> HIDE DEF a, b
<1>4. l \in 1 .. Len(a) + 1 /\ Len(b) = Len(a) + 1 /\ b[l] = p
  BY <1>1, <1>2, <1>3
<1>5. ASSUME NEW i \in 1 .. Len(a)
      PROVE  /\ i < l => b[i] = a[i]
             /\ i >= l => b[i + 1] = a[i]
  <2>1. CASE i <= Len(st)
    BY <1>1, <1>2, <1>3, <2>1
  <2>2. CASE i > Len(st)
    <3> DEFINE j == i - Len(st)
    <3>1. j \in 1 .. Len(xs) /\ Len(st) + j = i
          /\ j + 1 \in 1 .. Len(ys) /\ j \in 1 .. Len(ys) /\ Len(st) + (j + 1) = i + 1
      <4>1. Len(a) = Len(st) + Len(xs) /\ i \in Nat
        BY <1>1, <1>2
      <4> QED BY <1>1, <2>2, <4>1
    <3> HIDE DEF j
    <3>2. (j < k => ys[j] = xs[j]) /\ (j >= k => ys[j + 1] = xs[j])
      BY <3>1 DEF Inserted
    <3>3. a[i] = xs[j] /\ b[i] = ys[j] /\ b[i + 1] = ys[j + 1]
      <4>1. a[Len(st) + j] = xs[j] /\ b[Len(st) + j] = ys[j]
            /\ b[Len(st) + (j + 1)] = ys[j + 1]
        BY <1>2, <1>3, <3>1
      <4> QED BY <3>1, <4>1
    <3>4. (i < l => j < k) /\ (i >= l => j >= k)
      BY <1>1, <3>1
    <3> QED BY <3>2, <3>3, <3>4
  <2> QED BY <1>1, <1>2, <2>1, <2>2
<1>6. Inserted(a, b, l, p)
  BY <1>4, <1>5 DEF Inserted
<1> QED BY <1>6 DEF a, b

Alike(p, q) == p.src = Video <=> q.src = Video

LEMMA PacketIs ==
  ASSUME NEW p \in Packets
  PROVE  p.src \in Sources /\ p.n \in Nat /\ p.dts \in Int /\ p.keyframe \in BOOLEAN
BY DEF Packets

LEMMA InsertedSorted ==
  ASSUME NEW xs \in Seq(Packets), NEW ys \in Seq(Packets), NEW p \in Packets,
         NEW k \in Nat, Inserted(xs, ys, k, p), Sorted(xs),
         \A i \in 1 .. Len(xs) : /\ i < k => xs[i].dts <= p.dts
                                 /\ i >= k => p.dts <= xs[i].dts
  PROVE  Sorted(ys)
<1>1. /\ k \in 1 .. Len(ys) /\ ys[k] = p
      /\ \A j \in 1 .. Len(ys) :
           /\ j < k => j \in 1 .. Len(xs) /\ ys[j] = xs[j]
           /\ j > k => j - 1 \in 1 .. Len(xs) /\ ys[j] = xs[j - 1]
  BY InsertedIs
<1>2. \A i \in 1 .. Len(xs) : xs[i] \in Packets /\ xs[i].dts \in Int
  BY PacketIs
<1>3. p.dts \in Int /\ DOMAIN xs = 1 .. Len(xs) /\ DOMAIN ys = 1 .. Len(ys)
      /\ Len(xs) \in Nat /\ Len(ys) \in Nat
  BY PacketIs
<1> SUFFICES ASSUME NEW i \in 1 .. Len(ys), NEW j \in 1 .. Len(ys), i < j
             PROVE  ys[i].dts <= ys[j].dts
  BY <1>3 DEF Sorted
<1>4. CASE j < k
  BY <1>1, <1>3, <1>4 DEF Sorted
<1>5. CASE j = k
  BY <1>1, <1>5
<1>6. CASE j > k
  <2>1. j - 1 \in 1 .. Len(xs) /\ ys[j] = xs[j - 1] /\ j - 1 >= k
    BY <1>1, <1>6
  <2>2. CASE i = k
    BY <1>1, <2>1, <2>2
  <2>3. CASE i < k
    <3>1. i < j - 1 /\ i \in 1 .. Len(xs) /\ ys[i] = xs[i]
      BY <1>1, <1>6, <2>3
    <3> QED BY <1>3, <2>1, <3>1 DEF Sorted
  <2>4. CASE i > k
    <3>1. i - 1 < j - 1 /\ i - 1 \in 1 .. Len(xs) /\ ys[i] = xs[i - 1]
      BY <1>1, <2>4
    <3> QED BY <1>3, <2>1, <3>1 DEF Sorted
  <2> QED BY <1>1, <2>2, <2>3, <2>4
<1> QED BY <1>1, <1>4, <1>5, <1>6

LEMMA InsertedOrdered ==
  ASSUME NEW xs \in Seq(Packets), NEW ys \in Seq(Packets), NEW p \in Packets,
         NEW k \in Nat, Inserted(xs, ys, k, p), Ordered(xs),
         \A i \in 1 .. Len(xs) :
           Alike(xs[i], p) => i < k /\ Before(xs[i].src, xs[i].n, p.src, p.n)
  PROVE  Ordered(ys)
<1>1. /\ k \in 1 .. Len(ys) /\ ys[k] = p
      /\ \A j \in 1 .. Len(ys) :
           /\ j < k => j \in 1 .. Len(xs) /\ ys[j] = xs[j]
           /\ j > k => j - 1 \in 1 .. Len(xs) /\ ys[j] = xs[j - 1]
  BY InsertedIs
<1>3. DOMAIN xs = 1 .. Len(xs) /\ DOMAIN ys = 1 .. Len(ys)
      /\ Len(xs) \in Nat /\ Len(ys) \in Nat
  OBVIOUS
<1> SUFFICES ASSUME NEW i \in 1 .. Len(ys), NEW j \in 1 .. Len(ys), i < j,
                    Alike(ys[i], ys[j])
             PROVE  Before(ys[i].src, ys[i].n, ys[j].src, ys[j].n)
  BY <1>3 DEF Ordered, Alike
<1>4. CASE j < k
  BY <1>1, <1>3, <1>4 DEF Ordered, Alike
<1>5. CASE j = k
  BY <1>1, <1>5
<1>6. CASE j > k
  <2>1. j - 1 \in 1 .. Len(xs) /\ ys[j] = xs[j - 1] /\ j - 1 >= k
    BY <1>1, <1>6
  <2>2. CASE i = k
    <3>1. Alike(xs[j - 1], p)
      BY <1>1, <2>1, <2>2 DEF Alike
    <3> QED BY <1>1, <2>1, <3>1
  <2>3. CASE i < k
    <3>1. i < j - 1 /\ i \in 1 .. Len(xs) /\ ys[i] = xs[i]
      BY <1>1, <1>6, <2>3
    <3> QED BY <1>3, <2>1, <3>1 DEF Ordered, Alike
  <2>4. CASE i > k
    <3>1. i - 1 < j - 1 /\ i - 1 \in 1 .. Len(xs) /\ ys[i] = xs[i - 1]
      BY <1>1, <2>4
    <3> QED BY <1>3, <2>1, <3>1 DEF Ordered, Alike
  <2> QED BY <1>1, <2>2, <2>3, <2>4
<1> QED BY <1>1, <1>4, <1>5, <1>6

(* Where a packet later than all of its kind goes.                         *)
LEMMA InsertIs ==
  ASSUME NEW ps \in Seq(Packets), NEW p \in Packets, Sorted(ps),
         \A i \in 1 .. Len(ps) : Alike(ps[i], p) =>
           /\ Before(ps[i].src, ps[i].n, p.src, p.n)
           /\ ps[i].dts <= p.dts /\ (IsVideo(p) => ps[i].dts < p.dts)
  PROVE  /\ Insert(ps, p) \in Seq(Packets) /\ Sorted(Insert(ps, p))
         /\ \E k \in Nat :
              /\ Inserted(ps, Insert(ps, p), k, p)
              /\ \A i \in 1 .. Len(ps) : Alike(ps[i], p) => i < k
<1> DEFINE later == {i \in DOMAIN ps : \/ p.dts < ps[i].dts
                                       \/ p.dts = ps[i].dts /\ IsVideo(p)}
           k == IF later = {} THEN Len(ps) + 1 ELSE Min(later)
<1>1. Len(ps) \in Nat /\ DOMAIN ps = 1 .. Len(ps)
  OBVIOUS
<1>2. p.dts \in Int /\ \A i \in 1 .. Len(ps) : ps[i].dts \in Int
  BY PacketIs
<1>3. Insert(ps, p) = InsertAt(ps, k, p)
  BY DEF Insert
<1>4. later # {} => k \in later /\ \A i \in later : k <= i
  <2>1. later \subseteq Nat
    BY <1>1
  <2>2. later # {} => Min(later) \in later /\ \A i \in later : Min(later) <= i
    <3> HIDE DEF later
    <3> QED BY <2>1, MinIs
  <2> QED BY <2>2
<1>5. k \in 1 .. Len(ps) + 1 /\ k \in Nat
      /\ \A i \in 1 .. Len(ps) : i < k => i \notin later
  <2>1. later \subseteq 1 .. Len(ps)
    BY <1>1
  <2>2. later = {} => k = Len(ps) + 1
    OBVIOUS
  <2> HIDE DEF k, later
  <2>3. CASE later = {}
    BY <1>1, <2>2, <2>3
  <2>4. CASE later # {}
    <3>1. k \in 1 .. Len(ps) /\ \A i \in later : k <= i
      BY <1>4, <2>1, <2>4
    <3> QED BY <1>1, <3>1
  <2> QED BY <2>3, <2>4
<1>6. \A i \in 1 .. Len(ps) : i \in later <=> \/ p.dts < ps[i].dts
                                              \/ p.dts = ps[i].dts /\ IsVideo(p)
  BY <1>1
<1>7. k <= Len(ps) => k \in later
  BY <1>1, <1>4
<1> HIDE DEF k, later
<1>8. Insert(ps, p) \in Seq(Packets) /\ Inserted(ps, Insert(ps, p), k, p)
  BY <1>3, <1>5, InsertAtIs
<1>9. ASSUME NEW i \in 1 .. Len(ps)
      PROVE  /\ i < k => ps[i].dts <= p.dts
             /\ i >= k => p.dts <= ps[i].dts
             /\ i >= k => ~Alike(ps[i], p)
  <2>1. i < k => ps[i].dts <= p.dts
    BY <1>2, <1>5, <1>6
  <2>2. ASSUME i >= k
        PROVE  p.dts <= ps[i].dts /\ (p.dts < ps[i].dts \/ IsVideo(p))
    <3>1. k \in 1 .. Len(ps) /\ k \in later
      BY <1>1, <1>5, <1>7, <2>2
    <3>2. ps[k].dts <= ps[i].dts
      <4>1. CASE k = i
        BY <1>2, <4>1
      <4>2. CASE k < i
        BY <1>1, <3>1, <4>2 DEF Sorted
      <4> QED BY <1>5, <2>2, <4>1, <4>2
    <3> QED BY <1>2, <1>6, <3>1, <3>2
  <2>3. ASSUME i >= k, Alike(ps[i], p) PROVE FALSE
    BY <1>2, <2>2, <2>3
  <2> QED BY <1>5, <2>1, <2>2, <2>3
<1>10. Sorted(Insert(ps, p))
  BY <1>5, <1>8, <1>9, InsertedSorted
<1> QED BY <1>5, <1>8, <1>9, <1>10

-----------------------------------------------------------------------------
(* The packets of an encoder in a queue.                                   *)

LEMMA RangeIs ==
  ASSUME NEW ps \in Seq(Packets)
  PROVE  /\ Range(ps) \subseteq Packets
         /\ DOMAIN ps = 1 .. Len(ps) /\ Len(ps) \in Nat
         /\ \A i \in 1 .. Len(ps) : ps[i] \in Packets /\ ps[i] \in Range(ps)
         /\ \A p \in Range(ps) : \E i \in 1 .. Len(ps) : p = ps[i]
<1>1. DOMAIN ps = 1 .. Len(ps) /\ Len(ps) \in Nat
      /\ \A i \in 1 .. Len(ps) : ps[i] \in Packets
  OBVIOUS
<1> QED BY <1>1 DEF Range

LEMMA FirstIs ==
  ASSUME NEW ps \in Seq(Packets), NEW s, At(ps, s) # {}
  PROVE  /\ Min(At(ps, s)) \in 1 .. Len(ps) /\ ps[Min(At(ps, s))].src = s
         /\ First(ps, s) = ps[Min(At(ps, s))] /\ First(ps, s) \in Packets
         /\ First(ps, s) \in Range(ps) /\ First(ps, s).src = s
         /\ \A i \in 1 .. Len(ps) : ps[i].src = s => Min(At(ps, s)) <= i
<1>1. DOMAIN ps = 1 .. Len(ps)
      /\ \A i \in 1 .. Len(ps) : ps[i] \in Packets /\ ps[i] \in Range(ps)
  BY RangeIs
<1>2. At(ps, s) \subseteq Nat
  BY <1>1 DEF At
<1>3. Min(At(ps, s)) \in At(ps, s) /\ \A i \in At(ps, s) : Min(At(ps, s)) <= i
  BY <1>2, MinIs
<1> QED BY <1>1, <1>3 DEF At, First

LEMMA LatestIs ==
  ASSUME NEW ps \in Seq(Packets), NEW s, At(ps, s) # {}
  PROVE  /\ Max(At(ps, s)) \in 1 .. Len(ps) /\ ps[Max(At(ps, s))].src = s
         /\ Latest(ps, s) = ps[Max(At(ps, s))] /\ Latest(ps, s) \in Packets
         /\ Latest(ps, s) \in Range(ps) /\ Latest(ps, s).src = s
         /\ \A i \in 1 .. Len(ps) : ps[i].src = s => i <= Max(At(ps, s))
<1>1. DOMAIN ps = 1 .. Len(ps) /\ Len(ps) \in Nat
      /\ \A i \in 1 .. Len(ps) : ps[i] \in Packets /\ ps[i] \in Range(ps)
  BY RangeIs
<1>2. At(ps, s) \subseteq 0 .. Len(ps)
  BY <1>1 DEF At
<1>3. Max(At(ps, s)) \in At(ps, s) /\ \A i \in At(ps, s) : i <= Max(At(ps, s))
  BY <1>1, <1>2, MaxIs
<1> QED BY <1>1, <1>3 DEF At, Latest

LEMMA PlaceInOrder ==
  ASSUME NEW ps \in Seq(Packets), Ordered(ps),
         NEW i \in 1 .. Len(ps), NEW j \in 1 .. Len(ps)
  PROVE  /\ Before(ps[i].src, ps[i].n, ps[j].src, ps[j].n) => i < j
         /\ i < j /\ Alike(ps[i], ps[j]) =>
              Before(ps[i].src, ps[i].n, ps[j].src, ps[j].n)
<1>1. ps[i] \in Packets /\ ps[j] \in Packets /\ DOMAIN ps = 1 .. Len(ps)
      /\ i \in Nat /\ j \in Nat
  BY RangeIs
<1>2. /\ ps[i].src \in Sources /\ ps[i].n \in Nat
      /\ ps[j].src \in Sources /\ ps[j].n \in Nat
  BY <1>1, PacketIs
<1>3. i < j /\ Alike(ps[i], ps[j]) => Before(ps[i].src, ps[i].n, ps[j].src, ps[j].n)
  BY <1>1 DEF Ordered, Alike
<1>4. j < i /\ Alike(ps[j], ps[i]) => Before(ps[j].src, ps[j].n, ps[i].src, ps[i].n)
  BY <1>1 DEF Ordered, Alike
<1>5. ASSUME Before(ps[i].src, ps[i].n, ps[j].src, ps[j].n) PROVE i < j
  <2>1. Alike(ps[j], ps[i])
    BY <1>5 DEF Before, Alike
  <2>2. ~Before(ps[j].src, ps[j].n, ps[i].src, ps[i].n)
    BY <1>2, <1>5, BeforeFacts
  <2>3. i # j
    BY <1>2, <1>5, BeforeFacts
  <2> QED BY <1>1, <1>4, <2>1, <2>2, <2>3
<1> QED BY <1>3, <1>5

(* The numbers of one encoder's packets.                                   *)
LEMMA NumbersInOrder ==
  ASSUME NEW ps \in Seq(Packets), Ordered(ps), NEW i \in 1 .. Len(ps),
         NEW j \in 1 .. Len(ps), ps[i].src = ps[j].src
  PROVE  (i < j <=> ps[i].n < ps[j].n) /\ (i = j <=> ps[i].n = ps[j].n)
<1>1. /\ ps[i].src \in Int /\ ps[i].n \in Nat /\ i \in Nat
      /\ ps[j].src \in Int /\ ps[j].n \in Nat /\ j \in Nat
  <2>1. ps[i] \in Packets /\ ps[j] \in Packets
    BY RangeIs
  <2>2. /\ ps[i].src \in Sources /\ ps[i].n \in Nat
        /\ ps[j].src \in Sources /\ ps[j].n \in Nat
    BY <2>1, PacketIs
  <2>3. \A t \in Sources : t \in Int
    BY SourcesAre
  <2>4. i \in Nat /\ j \in Nat
    BY RangeIs
  <2> QED BY <2>2, <2>3, <2>4
<1>2. Alike(ps[i], ps[j]) /\ Alike(ps[j], ps[i])
  BY DEF Alike
<1>3. i < j => ps[i].n < ps[j].n
  <2>1. i < j => Before(ps[i].src, ps[i].n, ps[j].src, ps[j].n)
    BY <1>2, PlaceInOrder
  <2> QED BY <1>1, <2>1 DEF Before
<1>4. j < i => ps[j].n < ps[i].n
  <2>1. j < i => Before(ps[j].src, ps[j].n, ps[i].src, ps[i].n)
    BY <1>2, PlaceInOrder
  <2> QED BY <1>1, <2>1 DEF Before
<1> QED BY <1>1, <1>3, <1>4

LEMMA HeldDiscard ==
  ASSUME NEW f, NEW nx, NEW ps \in Seq(Packets), NEW k \in Nat, Held(f, ps, ps, nx)
  PROVE  LET qs == Discard(ps, k) IN qs \in Seq(Packets) /\ Held(f, qs, qs, nx)
<1> DEFINE qs == Discard(ps, k)
<1>1. /\ qs \in Seq(Packets)
      /\ Len(qs) = (IF k <= Len(ps) THEN Len(ps) - k ELSE 0)
      /\ \A i \in 1 .. Len(qs) : i + k \in 1 .. Len(ps) /\ qs[i] = ps[i + k]
  BY DiscardIs
<1> HIDE DEF qs
<1>2. DOMAIN ps = 1 .. Len(ps) /\ DOMAIN qs = 1 .. Len(qs)
      /\ Len(ps) \in Nat /\ Len(qs) \in Nat
  BY <1>1
<1>3. InRounds(f) /\ Stamped(f, ps) /\ Sorted(ps) /\ Ordered(ps)
      /\ Came(Range(ps), nx) /\ Complete(Range(ps), nx)
  BY DEF Held
<1>4. Range(qs) \subseteq Range(ps)
  <2> SUFFICES ASSUME NEW p \in Range(qs) PROVE p \in Range(ps)
    OBVIOUS
  <2>1. PICK i \in 1 .. Len(qs) : p = qs[i]
    BY <1>1, RangeIs
  <2>2. i + k \in 1 .. Len(ps) /\ p = ps[i + k]
    BY <1>1, <2>1
  <2> QED BY <2>2, RangeIs
<1>5. Stamped(f, qs) /\ Came(Range(qs), nx)
  BY <1>3, <1>4 DEF Stamped, Came
<1>6. ASSUME NEW i \in 1 .. Len(qs), NEW j \in 1 .. Len(qs), i < j
      PROVE  /\ i + k \in DOMAIN ps /\ j + k \in DOMAIN ps /\ i + k < j + k
             /\ qs[i] = ps[i + k] /\ qs[j] = ps[j + k]
  <2>1. i \in Nat /\ j \in Nat
    BY <1>2
  <2>2. i + k < j + k
    BY <1>6, <2>1
  <2> QED BY <1>1, <1>2, <2>2
<1>7. Sorted(qs)
  BY <1>2, <1>3, <1>6 DEF Sorted
<1>8. Ordered(qs)
  <2> SUFFICES ASSUME NEW i \in 1 .. Len(qs), NEW j \in 1 .. Len(qs), i < j,
                      qs[i].src = Video <=> qs[j].src = Video
               PROVE  Before(qs[i].src, qs[i].n, qs[j].src, qs[j].n)
    BY <1>2 DEF Ordered
  <2>1. /\ i + k \in DOMAIN ps /\ j + k \in DOMAIN ps /\ i + k < j + k
        /\ qs[i] = ps[i + k] /\ qs[j] = ps[j + k]
    BY <1>6
  <2>2. Before(ps[i + k].src, ps[i + k].n, ps[j + k].src, ps[j + k].n)
    BY <1>3, <2>1 DEF Ordered
  <2> QED BY <2>1, <2>2
<1>9. ASSUME NEW p \in Range(qs), NEW s \in Sources, NEW n \in Nat,
             n < nx[s], Before(p.src, p.n, s, n)
      PROVE  \E q \in Range(qs) : q.src = s /\ q.n = n
  <2>1. PICK i \in 1 .. Len(qs) : p = qs[i]
    BY <1>1, RangeIs
  <2>2. PICK q \in Range(ps) : q.src = s /\ q.n = n
    BY <1>3, <1>4, <1>9 DEF Complete
  <2>3. PICK j \in 1 .. Len(ps) : q = ps[j]
    BY RangeIs
  <2>4. i + k \in 1 .. Len(ps) /\ p = ps[i + k]
    BY <1>1, <2>1
  <2>5. i + k < j
    BY <1>3, <1>9, <2>2, <2>3, <2>4, PlaceInOrder
  <2>6. j - k \in 1 .. Len(qs) /\ (j - k) + k = j
    <3>1. i \in Nat /\ i >= 1 /\ j \in Nat /\ j <= Len(ps)
      BY <1>2
    <3>2. Len(qs) = Len(ps) - k
      <4>1. k <= Len(ps)
        BY <1>2, <2>5, <3>1
      <4> QED BY <1>1, <4>1
    <3> QED BY <1>2, <2>5, <3>1, <3>2
  <2>7. q = qs[j - k]
    BY <1>1, <2>3, <2>6
  <2> QED BY <1>1, <2>2, <2>6, <2>7, RangeIs
<1>10. Complete(Range(qs), nx)
  BY <1>9 DEF Complete
<1>11. Held(f, qs, qs, nx)
  BY <1>3, <1>5, <1>7, <1>8, <1>10 DEF Held
<1> QED BY <1>1, <1>11 DEF qs

-----------------------------------------------------------------------------
(* A packet that comes.                                                    *)

(* The next packet of s comes after all of its kind that have come.        *)
Fresh(s, nx) ==
  \A t \in Sources : \A n \in Nat :
    (s = Video <=> t = Video) /\ n < nx[t] => Before(t, n, s, nx[s])

Adds(P, p, Q) == Q = P \cup {p}

AllFresh(nx) == \A s \in Sources : Fresh(s, nx)

(* The packet p is the next of s, by the offsets f.                        *)
ComesNext(p, s, f, nx) ==
  s \in Sources /\ p \in Packets /\ p.src = s /\ p.n = nx[s]
  /\ p.dts = Stamp(f, s, nx[s])

(* What has come when it has.                                              *)
Advances(nx, ny, s) ==
  /\ ny \in [Sources -> Nat] /\ ny[s] = nx[s] + 1
  /\ \A t \in Sources : t # s => ny[t] = nx[t]

LEMMA HeldArrive ==
  ASSUME NEW f \in [Sources -> Int], NEW nx \in [Sources -> Nat],
         NEW st \in Seq(Packets), NEW ps \in Seq(Packets),
         Held(f, st \o ps, ps, nx),
         NEW s, NEW p, AllFresh(nx), ComesNext(p, s, f, nx),
         NEW ny, Advances(nx, ny, s)
  PROVE  LET qs == Insert(ps, p)
         IN  /\ qs \in Seq(Packets) /\ Len(qs) = Len(ps) + 1
             /\ Held(f, st \o qs, qs, ny)
             /\ Adds(Range(ps), p, Range(qs))
             /\ Adds(Range(st \o ps), p, Range(st \o qs))
<1> DEFINE qs == Insert(ps, p)
           a == st \o ps
           b == st \o qs
<1>1. InRounds(f) /\ Stamped(f, a) /\ Sorted(ps) /\ Ordered(a)
      /\ Came(Range(a), nx) /\ Complete(Range(a), nx)
  BY DEF Held
<1>0. p \in Packets /\ Fresh(p.src, nx) /\ p.n = nx[p.src]
      /\ p.dts = Stamp(f, p.src, p.n)
  BY DEF ComesNext, AllFresh
<1>2. p.src \in Sources /\ p.n \in Nat /\ p.dts \in Int
  BY <1>0, PacketIs
<1>3. /\ a \in Seq(Packets) /\ Len(a) = Len(st) + Len(ps)
      /\ \A i \in 1 .. Len(ps) : a[Len(st) + i] = ps[i]
      /\ Range(a) = Range(st) \cup Range(ps)
  BY ConcatIs
<1>4. ASSUME NEW x \in Range(a), Alike(x, p)
      PROVE  /\ Before(x.src, x.n, p.src, p.n)
             /\ x.dts <= p.dts /\ (IsVideo(p) => x.dts < p.dts)
  <2>1. x \in Packets /\ x.src \in Sources /\ x.n \in Nat
    BY <1>3, RangeIs, PacketIs
  <2>2. x.n < nx[x.src] /\ x.dts = Stamp(f, x.src, x.n)
    BY <1>1 DEF Came, Stamped
  <2>3. Before(x.src, x.n, p.src, p.n)
    BY <1>0, <1>2, <1>4, <2>1, <2>2 DEF Fresh, Alike
  <2>4. IsVideo(p) => x.src = Video
    BY <1>4 DEF Alike, IsVideo
  <2> QED BY <1>0, <1>1, <1>2, <2>1, <2>2, <2>3, <2>4, StampOrder
<1>5. \A i \in 1 .. Len(ps) : ps[i] \in Range(a)
  BY <1>3, RangeIs
<1>6. /\ qs \in Seq(Packets) /\ Sorted(qs)
      /\ \E k \in Nat : /\ Inserted(ps, qs, k, p)
                        /\ \A i \in 1 .. Len(ps) : Alike(ps[i], p) => i < k
  BY <1>0, <1>1, <1>4, <1>5, InsertIs
<1> HIDE DEF qs
<1>7. PICK k \in Nat : /\ Inserted(ps, qs, k, p)
                       /\ \A i \in 1 .. Len(ps) : Alike(ps[i], p) => i < k
  BY <1>6
<1>8. Range(qs) = Range(ps) \cup {p} /\ Len(qs) = Len(ps) + 1
  <2>1. Range(qs) = Range(ps) \cup {p}
    BY <1>0, <1>6, <1>7, InsertedIs
  <2> QED BY <1>7, <2>1 DEF Inserted
<1>9. b \in Seq(Packets) /\ Range(b) = Range(st) \cup Range(qs)
  BY <1>6, ConcatIs
<1>10. Inserted(a, b, Len(st) + k, p)
  BY <1>0, <1>6, <1>7, InsertedBehind
<1>11. Ordered(b)
  <2>1. Len(st) \in Nat /\ Len(st) + k \in Nat /\ Len(ps) \in Nat /\ k >= 1
    BY <1>7 DEF Inserted
  <2> HIDE DEF a, b
  <2>2. ASSUME NEW i \in 1 .. Len(a), Alike(a[i], p)
        PROVE  i < Len(st) + k /\ Before(a[i].src, a[i].n, p.src, p.n)
    <3>1. Before(a[i].src, a[i].n, p.src, p.n)
      BY <1>3, <1>4, <2>2, RangeIs
    <3>2. CASE i <= Len(st)
      BY <2>1, <3>1, <3>2
    <3>3. CASE i > Len(st)
      <4>1. i - Len(st) \in 1 .. Len(ps) /\ Len(st) + (i - Len(st)) = i
        BY <1>3, <2>1, <3>3
      <4>2. a[i] = ps[i - Len(st)]
        BY <1>3, <4>1
      <4>3. i - Len(st) < k
        BY <1>7, <2>2, <4>1, <4>2
      <4> QED BY <2>1, <3>1, <4>1, <4>3
    <3> QED BY <2>1, <3>2, <3>3
  <2> QED BY <1>1, <1>3, <1>9, <1>10, <2>1, <2>2, <1>0, InsertedOrdered
<1>12. Range(b) = Range(a) \cup {p}
  BY <1>3, <1>8, <1>9
<1> HIDE DEF a, b
<1>13. ny \in [Sources -> Nat] /\ ny[p.src] = p.n + 1
       /\ \A t \in Sources : t # p.src => ny[t] = nx[t]
  BY DEF Advances, ComesNext
<1>14. Stamped(f, b)
  BY <1>0, <1>1, <1>12 DEF Stamped
<1>15. Came(Range(b), ny)
  <2> SUFFICES ASSUME NEW x \in Range(b) PROVE x.n < ny[x.src]
    BY DEF Came
  <2>1. x.src \in Sources /\ x.n \in Nat
    BY <1>9, RangeIs, PacketIs
  <2>2. CASE x = p
    BY <1>0, <1>2, <1>13, <2>2
  <2>3. CASE x \in Range(a)
    <3>1. x.n < nx[x.src]
      BY <1>1, <2>3 DEF Came
    <3>2. nx[x.src] \in Nat
      BY <2>1
    <3>3. CASE x.src = p.src
      BY <1>0, <1>2, <1>13, <2>1, <3>1, <3>2, <3>3
    <3>4. CASE x.src # p.src
      BY <1>13, <2>1, <3>1, <3>4
    <3> QED BY <3>3, <3>4
  <2> QED BY <1>12, <2>2, <2>3
<1>16. Complete(Range(b), ny)
  <2> SUFFICES ASSUME NEW x \in Range(b), NEW t \in Sources, NEW n \in Nat,
                      n < ny[t], Before(x.src, x.n, t, n)
               PROVE  \E q \in Range(b) : q.src = t /\ q.n = n
    BY DEF Complete
  <2>1. CASE t = p.src /\ n = p.n
    BY <1>12, <2>1
  <2>2. CASE ~(t = p.src /\ n = p.n)
    <3>1. n < nx[t]
      BY <1>0, <1>2, <1>13, <2>2
    <3>2. x # p
      <4> SUFFICES ASSUME x = p PROVE FALSE
        OBVIOUS
      <4>1. p.src = Video <=> t = Video
        BY DEF Before
      <4>2. Before(t, n, p.src, p.n)
        BY <1>0, <3>1, <4>1 DEF Fresh
      <4> QED BY <1>2, <4>2, BeforeFacts
    <3> QED BY <1>1, <1>12, <3>1, <3>2 DEF Complete
  <2> QED BY <2>1, <2>2
<1>17. Held(f, b, qs, ny)
  BY <1>1, <1>6, <1>11, <1>14, <1>15, <1>16 DEF Held
<1> QED BY <1>6, <1>8, <1>12, <1>17 DEF Adds, a, b, qs

-----------------------------------------------------------------------------
(* Sorting a queue whose packets of one kind are in order.                 *)

(* g[k] is what inserting the first k packets of ps gives, up to n.        *)
Sorts(ps, g, n) ==
  g = [k \in 0 .. n |-> IF k = 0 THEN <<>> ELSE Insert(g[k - 1], ps[k])]

LEMMA SortExists ==
  ASSUME NEW ps, NEW n \in Nat
  PROVE  \E g : Sorts(ps, g, n)
<1> DEFINE T == {m \in Nat : \E g : Sorts(ps, g, m)}
<1>1. 0 \in T
  <2> DEFINE g == [k \in 0 .. 0 |-> <<>>]
  <2>1. g = [k \in 0 .. 0 |-> IF k = 0 THEN <<>> ELSE Insert(g[k - 1], ps[k])]
    OBVIOUS
  <2> HIDE DEF g
  <2>2. Sorts(ps, g, 0)
    BY <2>1 DEF Sorts
  <2> QED BY <2>2
<1>2. ASSUME NEW m \in Nat, m \in T PROVE m + 1 \in T
  <2>1. PICK g : Sorts(ps, g, m)
    BY <1>2
  <2> DEFINE h == [k \in 0 .. m + 1 |-> IF k = m + 1 THEN Insert(g[m], ps[m + 1]) ELSE g[k]]
  <2>2. /\ h[m + 1] = Insert(g[m], ps[m + 1])
        /\ \A k \in 0 .. m : h[k] = g[k]
    OBVIOUS
  <2>3. \A k \in 0 .. m : g[k] = IF k = 0 THEN <<>> ELSE Insert(g[k - 1], ps[k])
    <3> DEFINE u == [k \in 0 .. m |-> IF k = 0 THEN <<>> ELSE Insert(g[k - 1], ps[k])]
    <3>1. \A k \in 0 .. m : u[k] = IF k = 0 THEN <<>> ELSE Insert(g[k - 1], ps[k])
      OBVIOUS
    <3>2. g = u
      BY <2>1 DEF Sorts
    <3> HIDE DEF u
    <3> QED BY <3>1, <3>2
  <2> DEFINE w == [k \in 0 .. m + 1 |-> IF k = 0 THEN <<>> ELSE Insert(h[k - 1], ps[k])]
  <2>4. \A k \in 0 .. m + 1 : h[k] = w[k]
    <3> SUFFICES ASSUME NEW k \in 0 .. m + 1
                 PROVE  h[k] = IF k = 0 THEN <<>> ELSE Insert(h[k - 1], ps[k])
      OBVIOUS
    <3> HIDE DEF h
    <3>1. CASE k = m + 1
      <4>1. h[k - 1] = g[m] /\ k # 0
        BY <2>2, <3>1
      <4> QED BY <2>2, <3>1, <4>1
    <3>2. CASE k # m + 1
      <4>1. k \in 0 .. m /\ (k # 0 => k - 1 \in 0 .. m)
        BY <3>2
      <4>2. h[k] = g[k] /\ (k # 0 => h[k - 1] = g[k - 1])
        BY <2>2, <4>1
      <4> QED BY <2>3, <4>1, <4>2
    <3> QED BY <3>1, <3>2
  <2>5. h = w
    <3>1. DOMAIN h = DOMAIN w /\ h = [k \in DOMAIN h |-> h[k]]
          /\ w = [k \in DOMAIN w |-> w[k]]
          /\ DOMAIN h = 0 .. m + 1
      OBVIOUS
    <3> HIDE DEF h, w
    <3> QED BY <2>4, <3>1
  <2>6. Sorts(ps, h, m + 1)
    BY <2>5 DEF Sorts
  <2> QED BY <2>6
<1> HIDE DEF T
<1>3. n \in T
  BY <1>1, <1>2, SetInduction
<1> QED BY <1>3 DEF T

LEMMA SortsTo ==
  ASSUME NEW ps, Len(ps) \in Nat
  PROVE  \E g : Sorts(ps, g, Len(ps)) /\ Resort(ps) = g[Len(ps)]
<1> DEFINE Def(g) ==
      g = [k \in 0 .. Len(ps) |-> IF k = 0 THEN <<>> ELSE Insert(g[k - 1], ps[k])]
<1>1. \E g : Def(g)
  BY SortExists DEF Sorts
<1>2. Def(CHOOSE g : Def(g))
  BY <1>1
<1>3. Resort(ps) = (CHOOSE g : Def(g))[Len(ps)]
  BY DEF Resort
<1> QED BY <1>2, <1>3 DEF Sorts

(* The packets of ps up to k.                                              *)
UpTo(ps, k) == {ps[i] : i \in 1 .. k}

LEMMA ResortIs ==
  ASSUME NEW ps \in Seq(Packets), Ordered(ps),
         \A i, j \in 1 .. Len(ps) : i < j /\ Alike(ps[i], ps[j]) =>
           ps[i].dts <= ps[j].dts /\ (IsVideo(ps[j]) => ps[i].dts < ps[j].dts)
  PROVE  LET qs == Resort(ps)
         IN  qs \in Seq(Packets) /\ Sorted(qs) /\ Ordered(qs) /\ Range(qs) = Range(ps)
<1>0. Len(ps) \in Nat /\ \A i \in 1 .. Len(ps) : ps[i] \in Packets
  BY RangeIs
<1>1. PICK g : Sorts(ps, g, Len(ps)) /\ Resort(ps) = g[Len(ps)]
  BY <1>0, SortsTo
<1>2. \A k \in 0 .. Len(ps) : g[k] = IF k = 0 THEN <<>> ELSE Insert(g[k - 1], ps[k])
  <2> DEFINE u == [k \in 0 .. Len(ps) |-> IF k = 0 THEN <<>> ELSE Insert(g[k - 1], ps[k])]
  <2>1. \A k \in 0 .. Len(ps) : u[k] = IF k = 0 THEN <<>> ELSE Insert(g[k - 1], ps[k])
    OBVIOUS
  <2>2. g = u
    BY <1>1 DEF Sorts
  <2> HIDE DEF u
  <2> QED BY <2>1, <2>2
<1> DEFINE Fine(k) == /\ g[k] \in Seq(Packets) /\ Sorted(g[k]) /\ Ordered(g[k])
                      /\ Range(g[k]) = UpTo(ps, k)
           T == {k \in Nat : k <= Len(ps) => Fine(k)}
<1>3. 0 \in T
  <2>1. g[0] = <<>>
    BY <1>0, <1>2
  <2>2. <<>> \in Seq(Packets) /\ DOMAIN <<>> = {}
    OBVIOUS
  <2>3. Sorted(<<>>) /\ Ordered(<<>>) /\ Range(<<>>) = {}
    BY <2>2 DEF Sorted, Ordered, Range
  <2>4. UpTo(ps, 0) = {}
    BY DEF UpTo
  <2> QED BY <2>1, <2>2, <2>3, <2>4
<1>4. ASSUME NEW k \in Nat, k \in T PROVE k + 1 \in T
  <2> SUFFICES ASSUME k + 1 <= Len(ps) PROVE Fine(k + 1)
    OBVIOUS
  <2> DEFINE xs == g[k]
             p  == ps[k + 1]
             ys == Insert(xs, p)
  <2>1. k + 1 \in 1 .. Len(ps) /\ p \in Packets /\ p.src \in Sources /\ p.n \in Nat
    BY <1>0, PacketIs
  <2>2. xs \in Seq(Packets) /\ Sorted(xs) /\ Ordered(xs) /\ Range(xs) = UpTo(ps, k)
    BY <1>0, <1>4
  <2>3. g[k + 1] = ys
    <3>1. k + 1 \in 0 .. Len(ps) /\ k + 1 # 0 /\ (k + 1) - 1 = k
      BY <1>0
    <3> QED BY <1>2, <3>1
  <2> HIDE DEF xs, p
  <2>4. ASSUME NEW i \in 1 .. Len(xs), Alike(xs[i], p)
        PROVE  /\ Before(xs[i].src, xs[i].n, p.src, p.n)
               /\ xs[i].dts <= p.dts /\ (IsVideo(p) => xs[i].dts < p.dts)
    <3>1. xs[i] \in UpTo(ps, k)
      BY <2>2, RangeIs
    <3>2. PICK j \in 1 .. k : xs[i] = ps[j]
      BY <3>1 DEF UpTo
    <3>3. j \in 1 .. Len(ps) /\ j < k + 1
      BY <1>0, <2>1
    <3>4. Alike(ps[j], ps[k + 1])
      BY <2>4, <3>2 DEF p
    <3>5. Before(ps[j].src, ps[j].n, ps[k + 1].src, ps[k + 1].n)
      BY <2>1, <3>3, <3>4, PlaceInOrder
    <3>6. ps[j].dts <= ps[k + 1].dts
          /\ (IsVideo(ps[k + 1]) => ps[j].dts < ps[k + 1].dts)
      BY <2>1, <3>3, <3>4
    <3> QED BY <3>2, <3>5, <3>6 DEF p
  <2>5. /\ ys \in Seq(Packets) /\ Sorted(ys)
        /\ \E l \in Nat : /\ Inserted(xs, ys, l, p)
                          /\ \A i \in 1 .. Len(xs) : Alike(xs[i], p) => i < l
    BY <2>1, <2>2, <2>4, InsertIs
  <2> HIDE DEF ys
  <2>6. PICK l \in Nat : /\ Inserted(xs, ys, l, p)
                         /\ \A i \in 1 .. Len(xs) : Alike(xs[i], p) => i < l
    BY <2>5
  <2>7. Ordered(ys)
    BY <2>1, <2>2, <2>4, <2>5, <2>6, InsertedOrdered
  <2>8. Range(ys) = UpTo(ps, k) \cup {p}
    BY <2>1, <2>2, <2>5, <2>6, InsertedIs
  <2>9. UpTo(ps, k + 1) = UpTo(ps, k) \cup {ps[k + 1]}
    <3>1. 1 .. k + 1 = (1 .. k) \cup {k + 1}
      OBVIOUS
    <3> QED BY <3>1 DEF UpTo
  <2> QED BY <2>3, <2>5, <2>7, <2>8, <2>9 DEF p
<1> HIDE DEF T
<1>5. Len(ps) \in T
  BY <1>0, <1>3, <1>4, SetInduction
<1>6. Fine(Len(ps))
  BY <1>0, <1>5 DEF T
<1>7. Range(ps) = UpTo(ps, Len(ps))
  BY <1>0 DEF Range, UpTo
<1> QED BY <1>1, <1>6, <1>7

-----------------------------------------------------------------------------
(* Cutting the front of a queue that has not started.                      *)

(* What came after a packet of the queue is in the queue, behind it.       *)
LEMMA ThereIs ==
  ASSUME NEW f, NEW nx, NEW ps \in Seq(Packets), Held(f, ps, ps, nx),
         NEW i \in 1 .. Len(ps), NEW s \in Sources, NEW n \in Nat, n < nx[s],
         Before(ps[i].src, ps[i].n, s, n)
  PROVE  \E j \in 1 .. Len(ps) : i < j /\ ps[j].src = s /\ ps[j].n = n
<1>1. Ordered(ps) /\ Complete(Range(ps), nx)
  BY DEF Held
<1>2. PICK q \in Range(ps) : q.src = s /\ q.n = n
  BY <1>1, RangeIs DEF Complete
<1>3. PICK j \in 1 .. Len(ps) : q = ps[j]
  BY RangeIs
<1> QED BY <1>1, <1>2, <1>3, PlaceInOrder

LEMMA EntryIs ==
  ASSUME NEW f, NEW nx, NEW ps \in Seq(Packets), Held(f, ps, ps, nx),
         NEW i \in 1 .. Len(ps)
  PROVE  /\ ps[i] \in Packets /\ ps[i].src \in Sources /\ ps[i].n \in Nat
         /\ ps[i].dts \in Int /\ ps[i].n < nx[ps[i].src]
         /\ ps[i].dts = Stamp(f, ps[i].src, ps[i].n) /\ i \in Nat
         /\ \A j \in 1 .. Len(ps) : i <= j => ps[i].dts <= ps[j].dts
<1>1. ps[i] \in Packets /\ ps[i] \in Range(ps) /\ i \in Nat /\ Len(ps) \in Nat
      /\ DOMAIN ps = 1 .. Len(ps)
  BY RangeIs
<1>2. ps[i].src \in Sources /\ ps[i].n \in Nat /\ ps[i].dts \in Int
  BY <1>1, PacketIs
<1>3. ps[i].n < nx[ps[i].src] /\ ps[i].dts = Stamp(f, ps[i].src, ps[i].n)
  BY <1>1 DEF Held, Came, Stamped
<1>4. ASSUME NEW j \in 1 .. Len(ps), i <= j PROVE ps[i].dts <= ps[j].dts
  <2>1. CASE i = j
    BY <1>2, <2>1
  <2>2. CASE i < j
    BY <1>1, <2>2 DEF Held, Sorted
  <2> QED BY <1>1, <1>4, <2>1, <2>2
<1> QED BY <1>1, <1>2, <1>3, <1>4

LEMMA StampNext ==
  ASSUME NEW f \in [Sources -> Int], NEW s \in Sources, NEW n \in Nat
  PROVE  /\ Stamp(f, s, n) \in Int
         /\ Stamp(f, s, n + 1) = Stamp(f, s, n) + Period(s)
<1>1. Clock(s, n) \in Nat /\ Clock(s, n + 1) = Clock(s, n) + Period(s)
      /\ Period(s) \in Nat
  BY ClockIs
<1>2. f[s] \in Int
  OBVIOUS
<1> QED BY <1>1, <1>2 DEF Stamp

LEMMA FirstsInRounds ==
  ASSUME NEW f, NEW nx \in [Sources -> Nat], NEW ps \in Seq(Packets),
         Held(f, ps, ps, nx), NEW s \in Tracks, NEW t \in Tracks, s <= t,
         At(ps, s) # {}, At(ps, t) # {}
  PROVE  /\ First(ps, s).n \in Nat /\ First(ps, t).n \in Nat
         /\ First(ps, t).n <= First(ps, s).n /\ First(ps, s).n <= First(ps, t).n + 1
<1> DEFINE i == Min(At(ps, s))
           j == Min(At(ps, t))
<1>1. /\ i \in 1 .. Len(ps) /\ ps[i].src = s /\ First(ps, s) = ps[i]
      /\ \A k \in 1 .. Len(ps) : ps[k].src = s => i <= k
  BY FirstIs
<1>2. /\ j \in 1 .. Len(ps) /\ ps[j].src = t /\ First(ps, t) = ps[j]
      /\ \A k \in 1 .. Len(ps) : ps[k].src = t => j <= k
  BY FirstIs
<1> HIDE DEF i, j
<1>3. ps[i].n \in Nat /\ ps[j].n \in Nat /\ ps[i].n < nx[s] /\ ps[j].n < nx[t]
  BY <1>1, <1>2, EntryIs
<1>4. s \in Int /\ t \in Int /\ s \in Sources /\ t \in Sources /\ s # Video /\ t # Video
      /\ nx[s] \in Nat /\ nx[t] \in Nat
  BY SourcesAre
<1>5. Ordered(ps)
  BY DEF Held
<1>6. CASE s = t
  <2>1. i <= j /\ j <= i /\ i \in Nat /\ j \in Nat
    BY <1>1, <1>2, <1>6, RangeIs
  <2> QED BY <1>1, <1>2, <1>3, <2>1
<1>7. CASE s < t
  <2>1. ASSUME ps[j].n > ps[i].n PROVE FALSE
    <3>1. Before(ps[i].src, ps[i].n, t, ps[i].n) /\ ps[i].n < nx[t]
      BY <1>1, <1>3, <1>4, <1>7, <2>1 DEF Before
    <3>2. PICK k \in 1 .. Len(ps) : ps[k].src = t /\ ps[k].n = ps[i].n
      BY <1>1, <1>3, <1>4, <3>1, ThereIs, SMTT(30)
    <3>3. k < j
      BY <1>2, <1>5, <2>1, <3>2, NumbersInOrder
    <3> QED BY <1>2, <3>2, <3>3, RangeIs
  <2>2. ASSUME ps[i].n > ps[j].n + 1 PROVE FALSE
    <3> DEFINE n == ps[j].n + 1
    <3>1. n \in Nat /\ Before(ps[j].src, ps[j].n, s, n) /\ n < nx[s] /\ n < ps[i].n
      BY <1>2, <1>3, <1>4, <2>2 DEF Before
    <3> HIDE DEF n
    <3>2. PICK k \in 1 .. Len(ps) : ps[k].src = s /\ ps[k].n = n
      BY <1>2, <1>4, <3>1, ThereIs
    <3>3. k < i
      BY <1>1, <1>5, <3>1, <3>2, NumbersInOrder
    <3> QED BY <1>1, <3>2, <3>3, RangeIs
  <2> QED BY <1>1, <1>2, <1>3, <2>1, <2>2
<1> QED BY <1>4, <1>6, <1>7

(* Firsts after a discard: where the first packet of s was.                *)
LEMMA FirstAfter ==
  ASSUME NEW ps \in Seq(Packets), NEW k \in Nat, NEW s, At(Discard(ps, k), s) # {}
  PROVE  LET j == Min(At(Discard(ps, k), s)) + k
         IN  /\ j \in 1 .. Len(ps) /\ k < j
             /\ First(Discard(ps, k), s) = ps[j] /\ ps[j].src = s
             /\ \A i \in 1 .. Len(ps) : k < i /\ ps[i].src = s => j <= i
<1> DEFINE qs == Discard(ps, k)
           m == Min(At(qs, s))
<1>1. /\ qs \in Seq(Packets)
      /\ Len(qs) = (IF k <= Len(ps) THEN Len(ps) - k ELSE 0)
      /\ \A i \in 1 .. Len(qs) : i + k \in 1 .. Len(ps) /\ qs[i] = ps[i + k]
  BY DiscardIs
<1> HIDE DEF qs
<1>2. /\ m \in 1 .. Len(qs) /\ qs[m].src = s /\ First(qs, s) = qs[m]
      /\ \A i \in 1 .. Len(qs) : qs[i].src = s => m <= i
  BY <1>1, FirstIs DEF qs
<1> HIDE DEF m
<1>3. m + k \in 1 .. Len(ps) /\ qs[m] = ps[m + k] /\ m \in Nat /\ m >= 1
      /\ Len(ps) \in Nat
  BY <1>1, <1>2
<1>4. ASSUME NEW i \in 1 .. Len(ps), k < i, ps[i].src = s PROVE m + k <= i
  <2>1. Len(qs) = Len(ps) - k
    BY <1>1, <1>3, <1>4
  <2>2. i - k \in 1 .. Len(qs) /\ (i - k) + k = i
    BY <1>3, <1>4, <2>1
  <2>3. m <= i - k
    BY <1>1, <1>2, <1>4, <2>2
  <2> QED BY <1>3, <2>2, <2>3
<1> QED BY <1>2, <1>3, <1>4 DEF m, qs

LEMMA FirstKept ==
  ASSUME NEW ps \in Seq(Packets), NEW k \in Nat, NEW s, At(Discard(ps, k), s) # {},
         At(ps, s) # {}, \A i \in 1 .. Len(ps) : ps[i].src = s => k < i
  PROVE  First(Discard(ps, k), s) = First(ps, s)
<1> DEFINE j == Min(At(Discard(ps, k), s)) + k
           m == Min(At(ps, s))
<1>1. /\ j \in 1 .. Len(ps) /\ k < j
      /\ First(Discard(ps, k), s) = ps[j] /\ ps[j].src = s
      /\ \A i \in 1 .. Len(ps) : k < i /\ ps[i].src = s => j <= i
  BY FirstAfter
<1>2. /\ m \in 1 .. Len(ps) /\ ps[m].src = s /\ First(ps, s) = ps[m]
      /\ \A i \in 1 .. Len(ps) : ps[i].src = s => m <= i
  BY FirstIs
<1> HIDE DEF j, m
<1>3. j <= m /\ m <= j
  BY <1>1, <1>2
<1>4. j = m
  BY <1>1, <1>2, <1>3
<1> QED BY <1>1, <1>2, <1>4

(* A track that lost a packet to a discard goes on within a period of the  *)
(* first video that is left.                                               *)
LEMMA FirstAfterLoss ==
  ASSUME NEW f \in [Sources -> Int], NEW nx \in [Sources -> Nat],
         NEW ps \in Seq(Packets), Held(f, ps, ps, nx), NEW k \in Nat,
         NEW t \in Tracks, At(Discard(ps, k), t) # {}, At(Discard(ps, k), Video) # {},
         NEW l \in 1 .. Len(ps), l <= k, ps[l].src = t
  PROVE  First(Discard(ps, k), t).dts <= First(Discard(ps, k), Video).dts + AudioPeriod
<1> DEFINE j == Min(At(Discard(ps, k), t)) + k
           v == Min(At(Discard(ps, k), Video)) + k
<1>1. /\ j \in 1 .. Len(ps) /\ k < j
      /\ First(Discard(ps, k), t) = ps[j] /\ ps[j].src = t
      /\ \A i \in 1 .. Len(ps) : k < i /\ ps[i].src = t => j <= i
  BY FirstAfter
<1>2. v \in 1 .. Len(ps) /\ k < v /\ First(Discard(ps, k), Video) = ps[v]
  BY FirstAfter
<1> HIDE DEF j, v
<1>3. t \in Sources /\ t # Video /\ nx[t] \in Nat /\ t \in Int
  BY SourcesAre
<1>4. /\ ps[j].n \in Nat /\ ps[l].n \in Nat /\ ps[j].n < nx[t]
      /\ ps[j].dts = Stamp(f, t, ps[j].n) /\ j \in Nat /\ l \in Nat /\ v \in Nat
      /\ ps[v].dts \in Int
  BY <1>1, <1>2, EntryIs
<1>5. Ordered(ps)
  BY DEF Held
<1>6. ps[l].n < ps[j].n
  <2>1. l < j
    BY <1>1, <1>4
  <2> QED BY <1>1, <1>5, <2>1, NumbersInOrder
<1> DEFINE n == ps[j].n - 1
<1>7. n \in Nat /\ n + 1 = ps[j].n /\ n < nx[t] /\ ps[l].n <= n
  <2>1. ps[j].n \in Nat /\ ps[l].n \in Nat /\ nx[t] \in Nat /\ ps[j].n < nx[t]
    BY <1>3, <1>4
  <2> QED BY <1>6, <2>1
<1> HIDE DEF n
<1>8. \E i \in 1 .. Len(ps) : ps[i].src = t /\ ps[i].n = n
  <2>1. CASE ps[l].n = n
    BY <2>1
  <2>2. CASE ps[l].n < n
    <3>1. Before(ps[l].src, ps[l].n, t, n)
      BY <1>3, <2>2 DEF Before
    <3> QED BY <1>3, <1>7, <3>1, ThereIs
  <2>3. ps[l].n = n \/ ps[l].n < n
    BY <1>4, <1>7
  <2> QED BY <2>1, <2>2, <2>3
<1>9. PICK i \in 1 .. Len(ps) : ps[i].src = t /\ ps[i].n = n
  BY <1>8
<1>10. i < j
  <2>1. ps[i].n < ps[j].n
    BY <1>4, <1>7, <1>9
  <2>2. i \in 1 .. Len(ps) /\ ps[i].src = ps[j].src
    BY <1>1, <1>9
  <2> QED BY <1>1, <1>5, <2>1, <2>2, NumbersInOrder
<1>11. i <= k /\ i \in Nat
  <2>1. i \in Nat
    BY RangeIs
  <2>2. ~(k < i)
    BY <1>1, <1>4, <1>9, <1>10, <2>1
  <2> QED BY <2>1, <2>2
<1>12. ps[i].dts <= ps[v].dts /\ ps[i].dts = Stamp(f, t, n) /\ ps[i].dts \in Int
  BY <1>2, <1>4, <1>9, <1>11, EntryIs
<1>13. Stamp(f, t, n + 1) = Stamp(f, t, n) + AudioPeriod
  BY <1>3, <1>7, StampNext DEF Period
<1>14. ps[j].dts = ps[i].dts + AudioPeriod
  BY <1>4, <1>7, <1>12, <1>13
<1>15. AudioPeriod \in Nat
  BY SourcesAre
<1> QED BY <1>1, <1>2, <1>4, <1>12, <1>14, <1>15

AllThere(ps) == \A s \in Sources : At(ps, s) # {}

LEMMA LackingIs ==
  ASSUME NEW ps
  PROVE  ~Lacking(ps) <=> AllThere(ps)
BY SourcesAre DEF Lacking, NoVideo, NoAudio, AllThere

(* No track begins later than this after the video.                        *)
Near(ps) ==
  \A t \in Tracks :
    First(ps, t).dts <= First(ps, Video).dts + VideoPeriod + AudioPeriod

LEMMA FirstTimes ==
  ASSUME NEW ps \in Seq(Packets), AllThere(ps), NEW s \in Sources
  PROVE  First(ps, s) \in Packets /\ First(ps, s).dts \in Int /\ First(ps, s).n \in Nat
         /\ First(ps, s).src = s
<1>1. First(ps, s) \in Packets /\ First(ps, s).src = s
  BY FirstIs DEF AllThere
<1> QED BY <1>1, PacketIs

LEMMA FirstStamp ==
  ASSUME NEW f, NEW nx, NEW ps \in Seq(Packets), Held(f, ps, ps, nx),
         NEW s, At(ps, s) # {}
  PROVE  /\ First(ps, s).n \in Nat /\ First(ps, s).n < nx[s]
         /\ First(ps, s).dts = Stamp(f, s, First(ps, s).n)
<1> DEFINE i == Min(At(ps, s))
<1>1. i \in 1 .. Len(ps) /\ ps[i].src = s /\ First(ps, s) = ps[i]
  BY FirstIs
<1> HIDE DEF i
<1> QED BY <1>1, EntryIs

LEMMA NearAfterLoss ==
  ASSUME NEW f \in [Sources -> Int], NEW nx \in [Sources -> Nat],
         NEW ps \in Seq(Packets), Held(f, ps, ps, nx), NEW k \in Nat,
         AllThere(Discard(ps, k)),
         \A t \in Tracks : \E l \in 1 .. Len(ps) : l <= k /\ ps[l].src = t
  PROVE  Near(Discard(ps, k))
<1>1. Discard(ps, k) \in Seq(Packets)
  BY DiscardIs
<1> SUFFICES ASSUME NEW t \in Tracks
             PROVE  First(Discard(ps, k), t).dts
                      <= First(Discard(ps, k), Video).dts + VideoPeriod + AudioPeriod
  BY DEF Near
<1>2. t \in Sources /\ Video \in Sources /\ VideoPeriod \in Nat /\ AudioPeriod \in Nat
  BY SourcesAre
<1>3. First(Discard(ps, k), t).dts <= First(Discard(ps, k), Video).dts + AudioPeriod
  BY <1>2, FirstAfterLoss DEF AllThere
<1>4. First(Discard(ps, k), t).dts \in Int /\ First(Discard(ps, k), Video).dts \in Int
  BY <1>1, <1>2, FirstTimes
<1> QED BY <1>2, <1>3, <1>4

LEMMA NearKept ==
  ASSUME NEW f \in [Sources -> Int], NEW nx \in [Sources -> Nat],
         NEW ps \in Seq(Packets), Held(f, ps, ps, nx), NEW k \in Nat,
         AllThere(ps), AllThere(Discard(ps, k)), Near(ps), k < Min(At(ps, Video))
  PROVE  /\ Near(Discard(ps, k))
         /\ First(Discard(ps, k), Video) = First(ps, Video)
<1>1. Discard(ps, k) \in Seq(Packets)
  BY DiscardIs
<1>2. First(Discard(ps, k), Video) = First(ps, Video)
  <2>1. /\ At(ps, Video) # {} /\ At(Discard(ps, k), Video) # {}
    BY SourcesAre DEF AllThere
  <2>2. /\ Min(At(ps, Video)) \in 1 .. Len(ps)
        /\ \A i \in 1 .. Len(ps) : ps[i].src = Video => Min(At(ps, Video)) <= i
    BY <2>1, FirstIs
  <2>3. \A i \in 1 .. Len(ps) : ps[i].src = Video => k < i
    BY <2>2
  <2> QED BY <2>1, <2>3, FirstKept
<1>3. ASSUME NEW t \in Tracks
      PROVE  First(Discard(ps, k), t).dts
               <= First(Discard(ps, k), Video).dts + VideoPeriod + AudioPeriod
  <2>1. t \in Sources /\ Video \in Sources /\ VideoPeriod \in Nat /\ AudioPeriod \in Nat
    BY SourcesAre
  <2>2. First(Discard(ps, k), t).dts \in Int /\ First(Discard(ps, k), Video).dts \in Int
    BY <1>1, <2>1, FirstTimes
  <2>3. CASE \E l \in 1 .. Len(ps) : l <= k /\ ps[l].src = t
    <3>1. First(Discard(ps, k), t).dts <= First(Discard(ps, k), Video).dts + AudioPeriod
      BY <2>1, <2>3, FirstAfterLoss DEF AllThere
    <3> QED BY <2>1, <2>2, <3>1
  <2>4. CASE ~\E l \in 1 .. Len(ps) : l <= k /\ ps[l].src = t
    <3>1. \A i \in 1 .. Len(ps) : ps[i].src = t => k < i
      BY <2>4, RangeIs
    <3>2. First(Discard(ps, k), t) = First(ps, t)
      BY <2>1, <3>1, FirstKept DEF AllThere
    <3> QED BY <1>2, <3>2 DEF Near
  <2> QED BY <2>3, <2>4
<1> QED BY <1>2, <1>3 DEF Near

(* prune_premature_packets: what is found not to be premature is near.     *)
LEMMA PrematureIs ==
  ASSUME NEW f \in [Sources -> Int], NEW nx \in [Sources -> Nat],
         NEW ps \in Seq(Packets), Held(f, ps, ps, nx), AllThere(ps)
  PROVE  /\ PrematureIdx(ps) \in Nat
         /\ PrematureIdx(ps) = 0 => Near(ps)
         /\ PrematureIdx(ps) # 0 =>
              \A t \in Tracks : \E l \in 1 .. Len(ps) : l <= PrematureIdx(ps) /\ ps[l].src = t
<1> DEFINE Firsts == {Min(At(ps, s)) : s \in Sources}
           last == NumTracks - 1
           late == First(ps, last).dts - First(ps, Video).dts
<1>1. \A s \in Sources : Min(At(ps, s)) \in 1 .. Len(ps) /\ ps[Min(At(ps, s))].src = s
  BY FirstIs DEF AllThere
<1>2. Len(ps) \in Nat /\ Firsts \subseteq 0 .. Len(ps) /\ Firsts # {}
  <2>1. Len(ps) \in Nat
    BY RangeIs
  <2>2. \A k \in 1 .. Len(ps) : k \in 0 .. Len(ps)
    BY <2>1
  <2>3. Firsts \subseteq 0 .. Len(ps)
    BY <1>1, <2>2
  <2>4. Min(At(ps, Video)) \in Firsts
    BY SourcesAre
  <2> QED BY <2>1, <2>3, <2>4
<1>3. Max(Firsts) \in Firsts /\ \A k \in Firsts : k <= Max(Firsts)
  <2> HIDE DEF Firsts
  <2> QED BY <1>2, MaxIs
<1>4. PrematureIdx(ps) = IF late > VideoPeriod THEN Max(Firsts) ELSE 0
  BY DEF PrematureIdx
<1>5. \A s \in Sources : First(ps, s).dts \in Int
  BY FirstTimes
<1>6. last \in Tracks /\ last \in Sources /\ Video \in Sources
      /\ VideoPeriod \in Nat /\ AudioPeriod \in Nat
        /\ \A t \in Tracks : t <= last
  BY SourcesAre DEF Tracks
<1> HIDE DEF last
<1>7. CASE late > VideoPeriod
  <2>1. PrematureIdx(ps) = Max(Firsts) /\ Max(Firsts) \in 1 .. Len(ps)
    BY <1>1, <1>3, <1>4, <1>7
  <2>2. ASSUME NEW t \in Tracks
        PROVE  \E l \in 1 .. Len(ps) : l <= PrematureIdx(ps) /\ ps[l].src = t
    <3>1. Min(At(ps, t)) \in 1 .. Len(ps) /\ ps[Min(At(ps, t))].src = t
          /\ Min(At(ps, t)) \in Firsts
      BY <1>1, SourcesAre
    <3>2. Min(At(ps, t)) <= PrematureIdx(ps)
      BY <1>3, <2>1, <3>1
    <3> QED BY <3>1, <3>2
  <2>3. PrematureIdx(ps) \in Nat /\ PrematureIdx(ps) # 0
    BY <1>2, <2>1
  <2> QED BY <2>2, <2>3
<1>8. CASE ~(late > VideoPeriod)
  <2>1. PrematureIdx(ps) = 0
    BY <1>4, <1>8
  <2>2. ASSUME NEW t \in Tracks
        PROVE  First(ps, t).dts <= First(ps, Video).dts + VideoPeriod + AudioPeriod
    <3>1. t \in Sources /\ t <= last
      BY <1>6, SourcesAre
    <3>2. First(ps, t).n <= First(ps, last).n + 1
          /\ First(ps, t).n \in Nat /\ First(ps, last).n \in Nat
      BY <1>6, <3>1, FirstsInRounds DEF AllThere
    <3>3. First(ps, t).dts <= First(ps, last).dts + AudioPeriod
      <4>1. First(ps, t).dts = Stamp(f, t, First(ps, t).n)
            /\ First(ps, last).dts = Stamp(f, last, First(ps, last).n)
        BY <1>6, <3>1, FirstStamp DEF AllThere
      <4>2. First(ps, last).dts + AudioPeriod = Stamp(f, last, First(ps, last).n + 1)
        <5>1. Period(last) = AudioPeriod
          BY <1>6, SourcesAre DEF Period
        <5> QED BY <1>6, <3>2, <4>1, <5>1, StampNext
      <4>3. Stamp(f, t, First(ps, t).n) <= Stamp(f, last, First(ps, last).n + 1)
        <5> DEFINE n == First(ps, t).n
                   m == First(ps, last).n + 1
        <5>1. n \in Nat /\ m \in Nat /\ n <= m
          BY <3>2
        <5>2. InRounds(f) /\ t # Video /\ last # Video /\ t \in Int /\ last \in Int
          BY <1>6, <3>1, SourcesAre DEF Held
        <5> HIDE DEF n, m
        <5>3. Stamp(f, t, n) <= Stamp(f, last, m)
          <6>1. CASE t = last /\ n = m
            <7>1. Stamp(f, t, n) \in Int
              BY <3>1, <5>1, StampNext
            <7> QED BY <6>1, <7>1
          <6>2. CASE ~(t = last /\ n = m)
            <7>1. Before(t, n, last, m)
              BY <3>1, <5>1, <5>2, <6>2 DEF Before
            <7> QED BY <1>6, <3>1, <5>1, <5>2, <7>1, StampOrder
          <6> QED BY <6>1, <6>2
        <5> QED BY <5>3 DEF n, m
      <4> QED BY <4>1, <4>2, <4>3
    <3> QED BY <1>5, <1>6, <1>8, <3>1, <3>3, SMTT(30)
  <2> QED BY <2>1, <2>2 DEF Near
<1> QED BY <1>7, <1>8

LEMMA AbsIs ==
  ASSUME NEW x \in Int
  PROVE  Abs(x) \in Nat /\ (x >= 0 => Abs(x) = x) /\ (x <= 0 => Abs(x) = -x)
BY DEF Abs

LEMMA StartIdxIs ==
  ASSUME NEW ps \in Seq(Packets), AllThere(ps)
  PROVE  LET v == Min(At(ps, Video))
             Far(i) == Abs(ps[i].dts - ps[v].dts)
         IN  /\ StartIdx(ps) \in Nat /\ StartIdx(ps) < v
             /\ \/ StartIdx(ps) = v - 1
                \/ \E c \in 1 .. Len(ps) :
                     /\ StartIdx(ps) = c - 1 /\ c < v /\ ps[c].src \in Tracks
                     /\ \A i \in 1 .. Len(ps) : ps[i].src # Video => Far(c) <= Far(i)
<1> DEFINE v == Min(At(ps, Video))
           audio == DOMAIN ps \ At(ps, Video)
           Far(i) == Abs(ps[i].dts - ps[v].dts)
           closest == {i \in audio : \A j \in audio : Far(i) <= Far(j)}
           c == Min(closest)
<1>1. DOMAIN ps = 1 .. Len(ps) /\ Len(ps) \in Nat
      /\ \A i \in 1 .. Len(ps) : ps[i].src \in Sources /\ ps[i].dts \in Int
  BY RangeIs, PacketIs
<1>2. v \in 1 .. Len(ps)
  BY FirstIs, SourcesAre DEF AllThere
<1>3. \A i \in audio : i \in 1 .. Len(ps) /\ ps[i].src \in Tracks
  BY <1>1, SourcesAre DEF At
<1>4. \A i \in 1 .. Len(ps) : ps[i].src # Video => i \in audio
  BY <1>1 DEF At
<1>5. audio # {}
  BY <1>1, <1>4, FirstIs, SourcesAre DEF AllThere
<1>6. StartIdx(ps) = Min({v, c}) - 1
  BY DEF StartIdx
<1>7. \A i \in 1 .. Len(ps) : Far(i) \in Nat
  <2> TAKE i \in 1 .. Len(ps)
  <2>1. ps[i].dts - ps[v].dts \in Int
    BY <1>1, <1>2
  <2> HIDE DEF v
  <2> QED BY <2>1, AbsIs
<1> HIDE DEF v, audio, Far
<1>8. closest # {}
  <2> DEFINE D == {Far(i) : i \in audio}
  <2>1. D \subseteq Nat /\ D # {}
    BY <1>3, <1>5, <1>7
  <2>2. Min(D) \in D /\ \A d \in D : Min(D) <= d
    <3> HIDE DEF D
    <3> QED BY <2>1, MinIs
  <2>3. PICK i \in audio : Min(D) = Far(i)
    BY <2>2
  <2>4. \A j \in audio : Far(i) <= Far(j)
    BY <2>2, <2>3
  <2> QED BY <2>4
<1>9. c \in closest
  <2>1. closest \subseteq Nat
    BY <1>1, <1>3
  <2> HIDE DEF closest
  <2> QED BY <1>8, <2>1, MinIs
<1>10. c \in 1 .. Len(ps) /\ ps[c].src \in Tracks
       /\ \A i \in 1 .. Len(ps) : ps[i].src # Video => Far(c) <= Far(i)
  <2> HIDE DEF c
  <2> QED BY <1>3, <1>4, <1>9
<1> HIDE DEF c, closest
<1>11. Min({v, c}) \in {v, c} /\ Min({v, c}) <= v /\ Min({v, c}) <= c
  <2>1. {v, c} \subseteq Nat /\ {v, c} # {}
    BY <1>1, <1>2, <1>10
  <2> QED BY <2>1, MinIs
<1>12. /\ StartIdx(ps) \in Nat /\ StartIdx(ps) < v
       /\ \/ StartIdx(ps) = v - 1
          \/ /\ StartIdx(ps) = c - 1 /\ c < v
  BY <1>1, <1>2, <1>6, <1>10, <1>11
<1> QED BY <1>10, <1>12 DEF v, Far

(* find_closest: no track begins much before the video.                    *)
LEMMA StartNotEarly ==
  ASSUME NEW f \in [Sources -> Int], NEW nx \in [Sources -> Nat],
         NEW ps \in Seq(Packets), Held(f, ps, ps, nx), AllThere(ps),
         \A t \in Tracks : Latest(ps, t).dts >= First(ps, Video).dts,
         NEW i \in 1 .. Len(ps), i > StartIdx(ps)
  PROVE  ps[i].dts >= First(ps, Video).dts - AudioPeriod
<1> DEFINE v == Min(At(ps, Video))
           Far(j) == Abs(ps[j].dts - ps[v].dts)
<1>1. v \in 1 .. Len(ps) /\ First(ps, Video) = ps[v]
  BY FirstIs, SourcesAre DEF AllThere
<1>2. ps[v].dts \in Int /\ ps[i].dts \in Int /\ i \in Nat /\ v \in Nat
      /\ AudioPeriod \in Nat
      /\ AudioPeriod >= 1
  BY <1>1, EntryIs, SourcesAre
<1>3. /\ StartIdx(ps) \in Nat /\ StartIdx(ps) < v
      /\ \/ StartIdx(ps) = v - 1
         \/ \E c \in 1 .. Len(ps) :
              /\ StartIdx(ps) = c - 1 /\ c < v /\ ps[c].src \in Tracks
              /\ \A j \in 1 .. Len(ps) : ps[j].src # Video => Far(c) <= Far(j)
  BY StartIdxIs
<1> HIDE DEF v
<1>4. CASE StartIdx(ps) = v - 1
  <2>1. v <= i
    BY <1>2, <1>4
  <2>2. ps[v].dts <= ps[i].dts
    BY <1>1, <2>1, EntryIs
  <2> QED BY <1>1, <1>2, <2>2
<1>5. ASSUME NEW c \in 1 .. Len(ps),
             StartIdx(ps) = c - 1, c < v, ps[c].src \in Tracks,
             \A j \in 1 .. Len(ps) : ps[j].src # Video => Far(c) <= Far(j)
      PROVE  ps[i].dts >= ps[v].dts - AudioPeriod
  <2> DEFINE t == ps[c].src
             n == ps[c].n
  <2>1. /\ t \in Sources /\ n \in Nat /\ ps[c].dts \in Int /\ c \in Nat
        /\ ps[c].dts = Stamp(f, t, n) /\ n < nx[t]
        /\ \A j \in 1 .. Len(ps) : c <= j => ps[c].dts <= ps[j].dts
    BY EntryIs
  <2>2. c <= i
    BY <1>2, <1>5, <2>1
  <2>3. ps[c].dts <= ps[i].dts
    BY <2>1, <2>2
  <2>4. ASSUME ps[c].dts < ps[v].dts - AudioPeriod PROVE FALSE
    <3> DEFINE z == Max(At(ps, t))
    <3>1. z \in 1 .. Len(ps) /\ ps[z].src = t /\ Latest(ps, t) = ps[z]
      BY <2>1, LatestIs DEF AllThere
    <3>2. ps[z].dts >= ps[v].dts
      BY <1>1, <1>5, <3>1
    <3> HIDE DEF z
    <3>3. /\ ps[z].dts \in Int /\ ps[z].n \in Nat /\ ps[z].n < nx[t] /\ z \in Nat
          /\ \A j \in 1 .. Len(ps) : z <= j => ps[z].dts <= ps[j].dts
      BY <3>1, EntryIs
    <3>4. c < z
      BY <1>2, <2>1, <2>4, <3>2, <3>3, SMTT(30)
    <3>5. n < ps[z].n
      BY <3>1, <3>4, NumbersInOrder DEF Held
    <3>6. n + 1 \in Nat /\ n + 1 < nx[t] /\ nx[t] \in Nat
      BY <2>1, <3>3, <3>5
    <3>7. Before(t, n, t, n + 1)
      BY <2>1 DEF Before
    <3>8. PICK j \in 1 .. Len(ps) : ps[j].src = t /\ ps[j].n = n + 1
      BY <2>1, <3>6, <3>7, ThereIs
    <3>9. ps[j].dts = Stamp(f, t, n + 1) /\ t # Video
      BY <1>5, <3>8, EntryIs, SourcesAre
    <3>10. ps[j].dts = ps[c].dts + AudioPeriod
      <4>1. Stamp(f, t, n + 1) = Stamp(f, t, n) + Period(t)
        BY <2>1, StampNext
      <4> QED BY <2>1, <3>9, <4>1 DEF Period
    <3>11. Far(c) <= Far(j)
      BY <1>5, <3>8, <3>9
    <3>12. Far(c) = ps[v].dts - ps[c].dts
      BY <1>2, <2>1, <2>4 DEF Abs
    <3>13. Far(j) = ps[v].dts - (ps[c].dts + AudioPeriod)
      BY <1>2, <2>1, <2>4, <3>10 DEF Abs
    <3> HIDE DEF Far, t, n
    <3> QED BY <1>2, <2>1, <3>11, <3>12, <3>13
  <2> QED BY <1>2, <2>1, <2>3, <2>4
<1> QED BY <1>1, <1>3, <1>4, <1>5

-----------------------------------------------------------------------------
(* The start of the stream.                                                *)

LEMMA OutputIs ==
  ASSUME NEW o \in Outputs
  PROVE  /\ o.packets \in Seq(Packets) /\ o.gotVideo \in BOOLEAN /\ o.gotAudio \in BOOLEAN
         /\ o.highestVideo \in Int /\ o.highestAudio \in Int
         /\ o.offset \in [Sources -> Int]
BY DEF Outputs

Synced(f) ==
  \A t \in Tracks :
    Abs((f[t] + skew) - (f[Video] - Reorder)) <= VideoPeriod + AudioPeriod

LEMMA NothingSent ==
  ASSUME NEW ps \in Seq(Packets)
  PROVE  <<>> \in Seq(Packets) /\ <<>> \o ps = ps /\ Len(<<>>) = 0 /\ DOMAIN <<>> = {}
OBVIOUS

LEMMA WaitingGood ==
  ASSUME NEW nx, NEW o \in Outputs, ~Started(o),
         Held(SystemOffset, o.packets, o.packets, nx),
         ~o.gotVideo => NoVideo(o.packets)
  PROVE  Good(o, <<>>, nx)
<1>1. <<>> \o o.packets = o.packets
  BY OutputIs, NothingSent
<1> QED BY <1>1 DEF Good, Offsets

LEMMA RebaseIs ==
  ASSUME NEW nx \in [Sources -> Nat], NEW o \in Outputs, Started(o), skew \in Int,
         Held(SystemOffset, o.packets, o.packets, nx), AllThere(o.packets)
  PROVE  LET r == Rebase(o)
         IN  /\ r \in Outputs /\ Started(r) /\ r.packets # <<>>
             /\ \A s \in Sources : r.offset[s] = Clock(s, First(o.packets, s).n) +
                                                   (IF s = Video THEN Reorder ELSE 0)
             /\ Held(r.offset, r.packets, r.packets, nx)
             /\ HasAll(Range(r.packets))
             /\ r.highestVideo = o.highestVideo - First(o.packets, Video).dts
             /\ r.highestAudio = o.highestAudio - First(o.packets, 0).dts
<1> DEFINE ps == o.packets
           f == [s \in Sources |-> Clock(s, First(ps, s).n) +
                                     (IF s = Video THEN Reorder ELSE 0)]
           hv == o.highestVideo - First(ps, Video).dts
           ha == o.highestAudio - First(ps, 0).dts
           based == [o EXCEPT !.offset = f, !.highestVideo = hv, !.highestAudio = ha]
           pp == [i \in DOMAIN ps |-> ApplyOffset(based, ps[i])]
           qs == Resort(pp)
           r == [based EXCEPT !.packets = qs]
<1>1. Rebase(o) = r
  BY DEF Rebase
<1>2. ps \in Seq(Packets) /\ DOMAIN ps = 1 .. Len(ps) /\ Len(ps) \in Nat
  BY OutputIs, RangeIs
<1>3. \A s \in Sources : /\ First(ps, s).n \in Nat /\ First(ps, s).dts \in Int
                         /\ Clock(s, First(ps, s).n) \in Nat
  BY <1>2, FirstTimes, ClockIs
<1>4. f \in [Sources -> Int]
      /\ \A s \in Sources : f[s] = Clock(s, First(ps, s).n) +
                                     (IF s = Video THEN Reorder ELSE 0)
  BY <1>3, SourcesAre
<1>5. hv \in Int /\ ha \in Int
  <2>1. First(ps, Video).dts \in Int /\ First(ps, 0).dts \in Int
    BY <1>3, SourcesAre
  <2>2. o.highestVideo \in Int /\ o.highestAudio \in Int
    BY OutputIs
  <2> QED BY <2>1, <2>2
<1> HIDE DEF f, hv, ha
<1>6. based \in Outputs /\ based.offset = f /\ Started(based)
      /\ based.highestVideo = hv /\ based.highestAudio = ha
  BY <1>4, <1>5 DEF Outputs, Started
<1> HIDE DEF based, ps
<1>7. InRounds(f)
  <2> SUFFICES ASSUME NEW s \in Tracks, NEW t \in Tracks, s <= t
               PROVE  f[t] <= f[s] /\ f[s] <= f[t] + AudioPeriod
    BY DEF InRounds
  <2> DEFINE n == First(ps, s).n
             m == First(ps, t).n
  <2>1. s \in Sources /\ t \in Sources /\ s # Video /\ t # Video /\ AudioPeriod \in Nat
    BY SourcesAre
  <2>2. n \in Nat /\ m \in Nat /\ m <= n /\ n <= m + 1
    BY <1>2, <2>1, FirstsInRounds DEF AllThere, ps
  <2>3. f[s] = Clock(s, n) /\ f[t] = Clock(t, m) /\ Clock(s, n) \in Nat
        /\ Clock(t, m) \in Nat
    BY <1>3, <1>4, <2>1
  <2> HIDE DEF n, m
  <2>4. Clock(s, m) = Clock(t, m) /\ Clock(s, m + 1) = Clock(s, m) + AudioPeriod
    BY <2>1, <2>2, ClockIs DEF Period
  <2>5. n = m \/ n = m + 1
    BY <2>2
  <2> QED BY <2>1, <2>3, <2>4, <2>5
<1>8. ASSUME NEW i \in 1 .. Len(ps)
      PROVE  /\ pp[i] \in Packets /\ pp[i].src = ps[i].src /\ pp[i].n = ps[i].n
             /\ pp[i].dts = Stamp(f, ps[i].src, ps[i].n)
  <2>1. ps[i] \in Packets /\ ps[i].src \in Sources /\ ps[i].n \in Nat
    BY <1>2, RangeIs, PacketIs
  <2>2. Clock(ps[i].src, ps[i].n) - f[ps[i].src] \in Int
    BY <1>4, <2>1, ClockIs
  <2>3. pp[i] = [ps[i] EXCEPT !.dts = Clock(ps[i].src, ps[i].n) - f[ps[i].src]]
    BY <1>2, <1>6 DEF ApplyOffset
  <2> HIDE DEF pp
  <2> QED BY <2>1, <2>2, <2>3 DEF Stamp, Packets
<1>9. pp \in Seq(Packets) /\ Len(pp) = Len(ps) /\ DOMAIN pp = 1 .. Len(ps)
  <2>1. DOMAIN pp = 1 .. Len(ps) /\ pp \in [1 .. Len(ps) -> Packets]
    BY <1>2, <1>8
  <2> HIDE DEF pp
  <2> QED BY <1>2, <2>1
<1> HIDE DEF pp
<1>10. Ordered(ps) /\ Came(Range(ps), nx) /\ Complete(Range(ps), nx)
  BY DEF Held, ps
<1>11. Ordered(pp)
  BY <1>2, <1>8, <1>9, <1>10 DEF Ordered
<1>12. ASSUME NEW i \in 1 .. Len(pp), NEW j \in 1 .. Len(pp), i < j, Alike(pp[i], pp[j])
       PROVE  pp[i].dts <= pp[j].dts /\ (IsVideo(pp[j]) => pp[i].dts < pp[j].dts)
  <2>1. Before(pp[i].src, pp[i].n, pp[j].src, pp[j].n)
    BY <1>9, <1>11, <1>12, PlaceInOrder
  <2>2. /\ pp[i].src \in Sources /\ pp[i].n \in Nat
        /\ pp[j].src \in Sources /\ pp[j].n \in Nat
    BY <1>9, RangeIs, PacketIs
  <2>3. pp[i].dts = Stamp(f, pp[i].src, pp[i].n)
        /\ pp[j].dts = Stamp(f, pp[j].src, pp[j].n)
    BY <1>8, <1>9
  <2> QED BY <1>4, <1>7, <1>12, <2>1, <2>2, <2>3, StampOrder DEF Alike, IsVideo
<1>13. qs \in Seq(Packets) /\ Sorted(qs) /\ Ordered(qs) /\ Range(qs) = Range(pp)
  BY <1>9, <1>11, <1>12, ResortIs
<1> HIDE DEF qs
(* A packet of one queue is, but for its time, one of the other.           *)
<1>14. ASSUME NEW q \in Range(qs)
       PROVE  /\ q.dts = Stamp(f, q.src, q.n)
              /\ \E p \in Range(ps) : p.src = q.src /\ p.n = q.n
  <2>1. PICK i \in 1 .. Len(ps) : q = pp[i]
    BY <1>9, <1>13, RangeIs
  <2> QED BY <1>2, <1>8, <2>1, RangeIs
<1>15. ASSUME NEW p \in Range(ps)
       PROVE  \E q \in Range(qs) : q.src = p.src /\ q.n = p.n
  <2>1. PICK i \in 1 .. Len(ps) : p = ps[i]
    BY <1>2, RangeIs
  <2>2. pp[i] \in Range(qs)
    BY <1>9, <1>13, RangeIs
  <2> QED BY <1>8, <2>1, <2>2
<1>16. Stamped(f, qs)
  BY <1>14 DEF Stamped
<1>17. Came(Range(qs), nx)
  BY <1>10, <1>14 DEF Came
<1>18. Complete(Range(qs), nx)
  <2> SUFFICES ASSUME NEW q \in Range(qs), NEW s \in Sources, NEW n \in Nat,
                      n < nx[s], Before(q.src, q.n, s, n)
               PROVE  \E x \in Range(qs) : x.src = s /\ x.n = n
    BY DEF Complete
  <2>1. PICK p \in Range(ps) : p.src = q.src /\ p.n = q.n
    BY <1>14
  <2>2. PICK y \in Range(ps) : y.src = s /\ y.n = n
    BY <1>10, <2>1 DEF Complete
  <2> QED BY <1>15, <2>2
<1>19. Held(f, qs, qs, nx)
  BY <1>7, <1>13, <1>16, <1>17, <1>18 DEF Held
<1>20. HasAll(Range(qs))
  <2> SUFFICES ASSUME NEW s \in Sources PROVE \E q \in Range(qs) : q.src = s
    BY DEF HasAll
  <2>1. First(ps, s) \in Range(ps) /\ First(ps, s).src = s
    BY <1>2, FirstIs DEF AllThere, ps
  <2> QED BY <1>15, <2>1
<1>21. qs # <<>>
  <2>1. PICK q \in Range(qs) : TRUE
    BY <1>20, SourcesAre DEF HasAll
  <2>2. Len(qs) # 0
    BY <1>13, <2>1, RangeIs
  <2> QED BY <2>2
<1>22. /\ r \in Outputs /\ Started(r) /\ r.packets = qs /\ r.offset = f
       /\ r.highestVideo = hv /\ r.highestAudio = ha
  BY <1>6, <1>13 DEF Outputs, Started
<1> HIDE DEF r
<1> QED BY <1>1, <1>4, <1>19, <1>20, <1>21, <1>22 DEF hv, ha, ps

(* The clocks move together when every track begins near the video.        *)
LEMMA RebaseSynced ==
  ASSUME NEW nx \in [Sources -> Nat], NEW ps \in Seq(Packets), skew \in Int,
         Held(SystemOffset, ps, ps, nx), AllThere(ps), Near(ps),
         \A t \in Tracks : First(ps, t).dts >= First(ps, Video).dts - AudioPeriod,
         NEW f,
         \A s \in Sources : f[s] = Clock(s, First(ps, s).n) +
                                     (IF s = Video THEN Reorder ELSE 0)
  PROVE  Synced(f)
<1> SUFFICES ASSUME NEW t \in Tracks
             PROVE  Abs((f[t] + skew) - (f[Video] - Reorder)) <= VideoPeriod + AudioPeriod
  BY DEF Synced
<1> DEFINE a == First(ps, t)
           v == First(ps, Video)
<1>1. t \in Sources /\ t # Video /\ Video \in Sources
      /\ VideoPeriod \in Nat /\ AudioPeriod \in Nat /\ Reorder \in Nat /\ Origin \in Int
  BY SourcesAre DEF Origin
<1>2. a.n \in Nat /\ v.n \in Nat /\ a.dts \in Int /\ v.dts \in Int
  BY <1>1, FirstTimes
<1>3. a.dts = Stamp(SystemOffset, t, a.n) /\ v.dts = Stamp(SystemOffset, Video, v.n)
  BY <1>1, FirstStamp DEF AllThere
<1>4. SystemOffset[t] = -(Origin + skew) /\ SystemOffset[Video] = -(Origin + 0)
  BY <1>1 DEF SystemOffset
<1>5. Clock(t, a.n) \in Nat /\ Clock(Video, v.n) \in Nat
  BY <1>1, <1>2, ClockIs
<1>6. f[t] = Clock(t, a.n) /\ f[Video] = Clock(Video, v.n) + Reorder
  BY <1>1, <1>5
<1>7. a.dts <= v.dts + VideoPeriod + AudioPeriod /\ a.dts >= v.dts - AudioPeriod
  BY DEF Near
<1> HIDE DEF a, v
<1>8. (f[t] + skew) - (f[Video] - Reorder) = a.dts - v.dts
  BY <1>1, <1>3, <1>4, <1>5, <1>6 DEF Stamp
<1> DEFINE d == a.dts - v.dts
<1>9. d \in Int /\ d <= VideoPeriod + AudioPeriod /\ d >= 0 - AudioPeriod
  <2> SUFFICES ASSUME NEW x \in Int, NEW y \in Int, NEW p \in Nat, NEW q \in Nat,
                      x <= y + p + q, x >= y - q
               PROVE  x - y \in Int /\ x - y <= p + q /\ x - y >= 0 - q
    <3>1. VideoPeriod \in Nat /\ AudioPeriod \in Nat
      BY <1>1
    <3> QED BY <3>1, <1>2, <1>7
  <2> QED OBVIOUS
<1> HIDE DEF d
<1>10. Abs(d) <= VideoPeriod + AudioPeriod
  BY <1>1, <1>9, AbsIs
<1> QED BY <1>8, <1>10 DEF d

(* The highest times move with the clocks, but for what is reordered.      *)
LEMMA RebaseAhead ==
  ASSUME NEW nx \in [Sources -> Nat], NEW o \in Outputs, Started(o), skew \in Int,
         Held(SystemOffset, o.packets, o.packets, nx), AllThere(o.packets),
         Ahead(o, SystemOffset, nx, 0)
  PROVE  Ahead(Rebase(o), Rebase(o).offset, nx, Reorder)
<1> DEFINE ps == o.packets
           r == Rebase(o)
           f == r.offset
<1>1. /\ \A s \in Sources : f[s] = Clock(s, First(ps, s).n) +
                                     (IF s = Video THEN Reorder ELSE 0)
      /\ r.highestVideo = o.highestVideo - First(ps, Video).dts
      /\ r.highestAudio = o.highestAudio - First(ps, 0).dts
  BY RebaseIs
<1> HIDE DEF r, ps
<1>2. \A s \in Sources : /\ First(ps, s).n \in Nat /\ First(ps, s).dts \in Int
                         /\ Clock(s, First(ps, s).n) \in Nat
  BY OutputIs, FirstTimes, ClockIs DEF ps
<1>3. \A s \in Sources : First(ps, s).dts = Clock(s, First(ps, s).n) - SystemOffset[s]
                         /\ SystemOffset[s] \in Int /\ Clock(s, nx[s]) \in Nat
  <2> TAKE s \in Sources
  <2>1. First(ps, s).dts = Stamp(SystemOffset, s, First(ps, s).n)
    BY OutputIs, FirstStamp DEF ps, AllThere
  <2>2. SystemOffset[s] \in Int
    BY SystemOffsetIs
  <2> QED BY <2>1, <2>2, ClockIs DEF Stamp
<1>4. ASSUME NEW s \in Sources
      PROVE  Stamp(f, s, nx[s]) = Stamp(SystemOffset, s, nx[s]) - First(ps, s).dts
                                    - (IF s = Video THEN Reorder ELSE 0)
             /\ Stamp(SystemOffset, s, nx[s]) \in Int
  <2>1. f[s] = Clock(s, First(ps, s).n) + (IF s = Video THEN Reorder ELSE 0)
        /\ Reorder \in Int
    BY <1>1, SourcesAre
  <2> DEFINE a == First(ps, s).dts
             b == Clock(s, First(ps, s).n)
             c == Clock(s, nx[s])
             e == IF s = Video THEN Reorder ELSE 0
  <2>2. a \in Int /\ b \in Nat /\ c \in Nat /\ SystemOffset[s] \in Int
        /\ a = b - SystemOffset[s]
    BY <1>2, <1>3
  <2>3. e \in Int
    BY <2>1
  <2>4. /\ Stamp(f, s, nx[s]) = c - (b + e)
        /\ Stamp(SystemOffset, s, nx[s]) = c - SystemOffset[s]
    BY <2>1 DEF Stamp
  <2> HIDE DEF a, b, c, e
  <2>5. /\ Stamp(f, s, nx[s]) = Stamp(SystemOffset, s, nx[s]) - a - e
        /\ Stamp(SystemOffset, s, nx[s]) \in Int
    BY <2>2, <2>3, <2>4
  <2> QED BY <2>5 DEF a, e
<1>5. r.highestVideo <= Stamp(f, Video, nx[Video]) + Reorder
  <2>1. /\ o.highestVideo \in Int
        /\ o.highestVideo <= Stamp(SystemOffset, Video, nx[Video]) + 0
    BY OutputIs DEF Ahead
  <2>2. First(ps, Video).dts \in Int /\ Video \in Sources
        /\ Reorder \in Int
    BY <1>2, SourcesAre
  <2> QED BY <1>1, <1>4, <2>1, <2>2
<1>6. ASSUME NEW t \in Tracks PROVE r.highestAudio <= Stamp(f, t, nx[t])
  <2>1. o.highestAudio \in Int /\ o.highestAudio <= Stamp(SystemOffset, t, nx[t])
    BY OutputIs DEF Ahead
  <2>2. 0 \in Sources /\ t \in Sources /\ 0 \in Tracks /\ 0 <= t /\ 0 # Video
        /\ t # Video
    BY SourcesAre
  <2>3. First(ps, t).n <= First(ps, 0).n
    BY <2>2, OutputIs, FirstsInRounds DEF ps, AllThere
  <2>4. Clock(t, First(ps, t).n) <= Clock(0, First(ps, 0).n)
    <3> DEFINE n == First(ps, 0).n
               m == First(ps, t).n
    <3>1. n \in Nat /\ m \in Nat /\ m <= n
      BY <1>2, <2>2, <2>3
    <3>2. Period(t) = Period(0) /\ Period(t) \in Nat
      BY <2>2, SourcesAre DEF Period
    <3> HIDE DEF n, m
    <3>3. Clock(t, m) = m * Period(t) /\ Clock(0, n) = n * Period(0)
          /\ Clock(t, m) \in Nat /\ Clock(0, n) \in Nat
      BY <2>2, <3>1, ClockIs
    <3>4. Clock(t, m) <= Clock(0, n)
      <4>1. CASE m = n
        <5>1. Clock(t, m) = Clock(0, n)
          BY <3>2, <3>3, <4>1
        <5> QED BY <3>3, <5>1
      <4>2. CASE m < n
        <5>1. Clock(t, m) + Period(t) <= Clock(0, n)
          BY <2>2, <3>1, <3>2, <4>2, ClockGrows
        <5> QED BY <3>2, <3>3, <5>1
      <4> QED BY <3>1, <4>1, <4>2
    <3> QED BY <3>4 DEF n, m
  <2>5. SystemOffset[0] = SystemOffset[t]
    BY <2>2 DEF SystemOffset
  <2>6. First(ps, t).dts <= First(ps, 0).dts
    BY <1>2, <1>3, <2>2, <2>4, <2>5
  <2>7. First(ps, t).dts \in Int /\ First(ps, 0).dts \in Int
    BY <1>2, <2>2
  <2> QED BY <1>1, <1>4, <2>1, <2>2, <2>6, <2>7
<1> QED BY <1>5, <1>6 DEF Ahead, r

(* An output after a try to start its stream.                              *)
Tried(o, nx) ==
  /\ o \in Outputs /\ Good(o, <<>>, nx)
  /\ Started(o) => o.packets # <<>> /\ Synced(o.offset)

LEMMA UnreceiveIs ==
  ASSUME NEW nx \in [Sources -> Nat], NEW o \in Outputs, Started(o),
         Held(SystemOffset, o.packets, o.packets, nx), Lacking(o.packets)
  PROVE  /\ Tried(Unreceive(o), nx) /\ ~Started(Unreceive(o))
         /\ Ahead(o, SystemOffset, nx, 0) => Ahead(Unreceive(o), SystemOffset, nx, 0)
<1> DEFINE u == Unreceive(o)
<1>1. /\ u \in Outputs /\ u.packets = o.packets
      /\ u.gotVideo = (o.gotVideo /\ ~NoVideo(o.packets))
      /\ u.gotAudio = (o.gotAudio /\ ~NoAudio(o.packets))
      /\ u.highestVideo = o.highestVideo /\ u.highestAudio = o.highestAudio
  BY DEF Unreceive, Outputs
<1> HIDE DEF u
<1>2. ~Started(u) /\ (~u.gotVideo => NoVideo(u.packets))
  BY <1>1 DEF Started, Lacking
<1>3. Good(u, <<>>, nx)
  BY <1>1, <1>2, WaitingGood
<1>4. Ahead(o, SystemOffset, nx, 0) => Ahead(u, SystemOffset, nx, 0)
  BY <1>1 DEF Ahead
<1> QED BY <1>1, <1>2, <1>3, <1>4 DEF Tried, u

LEMMA NoAudioYet ==
  ASSUME NEW nx \in [Sources -> Nat], NEW o \in Outputs, Started(o),
         Held(SystemOffset, o.packets, o.packets, nx)
  PROVE  LET u == [o EXCEPT !.gotAudio = FALSE]
         IN  /\ Tried(u, nx) /\ ~Started(u)
             /\ Ahead(o, SystemOffset, nx, 0) => Ahead(u, SystemOffset, nx, 0)
<1> DEFINE u == [o EXCEPT !.gotAudio = FALSE]
<1>1. /\ u \in Outputs /\ u.packets = o.packets
      /\ u.gotVideo = o.gotVideo /\ u.gotAudio = FALSE
      /\ u.highestVideo = o.highestVideo /\ u.highestAudio = o.highestAudio
  BY DEF Outputs
<1> HIDE DEF u
<1>2. ~Started(u) /\ u.gotVideo
  BY <1>1 DEF Started
<1>3. Good(u, <<>>, nx)
  BY <1>1, <1>2, WaitingGood
<1>4. Ahead(o, SystemOffset, nx, 0) => Ahead(u, SystemOffset, nx, 0)
  BY <1>1 DEF Ahead
<1> QED BY <1>1, <1>2, <1>3, <1>4 DEF Tried, u

LEMMA InitializeIs ==
  ASSUME NEW nx \in [Sources -> Nat], NEW o \in Outputs, Started(o), skew \in Int,
         Held(SystemOffset, o.packets, o.packets, nx),
         AllThere(o.packets) => Near(o.packets)
  PROVE  LET r == Initialize(o)
         IN  /\ Tried(r, nx)
             /\ Ahead(o, SystemOffset, nx, 0) => Ahead(r, Offsets(r), nx, Slack(r))
<1> DEFINE ps == o.packets
           short == \E t \in Tracks : Latest(ps, t).dts < First(ps, Video).dts
           cut == [o EXCEPT !.packets = Discard(ps, StartIdx(ps))]
           r == Initialize(o)
<1>1. r = IF Lacking(ps) THEN Unreceive(o)
          ELSE IF short THEN [o EXCEPT !.gotAudio = FALSE]
          ELSE IF Lacking(cut.packets) THEN Unreceive(cut)
          ELSE Rebase(cut)
  BY DEF Initialize
<1>2. CASE Lacking(ps)
  <2>1. r = Unreceive(o)
    BY <1>1, <1>2
  <2>2. Tried(r, nx) /\ ~Started(r)
        /\ (Ahead(o, SystemOffset, nx, 0) => Ahead(r, SystemOffset, nx, 0))
    BY <1>2, <2>1, UnreceiveIs
  <2> QED BY <2>2 DEF Offsets, Slack
<1>3. CASE ~Lacking(ps) /\ short
  <2>1. r = [o EXCEPT !.gotAudio = FALSE]
    BY <1>1, <1>3
  <2>2. Tried(r, nx) /\ ~Started(r)
        /\ (Ahead(o, SystemOffset, nx, 0) => Ahead(r, SystemOffset, nx, 0))
    BY <2>1, NoAudioYet
  <2> QED BY <2>2 DEF Offsets, Slack
<1>4. CASE ~Lacking(ps) /\ ~short
  <2> DEFINE k == StartIdx(ps)
             qs == Discard(ps, k)
  <2>1. AllThere(ps) /\ Near(ps) /\ ps \in Seq(Packets)
    BY <1>4, LackingIs, OutputIs
  <2>2. k \in Nat /\ k < Min(At(ps, Video))
    BY <2>1, StartIdxIs
  <2>3. SystemOffset \in [Sources -> Int]
    BY SystemOffsetIs
  <2> HIDE DEF k
  <2>4. qs \in Seq(Packets) /\ Held(SystemOffset, qs, qs, nx)
    BY <2>1, <2>2, HeldDiscard
  <2>5. /\ cut \in Outputs /\ cut.packets = qs /\ Started(cut)
        /\ cut.highestVideo = o.highestVideo /\ cut.highestAudio = o.highestAudio
    <3> HIDE DEF ps
    <3>1. cut = [o EXCEPT !.packets = qs]
      BY DEF k
    <3> HIDE DEF qs, cut
    <3> QED BY <2>4, <3>1 DEF Outputs, Started
  <2>6. Ahead(o, SystemOffset, nx, 0) => Ahead(cut, SystemOffset, nx, 0)
    BY <2>5 DEF Ahead
  <2> HIDE DEF cut
  <2>7. CASE Lacking(qs)
    <3>1. r = Unreceive(cut)
      BY <1>1, <1>4, <2>5, <2>7
    <3>2. /\ Tried(r, nx) /\ ~Started(r)
          /\ Ahead(cut, SystemOffset, nx, 0) => Ahead(r, SystemOffset, nx, 0)
      BY <2>4, <2>5, <2>7, <3>1, UnreceiveIs
    <3> QED BY <2>6, <3>2 DEF Offsets, Slack
  <2>8. CASE ~Lacking(qs)
    <3>1. r = Rebase(cut)
      BY <1>1, <1>4, <2>5, <2>8
    <3>2. AllThere(qs)
      BY <2>8, LackingIs
    <3>3. Near(qs) /\ First(qs, Video) = First(ps, Video)
      BY <2>1, <2>2, <2>3, <3>2, NearKept
    <3>4. ASSUME NEW t \in Tracks
          PROVE  First(qs, t).dts >= First(qs, Video).dts - AudioPeriod
      <4> DEFINE j == Min(At(qs, t)) + k
      <4>1. At(qs, t) # {}
        BY <3>2, SourcesAre DEF AllThere
      <4>2. j \in 1 .. Len(ps) /\ k < j /\ First(qs, t) = ps[j]
        BY <2>1, <2>2, <4>1, FirstAfter
      <4> HIDE DEF j
      <4>3. j > StartIdx(ps)
        BY <4>2 DEF k
      <4>4. \A u \in Tracks : Latest(ps, u).dts >= First(ps, Video).dts
        <5> SUFFICES ASSUME NEW u \in Tracks
                     PROVE  Latest(ps, u).dts >= First(ps, Video).dts
          OBVIOUS
        <5>1. ~(Latest(ps, u).dts < First(ps, Video).dts)
          BY <1>4
        <5>2. Latest(ps, u).dts \in Int /\ First(ps, Video).dts \in Int
          <6>1. At(ps, u) # {} /\ At(ps, Video) # {}
            BY <2>1, SourcesAre DEF AllThere
          <6>2. Latest(ps, u) \in Packets /\ First(ps, Video) \in Packets
            BY <2>1, <6>1, LatestIs, FirstIs
          <6> QED BY <6>2, PacketIs
        <5> QED BY <5>1, <5>2
      <4>5. ps[j].dts >= First(ps, Video).dts - AudioPeriod
        BY <2>1, <2>3, <4>2, <4>3, <4>4, StartNotEarly
      <4> QED BY <3>3, <4>2, <4>5
    <3>5. /\ r \in Outputs /\ Started(r) /\ r.packets # <<>>
          /\ \A s \in Sources : r.offset[s] = Clock(s, First(qs, s).n) +
                                                (IF s = Video THEN Reorder ELSE 0)
          /\ Held(r.offset, r.packets, r.packets, nx)
          /\ HasAll(Range(r.packets))
      BY <2>4, <2>5, <3>1, <3>2, RebaseIs
    <3>6. Synced(r.offset)
      BY <2>4, <3>2, <3>3, <3>4, <3>5, RebaseSynced
    <3>7. Ahead(cut, SystemOffset, nx, 0) => Ahead(r, r.offset, nx, Reorder)
      BY <2>4, <2>5, <3>1, <3>2, RebaseAhead
    <3> HIDE DEF r
    <3>8. Offsets(r) = r.offset /\ <<>> \o r.packets = r.packets /\ r.gotVideo
          /\ Slack(r) = Reorder
      BY <3>5, OutputIs, NothingSent DEF Offsets, Slack, Started
    <3>9. Good(r, <<>>, nx)
      BY <3>5, <3>8 DEF Good
    <3> QED BY <2>6, <3>5, <3>6, <3>7, <3>8, <3>9 DEF Tried, r
  <2> QED BY <2>7, <2>8
<1> QED BY <1>2, <1>3, <1>4

(* prune_interleaved_packets, then the start.                              *)
LEMMA PruneIs ==
  ASSUME NEW nx \in [Sources -> Nat], NEW o \in Outputs, Started(o), skew \in Int,
         Held(SystemOffset, o.packets, o.packets, nx)
  PROVE  LET r == Prune(o)
         IN  /\ Tried(r, nx)
             /\ Ahead(o, SystemOffset, nx, 0) => Ahead(r, Offsets(r), nx, Slack(r))
<1> DEFINE ps == o.packets
           early == PrematureIdx(ps)
           k == IF early # 0 THEN early ELSE StartIdx(ps)
           qs == Discard(ps, k)
           cut == [o EXCEPT !.packets = qs]
           r == Prune(o)
<1>1. r = IF NoVideo(ps) THEN [o EXCEPT !.gotVideo = FALSE]
          ELSE IF NoAudio(ps) THEN [o EXCEPT !.gotAudio = FALSE]
          ELSE Initialize(cut)
  BY DEF Prune
<1>2. CASE NoVideo(ps)
  <2>1. r = [o EXCEPT !.gotVideo = FALSE]
    BY <1>1, <1>2
  <2> HIDE DEF r
  <2>2. /\ r \in Outputs /\ r.packets = o.packets /\ r.gotVideo = FALSE
        /\ r.highestVideo = o.highestVideo /\ r.highestAudio = o.highestAudio
    BY <2>1 DEF Outputs
  <2>3. ~Started(r)
    BY <2>2 DEF Started
  <2>4. Good(r, <<>>, nx)
    BY <1>2, <2>2, <2>3, WaitingGood
  <2>5. Ahead(o, SystemOffset, nx, 0) => Ahead(r, Offsets(r), nx, Slack(r))
    BY <2>2, <2>3 DEF Ahead, Offsets, Slack
  <2> QED BY <2>2, <2>3, <2>4, <2>5 DEF Tried, r
<1>3. CASE ~NoVideo(ps) /\ NoAudio(ps)
  <2>1. r = [o EXCEPT !.gotAudio = FALSE]
    BY <1>1, <1>3
  <2>2. Tried(r, nx) /\ ~Started(r)
        /\ (Ahead(o, SystemOffset, nx, 0) => Ahead(r, SystemOffset, nx, 0))
    BY <2>1, NoAudioYet
  <2> QED BY <2>2 DEF Offsets, Slack
<1>4. CASE ~NoVideo(ps) /\ ~NoAudio(ps)
  <2>1. AllThere(ps) /\ ps \in Seq(Packets)
    BY <1>4, LackingIs, OutputIs DEF Lacking
  <2>2. SystemOffset \in [Sources -> Int]
    BY SystemOffsetIs
  <2>3. /\ early \in Nat /\ (early = 0 => Near(ps))
        /\ early # 0 => \A t \in Tracks : \E l \in 1 .. Len(ps) : l <= early /\ ps[l].src = t
    BY <2>1, <2>2, PrematureIs
  <2>4. StartIdx(ps) \in Nat /\ StartIdx(ps) < Min(At(ps, Video))
    BY <2>1, StartIdxIs
  <2> HIDE DEF early
  <2>5. k \in Nat
    BY <2>3, <2>4
  <2>6. AllThere(qs) => Near(qs)
    <3>1. CASE early # 0
      <4>1. k = early
        BY <3>1
      <4> HIDE DEF k
      <4> QED BY <2>1, <2>2, <2>3, <2>5, <3>1, <4>1, NearAfterLoss
    <3>2. CASE early = 0
      <4>1. k = StartIdx(ps) /\ Near(ps)
        BY <2>3, <3>2
      <4> HIDE DEF k
      <4> QED BY <2>1, <2>2, <2>4, <2>5, <4>1, NearKept
    <3> QED BY <3>1, <3>2
  <2> HIDE DEF k
  <2>7. qs \in Seq(Packets) /\ Held(SystemOffset, qs, qs, nx)
    BY <2>1, <2>5, HeldDiscard
  <2> HIDE DEF qs
  <2>8. /\ cut \in Outputs /\ cut.packets = qs /\ Started(cut)
        /\ cut.highestVideo = o.highestVideo /\ cut.highestAudio = o.highestAudio
    BY <2>7 DEF Outputs, Started
  <2>9. r = Initialize(cut)
    BY <1>1, <1>4
  <2> HIDE DEF cut, r
  <2>10. Ahead(o, SystemOffset, nx, 0) => Ahead(cut, SystemOffset, nx, 0)
    BY <2>8 DEF Ahead
  <2>11. /\ Tried(r, nx)
         /\ Ahead(cut, SystemOffset, nx, 0) => Ahead(r, Offsets(r), nx, Slack(r))
    BY <2>6, <2>7, <2>8, <2>9, InitializeIs
  <2> QED BY <2>10, <2>11 DEF r
<1> QED BY <1>2, <1>3, <1>4

-----------------------------------------------------------------------------
(* The calls.                                                              *)

LEMMA FreshOf ==
  ASSUME NEW nx \in [Sources -> Nat], NEW u \in Tracks,
         \A s \in Tracks : nx[s] = nx[u] + (IF s < u THEN 1 ELSE 0),
         NEW s \in Sources
  PROVE  Fresh(s, nx)
<1> SUFFICES ASSUME NEW t \in Sources, NEW n \in Nat,
                    s = Video <=> t = Video, n < nx[t]
             PROVE  Before(t, n, s, nx[s])
  BY DEF Fresh
<1>1. nx[s] \in Nat /\ nx[t] \in Nat /\ s \in Int /\ t \in Int
      /\ (s # Video => s \in Tracks) /\ (t # Video => t \in Tracks) /\ u \in Int
  BY SourcesAre
<1>2. CASE s = Video
  BY <1>1, <1>2 DEF Before
<1>3. CASE s # Video
  <2>1. s \in Tracks /\ t \in Tracks /\ nx[u] \in Nat
    BY <1>1, <1>3, SourcesAre
  <2>2. nx[s] = nx[u] + (IF s < u THEN 1 ELSE 0)
        /\ nx[t] = nx[u] + (IF t < u THEN 1 ELSE 0)
    BY <2>1
  <2>3. n < nx[s] \/ (n = nx[s] /\ t < s)
    BY <1>1, <2>1, <2>2
  <2> QED BY <1>3, <2>3 DEF Before
<1> QED BY <1>2, <1>3

LEMMA NoVideoIs ==
  ASSUME NEW ps \in Seq(Packets)
  PROVE  NoVideo(ps) <=> \A x \in Range(ps) : x.src # Video
<1>1. DOMAIN ps = 1 .. Len(ps)
      /\ (\A i \in 1 .. Len(ps) : ps[i] \in Range(ps))
      /\ \A x \in Range(ps) : \E i \in 1 .. Len(ps) : x = ps[i]
  BY RangeIs
<1> QED BY <1>1 DEF NoVideo, At

LEMMA SetHigherIs ==
  ASSUME NEW o \in Outputs, NEW q \in Packets
  PROVE  LET h == SetHigher(o, q)
         IN  /\ h \in Outputs /\ h.packets = o.packets /\ h.offset = o.offset
             /\ h.gotVideo = o.gotVideo /\ h.gotAudio = o.gotAudio
             /\ IF IsVideo(q) THEN /\ h.highestVideo = Max({o.highestVideo, q.dts})
                                   /\ h.highestAudio = o.highestAudio
                              ELSE /\ h.highestAudio = Max({o.highestAudio, q.dts})
                                   /\ h.highestVideo = o.highestVideo
<1>1. o.highestVideo \in Int /\ o.highestAudio \in Int /\ q.dts \in Int
  BY OutputIs, PacketIs
<1>2. Max({o.highestVideo, q.dts}) \in Int /\ Max({o.highestAudio, q.dts}) \in Int
  <2>1. Max({o.highestVideo, q.dts}) \in {o.highestVideo, q.dts}
    BY <1>1, MaxOfTwo
  <2>2. Max({o.highestAudio, q.dts}) \in {o.highestAudio, q.dts}
    BY <1>1, MaxOfTwo
  <2> QED BY <1>1, <2>1, <2>2
<1>3. CASE IsVideo(q)
  <2> DEFINE m == Max({o.highestVideo, q.dts})
             h == [o EXCEPT !.highestVideo = m]
  <2>1. SetHigher(o, q) = h
    BY <1>3 DEF SetHigher
  <2>2. m \in Int
    BY <1>2
  <2> HIDE DEF m
  <2>3. /\ h \in Outputs /\ h.packets = o.packets /\ h.offset = o.offset
        /\ h.gotVideo = o.gotVideo /\ h.gotAudio = o.gotAudio
        /\ h.highestVideo = m /\ h.highestAudio = o.highestAudio
    BY <2>2 DEF Outputs
  <2> HIDE DEF h
  <2> QED BY <1>3, <2>1, <2>3 DEF m
<1>4. CASE ~IsVideo(q)
  <2> DEFINE m == Max({o.highestAudio, q.dts})
             h == [o EXCEPT !.highestAudio = m]
  <2>1. SetHigher(o, q) = h
    BY <1>4 DEF SetHigher
  <2>2. m \in Int
    BY <1>2
  <2> HIDE DEF m
  <2>3. /\ h \in Outputs /\ h.packets = o.packets /\ h.offset = o.offset
        /\ h.gotVideo = o.gotVideo /\ h.gotAudio = o.gotAudio
        /\ h.highestAudio = m /\ h.highestVideo = o.highestVideo
    BY <2>2 DEF Outputs
  <2> HIDE DEF h
  <2> QED BY <1>4, <2>1, <2>3 DEF m
<1> QED BY <1>3, <1>4

(* What the next packets' times do when one comes.                         *)
LEMMA StampAdvance ==
  ASSUME NEW f \in [Sources -> Int], InRounds(f), NEW nx \in [Sources -> Nat],
         NEW s \in Sources, NEW ny, Advances(nx, ny, s), AllFresh(ny),
         NEW t \in Sources
  PROVE  /\ Stamp(f, t, nx[t]) \in Int /\ Stamp(f, t, ny[t]) \in Int
         /\ Stamp(f, t, nx[t]) <= Stamp(f, t, ny[t])
         /\ (s = Video <=> t = Video) => Stamp(f, s, nx[s]) <= Stamp(f, t, ny[t])
<1>1. /\ ny \in [Sources -> Nat] /\ ny[s] = nx[s] + 1 /\ nx[s] \in Nat /\ nx[t] \in Nat
      /\ ny[t] \in Nat /\ (t # s => ny[t] = nx[t])
  BY DEF Advances
<1>2. Stamp(f, t, nx[t]) \in Int /\ Stamp(f, t, ny[t]) \in Int
  BY <1>1, StampNext
<1>3. ASSUME s = Video <=> t = Video
      PROVE  Stamp(f, s, nx[s]) <= Stamp(f, t, ny[t])
  <2>1. Fresh(t, ny) /\ nx[s] < ny[s]
    BY <1>1 DEF AllFresh
  <2>2. Before(s, nx[s], t, ny[t])
    BY <1>1, <1>3, <2>1 DEF Fresh
  <2> QED BY <1>1, <2>2, StampOrder
<1>4. Stamp(f, t, nx[t]) <= Stamp(f, t, ny[t])
  <2>1. CASE t = s
    BY <1>3, <2>1
  <2>2. CASE t # s
    <3>1. ny[t] = nx[t]
      BY <1>1, <2>2
    <3> QED BY <1>2, <3>1
  <2> QED BY <2>1, <2>2
<1> QED BY <1>2, <1>3, <1>4

LEMMA AheadArrive ==
  ASSUME NEW f \in [Sources -> Int], InRounds(f), NEW nx \in [Sources -> Nat],
         NEW s \in Sources, NEW ny, Advances(nx, ny, s), AllFresh(ny),
         NEW o \in Outputs, NEW d \in Nat, Ahead(o, f, nx, d),
         NEW q, ComesNext(q, s, f, nx)
  PROVE  Ahead(SetHigher(o, q), f, ny, d)
<1> DEFINE h == SetHigher(o, q)
<1>0. q \in Packets /\ q.src = s /\ q.dts = Stamp(f, s, nx[s])
  BY DEF ComesNext
<1>1. o.highestVideo \in Int /\ o.highestAudio \in Int /\ q.dts \in Int
  BY <1>0, OutputIs, PacketIs
<1>2. IF s = Video THEN /\ h.highestVideo = Max({o.highestVideo, q.dts})
                        /\ h.highestAudio = o.highestAudio
                   ELSE /\ h.highestAudio = Max({o.highestAudio, q.dts})
                        /\ h.highestVideo = o.highestVideo
  BY <1>0, SetHigherIs DEF IsVideo
<1> HIDE DEF h
<1>3. h.highestVideo <= Stamp(f, Video, ny[Video]) + d
  <2>1. /\ Stamp(f, Video, nx[Video]) \in Int /\ Stamp(f, Video, ny[Video]) \in Int
        /\ Stamp(f, Video, nx[Video]) <= Stamp(f, Video, ny[Video])
        /\ s = Video => q.dts <= Stamp(f, Video, ny[Video])
    BY <1>0, SourcesAre, StampAdvance
  <2>2. o.highestVideo <= Stamp(f, Video, ny[Video]) + d
    <3>1. o.highestVideo <= Stamp(f, Video, nx[Video]) + d
      BY DEF Ahead
    <3> QED BY <1>1, <2>1, <3>1
  <2>3. Max({o.highestVideo, q.dts}) \in {o.highestVideo, q.dts}
    BY <1>1, MaxOfTwo
  <2>4. s = Video => q.dts <= Stamp(f, Video, ny[Video]) + d
    BY <1>1, <2>1
  <2> QED BY <1>2, <2>2, <2>3, <2>4
<1>4. ASSUME NEW t \in Tracks PROVE h.highestAudio <= Stamp(f, t, ny[t])
  <2>0. t \in Sources /\ t # Video
    BY SourcesAre
  <2>1. /\ Stamp(f, t, nx[t]) \in Int /\ Stamp(f, t, ny[t]) \in Int
        /\ Stamp(f, t, nx[t]) <= Stamp(f, t, ny[t])
        /\ s # Video => q.dts <= Stamp(f, t, ny[t])
    BY <1>0, <2>0, StampAdvance
  <2>2. o.highestAudio <= Stamp(f, t, ny[t])
    <3>1. o.highestAudio <= Stamp(f, t, nx[t])
      BY DEF Ahead
    <3> QED BY <1>1, <2>1, <3>1
  <2>3. Max({o.highestAudio, q.dts}) \in {o.highestAudio, q.dts}
    BY <1>1, MaxOfTwo
  <2> QED BY <1>2, <2>1, <2>2, <2>3
<1> QED BY <1>3, <1>4 DEF Ahead, h

(* What has been sent stays before what comes.                             *)
LEMMA SentFirstArrive ==
  ASSUME NEW f \in [Sources -> Int], InRounds(f), NEW nx \in [Sources -> Nat],
         NEW s \in Sources, NEW ny, Advances(nx, ny, s), AllFresh(ny),
         NEW st \in Seq(Packets),
         NEW ps \in Seq(Packets), NEW qs \in Seq(Packets), SentFirst(f, st, ps, nx),
         NEW q, ComesNext(q, s, f, nx), Adds(Range(ps), q, Range(qs))
  PROVE  SentFirst(f, st, qs, ny)
<1> SUFFICES ASSUME NEW i \in DOMAIN st
             PROVE  /\ \A j \in DOMAIN qs : st[i].dts <= qs[j].dts + Reorder
                    /\ \A t \in Sources : st[i].dts <= Stamp(f, t, ny[t]) + Reorder
  BY DEF SentFirst
<1>1. st[i].dts \in Int /\ Reorder \in Int
  BY RangeIs, PacketIs, SourcesAre
<1>2. ASSUME NEW t \in Sources PROVE st[i].dts <= Stamp(f, t, ny[t]) + Reorder
  <2>1. st[i].dts <= Stamp(f, t, nx[t]) + Reorder
    BY DEF SentFirst
  <2>2. /\ Stamp(f, t, nx[t]) \in Int /\ Stamp(f, t, ny[t]) \in Int
        /\ Stamp(f, t, nx[t]) <= Stamp(f, t, ny[t])
    BY StampAdvance
  <2> QED BY <1>1, <2>1, <2>2
<1>3. ASSUME NEW j \in DOMAIN qs PROVE st[i].dts <= qs[j].dts + Reorder
  <2>1. qs[j] \in Range(ps) \cup {q}
    BY RangeIs DEF Adds
  <2>2. CASE qs[j] = q
    BY <2>2 DEF SentFirst, ComesNext
  <2>3. CASE qs[j] \in Range(ps)
    <3>1. PICK l \in DOMAIN ps : qs[j] = ps[l]
      BY <2>3, RangeIs
    <3> QED BY <3>1 DEF SentFirst
  <2> QED BY <2>1, <2>2, <2>3
<1> QED BY <1>2, <1>3

(* Queued, in an output that has started.                                  *)
LEMMA ArriveStarted ==
  ASSUME NEW nx \in [Sources -> Nat], NEW s \in Sources, skew \in Int,
         NEW o \in Outputs, NEW st \in Seq(Packets), Started(o), Good(o, st, nx),
         AllFresh(nx), AllFresh([nx EXCEPT ![s] = @ + 1])
  PROVE  LET r  == Queued(o, Packet(s, nx[s]))
             ny == [nx EXCEPT ![s] = @ + 1]
         IN  /\ r \in Outputs /\ Good(r, st, ny) /\ Started(r) /\ r.offset = o.offset
             /\ r.packets # <<>>
             /\ Timely(o, st, nx) => Timely(r, st, ny)
<1> DEFINE f  == o.offset
           ps == o.packets
           p  == Packet(s, nx[s])
           q  == ApplyOffset(o, p)
           qs == Insert(ps, q)
           ny == [nx EXCEPT ![s] = @ + 1]
           got == [o EXCEPT !.gotVideo = @ \/ IsVideo(p), !.gotAudio = @ \/ ~IsVideo(p)]
           mid == [got EXCEPT !.packets = qs]
           r  == SetHigher(mid, q)
<1>13. Advances(nx, ny, s) /\ AllFresh(ny)
  BY DEF Advances
<1>1. o.gotVideo /\ o.gotAudio /\ Offsets(o) = f /\ f \in [Sources -> Int]
      /\ ps \in Seq(Packets)
  BY OutputIs DEF Started, Offsets
<1>2. p \in Packets /\ p.src = s /\ p.n = nx[s] /\ nx[s] \in Nat
  BY SystemOffsetIs
<1>3. ComesNext(q, s, f, nx)
  <2>1. Clock(p.src, p.n) - f[p.src] \in Int
    BY <1>1, <1>2, ClockIs
  <2>2. q = [p EXCEPT !.dts = Clock(p.src, p.n) - f[p.src]]
    BY DEF ApplyOffset
  <2> HIDE DEF p, q
  <2> QED BY <1>2, <2>1, <2>2 DEF Packets, Stamp, ComesNext
<1>4. Held(f, st \o ps, ps, nx) /\ HasAll(Range(st \o ps)) /\ InRounds(f)
  BY <1>1 DEF Good, Held
<1>31. q \in Packets
  BY <1>3 DEF ComesNext
<1>32. f \in [Sources -> Int] /\ ps \in Seq(Packets) /\ Held(f, st \o ps, ps, nx)
  BY <1>1, <1>4
<1>33. ny \in [Sources -> Nat]
  OBVIOUS
<1> HIDE DEF q, f, ny, ps, got, mid, r, p
<1>5. /\ qs \in Seq(Packets) /\ Len(qs) = Len(ps) + 1
      /\ Held(f, st \o qs, qs, ny)
      /\ Adds(Range(ps), q, Range(qs))
      /\ Adds(Range(st \o ps), q, Range(st \o qs))
  BY <1>3, <1>13, <1>31, <1>32, <1>33, HeldArrive
<1>6. qs # <<>>
  BY <1>1, <1>5
<1> HIDE DEF qs
<1>7. /\ got \in Outputs /\ got.packets = ps /\ got.offset = f
      /\ got.gotVideo = TRUE /\ got.gotAudio = TRUE
      /\ got.highestVideo = o.highestVideo /\ got.highestAudio = o.highestAudio
  BY <1>1 DEF Outputs, f, ps, got
<1>8. Queued(o, p) = r
  BY <1>7 DEF Queued, q, qs, got, mid, r, p, ps
<1>9. /\ mid \in Outputs /\ mid.packets = qs /\ mid.offset = f
      /\ mid.gotVideo = TRUE /\ mid.gotAudio = TRUE
      /\ mid.highestVideo = o.highestVideo /\ mid.highestAudio = o.highestAudio
  BY <1>5, <1>7 DEF Outputs, mid
<1>10. /\ r \in Outputs /\ r.packets = qs /\ r.offset = f
       /\ r.gotVideo = TRUE /\ r.gotAudio = TRUE
  BY <1>31, <1>9, SetHigherIs DEF r
<1>11. Started(r) /\ Offsets(r) = f
  BY <1>10 DEF Started, Offsets
<1>12. HasAll(Range(st \o qs))
  BY <1>4, <1>5 DEF HasAll, Adds
<1>15. Good(r, st, ny)
  BY <1>5, <1>10, <1>11, <1>12 DEF Good
<1>16. ASSUME Timely(o, st, nx) PROVE Timely(r, st, ny)
  <2>1. Ahead(o, f, nx, Reorder) /\ SentFirst(f, st, ps, nx) /\ Reorder \in Nat
    BY <1>1, <1>16, SourcesAre DEF Timely, Slack, ps
  <2>2. Ahead(mid, f, nx, Reorder)
    BY <1>9, <2>1 DEF Ahead
  <2>3. Ahead(r, f, ny, Reorder)
    BY <1>1, <1>3, <1>4, <1>9, <1>13, <2>1, <2>2, AheadArrive DEF r
  <2>4. SentFirst(f, st, qs, ny)
    BY <1>1, <1>3, <1>4, <1>5, <1>13, <2>1, SentFirstArrive
  <2> QED BY <1>10, <1>11, <2>3, <2>4 DEF Timely, Slack
<1> QED BY <1>6, <1>8, <1>10, <1>11, <1>15, <1>16 DEF p, ny, f

LEMMA NoneSent ==
  ASSUME NEW f, NEW ps, NEW nx
  PROVE  SentFirst(f, <<>>, ps, nx)
<1>1. DOMAIN <<>> = {}
  OBVIOUS
<1> QED BY <1>1 DEF SentFirst

(* Queued, in an output that has not started.                              *)
LEMMA ArriveWaiting ==
  ASSUME NEW nx \in [Sources -> Nat], NEW s \in Sources, skew \in Int,
         NEW o \in Outputs, NEW st \in Seq(Packets), ~Started(o), Good(o, st, nx),
         AllFresh(nx), AllFresh([nx EXCEPT ![s] = @ + 1])
  PROVE  LET r  == Queued(o, Packet(s, nx[s]))
             ny == [nx EXCEPT ![s] = @ + 1]
         IN  /\ st = <<>> /\ Tried(r, ny)
             /\ Timely(o, st, nx) => Timely(r, st, ny)
<1> DEFINE f  == SystemOffset
           ps == o.packets
           p  == Packet(s, nx[s])
           qs == Insert(ps, p)
           ny == [nx EXCEPT ![s] = @ + 1]
           got == [o EXCEPT !.gotVideo = @ \/ IsVideo(p), !.gotAudio = @ \/ ~IsVideo(p)]
           mid == [got EXCEPT !.packets = qs]
           held == SetHigher(mid, p)
           r  == Queued(o, p)
<1>13. Advances(nx, ny, s) /\ AllFresh(ny) /\ ny \in [Sources -> Nat]
  BY DEF Advances
<1>1. Offsets(o) = f /\ f \in [Sources -> Int] /\ ps \in Seq(Packets) /\ InRounds(f)
  BY OutputIs, SystemOffsetIs DEF Offsets
<1>2. ComesNext(p, s, f, nx) /\ p \in Packets /\ p.src = s
  BY SystemOffsetIs DEF ComesNext
<1> HIDE DEF f, ny
<1>3. st = <<>> /\ Held(f, <<>> \o ps, ps, nx) /\ (~o.gotVideo => NoVideo(ps))
  BY <1>1 DEF Good
<1>4. <<>> \in Seq(Packets)
  OBVIOUS
<1> HIDE DEF p
<1>5. /\ qs \in Seq(Packets) /\ Held(f, <<>> \o qs, qs, ny)
      /\ Adds(Range(ps), p, Range(qs))
  BY <1>1, <1>2, <1>3, <1>4, <1>13, HeldArrive
<1> HIDE DEF qs
<1>6. Held(f, qs, qs, ny)
  <2>1. <<>> \o qs = qs
    BY <1>5, NothingSent
  <2> QED BY <1>5, <2>1
<1>7. IsVideo(p) \in BOOLEAN
  BY DEF IsVideo
<1>8. /\ got \in Outputs /\ got.packets = ps
      /\ got.gotVideo = (o.gotVideo \/ IsVideo(p)) /\ got.gotAudio = (o.gotAudio \/ ~IsVideo(p))
      /\ got.highestVideo = o.highestVideo /\ got.highestAudio = o.highestAudio
  BY <1>7 DEF Outputs
<1>9. r = IF Started(got) THEN Prune(held) ELSE held
  BY <1>8 DEF Queued, qs
<1> HIDE DEF got
<1>10. /\ mid \in Outputs /\ mid.packets = qs
       /\ mid.gotVideo = got.gotVideo /\ mid.gotAudio = got.gotAudio
       /\ mid.highestVideo = o.highestVideo /\ mid.highestAudio = o.highestAudio
  BY <1>5, <1>8 DEF Outputs
<1> HIDE DEF mid
<1>11. /\ held \in Outputs /\ held.packets = qs
       /\ held.gotVideo = got.gotVideo /\ held.gotAudio = got.gotAudio
  BY <1>2, <1>10, SetHigherIs
<1>12. Started(held) <=> Started(got)
  BY <1>11 DEF Started
<1>15. Timely(o, st, nx) => Ahead(held, f, ny, 0)
  <2> SUFFICES ASSUME Timely(o, st, nx) PROVE Ahead(held, f, ny, 0)
    OBVIOUS
  <2>1. Ahead(mid, f, nx, 0)
    BY <1>1, <1>10 DEF Timely, Ahead, Slack
  <2> QED BY <1>1, <1>2, <1>10, <1>13, <2>1, AheadArrive
<1> HIDE DEF held, r
<1>16. CASE Started(got)
  <2>1. r = Prune(held)
    BY <1>9, <1>16
  <2>2. /\ Tried(r, ny)
        /\ Ahead(held, SystemOffset, ny, 0) => Ahead(r, Offsets(r), ny, Slack(r))
    BY <1>6, <1>11, <1>12, <1>13, <1>16, <2>1, PruneIs DEF f
  <2>3. Timely(o, st, nx) => Timely(r, st, ny)
    BY <1>3, <1>15, <2>2, NoneSent DEF Timely, f
  <2> QED BY <1>3, <2>2, <2>3 DEF r, p, ny
<1>17. CASE ~Started(got)
  <2>1. r = held /\ ~Started(r)
    BY <1>9, <1>12, <1>17
  <2>2. ~r.gotVideo => NoVideo(qs)
    <3> SUFFICES ASSUME ~r.gotVideo, NEW x \in Range(qs) PROVE x.src # Video
      BY <1>5, NoVideoIs
    <3>1. ~o.gotVideo /\ ~IsVideo(p)
      BY <1>8, <1>11, <2>1
    <3>2. NoVideo(ps)
      BY <1>3, <3>1
    <3> QED BY <1>1, <1>5, <3>1, <3>2, NoVideoIs DEF IsVideo, Adds
  <2>3. Good(r, <<>>, ny)
    BY <1>6, <1>11, <2>1, <2>2, WaitingGood DEF f
  <2>4. Tried(r, ny)
    BY <1>11, <2>1, <2>3 DEF Tried
  <2>5. Timely(o, st, nx) => Timely(r, st, ny)
    BY <1>3, <1>15, <2>1, NoneSent DEF Timely, Offsets, Slack, f
  <2> QED BY <1>3, <2>4, <2>5 DEF r, p, ny
<1> QED BY <1>16, <1>17

-----------------------------------------------------------------------------
(* The rest of a step: a packet is sent, video is dropped, a new start.    *)

LEMMA SendIs ==
  ASSUME NEW ny \in [Sources -> Nat], AllFresh(ny), NEW r \in Outputs, Started(r),
         NEW st \in Seq(Packets), Good(r, st, ny), r.packets # <<>>
  PROVE  LET r2  == [r EXCEPT !.packets = Tail(@)]
             st2 == Append(st, Head(r.packets))
         IN  /\ r2 \in Outputs /\ st2 \in Seq(Packets)
             /\ Good(r2, st2, ny) /\ Started(r2) /\ r2.offset = r.offset
             /\ Timely(r, st, ny) /\ HasHigherOpposing(r, Head(r.packets)) =>
                  Timely(r2, st2, ny)
<1> DEFINE f    == r.offset
           ps   == r.packets
           h    == Head(ps)
           rest == Tail(ps)
           r2   == [r EXCEPT !.packets = rest]
           st2  == Append(st, h)
<1>1. f \in [Sources -> Int] /\ ps \in Seq(Packets) /\ Offsets(r) = f
      /\ r.highestVideo \in Int /\ r.highestAudio \in Int
  BY OutputIs DEF Offsets
<1>2. r.gotVideo = TRUE /\ r.gotAudio = TRUE
  BY OutputIs DEF Started
<1>3. Held(f, st \o ps, ps, ny) /\ HasAll(Range(st \o ps))
  BY <1>1 DEF Good
<1> HIDE DEF f, ps
<1>4. /\ rest \in Seq(Packets) /\ h \in Packets /\ h = ps[1] /\ Len(ps) \in Nat
      /\ Len(ps) >= 1 /\ Len(rest) = Len(ps) - 1
      /\ \A i \in 1 .. Len(rest) : rest[i] = ps[i + 1]
  BY <1>1 DEF ps
<1>5. /\ st2 \in Seq(Packets) /\ Len(st2) = Len(st) + 1 /\ Len(st) \in Nat
      /\ st2[Len(st) + 1] = h /\ \A i \in 1 .. Len(st) : st2[i] = st[i]
  BY <1>4
<1>6. r2 \in Outputs /\ r2.packets = rest /\ r2.offset = f
      /\ r2.gotVideo = TRUE /\ r2.gotAudio = TRUE
      /\ r2.highestVideo = r.highestVideo /\ r2.highestAudio = r.highestAudio
  BY <1>2, <1>4 DEF Outputs, f
<1>7. Started(r2) /\ Offsets(r2) = f
  BY <1>6 DEF Started, Offsets
<1>8. st2 \o rest = st \o ps
  <2>1. ps = <<h>> \o rest
    BY <1>1, <1>4 DEF ps
  <2>2. st2 = st \o <<h>>
    BY <1>4
  <2> HIDE DEF h, rest, st2
  <2>3. <<h>> \in Seq(Packets)
    BY <1>4
  <2> QED BY <1>4, <2>1, <2>2, <2>3
<1> HIDE DEF h, rest, st2, r2
<1>9. Good(r2, st2, ny)
  <2>1. Sorted(rest)
    <3>1. Sorted(ps)
      BY <1>3 DEF Held
    <3>2. DOMAIN rest = 1 .. Len(rest) /\ DOMAIN ps = 1 .. Len(ps)
      BY <1>1, <1>4
    <3> SUFFICES ASSUME NEW i \in 1 .. Len(rest), NEW j \in 1 .. Len(rest), i < j
                 PROVE  rest[i].dts <= rest[j].dts
      BY <3>2 DEF Sorted
    <3>3. i + 1 \in DOMAIN ps /\ j + 1 \in DOMAIN ps /\ i + 1 < j + 1
      BY <1>4, <3>2
    <3> QED BY <1>4, <3>1, <3>3 DEF Sorted
  <2>2. Held(f, st2 \o rest, rest, ny)
    BY <1>3, <1>8, <2>1 DEF Held
  <2>3. HasAll(Range(st2 \o rest))
    BY <1>3, <1>8
  <2> QED BY <1>6, <1>7, <2>2, <2>3 DEF Good
<1>10. ASSUME Timely(r, st, ny), HasHigherOpposing(r, h) PROVE Timely(r2, st2, ny)
  <2>1. Ahead(r, f, ny, Reorder) /\ SentFirst(f, st, ps, ny) /\ Reorder \in Nat
    BY <1>1, <1>10, SourcesAre DEF Timely, Slack, ps
  <2>2. Ahead(r2, f, ny, Reorder)
    BY <1>6, <2>1 DEF Ahead
  <2>3. InRounds(f) /\ h.dts = Stamp(f, h.src, h.n) /\ h.n < ny[h.src]
        /\ h.src \in Sources /\ h.n \in Nat /\ h.dts \in Int
    <3>1. h \in Range(st \o ps)
      <4>1. h \in Range(ps)
        <5>1. 1 \in 1 .. Len(ps)
          BY <1>4
        <5>2. ps[1] \in Range(ps)
          BY <1>1, <5>1, RangeIs
        <5> QED BY <1>4, <5>2
      <4> QED BY <1>1, <4>1, ConcatIs
    <3> QED BY <1>3, <1>4, <3>1, PacketIs DEF Held, Stamped, Came
  <2>4. ASSUME NEW s \in Sources PROVE h.dts <= Stamp(f, s, ny[s]) + Reorder
    <3>1. ny[s] \in Nat /\ Stamp(f, s, ny[s]) \in Int
      BY <1>1, StampNext
    <3>2. ASSUME Video = s <=> Video = h.src PROVE h.dts <= Stamp(f, s, ny[s]) + Reorder
      <4>1. Fresh(s, ny)
        BY DEF AllFresh
      <4>2. Before(h.src, h.n, s, ny[s])
        BY <2>3, <3>2, <4>1 DEF Fresh
      <4>3. Stamp(f, h.src, h.n) <= Stamp(f, s, ny[s])
        BY <1>1, <2>3, <3>1, <4>2, StampOrder
      <4> QED BY <2>1, <2>3, <3>1, <4>3
    <3>3. CASE h.src = Video /\ s # Video
      <4>1. r.highestAudio > h.dts
        BY <1>10, <3>3 DEF HasHigherOpposing, IsVideo
      <4>2. r.highestAudio <= Stamp(f, s, ny[s])
        BY <2>1, <3>3, SourcesAre DEF Ahead
      <4> QED BY <1>1, <2>1, <2>3, <3>1, <4>1, <4>2
    <3>4. CASE h.src # Video /\ s = Video
      <4>1. r.highestVideo > h.dts
        BY <1>10, <3>4 DEF HasHigherOpposing, IsVideo
      <4>2. r.highestVideo <= Stamp(f, s, ny[s]) + Reorder
        BY <2>1, <3>4 DEF Ahead
      <4> QED BY <1>1, <2>1, <2>3, <3>1, <4>1, <4>2
    <3> QED BY <3>2, <3>3, <3>4
  <2>5. DOMAIN st = 1 .. Len(st) /\ DOMAIN ps = 1 .. Len(ps)
        /\ DOMAIN rest = 1 .. Len(rest) /\ DOMAIN st2 = 1 .. Len(st2)
    BY <1>1, <1>4, <1>5
  <2>6. Sorted(ps)
    BY <1>3 DEF Held
  <2>7. \A j \in 1 .. Len(rest) : h.dts <= rest[j].dts
    <3> TAKE j \in 1 .. Len(rest)
    <3>1. j + 1 \in DOMAIN ps /\ 1 \in DOMAIN ps /\ 1 < j + 1
      BY <1>4, <2>5
    <3> QED BY <1>4, <2>6, <3>1 DEF Sorted
  <2>8. \A i \in 1 .. Len(st) :
          /\ st[i].dts <= h.dts + Reorder
          /\ \A j \in 1 .. Len(rest) : st[i].dts <= rest[j].dts + Reorder
          /\ \A s \in Sources : st[i].dts <= Stamp(f, s, ny[s]) + Reorder
    <3> TAKE i \in 1 .. Len(st)
    <3>1. st[i].dts <= h.dts + Reorder
      <4>1. 1 \in DOMAIN ps
        BY <1>4, <2>5
      <4> QED BY <1>4, <2>1, <2>5, <4>1 DEF SentFirst
    <3>2. \A j \in 1 .. Len(rest) : st[i].dts <= rest[j].dts + Reorder
      <4> TAKE j \in 1 .. Len(rest)
      <4>1. j + 1 \in DOMAIN ps
        BY <1>4, <2>5
      <4> QED BY <1>4, <2>1, <2>5, <4>1 DEF SentFirst
    <3> QED BY <2>1, <2>5, <3>1, <3>2 DEF SentFirst
  <2>9. ASSUME NEW i \in 1 .. Len(st2), NEW j \in 1 .. Len(st2), i < j
        PROVE  st2[i].dts <= st2[j].dts + Reorder
    <3>1. i \in 1 .. Len(st) /\ st2[i] = st[i]
      BY <1>5, <2>9
    <3>2. CASE j = Len(st) + 1
      BY <1>5, <2>8, <3>1, <3>2
    <3>3. CASE j \in 1 .. Len(st)
      BY <1>5, <2>1, <2>5, <2>9, <3>1, <3>3 DEF SentFirst
    <3> QED BY <1>5, <3>2, <3>3
  <2>12. \A j \in 1 .. Len(rest) : h.dts <= rest[j].dts + Reorder
    <3> TAKE j \in 1 .. Len(rest)
    <3>1. rest[j].dts \in Int
      BY <1>4, PacketIs
    <3> QED BY <2>1, <2>3, <2>7, <3>1
  <2>10. ASSUME NEW i \in 1 .. Len(st2)
         PROVE  /\ \A j \in 1 .. Len(rest) : st2[i].dts <= rest[j].dts + Reorder
                /\ \A s \in Sources : st2[i].dts <= Stamp(f, s, ny[s]) + Reorder
    <3>1. CASE i = Len(st) + 1
      BY <1>5, <2>4, <2>12, <3>1
    <3>2. CASE i \in 1 .. Len(st)
      BY <1>5, <2>8, <3>2
    <3> QED BY <1>5, <3>1, <3>2
  <2>11. SentFirst(f, st2, rest, ny)
    BY <2>5, <2>9, <2>10 DEF SentFirst
  <2> QED BY <1>6, <1>7, <2>2, <2>11 DEF Timely, Slack
<1> QED BY <1>5, <1>6, <1>7, <1>9, <1>10 DEF r2, st2, h, rest, ps, f

LEMMA DiscardOlderIs ==
  ASSUME NEW ps \in Seq(Packets), NEW dts
  PROVE  \E k \in Nat : DiscardOlder(ps, dts) = Discard(ps, k)
<1> DEFINE kept == {i \in DOMAIN ps : ps[i].dts >= dts}
<1>1. CASE kept = {}
  <2>1. Discard(ps, Len(ps)) = <<>>
    BY DEF Discard
  <2> QED BY <1>1, <2>1 DEF DiscardOlder
<1>2. CASE kept # {}
  <2>1. kept \subseteq Nat /\ kept # {} /\ \A i \in kept : i # 0
    BY <1>2
  <2>2. DiscardOlder(ps, dts) = Discard(ps, Min(kept) - 1)
    BY <1>2 DEF DiscardOlder
  <2> HIDE DEF kept
  <2>3. Min(kept) \in kept
    BY <2>1, MinIs
  <2>4. Min(kept) \in Nat /\ Min(kept) # 0
    BY <2>1, <2>3
  <2>5. Min(kept) - 1 \in Nat
    BY <2>4
  <2> QED BY <2>2, <2>5
<1> QED BY <1>1, <1>2

(* A video packet before the first keyframe.                               *)
LEMMA DropIs ==
  ASSUME NEW nx \in [Sources -> Nat], skew \in Int, NEW o \in Outputs, ~o.gotVideo,
         NEW st \in Seq(Packets), Good(o, st, nx), AllFresh(nx),
         AllFresh([nx EXCEPT ![Video] = @ + 1]), NEW dts
  PROVE  LET r  == [o EXCEPT !.packets = DiscardOlder(@, dts)]
             ny == [nx EXCEPT ![Video] = @ + 1]
         IN  /\ r \in Outputs /\ ~Started(r) /\ Good(r, st, ny)
             /\ Timely(o, st, nx) => Timely(r, st, ny)
<1> DEFINE f  == SystemOffset
           ps == o.packets
           qs == DiscardOlder(ps, dts)
           r  == [o EXCEPT !.packets = qs]
           ny == [nx EXCEPT ![Video] = @ + 1]
<1>1. ~Started(o) /\ Offsets(o) = f /\ ps \in Seq(Packets)
  BY OutputIs DEF Started, Offsets
<1>2. f \in [Sources -> Int] /\ InRounds(f)
  BY SystemOffsetIs
<1>3. Advances(nx, ny, Video) /\ AllFresh(ny) /\ ny \in [Sources -> Nat]
  BY SourcesAre DEF Advances
<1> HIDE DEF f, ny
<1>4. st = <<>> /\ Held(f, <<>> \o ps, ps, nx) /\ NoVideo(ps)
  BY <1>1 DEF Good
<1>5. Held(f, ps, ps, nx)
  BY <1>1, <1>4, NothingSent
<1>6. \A x \in Range(ps) : x.src # Video /\ x.src \in Sources /\ x.n \in Nat
  BY <1>1, <1>4, NoVideoIs, RangeIs, PacketIs
<1>7. Held(f, ps, ps, ny)
  <2>1. Came(Range(ps), ny)
    BY <1>3, <1>5, <1>6 DEF Held, Came, Advances
  <2>2. Complete(Range(ps), ny)
    <3> SUFFICES ASSUME NEW x \in Range(ps), NEW s \in Sources, NEW n \in Nat,
                        n < ny[s], Before(x.src, x.n, s, n)
                 PROVE  \E q \in Range(ps) : q.src = s /\ q.n = n
      BY DEF Complete
    <3>1. s # Video
      BY <1>6 DEF Before
    <3>2. n < nx[s]
      BY <1>3, <3>1 DEF Advances
    <3> QED BY <1>5, <3>2 DEF Held, Complete
  <2> QED BY <1>5, <2>1, <2>2 DEF Held
<1>8. PICK k \in Nat : qs = Discard(ps, k)
  BY <1>1, DiscardOlderIs
<1>9. qs \in Seq(Packets) /\ Held(f, qs, qs, ny)
  BY <1>1, <1>7, <1>8, HeldDiscard
<1>10. NoVideo(qs)
  <2>1. \A i \in 1 .. Len(qs) : qs[i].src # Video
    <3> TAKE i \in 1 .. Len(qs)
    <3>1. i + k \in 1 .. Len(ps) /\ qs[i] = ps[i + k]
      BY <1>1, <1>8, DiscardIs
    <3>2. ps[i + k] \in Range(ps)
      BY <1>1, <3>1, RangeIs
    <3> QED BY <1>6, <3>1, <3>2
  <2> QED BY <1>9, <2>1, NoVideoIs, RangeIs
<1> HIDE DEF qs
<1>11. /\ r \in Outputs /\ r.packets = qs /\ r.gotVideo = o.gotVideo
       /\ r.highestVideo = o.highestVideo /\ r.highestAudio = o.highestAudio
  BY <1>9 DEF Outputs
<1> HIDE DEF r
<1>12. ~Started(r)
  BY <1>11 DEF Started
<1>13. Good(r, st, ny)
  BY <1>4, <1>9, <1>10, <1>11, <1>12, WaitingGood DEF f
<1>14. ASSUME Timely(o, st, nx) PROVE Timely(r, st, ny)
  <2>1. Ahead(o, f, nx, 0)
    BY <1>1, <1>14 DEF Timely, Slack
  <2>2. \A s \in Sources : /\ Stamp(f, s, nx[s]) \in Int /\ Stamp(f, s, ny[s]) \in Int
                           /\ Stamp(f, s, nx[s]) <= Stamp(f, s, ny[s])
    BY <1>2, <1>3, SourcesAre, StampAdvance
  <2>3. Ahead(r, f, ny, 0)
    <3>1. o.highestVideo \in Int /\ o.highestAudio \in Int
      BY OutputIs
    <3>2. /\ o.highestVideo <= Stamp(f, Video, nx[Video]) + 0
          /\ \A t \in Tracks : o.highestAudio <= Stamp(f, t, nx[t])
      BY <2>1 DEF Ahead
    <3>3. r.highestVideo <= Stamp(f, Video, ny[Video]) + 0
      BY <1>11, <2>2, <3>1, <3>2, SourcesAre
    <3>4. ASSUME NEW t \in Tracks PROVE r.highestAudio <= Stamp(f, t, ny[t])
      <4>1. t \in Sources
        BY SourcesAre
      <4> QED BY <1>11, <2>2, <3>1, <3>2, <4>1
    <3> QED BY <3>3, <3>4 DEF Ahead
  <2>4. Offsets(r) = f /\ Slack(r) = 0
    BY <1>12 DEF Offsets, Slack, f
  <2> QED BY <1>4, <2>3, <2>4, NoneSent DEF Timely
<1> QED BY <1>11, <1>12, <1>13, <1>14 DEF r, qs, ny

LEMMA ResetGood ==
  ASSUME skew \in Int, Origin + skew >= 0, NEW nx \in [Sources -> Nat]
  PROVE  /\ Reset \in Outputs /\ ~Started(Reset) /\ <<>> \in Seq(Packets)
         /\ Good(Reset, <<>>, nx) /\ Timely(Reset, <<>>, nx)
<1>1. /\ Reset \in Outputs /\ ~Started(Reset) /\ ~Reset.gotVideo
      /\ Reset.packets = <<>> /\ Reset.highestVideo = 0 /\ Reset.highestAudio = 0
  <2>1. <<>> \in Seq(Packets) /\ [s \in Sources |-> 0] \in [Sources -> Int]
    OBVIOUS
  <2> QED BY <2>1 DEF Reset, Outputs, Started
<1>2. SystemOffset \in [Sources -> Int] /\ InRounds(SystemOffset)
  BY SystemOffsetIs
<1>3. <<>> \in Seq(Packets) /\ DOMAIN <<>> = {} /\ Range(<<>>) = {}
  <2>1. DOMAIN <<>> = {}
    OBVIOUS
  <2> QED BY <2>1 DEF Range
<1>4. Held(SystemOffset, <<>>, <<>>, nx)
  BY <1>2, <1>3 DEF Held, Stamped, Sorted, Ordered, Came, Complete
<1>5. NoVideo(<<>>)
  BY <1>3 DEF NoVideo, At
<1>6. Good(Reset, <<>>, nx)
  BY <1>1, <1>4, <1>5, WaitingGood
<1>7. Ahead(Reset, SystemOffset, nx, 0)
  <2>1. \A s \in Sources : 0 <= Stamp(SystemOffset, s, nx[s])
    <3> TAKE s \in Sources
    <3>1. Clock(s, nx[s]) \in Int /\ Clock(s, nx[s]) >= 0
      BY ClockIs
    <3>2. SystemOffset[s] = -(Origin + (IF s = Video THEN 0 ELSE skew))
      BY DEF SystemOffset
    <3> QED BY <3>1, <3>2 DEF Stamp, Origin
  <2>2. 0 <= Stamp(SystemOffset, Video, nx[Video]) + 0
    <3>1. Stamp(SystemOffset, Video, nx[Video]) \in Int
      BY <1>2, SourcesAre, StampNext
    <3> QED BY <2>1, <3>1, SourcesAre
  <2> QED BY <1>1, <2>1, <2>2, SourcesAre DEF Ahead
<1>8. Offsets(Reset) = SystemOffset /\ Slack(Reset) = 0
  BY <1>1 DEF Offsets, Slack
<1> QED BY <1>1, <1>3, <1>6, <1>7, <1>8, NoneSent DEF Timely

-----------------------------------------------------------------------------
(* The invariant.                                                          *)

LEMMA FreshNext ==
  ASSUME TypeOK, Rounds
  PROVE  AllFresh(next)
BY FreshOf DEF TypeOK, Rounds, AllFresh

(* After either call of an encoder the tracks still are in rounds.         *)
LEMMA RoundsAfter ==
  ASSUME TypeOK, Rounds
  PROVE  /\ AllFresh([next EXCEPT ![Video] = @ + 1])
         /\ AllFresh([next EXCEPT ![turn] = @ + 1])
         /\ (turn + 1) % NumTracks \in Tracks
         /\ \A s \in Tracks : [next EXCEPT ![Video] = @ + 1][s] =
              [next EXCEPT ![Video] = @ + 1][turn] + (IF s < turn THEN 1 ELSE 0)
         /\ LET nt == (turn + 1) % NumTracks
            IN  \A s \in Tracks : [next EXCEPT ![turn] = @ + 1][s] =
                  [next EXCEPT ![turn] = @ + 1][nt] + (IF s < nt THEN 1 ELSE 0)
<1> DEFINE nv == [next EXCEPT ![Video] = @ + 1]
           na == [next EXCEPT ![turn] = @ + 1]
           nt == (turn + 1) % NumTracks
<1>1. turn \in Tracks /\ turn \in Sources /\ turn \in Nat /\ turn <= NumTracks - 1
      /\ NumTracks \in Nat /\ next \in [Sources -> Nat]
  BY SourcesAre DEF TypeOK, Tracks
<1>2. nv \in [Sources -> Nat] /\ na \in [Sources -> Nat]
  BY <1>1, SourcesAre
<1>3. \A s \in Tracks : nv[s] = next[s] /\ next[s] \in Nat /\ s \in Nat
  BY <1>1, SourcesAre
<1>4. \A s \in Tracks : na[s] = IF s = turn THEN next[s] + 1 ELSE next[s]
  BY <1>1, SourcesAre
<1>5. \A s \in Tracks : next[s] = next[turn] + (IF s < turn THEN 1 ELSE 0)
  BY DEF Rounds
<1>6. nt = IF turn + 1 = NumTracks THEN 0 ELSE turn + 1
  BY <1>1
<1>7. nt \in Tracks /\ nt \in Nat
  BY <1>1, <1>6, SourcesAre DEF Tracks
<1> HIDE DEF nv, na, nt
<1>8. \A s \in Tracks : nv[s] = nv[turn] + (IF s < turn THEN 1 ELSE 0)
  BY <1>1, <1>3, <1>5
<1>9. ASSUME NEW s \in Tracks PROVE na[s] = na[nt] + (IF s < nt THEN 1 ELSE 0)
  <2>1. s \in Nat /\ s <= NumTracks - 1
    BY <1>1 DEF Tracks
  <2>2. next[turn] \in Nat /\ next[s] \in Nat /\ next[nt] \in Nat
    BY <1>1, <1>3, <1>7
  <2>3. next[s] = next[turn] + (IF s < turn THEN 1 ELSE 0)
        /\ next[nt] = next[turn] + (IF nt < turn THEN 1 ELSE 0)
    BY <1>5, <1>7
  <2>4. na[s] = (IF s = turn THEN next[s] + 1 ELSE next[s])
        /\ na[nt] = (IF nt = turn THEN next[nt] + 1 ELSE next[nt])
    BY <1>4, <1>7
  <2>5. CASE turn + 1 = NumTracks
    <3>1. nt = 0 /\ ~(s < nt) /\ s <= turn
      BY <1>1, <1>6, <2>1, <2>5
    <3>2. na[s] = next[turn] + 1
      BY <1>1, <2>1, <2>2, <2>3, <2>4, <3>1
    <3>3. na[nt] = next[turn] + 1
      BY <1>1, <2>2, <2>3, <2>4, <3>1
    <3> QED BY <2>2, <3>1, <3>2, <3>3
  <2>6. CASE turn + 1 # NumTracks
    <3>1. nt = turn + 1
      BY <1>6, <2>6
    <3>2. na[nt] = next[turn]
      BY <1>1, <2>2, <2>3, <2>4, <3>1
    <3>3. na[s] = next[turn] + (IF s < nt THEN 1 ELSE 0)
      BY <1>1, <2>1, <2>2, <2>3, <2>4, <3>1
    <3> QED BY <3>2, <3>3
  <2> QED BY <2>5, <2>6
<1>10. AllFresh(nv)
  BY <1>1, <1>2, <1>8, FreshOf DEF AllFresh
<1>11. AllFresh(na)
  BY <1>2, <1>7, <1>9, FreshOf DEF AllFresh
<1> QED BY <1>7, <1>8, <1>9, <1>10, <1>11 DEF nv, na, nt

(* What one call leaves behind, in the output and in what has been sent.   *)
Left(o, st, nx) ==
  /\ o \in Outputs /\ st \in Seq(Packets) /\ Good(o, st, nx)
  /\ Started(o) => Synced(o.offset)

LEMMA SyncIs ==
  InSync <=> (Started(out) => Synced(out.offset))
BY DEF InSync, Synced

(* Keep, with a packet of any encoder.                                     *)
LEMMA KeepIs ==
  ASSUME TypeOK, Good(out, sent, next), InSync, NEW s \in Sources,
         AllFresh(next), AllFresh([next EXCEPT ![s] = @ + 1]),
         Keep(Packet(s, next[s]))
  PROVE  LET ny == [next EXCEPT ![s] = @ + 1]
         IN  /\ Left(out', sent', ny)
             /\ Timely(out, sent, next) => Timely(out', sent', ny)
<1> DEFINE ny == [next EXCEPT ![s] = @ + 1]
           p  == Packet(s, next[s])
           r  == Queued(out, p)
<1>1. next \in [Sources -> Nat] /\ skew \in Int /\ out \in Outputs
      /\ sent \in Seq(Packets)
  BY DEF TypeOK
<1>2. ny \in [Sources -> Nat] /\ AllFresh(ny)
  BY <1>1
<1>3. Left(r, sent, ny) /\ (Started(r) => r.packets # <<>>)
      /\ (Timely(out, sent, next) => Timely(r, sent, ny))
  <2>1. CASE Started(out)
    <3>1. /\ r \in Outputs /\ Good(r, sent, ny) /\ Started(r) /\ r.offset = out.offset
          /\ r.packets # <<>>
          /\ Timely(out, sent, next) => Timely(r, sent, ny)
      BY <1>1, <2>1, ArriveStarted
    <3> QED BY <1>1, <2>1, <3>1, SyncIs DEF Left
  <2>2. CASE ~Started(out)
    <3>1. /\ sent = <<>> /\ Tried(r, ny)
          /\ Timely(out, sent, next) => Timely(r, sent, ny)
      BY <1>1, <2>2, ArriveWaiting
    <3> QED BY <1>1, <3>1 DEF Left, Tried
  <2> QED BY <2>1, <2>2
<1>4. Send(r)
  BY DEF Keep
<1> HIDE DEF r, p, ny
<1>5. CASE Started(r) /\ HasHigherOpposing(r, Head(r.packets))
  <2>1. /\ out' = [r EXCEPT !.packets = Tail(@)]
        /\ sent' = Append(sent, Head(r.packets))
    BY <1>4, <1>5 DEF Send
  <2>2. /\ out' \in Outputs /\ sent' \in Seq(Packets) /\ Good(out', sent', ny)
        /\ Started(out') /\ out'.offset = r.offset
        /\ Timely(r, sent, ny) => Timely(out', sent', ny)
    <3>1. r \in Outputs /\ Good(r, sent, ny) /\ r.packets # <<>>
      BY <1>3, <1>5 DEF Left
    <3> QED BY <1>1, <1>2, <1>5, <2>1, <3>1, SendIs
  <2>3. Left(out', sent', ny)
    BY <1>3, <1>5, <2>2 DEF Left
  <2> QED BY <1>3, <2>2, <2>3 DEF ny
<1>6. CASE ~(Started(r) /\ HasHigherOpposing(r, Head(r.packets)))
  <2>1. out' = r /\ sent' = sent
    BY <1>4, <1>6 DEF Send
  <2> QED BY <1>3, <2>1 DEF ny
<1> QED BY <1>5, <1>6

LEMMA InvInit ==
  ASSUME Init
  PROVE  IInv /\ Timely(out, sent, next)
<1>1. next \in [Sources -> Nat] /\ turn \in Tracks /\ restarts \in Nat
      /\ skew \in Int /\ Origin + skew >= 0 /\ out = Reset /\ sent = <<>>
  BY InterleaveAssumption, SourcesAre DEF InterleaveAssumption, Init
<1>2. /\ Reset \in Outputs /\ ~Started(Reset) /\ <<>> \in Seq(Packets)
      /\ Good(Reset, <<>>, next) /\ Timely(Reset, <<>>, next)
  BY <1>1, ResetGood
<1>3. TypeOK
  BY <1>1, <1>2 DEF TypeOK
<1>4. Rounds
  BY <1>1, SourcesAre DEF Rounds, Init, Tracks
<1>5. InSync
  BY <1>1, <1>2 DEF InSync
<1> QED BY <1>1, <1>2, <1>3, <1>4, <1>5 DEF IInv

(* Good and Timely speak of skew, which no step changes.                   *)
LEMMA SkewStays ==
  ASSUME [Next]_vars
  PROVE  skew' = skew
BY DEF Next, vars, VideoPacket, AudioPacket, HookDataCapture

LEMMA InvPrimed ==
  ASSUME skew' = skew
  PROVE  /\ Good(out, sent, next)' <=> Good(out', sent', next')
         /\ Timely(out, sent, next)' <=> Timely(out', sent', next')
         /\ InSync' <=> (Started(out') => Synced(out'.offset))
BY DEF Good, Timely, Slack, Offsets, SystemOffset, Held, HasAll, Ahead, SentFirst, InSync,
       Synced, InRounds, Stamped, Stamp, Came, Complete, Sorted, Ordered, Started,
       NoVideo

(* Every step of the system leaves the invariant and the times in order.   *)
LEMMA StepIs ==
  ASSUME IInv, [Next]_vars
  PROVE  /\ TypeOK' /\ Rounds' /\ Left(out', sent', next')
         /\ Timely(out, sent, next) => Timely(out', sent', next')
<1>1. TypeOK /\ Rounds /\ Good(out, sent, next) /\ InSync /\ AllFresh(next)
  BY FreshNext DEF IInv
<1>2. next \in [Sources -> Nat] /\ skew \in Int /\ out \in Outputs
      /\ sent \in Seq(Packets) /\ turn \in Tracks /\ restarts \in Nat
      /\ Origin + skew >= 0
  BY <1>1 DEF TypeOK
<1>3. /\ AllFresh([next EXCEPT ![Video] = @ + 1])
      /\ AllFresh([next EXCEPT ![turn] = @ + 1])
      /\ (turn + 1) % NumTracks \in Tracks
  BY <1>1, RoundsAfter
<1>4. CASE VideoPacket
  <2> DEFINE p  == Packet(Video, next[Video])
             ny == [next EXCEPT ![Video] = @ + 1]
  <2>1. next' = ny /\ turn' = turn /\ skew' = skew /\ restarts' = restarts
    BY <1>4 DEF VideoPacket
  <2>2. /\ Left(out', sent', ny)
        /\ Timely(out, sent, next) => Timely(out', sent', ny)
    <3>1. DropNonKey(p) \/ Keep(p)
      BY <1>4 DEF VideoPacket
    <3>2. CASE Keep(p)
      BY <1>1, <1>3, <3>2, SourcesAre, KeepIs
    <3>3. CASE DropNonKey(p)
      <4>1. /\ ~out.gotVideo /\ sent' = sent
            /\ out' = [out EXCEPT !.packets = DiscardOlder(@, p.dts)]
        BY <3>3 DEF DropNonKey
      <4> HIDE DEF p
      <4>2. /\ out' \in Outputs /\ ~Started(out') /\ Good(out', sent, ny)
            /\ Timely(out, sent, next) => Timely(out', sent, ny)
        BY <1>1, <1>2, <1>3, <4>1, DropIs
      <4> QED BY <1>2, <4>1, <4>2 DEF Left
    <3> QED BY <3>1, <3>2, <3>3
  <2>3. next' \in [Sources -> Nat]
    BY <1>2, <2>1, SourcesAre
  <2>4. TypeOK'
    BY <1>2, <2>1, <2>2, <2>3 DEF TypeOK, Left
  <2>5. Rounds'
    BY <1>1, <2>1, RoundsAfter DEF Rounds
  <2> QED BY <2>1, <2>2, <2>4, <2>5
<1>5. CASE AudioPacket
  <2> DEFINE ny == [next EXCEPT ![turn] = @ + 1]
  <2>1. next' = ny /\ turn' = (turn + 1) % NumTracks /\ skew' = skew
        /\ restarts' = restarts /\ Keep(Packet(turn, next[turn]))
    BY <1>5 DEF AudioPacket
  <2>2. /\ Left(out', sent', ny)
        /\ Timely(out, sent, next) => Timely(out', sent', ny)
    BY <1>1, <1>2, <1>3, <2>1, SourcesAre, KeepIs
  <2>3. next' \in [Sources -> Nat]
    BY <1>2, <2>1, SourcesAre
  <2>4. TypeOK'
    BY <1>2, <1>3, <2>1, <2>2, <2>3 DEF TypeOK, Left
  <2>5. Rounds'
    BY <1>1, <2>1, RoundsAfter DEF Rounds
  <2> QED BY <2>1, <2>2, <2>4, <2>5
<1>6. CASE HookDataCapture
  <2>1. out' = Reset /\ sent' = <<>> /\ restarts' = restarts + 1
        /\ next' = next /\ turn' = turn /\ skew' = skew
    BY <1>6 DEF HookDataCapture
  <2>2. /\ Reset \in Outputs /\ ~Started(Reset) /\ <<>> \in Seq(Packets)
        /\ Good(Reset, <<>>, next) /\ Timely(Reset, <<>>, next)
    BY <1>2, ResetGood
  <2>3. TypeOK'
    BY <1>2, <2>1, <2>2 DEF TypeOK
  <2>4. Rounds'
    BY <1>1, <2>1 DEF Rounds
  <2> QED BY <2>1, <2>2, <2>3, <2>4 DEF Left
<1>7. CASE UNCHANGED vars
  <2>1. out' = out /\ sent' = sent /\ next' = next /\ turn' = turn /\ skew' = skew
        /\ restarts' = restarts
    BY <1>7 DEF vars
  <2>2. TypeOK' /\ Rounds'
    BY <1>1, <2>1 DEF TypeOK, Rounds
  <2> QED BY <1>1, <1>2, <2>1, <2>2, SyncIs DEF Left
<1> QED BY <1>4, <1>5, <1>6, <1>7 DEF Next

LEMMA InvNext ==
  ASSUME IInv, [Next]_vars
  PROVE  IInv'
<1>1. TypeOK' /\ Rounds' /\ Left(out', sent', next')
  BY StepIs
<1>2. Good(out, sent, next)' /\ InSync'
  BY <1>1, SkewStays, InvPrimed DEF Left
<1> QED BY <1>1, <1>2 DEF IInv

LEMMA InvAlways ==
  Spec => []IInv
<1>1. Init => IInv
  BY InvInit
<1>2. IInv /\ [Next]_vars => IInv'
  BY InvNext
<1> QED BY <1>1, <1>2, PTL DEF Spec

-----------------------------------------------------------------------------

(* The state of an output and of its encoders stays what the code declares *)
(* it to be, for any number of tracks and packets: the queue holds packets *)
(* of its encoders, the turn of the audio thread is one of the tracks'     *)
(* (interleave_packets, obs-output.c 1397-1455).                           *)
THEOREM TypeCorrect ==
  Spec => []TypeOK
<1>1. IInv => TypeOK
  BY DEF IInv
<1> QED BY <1>1, InvAlways, PTL

(* Moving the clocks of the encoders to zero moves the sound of no track   *)
(* against the picture by more than a video frame and an audio packet: for *)
(* every number of tracks, all periods and any distance of the two clocks. *)
THEOREM InSyncCorrect ==
  Spec => []InSync
<1>1. IInv => InSync
  BY DEF IInv
<1> QED BY <1>1, InvAlways, PTL

LEMMA AtIs ==
  ASSUME NEW ps \in Seq(Packets), NEW s
  PROVE  \A i : i \in At(ps, s) <=> i \in 1 .. Len(ps) /\ ps[i].src = s
<1>1. DOMAIN ps = 1 .. Len(ps)
  OBVIOUS
<1> QED BY <1>1 DEF At

(* From a packet of an encoder in the output on all have been kept.        *)
LEMMA KeptOnward ==
  ASSUME NEW f, NEW nx \in [Sources -> Nat], NEW qs,
         NEW ps \in Seq(Packets), Held(f, ps, qs, nx),
         NEW i \in 1 .. Len(ps), NEW m \in Nat, ps[i].n <= m, m < nx[ps[i].src]
  PROVE  \E k \in 1 .. Len(ps) : ps[k].src = ps[i].src /\ ps[k].n = m
<1>1. ps[i] \in Range(ps) /\ ps[i].src \in Sources /\ ps[i].n \in Nat
  BY RangeIs, PacketIs
<1>2. CASE ps[i].n = m
  BY <1>2
<1>3. CASE ps[i].n # m
  <2>1. Before(ps[i].src, ps[i].n, ps[i].src, m)
    BY <1>1, <1>3 DEF Before
  <2>2. PICK q \in Range(ps) : q.src = ps[i].src /\ q.n = m
    BY <1>1, <2>1 DEF Held, Complete
  <2> QED BY <2>2, RangeIs
<1> QED BY <1>2, <1>3

LEMMA NothingLostIs ==
  ASSUME IInv
  PROVE  NothingLost
<1> SUFFICES ASSUME Started(out), NEW s \in Sources
             PROVE  LET all == sent \o out.packets
                    IN  /\ At(all, s) # {} /\ Latest(all, s).n = next[s] - 1
                        /\ Consecutive(all, s)
  BY DEF NothingLost
<1> DEFINE all == sent \o out.packets
           f   == Offsets(out)
<1>1. next \in [Sources -> Nat] /\ out.packets \in Seq(Packets) /\ sent \in Seq(Packets)
  BY OutputIs DEF IInv, TypeOK
<1>2. all \in Seq(Packets) /\ next[s] \in Nat
  BY <1>1
<1>3. Held(f, all, out.packets, next) /\ HasAll(Range(all))
  BY DEF IInv, Good
<1> HIDE DEF all, f
<1>4. Ordered(all) /\ Came(Range(all), next)
  BY <1>3 DEF Held
<1>5. At(all, s) # {}
  <2>1. PICK q \in Range(all) : q.src = s
    BY <1>3 DEF HasAll
  <2>2. PICK i \in 1 .. Len(all) : q = all[i]
    BY <1>2, RangeIs
  <2> QED BY <1>2, <2>1, <2>2, AtIs
<1>6. Latest(all, s).n = next[s] - 1
  <2>1. PICK l \in 1 .. Len(all) :
          /\ all[l].src = s /\ Latest(all, s) = all[l]
          /\ \A i \in 1 .. Len(all) : all[i].src = s => i <= l
    BY <1>2, <1>5, LatestIs
  <2>2. all[l].n \in Nat /\ all[l].n < next[s]
    BY <1>2, <1>4, <2>1, RangeIs, PacketIs DEF Came
  <2>3. PICK k \in 1 .. Len(all) : all[k].src = s /\ all[k].n = next[s] - 1
    <3>1. next[s] - 1 \in Nat /\ all[l].n <= next[s] - 1 
           /\ next[s] - 1 < next[all[l].src]
      BY <1>2, <2>1, <2>2
    <3>2. \E k \in 1 .. Len(all) : all[k].src = all[l].src /\ all[k].n = next[s] - 1
      <4> SUFFICES ASSUME NEW m \in Nat, all[l].n <= m, m < next[all[l].src]
                   PROVE  \E k \in 1 .. Len(all) : all[k].src = all[l].src /\ all[k].n = m
        BY <3>1
      <4>1. next \in [Sources -> Nat] /\ all \in Seq(Packets) /\ l \in 1 .. Len(all)
            /\ Held(f, all, out.packets, next)
        BY <1>1, <1>2, <1>3
      <4> QED BY <4>1, KeptOnward
    <3> QED BY <2>1, <3>2
  <2>4. k <= l
    BY <2>1, <2>3
  <2>5. all[k].n <= all[l].n
    BY <1>2, <1>4, <2>1, <2>2, <2>3, <2>4, NumbersInOrder
  <2> QED BY <1>2, <2>1, <2>2, <2>3, <2>5
<1>7. Consecutive(all, s)
  <2> SUFFICES ASSUME NEW i \in At(all, s), NEW j \in At(all, s), i < j
               PROVE  /\ all[i].n < all[j].n
                      /\ \A m \in all[i].n .. all[j].n :
                           \E k \in At(all, s) : all[k].n = m
    BY DEF Consecutive
  <2>1. /\ i \in 1 .. Len(all) /\ all[i].src = s
        /\ j \in 1 .. Len(all) /\ all[j].src = s
    BY <1>2, AtIs
  <2>2. all[i].n < all[j].n
    BY <1>2, <1>4, <2>1, NumbersInOrder
  <2>3. all[i].n \in Nat /\ all[j].n \in Nat /\ all[j].n < next[s]
    BY <1>2, <1>4, <2>1, RangeIs, PacketIs DEF Came
  <2>4. ASSUME NEW m \in all[i].n .. all[j].n
        PROVE  \E k \in At(all, s) : all[k].n = m
    <3>1. m \in Nat /\ all[i].n <= m /\ m < next[all[i].src]
      BY <1>2, <2>1, <2>3
    <3>2. i \in 1 .. Len(all)
      BY <2>1
    <3>3. \E k \in 1 .. Len(all) : all[k].src = all[i].src /\ all[k].n = m
      BY <1>1, <1>2, <1>3, <3>1, <3>2, KeptOnward
    <3> QED BY <1>2, <2>1, <3>3, AtIs
  <2> QED BY <2>2, <2>4
<1> QED BY <1>5, <1>6, <1>7 DEF all

(* Once a stream has started, what was sent and what is queued of each     *)
(* encoder are consecutive packets up to the last one that came: nothing   *)
(* is lost, repeated or overtaken by the queue, however the packets of the *)
(* encoders arrive and however often the output is started again.          *)
THEOREM NothingLostCorrect ==
  Spec => []NothingLost
<1>1. IInv => NothingLost
  BY NothingLostIs
<1> QED BY <1>1, InvAlways, PTL

(* The times of what has been sent, and of what is to be.                  *)
LEMMA TimelyAlways ==
  Spec => [](IInv /\ Timely(out, sent, next))
<1> DEFINE J == IInv /\ Timely(out, sent, next)
<1>1. Init => J
  BY InvInit
<1>2. J /\ [Next]_vars => J'
  <2> SUFFICES ASSUME IInv, Timely(out, sent, next), [Next]_vars
               PROVE  IInv' /\ Timely(out, sent, next)'
    OBVIOUS
  <2>1. IInv'
    BY InvNext
  <2>2. Timely(out', sent', next')
    BY StepIs
  <2> QED BY <2>1, <2>2, SkewStays, InvPrimed
<1> HIDE DEF J
<1>3. Spec => []J
  BY <1>1, <1>2, PTL DEF Spec
<1> QED BY <1>3 DEF J

(* No packet that is sent lies further back in time than the video encoder *)
(* reorders, behind any packet sent before it.                             *)
Late == \A i, j \in DOMAIN sent : i < j => sent[i].dts <= sent[j].dts + Reorder

(* However the packets come, none is sent that is behind another one sent  *)
(* before it by more than the video encoder reorders: this is how far the  *)
(* finding of MCInterleaveReorder can go wrong (send_interleaved).         *)
THEOREM LateByReorderAtMost ==
  Spec => []Late
<1>1. IInv /\ Timely(out, sent, next) => Late
  BY DEF Timely, SentFirst, Late
<1> QED BY <1>1, TimelyAlways, PTL

(* The packets sent never go back in time when the video encoder reorders  *)
(* nothing.  When it does the start of the stream breaks that: the finding *)
(* of MCInterleaveReorder.                                                 *)
THEOREM MonotonicCorrect ==
  ASSUME Reorder = 0
  PROVE  Spec => []Monotonic
<1>1. IInv /\ Timely(out, sent, next) => Monotonic
  <2> SUFFICES ASSUME IInv, Timely(out, sent, next), NEW i \in 1 .. Len(sent) - 1
               PROVE  sent[i].dts <= sent[i + 1].dts
    BY DEF Monotonic
  <2>1. sent \in Seq(Packets)
    BY DEF IInv, TypeOK
  <2>2. i \in 1 .. Len(sent) /\ i + 1 \in 1 .. Len(sent) /\ i < i + 1
        /\ DOMAIN sent = 1 .. Len(sent)
    BY <2>1
  <2>3. sent[i].dts <= sent[i + 1].dts + Reorder
    BY <2>2 DEF Timely, SentFirst
  <2>4. sent[i + 1].dts \in Int
    BY <2>1, <2>2, RangeIs, PacketIs
  <2> QED BY <2>3, <2>4
<1> QED BY <1>1, TimelyAlways, PTL
=============================================================================
