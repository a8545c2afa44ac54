--------------------------- MODULE ServiceProofs ---------------------------
(***************************************************************************)
(* What a viewer of a stage's live output is served, for any number of     *)
(* viewers, any depth of the ring and the queues, any stages and updates.  *)
(***************************************************************************)
EXTENDS Service, TLAPS

(* The line that a viewer is served before its queue: the last to replay,   *)
(* or the last heard.                                                       *)
Before(h, l) == IF l # <<>> THEN l[Len(l)]
                ELSE IF h # <<>> THEN h[Len(h)] ELSE 0

InRow(s) == \A i, j \in 1 .. Len(s) : j = i + 1 => s[j] = s[i] + 1
Lines(s) == s \in Seq(Nat) /\ \A i \in 1 .. Len(s) : s[i] # EndMark

(* How what was heard, is left to replay and is queued fit together, when n *)
(* lines were said.  A queue that has not lagged has them all, up to an end *)
(* marker; one that has still has them in order.                            *)
Heard(h, lag) ==
    /\ Lines(h)
    /\ \A i, j \in 1 .. Len(h) :
          j = i + 1 => h[i] < h[j] /\ (lag \/ h[j] = h[i] + 1)

Replayed(h, l) ==
    /\ Lines(l) /\ InRow(l)
    /\ l # <<>> /\ h # <<>> => l[1] = h[Len(h)] + 1

Queued(b, q, n) ==
    /\ q \in Seq(Nat) /\ Len(q) <= MaxLines
    /\ b \in Nat /\ b <= n
    /\ \A i \in 1 .. Len(q) : q[i] <= n /\ (q[i] # EndMark => b < q[i])
    /\ \A i, j \in 1 .. Len(q) :
          i < j /\ q[i] # EndMark /\ q[j] # EndMark => q[i] < q[j]

Complete(b, q, n) ==
    /\ IF q = <<>> THEN b \in {0, n} ELSE q[Len(q)] \in {EndMark, n}
    /\ q # <<>> /\ q[1] # EndMark /\ b # 0 => q[1] = b + 1
    /\ \A i, j \in 1 .. Len(q) :
          j = i + 1 /\ q[i] # EndMark /\ q[j] # EndMark => q[j] = q[i] + 1

Fits(h, l, q, lag, n) ==
    /\ Heard(h, lag) /\ Replayed(h, l)
    /\ Queued(Before(h, l), q, n)
    /\ lag \/ Complete(Before(h, l), q, n)

-----------------------------------------------------------------------------

LEMMA AppendIs ==
    ASSUME NEW s \in Seq(Nat), NEW x \in Nat
    PROVE  /\ Append(s, x) \in Seq(Nat) /\ Append(s, x) # <<>>
           /\ Len(s) \in Nat /\ Len(Append(s, x)) = Len(s) + 1
           /\ Append(s, x)[Len(s) + 1] = x
           /\ \A i \in 1 .. Len(s) : Append(s, x)[i] = s[i] /\ s[i] \in Nat
OBVIOUS

LEMMA TailIs ==
    ASSUME NEW s \in Seq(Nat), s # <<>>
    PROVE  /\ Tail(s) \in Seq(Nat) /\ Head(s) = s[1] /\ s[1] \in Nat
           /\ Len(s) \in Nat \ {0} /\ Len(Tail(s)) = Len(s) - 1
           /\ \A i \in 1 .. Len(s) - 1 : i + 1 \in 1 .. Len(s) /\ Tail(s)[i] = s[i + 1]
           /\ Tail(s) = <<>> <=> Len(s) = 1
<1>1. /\ Tail(s) \in Seq(Nat) /\ Head(s) = s[1] /\ s[1] \in Nat
      /\ Len(s) \in Nat \ {0} /\ Len(Tail(s)) = Len(s) - 1
  OBVIOUS
<1>2. ASSUME NEW i \in 1 .. Len(s) - 1
      PROVE  i + 1 \in 1 .. Len(s) /\ Tail(s)[i] = s[i + 1]
  <2>1. i + 1 \in 1 .. Len(s)
    BY <1>1
  <2>2. Tail(s)[i] = s[i + 1]
    BY <1>1
  <2> QED
    BY <2>1, <2>2
<1>3. Tail(s) = <<>> <=> Len(Tail(s)) = 0
  <2>1. PICK t \in Seq(Nat) : t = Tail(s)
    BY <1>1
  <2>2. t = <<>> <=> Len(t) = 0
    OBVIOUS
  <2> QED
    BY <2>1, <2>2
<1> QED
  BY <1>1, <1>2, <1>3, SMTT(30)

(* What a sequence that keeps its last items becomes: d of them are dropped. *)
Dropped(s) == IF Len(s) < MaxLines THEN 0 ELSE 1

LEMMA PushedIs ==
    ASSUME NEW s \in Seq(Nat), Len(s) <= MaxLines, NEW x \in Nat
    PROVE  /\ Dropped(s) \in {0, 1} /\ Len(s) \in Nat
           /\ Pushed(s, x) \in Seq(Nat)
           /\ Len(Pushed(s, x)) = Len(s) - Dropped(s) + 1
           /\ Len(Pushed(s, x)) \in Nat /\ Len(Pushed(s, x)) \in 1 .. MaxLines
           /\ Pushed(s, x)[Len(Pushed(s, x))] = x
           /\ \A i \in 1 .. Len(Pushed(s, x)) - 1 :
                 i + Dropped(s) \in 1 .. Len(s) /\ Pushed(s, x)[i] = s[i + Dropped(s)]
<1>1. CASE Len(s) < MaxLines
  <2>1. Pushed(s, x) = Append(s, x) /\ Dropped(s) = 0
    BY <1>1 DEF Pushed, Dropped
  <2> QED
    BY <1>1, <2>1, OutputAssumption, AppendIs
<1>2. CASE ~(Len(s) < MaxLines)
  <2>1. Pushed(s, x) = Append(Tail(s), x) /\ Dropped(s) = 1
    BY <1>2 DEF Pushed, Dropped
  <2>2. Len(s) = MaxLines /\ MaxLines \in Nat \ {0} /\ s # <<>>
    BY <1>2, OutputAssumption
  <2>3. /\ Tail(s) \in Seq(Nat) /\ Len(Tail(s)) = Len(s) - 1
        /\ \A i \in 1 .. Len(s) - 1 : i + 1 \in 1 .. Len(s) /\ Tail(s)[i] = s[i + 1]
    BY <2>2, TailIs
  <2>4. /\ Append(Tail(s), x) \in Seq(Nat) /\ Len(Append(Tail(s), x)) = Len(s)
        /\ Append(Tail(s), x)[Len(s)] = x
        /\ \A i \in 1 .. Len(s) - 1 : Append(Tail(s), x)[i] = Tail(s)[i]
    BY <2>2, <2>3, AppendIs
  <2> QED
    BY <2>1, <2>2, <2>3, <2>4
<1> QED
  BY <1>1, <1>2

(* The next line, or the end marker, told to a viewer.                     *)
LEMMA FitsTold ==
    ASSUME NEW n \in Nat, NEW m \in Nat, NEW x \in Nat,
           (m = n + 1 /\ x = m) \/ (m = n /\ x = EndMark),
           NEW h, NEW l, NEW q, NEW lag \in BOOLEAN, Fits(h, l, q, lag, n)
    PROVE  Fits(h, l, Pushed(q, x), lag \/ Len(q) = MaxLines, m)
<1> DEFINE late == lag \/ Len(q) = MaxLines
<1>0. PICK b, p, d : b = Before(h, l) /\ p = Pushed(q, x) /\ d = Dropped(q)
  OBVIOUS
<1>1. /\ q \in Seq(Nat) /\ Len(q) <= MaxLines /\ b \in Nat /\ b <= n /\ Queued(b, q, n)
  BY <1>0 DEF Fits, Queued
<1>2. /\ d \in {0, 1} /\ Len(q) \in Nat /\ p \in Seq(Nat)
      /\ Len(p) = Len(q) - d + 1 /\ Len(p) \in Nat /\ Len(p) \in 1 .. MaxLines
      /\ p[Len(p)] = x
      /\ \A i \in 1 .. Len(p) - 1 : i + d \in 1 .. Len(q) /\ p[i] = q[i + d]
  BY <1>0, <1>1, PushedIs
<1>3. Heard(h, late) /\ Replayed(h, l)
  BY DEF Fits, Heard
<1>4. Queued(b, p, m)
  <2>1. ASSUME NEW i \in 1 .. Len(p)
        PROVE  p[i] <= m /\ (p[i] # EndMark => b < p[i])
    <3>1. CASE i = Len(p)
      BY <1>1, <1>2, <3>1 DEF EndMark
    <3>2. CASE i # Len(p)
      <4>1. i + d \in 1 .. Len(q) /\ p[i] = q[i + d]
        BY <1>2, <3>2, SMTT(30)
      <4>2. q[i + d] <= n /\ (q[i + d] # EndMark => b < q[i + d]) /\ q[i + d] \in Nat
        BY <1>1, <4>1 DEF Queued
      <4> QED
        BY <4>1, <4>2
    <3> QED
      BY <3>1, <3>2
  <2>2. ASSUME NEW i \in 1 .. Len(p), NEW j \in 1 .. Len(p),
               i < j, p[i] # EndMark, p[j] # EndMark
        PROVE  p[i] < p[j]
    <3>0. i \in 1 .. Len(p) - 1
      BY <1>2, <2>2
    <3>1. i + d \in 1 .. Len(q) /\ p[i] = q[i + d]
      BY <1>2, <3>0
    <3>2. q[i + d] <= n /\ q[i + d] \in Nat
      BY <1>1, <3>1 DEF Queued
    <3>3. CASE j = Len(p)
      <4>1. p[j] = x /\ x = n + 1
        BY <1>2, <2>2, <3>3
      <4> QED
        BY <3>1, <3>2, <4>1
    <3>4. CASE j # Len(p)
      <4>0. j \in 1 .. Len(p) - 1
        <5>1. Len(p) \in Nat
          BY <1>2
        <5> QED
          BY <3>4, <5>1
      <4>1. j + d \in 1 .. Len(q) /\ p[j] = q[j + d] /\ i + d < j + d
        <5>1. i \in Nat /\ j \in Nat /\ d \in Nat
          BY <1>2
        <5>2. i + d < j + d
          BY <2>2, <5>1
        <5> QED
          BY <1>2, <4>0, <5>2
      <4>2. q[i + d] # EndMark /\ q[j + d] # EndMark
        BY <2>2, <3>1, <4>1
      <4>3. q[i + d] < q[j + d]
        BY <1>1, <3>1, <4>1, <4>2 DEF Queued
      <4> QED
        BY <3>1, <4>1, <4>3
    <3> QED
      BY <3>3, <3>4
  <2> QED
    BY <1>1, <1>2, <2>1, <2>2 DEF Queued
<1>5. CASE late
  BY <1>0, <1>3, <1>4, <1>5 DEF Fits
<1>6. CASE ~late
  <2>1. d = 0 /\ Complete(b, q, n) /\ Len(p) = Len(q) + 1
        /\ \A i \in 1 .. Len(q) : p[i] = q[i]
    <3>1. d = 0
      BY <1>0, <1>1, <1>6, OutputAssumption DEF Dropped
    <3>2. Complete(b, q, n)
      BY <1>0, <1>6 DEF Fits
    <3> QED
      BY <1>2, <3>1, <3>2
  <2>2. p # <<>>
    BY <1>2
  <2>3. p[1] # EndMark /\ b # 0 => p[1] = b + 1
    <3>1. CASE q = <<>>
      BY <1>1, <1>2, <2>1, <3>1 DEF Complete, EndMark
    <3>2. CASE q # <<>>
      <4>1. p[1] = q[1]
        BY <1>1, <2>1, <3>2
      <4> QED
        BY <2>1, <3>2, <4>1 DEF Complete
    <3> QED
      BY <3>1, <3>2
  <2>4. ASSUME NEW i \in 1 .. Len(p), NEW j \in 1 .. Len(p),
               j = i + 1, p[i] # EndMark, p[j] # EndMark
        PROVE  p[j] = p[i] + 1
    <3>1. i \in 1 .. Len(q) /\ p[i] = q[i] /\ q # <<>>
      BY <1>1, <1>2, <2>1, <2>4, SMTT(30)
    <3>2. CASE j = Len(p)
      <4>1. i = Len(q) /\ p[j] = x
        BY <1>2, <2>1, <2>4, <3>2
      <4>2. q[Len(q)] \in {EndMark, n}
        BY <2>1, <3>1 DEF Complete
      <4> QED
        BY <2>4, <3>1, <4>1, <4>2
    <3>3. CASE j # Len(p)
      <4>1. j \in 1 .. Len(q) /\ p[j] = q[j]
        BY <1>2, <2>1, <3>3
      <4> QED
        BY <2>1, <2>4, <3>1, <4>1 DEF Complete
    <3> QED
      BY <3>2, <3>3
  <2>5. Complete(b, p, m)
    BY <1>2, <2>2, <2>3, <2>4 DEF Complete
  <2> QED
    BY <1>0, <1>3, <1>4, <2>5 DEF Fits
<1> QED
  BY <1>5, <1>6

(* One more line heard, after those before it.                             *)
LEMMA HeardMore ==
    ASSUME NEW h, NEW lag \in BOOLEAN, Heard(h, lag), NEW x \in Nat \ {0},
           h # <<>> => h[Len(h)] < x /\ (lag \/ x = h[Len(h)] + 1)
    PROVE  /\ Heard(Append(h, x), lag) /\ Append(h, x) # <<>>
           /\ Append(h, x)[Len(Append(h, x))] = x
<1>0. PICK g : g = Append(h, x)
  OBVIOUS
<1>1. /\ g \in Seq(Nat) /\ g # <<>> /\ Len(h) \in Nat /\ Len(g) = Len(h) + 1
      /\ g[Len(h) + 1] = x /\ \A i \in 1 .. Len(h) : g[i] = h[i] /\ h[i] \in Nat
  <2>1. h \in Seq(Nat)
    BY DEF Heard, Lines
  <2> QED
    BY <1>0, <2>1, AppendIs
<1>2. Lines(g)
  <2>1. ASSUME NEW i \in 1 .. Len(g) PROVE g[i] # EndMark
    <3>1. CASE i = Len(h) + 1
      BY <1>1, <3>1 DEF EndMark
    <3>2. CASE i # Len(h) + 1
      <4>1. i \in 1 .. Len(h) /\ g[i] = h[i]
        BY <1>1, <3>2
      <4> QED
        BY <4>1 DEF Heard, Lines
    <3> QED
      BY <3>1, <3>2
  <2> QED
    BY <1>1, <2>1 DEF Lines
<1>3. ASSUME NEW i \in 1 .. Len(g), NEW j \in 1 .. Len(g), j = i + 1
      PROVE  g[i] < g[j] /\ (lag \/ g[j] = g[i] + 1)
  <2>1. i \in 1 .. Len(h) /\ g[i] = h[i]
    BY <1>1, <1>3
  <2>2. CASE j = Len(h) + 1
    <3>1. i = Len(h) /\ g[j] = x /\ h # <<>>
      BY <1>1, <1>3, <2>1, <2>2
    <3> QED
      BY <2>1, <3>1
  <2>3. CASE j # Len(h) + 1
    <3>1. j \in 1 .. Len(h) /\ g[j] = h[j]
      BY <1>1, <2>3
    <3> QED
      BY <1>3, <2>1, <3>1 DEF Heard
  <2> QED
    BY <2>2, <2>3
<1> QED
  BY <1>0, <1>1, <1>2, <1>3 DEF Heard

(* The first line of the replay is served.                                 *)
LEMMA FitsServed ==
    ASSUME NEW n \in Nat, NEW h, NEW l, NEW q, NEW lag \in BOOLEAN,
           Fits(h, l, q, lag, n), l # <<>>
    PROVE  Fits(Append(h, Head(l)), Tail(l), q, lag, n)
<1>0. PICK g, r : g = Append(h, Head(l)) /\ r = Tail(l)
  OBVIOUS
<1>1. Heard(h, lag) /\ Lines(l) /\ InRow(l) /\ (h # <<>> => l[1] = h[Len(h)] + 1)
  BY DEF Fits, Replayed
<1>2. /\ r \in Seq(Nat) /\ Head(l) = l[1] /\ l[1] \in Nat \ {0}
      /\ Len(l) \in Nat \ {0} /\ Len(r) = Len(l) - 1
      /\ \A i \in 1 .. Len(l) - 1 : i + 1 \in 1 .. Len(l) /\ r[i] = l[i + 1]
      /\ r = <<>> <=> Len(l) = 1
  BY <1>0, <1>1, TailIs DEF Lines, EndMark
<1>3. h # <<>> => h[Len(h)] < l[1] /\ (lag \/ l[1] = h[Len(h)] + 1)
  <2>1. h # <<>> => h[Len(h)] \in Nat
    BY <1>1 DEF Heard, Lines
  <2> QED
    BY <1>1, <2>1
<1>4. Heard(g, lag) /\ g # <<>> /\ g[Len(g)] = l[1]
  <2>1. g = Append(h, l[1])
    BY <1>0, <1>2
  <2> QED
    BY <1>1, <1>2, <1>3, <2>1, HeardMore
<1>5. Replayed(g, r)
  <2>1. Lines(r)
    BY <1>1, <1>2 DEF Lines
  <2>2. ASSUME NEW i \in 1 .. Len(r), NEW j \in 1 .. Len(r), j = i + 1
        PROVE  r[j] = r[i] + 1
    <3>1. /\ i + 1 \in 1 .. Len(l) /\ r[i] = l[i + 1]
          /\ j + 1 \in 1 .. Len(l) /\ r[j] = l[j + 1] /\ j + 1 = (i + 1) + 1
      BY <1>2, <2>2
    <3> QED
      BY <1>1, <3>1 DEF InRow
  <2>3. r # <<>> => r[1] = l[1] + 1
    <3>1. r # <<>> => 1 \in 1 .. Len(l) /\ 2 \in 1 .. Len(l) /\ r[1] = l[2] /\ 2 = 1 + 1
      BY <1>2
    <3> QED
      BY <1>1, <3>1 DEF InRow
  <2> QED
    BY <1>4, <2>1, <2>2, <2>3 DEF Replayed, InRow
<1>6. Before(g, r) = Before(h, l)
  <2>1. CASE r = <<>>
    BY <1>2, <1>4, <2>1 DEF Before
  <2>2. CASE r # <<>>
    <3>1. r[Len(r)] = l[Len(l)]
      BY <1>2, <2>2
    <3> QED
      BY <2>2, <3>1 DEF Before
  <2> QED
    BY <2>1, <2>2
<1> QED
  BY <1>0, <1>4, <1>5, <1>6 DEF Fits

(* A line is taken from the queue, after the replay.                       *)
LEMMA FitsTaken ==
    ASSUME NEW n \in Nat, NEW h, NEW q, NEW lag \in BOOLEAN,
           Fits(h, <<>>, q, lag, n), q # <<>>, Head(q) # EndMark
    PROVE  Fits(Append(h, Head(q)), <<>>, Tail(q), lag, n)
<1>0. PICK g, r, b : g = Append(h, Head(q)) /\ r = Tail(q) /\ b = Before(h, <<>>)
  OBVIOUS
<1>1. Heard(h, lag) /\ Queued(b, q, n) /\ (lag \/ Complete(b, q, n))
  BY <1>0 DEF Fits
<1>2. /\ r \in Seq(Nat) /\ Head(q) = q[1] /\ q[1] \in Nat \ {0}
      /\ Len(q) \in Nat \ {0} /\ Len(r) = Len(q) - 1
      /\ \A i \in 1 .. Len(q) - 1 : i + 1 \in 1 .. Len(q) /\ r[i] = q[i + 1]
      /\ r = <<>> <=> Len(q) = 1
  BY <1>0, <1>1, TailIs DEF Queued, EndMark
<1>3. h # <<>> => b = h[Len(h)] /\ b # 0
  BY <1>0, <1>1 DEF Before, Heard, Lines, EndMark
<1>4. 1 \in 1 .. Len(q) /\ b < q[1] /\ q[1] <= n
  BY <1>1, <1>2 DEF Queued, EndMark
<1>5. b # 0 => lag \/ q[1] = b + 1
  BY <1>1, <1>2 DEF Complete, EndMark
<1>6. Heard(g, lag) /\ g # <<>> /\ g[Len(g)] = q[1]
  <2>1. g = Append(h, q[1])
    BY <1>0, <1>2
  <2>2. h # <<>> => h[Len(h)] < q[1] /\ (lag \/ q[1] = h[Len(h)] + 1)
    BY <1>3, <1>4, <1>5
  <2> QED
    BY <1>1, <1>2, <2>1, <2>2, HeardMore
<1>7. Replayed(g, <<>>)
  BY DEF Replayed, InRow, Lines
<1>8. Before(g, <<>>) = q[1]
  BY <1>6 DEF Before
<1>9. Queued(q[1], r, n)
  <2>1. Len(q) <= MaxLines /\ Len(r) <= MaxLines
    BY <1>1, <1>2, OutputAssumption DEF Queued
  <2>2. ASSUME NEW i \in 1 .. Len(r)
        PROVE  r[i] <= n /\ (r[i] # EndMark => q[1] < r[i])
    <3>1. i + 1 \in 1 .. Len(q) /\ r[i] = q[i + 1] /\ 1 < i + 1
      BY <1>2
    <3> QED
      BY <1>1, <1>2, <1>4, <3>1 DEF Queued, EndMark
  <2>3. ASSUME NEW i \in 1 .. Len(r), NEW j \in 1 .. Len(r),
               i < j, r[i] # EndMark, r[j] # EndMark
        PROVE  r[i] < r[j]
    <3>1. /\ i + 1 \in 1 .. Len(q) /\ r[i] = q[i + 1]
          /\ j + 1 \in 1 .. Len(q) /\ r[j] = q[j + 1] /\ i + 1 < j + 1
      BY <1>2, <2>3, SMTT(30)
    <3> QED
      BY <1>1, <2>3, <3>1 DEF Queued
  <2> QED
    BY <1>2, <1>4, <2>1, <2>2, <2>3 DEF Queued
<1>10. ASSUME Complete(b, q, n) PROVE Complete(q[1], r, n)
  <2>1. IF r = <<>> THEN q[1] \in {0, n} ELSE r[Len(r)] \in {EndMark, n}
    <3>1. q[Len(q)] \in {EndMark, n}
      BY <1>10 DEF Complete
    <3>2. CASE r = <<>>
      BY <1>2, <3>1, <3>2 DEF EndMark
    <3>3. CASE r # <<>>
      <4>1. r[Len(r)] = q[Len(q)]
        BY <1>2, <3>3
      <4> QED
        BY <3>1, <3>3, <4>1
    <3> QED
      BY <3>2, <3>3
  <2>2. r # <<>> /\ r[1] # EndMark => r[1] = q[1] + 1
    <3>1. r # <<>> => 1 \in 1 .. Len(q) /\ 2 \in 1 .. Len(q) /\ r[1] = q[2] /\ 2 = 1 + 1
      BY <1>2
    <3> QED
      BY <1>2, <1>10, <3>1 DEF Complete, EndMark
  <2>3. ASSUME NEW i \in 1 .. Len(r), NEW j \in 1 .. Len(r),
               j = i + 1, r[i] # EndMark, r[j] # EndMark
        PROVE  r[j] = r[i] + 1
    <3>1. /\ i + 1 \in 1 .. Len(q) /\ r[i] = q[i + 1]
          /\ j + 1 \in 1 .. Len(q) /\ r[j] = q[j + 1] /\ j + 1 = (i + 1) + 1
      BY <1>2, <2>3
    <3> QED
      BY <1>10, <2>3, <3>1 DEF Complete
  <2> QED
    BY <2>1, <2>2, <2>3 DEF Complete
<1> QED
  BY <1>0, <1>1, <1>6, <1>7, <1>8, <1>9, <1>10 DEF Fits

(* A viewer that subscribes is served what the ring holds.                 *)
BufferOK ==
    /\ Lines(buffer) /\ Len(buffer) <= MaxLines
    /\ InRow(buffer)
    /\ buffer # <<>> => buffer[Len(buffer)] = said

LEMMA FitsNew ==
    ASSUME BufferOK, said \in Nat PROVE Fits(<<>>, buffer, <<>>, FALSE, said)
<1>1. Heard(<<>>, FALSE)
  BY DEF Heard, Lines
<1>2. Replayed(<<>>, buffer)
  BY DEF Replayed, BufferOK
<1>3. Before(<<>>, buffer) \in {0, said}
  BY DEF Before, BufferOK
<1>4. Queued(Before(<<>>, buffer), <<>>, said)
  BY <1>3, OutputAssumption DEF Queued
<1>5. Complete(Before(<<>>, buffer), <<>>, said)
  BY <1>3 DEF Complete
<1> QED
  BY <1>1, <1>2, <1>4, <1>5 DEF Fits

-----------------------------------------------------------------------------

(* One viewer's stream w, with what it heard.                              *)
StreamOK(w, h, lag, n) ==
    /\ lag \in BOOLEAN
    /\ \/ w = Away /\ h = <<>> /\ lag = FALSE
       \/ \E l, q : /\ w = [at |-> "replay", left |-> l, queue |-> q]
                    /\ Fits(h, l, q, lag, n)
       \/ \E q : /\ w = [at |-> "live", queue |-> q]
                 /\ Fits(h, <<>>, q, lag, n)

LEMMA StreamCases ==
    ASSUME NEW w, NEW h, NEW lag, NEW n, StreamOK(w, h, lag, n)
    PROVE  /\ w.at = "away" => h = <<>> /\ lag = FALSE
           /\ w.at = "replay" =>
                \E l, q : /\ w = [at |-> "replay", left |-> l, queue |-> q]
                         /\ Fits(h, l, q, lag, n)
           /\ w.at = "live" =>
                \E q : w = [at |-> "live", queue |-> q] /\ Fits(h, <<>>, q, lag, n)
<1>1. CASE w = Away /\ h = <<>> /\ lag = FALSE
  <2>1. w.at = "away"
    BY <1>1 DEF Away
  <2> QED
    BY <1>1, <2>1
<1>2. ASSUME NEW l, NEW q, w = [at |-> "replay", left |-> l, queue |-> q],
             Fits(h, l, q, lag, n)
      PROVE  w.at = "replay" /\ \E k, p : /\ w = [at |-> "replay", left |-> k, queue |-> p]
                                         /\ Fits(h, k, p, lag, n)
  BY <1>2
<1>3. ASSUME NEW q, w = [at |-> "live", queue |-> q], Fits(h, <<>>, q, lag, n)
      PROVE  w.at = "live" /\ \E p : /\ w = [at |-> "live", queue |-> p]
                                     /\ Fits(h, <<>>, p, lag, n)
  BY <1>3
<1> QED
  BY <1>1, <1>2, <1>3 DEF StreamOK

Streams ==
    /\ viewer = [v \in Viewers |-> viewer[v]] /\ heard = [v \in Viewers |-> heard[v]]
    /\ lagged = [v \in Viewers |-> lagged[v]]
    /\ \A v \in Viewers : StreamOK(viewer[v], heard[v], lagged[v], said)

SInv == said \in Nat /\ BufferOK /\ Streams

(* An item told to every viewer.                                           *)
LEMMA ToldKeeps ==
    ASSUME Streams, said \in Nat, NEW m \in Nat, NEW x \in Nat,
           (m = said + 1 /\ x = m) \/ (m = said /\ x = EndMark),
           Tell(x), said' = m
    PROVE  Streams'
<1>1. /\ viewer' = [v \in Viewers |-> viewer'[v]]
      /\ heard' = [v \in Viewers |-> heard'[v]]
      /\ lagged' = [v \in Viewers |-> lagged'[v]]
  BY DEF Tell, Streams
<1>2. ASSUME NEW v \in Viewers
      PROVE  StreamOK(viewer'[v], heard'[v], lagged'[v], m)
  <2>1. StreamOK(viewer[v], heard[v], lagged[v], said)
    BY DEF Streams
  <2>2. /\ viewer'[v] = IF Viewing(v) THEN [viewer[v] EXCEPT !.queue = Pushed(@, x)] ELSE Away
        /\ lagged'[v] = (lagged[v] \/ (Viewing(v) /\ Len(viewer[v].queue) = MaxLines))
        /\ heard'[v] = heard[v]
    BY DEF Tell
  <2>3. CASE viewer[v] = Away /\ heard[v] = <<>> /\ lagged[v] = FALSE
    BY <2>2, <2>3 DEF StreamOK, Viewing
  <2>4. ASSUME NEW l, NEW q,
               viewer[v] = [at |-> "replay", left |-> l, queue |-> q],
               Fits(heard[v], l, q, lagged[v], said)
        PROVE  StreamOK(viewer'[v], heard'[v], lagged'[v], m)
    <3>1. lagged[v] \in BOOLEAN
      BY <2>1 DEF StreamOK
    <3>2. viewer'[v] = [at |-> "replay", left |-> l, queue |-> Pushed(q, x)]
      BY <2>2, <2>4 DEF Viewing, Away
    <3>3. lagged'[v] = (lagged[v] \/ Len(q) = MaxLines)
      BY <2>2, <2>4 DEF Viewing, Away
    <3>4. Fits(heard[v], l, Pushed(q, x), lagged[v] \/ Len(q) = MaxLines, m)
      BY <2>4, <3>1, FitsTold
    <3>5. lagged'[v] \in BOOLEAN /\ Fits(heard'[v], l, Pushed(q, x), lagged'[v], m)
      BY <2>2, <3>3, <3>4
    <3> QED
      BY <3>2, <3>5 DEF StreamOK
  <2>5. ASSUME NEW q,
               viewer[v] = [at |-> "live", queue |-> q],
               Fits(heard[v], <<>>, q, lagged[v], said)
        PROVE  StreamOK(viewer'[v], heard'[v], lagged'[v], m)
    <3>1. lagged[v] \in BOOLEAN
      BY <2>1 DEF StreamOK
    <3>2. viewer'[v] = [at |-> "live", queue |-> Pushed(q, x)]
      BY <2>2, <2>5 DEF Viewing, Away
    <3>3. lagged'[v] = (lagged[v] \/ Len(q) = MaxLines)
      BY <2>2, <2>5 DEF Viewing, Away
    <3>4. Fits(heard[v], <<>>, Pushed(q, x), lagged[v] \/ Len(q) = MaxLines, m)
      <4>1. PICK l : l = <<>>
        OBVIOUS
      <4>2. Fits(heard[v], l, q, lagged[v], said)
        BY <2>5, <4>1
      <4>3. Fits(heard[v], l, Pushed(q, x), lagged[v] \/ Len(q) = MaxLines, m)
        BY <3>1, <4>2, FitsTold
      <4> QED
        BY <4>1, <4>3
    <3>5. lagged'[v] \in BOOLEAN /\ Fits(heard'[v], <<>>, Pushed(q, x), lagged'[v], m)
      BY <2>2, <3>3, <3>4
    <3> QED
      BY <3>2, <3>5 DEF StreamOK
  <2> QED
    BY <2>1, <2>3, <2>4, <2>5 DEF StreamOK
<1> QED
  BY <1>1, <1>2 DEF Streams

LEMMA ReadOutKeeps ==
    ASSUME SInv, ReadOut PROVE SInv'
<1>1. CASE UNCHANGED <<said, outputVars>>
  BY <1>1 DEF SInv, BufferOK, Streams, outputVars
<1>2. CASE said' = said + 1 /\ AppendOutput(said + 1)
  <2>1. said \in Nat /\ said + 1 \in Nat /\ said' \in Nat
    BY <1>2 DEF SInv
  <2>2. Streams'
    BY <1>2, <2>1, ToldKeeps DEF SInv, AppendOutput
  <2>3. PICK b, p, d : b = buffer /\ p = buffer' /\ d = Dropped(buffer)
    OBVIOUS
  <2>4. /\ Lines(b) /\ Len(b) <= MaxLines /\ b \in Seq(Nat) /\ InRow(b)
        /\ b # <<>> => b[Len(b)] = said
    BY <2>3 DEF SInv, BufferOK, Lines
  <2>5. /\ d \in {0, 1} /\ Len(b) \in Nat /\ p \in Seq(Nat)
        /\ Len(p) = Len(b) - d + 1 /\ Len(p) \in 1 .. MaxLines
        /\ p[Len(p)] = said + 1
        /\ \A i \in 1 .. Len(p) - 1 : i + d \in 1 .. Len(b) /\ p[i] = b[i + d]
    <3>1. p = Pushed(b, said + 1) /\ d = Dropped(b)
      BY <1>2, <2>3 DEF AppendOutput
    <3> QED
      BY <2>1, <2>4, <3>1, PushedIs
  <2>6. ASSUME NEW i \in 1 .. Len(p) PROVE p[i] # EndMark
    <3>1. CASE i = Len(p)
      BY <2>1, <2>5, <3>1 DEF EndMark
    <3>2. CASE i # Len(p)
      <4>1. i + d \in 1 .. Len(b) /\ p[i] = b[i + d]
        BY <2>5, <3>2, SMTT(30)
      <4> QED
        BY <2>4, <4>1 DEF Lines
    <3> QED
      BY <3>1, <3>2
  <2>7. ASSUME NEW i \in 1 .. Len(p), NEW j \in 1 .. Len(p), j = i + 1
        PROVE  p[j] = p[i] + 1
    <3>1. i \in 1 .. Len(p) - 1
      BY <2>5, <2>7
    <3>2. i + d \in 1 .. Len(b) /\ p[i] = b[i + d]
      BY <2>5, <3>1
    <3>3. CASE j = Len(p)
      <4>1. i + d = Len(b) /\ b # <<>>
        BY <2>5, <2>7, <3>2, <3>3
      <4> QED
        BY <2>4, <2>5, <3>2, <3>3, <4>1
    <3>4. CASE j # Len(p)
      <4>1. j \in 1 .. Len(p) - 1
        BY <2>5, <3>4
      <4>2. j + d \in 1 .. Len(b) /\ p[j] = b[j + d]
        BY <2>5, <4>1
      <4>3. j + d = (i + d) + 1
        BY <2>5, <2>7
      <4> QED
        BY <2>4, <3>2, <4>2, <4>3 DEF InRow
    <3> QED
      BY <3>3, <3>4
  <2>8. BufferOK'
    BY <1>2, <2>3, <2>5, <2>6, <2>7, OutputAssumption DEF BufferOK, Lines, InRow
  <2> QED
    BY <2>1, <2>2, <2>8 DEF SInv
<1> QED
  BY <1>1, <1>2 DEF ReadOut

LEMMA EmptyBuffer ==
    ASSUME buffer' = <<>> PROVE BufferOK'
BY OutputAssumption DEF BufferOK, Lines, InRow

LEMMA EndKeeps ==
    ASSUME SInv, NEW result, NEW answer, End(result, answer) PROVE SInv'
<1>1. said' = said /\ said \in Nat /\ Tell(EndMark) /\ EndMark \in Nat
  BY DEF SInv, End, CloseOutput, EndMark
<1>2. BufferOK'
  BY EmptyBuffer DEF End, CloseOutput
<1>3. Streams'
  BY <1>1, ToldKeeps DEF SInv
<1> QED
  BY <1>1, <1>2, <1>3 DEF SInv

LEMMA StartKeeps ==
    ASSUME SInv, NEW kind, StartRun(kind) PROVE SInv'
<1>1. said' = said /\ UNCHANGED <<viewer, heard, lagged>>
  BY DEF StartRun, ResetOutput
<1>2. BufferOK'
  BY EmptyBuffer DEF StartRun, ResetOutput
<1> QED
  BY <1>1, <1>2 DEF SInv, Streams

LEMMA LoseKeeps ==
    ASSUME LoseRun PROVE SInv'
<1>1. /\ said' = 0 /\ buffer' = <<>> /\ viewer' = [v \in Viewers |-> Away]
      /\ heard' = [v \in Viewers |-> <<>>] /\ lagged' = [v \in Viewers |-> FALSE]
  BY DEF LoseRun, LoseOutput
<1>2. BufferOK'
  BY <1>1, EmptyBuffer
<1>3. Streams'
  BY <1>1 DEF Streams, StreamOK
<1> QED
  BY <1>1, <1>2, <1>3 DEF SInv

(* One viewer's stream moved, the others and the output did not.           *)
LEMMA OneStream ==
    ASSUME SInv, NEW v \in Viewers, UNCHANGED <<said, buffer>>,
           NEW w, NEW h, NEW lag,
           viewer' = [viewer EXCEPT ![v] = w],
           heard' = [heard EXCEPT ![v] = h],
           lagged' = [lagged EXCEPT ![v] = lag],
           StreamOK(w, h, lag, said)
    PROVE  SInv'
<1>1. /\ viewer' = [u \in Viewers |-> viewer'[u]]
      /\ heard' = [u \in Viewers |-> heard'[u]]
      /\ lagged' = [u \in Viewers |-> lagged'[u]]
  BY DEF SInv, Streams
<1>2. ASSUME NEW u \in Viewers
      PROVE  StreamOK(viewer'[u], heard'[u], lagged'[u], said)
  <2>1. CASE u = v
    <3>1. viewer'[u] = w /\ heard'[u] = h /\ lagged'[u] = lag
      BY <2>1 DEF SInv, Streams
    <3> QED
      BY <3>1
  <2>2. CASE u # v
    <3>1. viewer'[u] = viewer[u] /\ heard'[u] = heard[u] /\ lagged'[u] = lagged[u]
      BY <2>2 DEF SInv, Streams
    <3> QED
      BY <3>1 DEF SInv, Streams
  <2> QED
    BY <2>1, <2>2
<1> QED
  BY <1>1, <1>2 DEF SInv, BufferOK, Streams

LEMMA LeavesKeeps ==
    ASSUME SInv, NEW v \in Viewers, Leaves(v), UNCHANGED <<said, buffer>>
    PROVE  SInv'
<1>1. StreamOK(Away, <<>>, FALSE, said)
  BY DEF StreamOK
<1> QED
  BY <1>1, OneStream DEF Leaves

LEMMA ReplayKeeps ==
    ASSUME SInv, NEW v \in Viewers, NEW l, NEW q, Replay(v, l, q),
           Fits(heard[v], l, q, lagged[v], said), UNCHANGED <<said, buffer>>
    PROVE  SInv'
<1>0. /\ lagged[v] \in BOOLEAN /\ said \in Nat
      /\ lagged = [lagged EXCEPT ![v] = lagged[v]]
      /\ heard = [heard EXCEPT ![v] = heard[v]]
  BY DEF SInv, Streams, StreamOK
<1>1. CASE l # <<>>
  <2>1. Fits(Append(heard[v], Head(l)), Tail(l), q, lagged[v], said)
    BY <1>0, <1>1, FitsServed
  <2>2. StreamOK([at |-> "replay", left |-> Tail(l), queue |-> q],
                 Append(heard[v], Head(l)), lagged[v], said)
    BY <1>0, <2>1 DEF StreamOK
  <2>3. /\ viewer' = [viewer EXCEPT ![v] =
                [at |-> "replay", left |-> Tail(l), queue |-> q]]
        /\ heard' = [heard EXCEPT ![v] = Append(heard[v], Head(l))]
        /\ lagged' = [lagged EXCEPT ![v] = lagged[v]]
    BY <1>0, <1>1 DEF Replay
  <2> QED
    BY <2>2, <2>3, OneStream
<1>2. CASE l = <<>> /\ running
  <2>1. StreamOK([at |-> "live", queue |-> q], heard[v], lagged[v], said)
    BY <1>0, <1>2 DEF StreamOK
  <2>2. /\ viewer' = [viewer EXCEPT ![v] = [at |-> "live", queue |-> q]]
        /\ heard' = [heard EXCEPT ![v] = heard[v]]
        /\ lagged' = [lagged EXCEPT ![v] = lagged[v]]
    BY <1>0, <1>2 DEF Replay
  <2> QED
    BY <2>1, <2>2, OneStream
<1>3. CASE l = <<>> /\ ~running
  BY <1>3, LeavesKeeps DEF Replay
<1> QED
  BY <1>1, <1>2, <1>3

LEMMA ViewKeeps ==
    ASSUME SInv, NEW v \in Viewers, ViewStep(v) \/ ViewerActs(v) PROVE SInv'
<1>0. said' = said
  BY DEF ViewStep, ViewerActs, runVars
<1>1. StreamOK(viewer[v], heard[v], lagged[v], said) /\ said \in Nat /\ BufferOK
  BY DEF SInv, Streams
<1>2. CASE Subscribe(v)
  <2>1. heard[v] = <<>> /\ lagged[v] = FALSE
    <3>1. viewer[v].at = "away"
      BY <1>2 DEF Subscribe, Viewing, Away
    <3> QED
      BY <1>1, <3>1, StreamCases
  <2>2. Fits(heard[v], buffer, <<>>, lagged[v], said)
    BY <1>1, <2>1, FitsNew
  <2> QED
    BY <1>0, <1>2, <2>2, ReplayKeeps DEF Subscribe
<1>3. CASE Resume(v)
  <2>1. PICK l, q : /\ viewer[v] = [at |-> "replay", left |-> l, queue |-> q]
                    /\ Fits(heard[v], l, q, lagged[v], said)
    <3>1. viewer[v].at = "replay"
      BY <1>3 DEF Resume
    <3> QED
      BY <1>1, <3>1, StreamCases
  <2>2. Replay(v, l, q) /\ UNCHANGED buffer
    BY <1>3, <2>1 DEF Resume
  <2> QED
    BY <1>0, <2>1, <2>2, ReplayKeeps
<1>4. CASE Take(v)
  <2>1. PICK q : /\ viewer[v] = [at |-> "live", queue |-> q]
                 /\ Fits(heard[v], <<>>, q, lagged[v], said)
    <3>1. viewer[v].at = "live"
      BY <1>4 DEF Take
    <3> QED
      BY <1>1, <3>1, StreamCases
  <2>2. /\ UNCHANGED buffer /\ q # <<>>
        /\ IF Head(q) = EndMark THEN Leaves(v)
           ELSE /\ viewer' = [viewer EXCEPT ![v].queue = Tail(@)]
                /\ heard' = [heard EXCEPT ![v] = Append(@, Head(q))]
                /\ UNCHANGED lagged
    BY <1>4, <2>1 DEF Take
  <2>3. CASE Head(q) = EndMark
    BY <1>0, <2>2, <2>3, LeavesKeeps
  <2>4. CASE Head(q) # EndMark
    <3>1. lagged[v] \in BOOLEAN
      BY <1>1 DEF StreamOK
    <3>2. Fits(Append(heard[v], Head(q)), <<>>, Tail(q), lagged[v], said)
      BY <1>1, <2>1, <2>2, <2>4, <3>1, FitsTaken
    <3>3. StreamOK([at |-> "live", queue |-> Tail(q)],
                   Append(heard[v], Head(q)), lagged[v], said)
      BY <3>1, <3>2 DEF StreamOK
    <3>4. viewer' = [viewer EXCEPT ![v] = [at |-> "live", queue |-> Tail(q)]]
      BY <2>1, <2>2, <2>4
    <3>5. /\ heard' = [heard EXCEPT ![v] = Append(heard[v], Head(q))]
          /\ lagged' = [lagged EXCEPT ![v] = lagged[v]]
      BY <2>2, <2>4 DEF SInv, Streams
    <3> QED
      BY <1>0, <2>2, <3>3, <3>4, <3>5, OneStream
  <2> QED
    BY <2>3, <2>4
<1>5. CASE Unsubscribe(v)
  BY <1>0, <1>5, LeavesKeeps DEF Unsubscribe
<1> QED
  BY <1>2, <1>3, <1>4, <1>5 DEF ViewStep, ViewerActs

LEMMA StepKeeps ==
    ASSUME SInv, [Next]_vars PROVE SInv'
<1>0. ASSUME UNCHANGED <<said, outputVars>> PROVE SInv'
  BY <1>0 DEF SInv, BufferOK, Streams, outputVars
<1>1. CASE Claim
  BY <1>1, StartKeeps DEF Claim
<1>2. CASE Stage
  <2>1. CASE ReadOut
    BY <2>1, ReadOutKeeps
  <2>2. CASE Conclude
    BY <2>2, <1>0, EndKeeps DEF Conclude
  <2>3. CASE Answer
    BY <2>3, EndKeeps DEF Answer
  <2>4. CASE TimesOut
    BY <2>4, EndKeeps DEF TimesOut
  <2>5. CASE Writes \/ WritesError \/ Exit \/ ReadErr
    BY <2>5, <1>0 DEF Writes, WritesError, Exit, ReadErr
  <2> QED
    BY <1>2, <2>1, <2>2, <2>3, <2>4, <2>5 DEF Stage, RunStep
<1>3. ASSUME NEW v \in Viewers, View(v) \/ Visit(v) PROVE SInv'
  BY <1>3, ViewKeeps DEF View, Visit
<1>4. ASSUME NEW u \in Updaters, Kickstart(u) PROVE SInv'
  BY <1>4, LoseKeeps DEF Kickstart, Killed
<1>5. ASSUME NEW u \in Updaters, NEW mode \in Modes,
             Fire(u, mode) \/ Upgrade(u) \/ Decide(u) \/ KickstartFails(u)
      PROVE  SInv'
  BY <1>5, <1>0 DEF Fire, Upgrade, Decide, KickstartFails, runVars
<1>6. ASSUME NEW u \in Updaters,
             AutoupdateInstall(u) \/ AutoupdateSchedule(u) \/ AutoupdateUninstall(u)
      PROVE  SInv'
  BY <1>6, <1>0 DEF AutoupdateInstall, AutoupdateSchedule, AutoupdateUninstall,
                    Replaced, runVars
<1>7. CASE Dies \/ ServiceInstall \/ ServiceUninstall
  BY <1>7, LoseKeeps DEF Dies, ServiceInstall, ServiceUninstall, Killed
<1>8. CASE Publish \/ UpdateOnly \/ Bootstrap
  BY <1>8, <1>0 DEF Publish, UpdateOnly, Bootstrap, runVars
<1>9. CASE UNCHANGED vars
  BY <1>9, <1>0 DEF vars, runVars
<1> QED
  BY <1>1, <1>2, <1>3, <1>4, <1>5, <1>6, <1>7, <1>8, <1>9 DEF Next, Proceed, Modes

LEMMA StreamInitially == Init => SInv
<1> SUFFICES ASSUME Init PROVE SInv
  OBVIOUS
<1>1. /\ said = 0 /\ buffer = <<>> /\ viewer = [v \in Viewers |-> Away]
      /\ heard = [v \in Viewers |-> <<>>] /\ lagged = [v \in Viewers |-> FALSE]
  BY DEF Init, OutputInit, RunInit
<1>2. BufferOK
  BY <1>1, OutputAssumption DEF BufferOK, Lines, InRow
<1>3. Streams
  BY <1>1 DEF Streams, StreamOK
<1> QED
  BY <1>1, <1>2, <1>3 DEF SInv

(* StreamInOrder, the seam of a page's live output (stage_output.py:57-59): *)
(* for any number of viewers, any depth of the ring and the queues, however *)
(* the stages, the viewers and the restarts interleave.                     *)
THEOREM StreamInOrderHolds == Spec => []StreamInOrder
<1>1. Init => SInv
  BY StreamInitially
<1>2. SInv /\ [Next]_vars => SInv'
  BY StepKeeps
<1>3. SInv => StreamInOrder
  <2> SUFFICES ASSUME SInv, NEW v \in Viewers, NEW i \in 1 .. Len(heard[v]) - 1
               PROVE  /\ heard[v][i] < heard[v][i + 1]
                      /\ lagged[v] \/ heard[v][i + 1] = heard[v][i] + 1
    BY DEF StreamInOrder
  <2>1. StreamOK(viewer[v], heard[v], lagged[v], said)
    BY DEF SInv, Streams
  <2>2. CASE heard[v] = <<>>
    BY <2>2
  <2>3. CASE heard[v] # <<>>
    <3>1. Heard(heard[v], lagged[v])
      BY <2>1, <2>3 DEF StreamOK, Fits
    <3>2. heard[v] \in Seq(Nat)
      BY <3>1 DEF Heard, Lines
    <3>3. i \in 1 .. Len(heard[v]) /\ i + 1 \in 1 .. Len(heard[v])
      BY <3>2
    <3> QED
      BY <3>1, <3>3 DEF Heard
  <2> QED
    BY <2>2, <2>3
<1> QED
  BY <1>1, <1>2, <1>3, PTL DEF Spec

-----------------------------------------------------------------------------
(* One run: what its process wrote, what the runner has read of it, and     *)
(* what the process has earned by then.                                     *)

Answers == Results \cup {"none"}

(* The last result that was written is still in the pipe, or was read.      *)
CaughtUp(o, final, last) ==
    \/ last = final /\ \A i \in 1 .. Len(o) : o[i] \notin Results
    \/ \E i \in 1 .. Len(o) :
          /\ o[i] \in Results /\ o[i] = last
          /\ \A j \in 1 .. Len(o) : i < j => o[j] \notin Results

Processes == [at : {"alive", "exited"}, next : Exits \cup Messages \cup {"hang", "noise"},
              left : 0 .. MaxWrites, last : Answers]
OpenRuns == [at : {"reading", "reprompt"}, kind : Kinds, final : Answers]
Outcomes == {"done", "changes", "error"}
EndedRuns == [at : {"ended"}, result : Outcomes, earned : Outcomes]

(* What a process has left to write it may write; it exits as it wants to.  *)
ChildFits ==
    /\ child \in Processes
    /\ child.next \in Messages \cup {"noise"} => child.left > 0
    /\ child.at = "exited" => child.next \in Exits

(* A process is there exactly while its run is open; asked again is only an *)
(* agent of several outcomes, which exited well and said nothing readable.  *)
RunFits ==
    \/ /\ run \in {Off} \cup EndedRuns /\ child = Off
       /\ run.at = "ended" => run.result = run.earned
    \/ /\ run \in OpenRuns /\ ChildFits
       /\ CaughtUp(out, run.final, child.last)
       /\ run.at = "reprompt" => /\ child.at = "exited" /\ child.next = "exit0"
                                 /\ child.last = "mute" /\ run.kind = "multi"

RInv ==
    /\ out \in Seq(Messages) /\ Len(out) <= PipeRoom
    /\ err \in 0 .. PipeRoom
    /\ RunFits

(* The process writes another message.                                      *)
LEMMA Written ==
    ASSUME NEW o \in Seq(Messages), NEW final, NEW last, CaughtUp(o, final, last),
           NEW m \in Messages
    PROVE  /\ Append(o, m) \in Seq(Messages) /\ Len(Append(o, m)) = Len(o) + 1
           /\ CaughtUp(Append(o, m), final, IF m \in Results THEN m ELSE last)
<1>0. Len(o) \in Nat
  OBVIOUS
<1>1. PICK p, n : /\ p = Append(o, m) /\ n = Len(o) /\ n \in Nat
  BY <1>0
<1>2. /\ p \in Seq(Messages) /\ Len(p) = n + 1 /\ p[n + 1] = m
      /\ \A i \in 1 .. n : p[i] = o[i]
  BY <1>1
<1>3. CASE m \in Results
  BY <1>1, <1>2, <1>3 DEF CaughtUp
<1>4. CASE m \notin Results
  <2>1. \A i \in 1 .. n + 1 : i \in 1 .. n \/ i = n + 1
    BY <1>1
  <2>2. CASE last = final /\ \A i \in 1 .. n : o[i] \notin Results
    BY <1>1, <1>2, <1>4, <2>1, <2>2 DEF CaughtUp
  <2>3. ASSUME NEW i \in 1 .. n, o[i] \in Results, o[i] = last,
               \A j \in 1 .. n : i < j => o[j] \notin Results
        PROVE  CaughtUp(p, final, last)
    <3>1. i \in 1 .. n + 1 /\ p[i] \in Results /\ p[i] = last
      BY <1>1, <1>2, <2>3
    <3>2. \A j \in 1 .. n + 1 : i < j => p[j] \notin Results
      BY <1>1, <1>2, <1>4, <2>1, <2>3
    <3> QED
      BY <1>2, <3>1, <3>2 DEF CaughtUp
  <2> QED
    BY <1>1, <1>4, <2>2, <2>3, SMTT(30) DEF CaughtUp
<1> QED
  BY <1>1, <1>2, <1>3, <1>4

(* The runner reads the next one.                                           *)
LEMMA Read ==
    ASSUME NEW o \in Seq(Messages), o # <<>>, NEW final, NEW last,
           CaughtUp(o, final, last)
    PROVE  /\ Tail(o) \in Seq(Messages) /\ Len(Tail(o)) = Len(o) - 1
           /\ Head(o) \in Messages
           /\ CaughtUp(Tail(o), IF Head(o) \in Results THEN Head(o) ELSE final, last)
<1>0. Len(o) \in Nat \ {0}
  OBVIOUS
<1>1. PICK p, n : p = Tail(o) /\ n = Len(o) /\ n \in Nat \ {0}
  BY <1>0
<1>2. /\ p \in Seq(Messages) /\ Len(p) = n - 1 /\ Head(o) = o[1] /\ o[1] \in Messages
      /\ 1 \in 1 .. n
  BY <1>1
<1>3. \A i \in 1 .. n - 1 : i + 1 \in 1 .. n /\ p[i] = o[i + 1]
  BY <1>1
<1>4. CASE \A i \in 1 .. n : o[i] \notin Results
  BY <1>1, <1>2, <1>3, <1>4 DEF CaughtUp
<1>5. ASSUME NEW i \in 1 .. n, o[i] \in Results, o[i] = last,
             \A j \in 1 .. n : i < j => o[j] \notin Results
      PROVE  CaughtUp(p, IF o[1] \in Results THEN o[1] ELSE final, last)
  <2>1. CASE i = 1
    <3>1. \A k \in 1 .. n - 1 : p[k] \notin Results
      BY <1>1, <1>3, <1>5, <2>1
    <3> QED
      BY <1>2, <1>5, <2>1, <3>1 DEF CaughtUp
  <2>2. CASE i # 1
    <3>1. PICK k \in 1 .. n - 1 : i = k + 1
      BY <1>1, <2>2
    <3>2. p[k] \in Results /\ p[k] = last
      BY <1>3, <1>5, <3>1
    <3>3. \A j \in 1 .. n - 1 : k < j => p[j] \notin Results
      BY <1>1, <1>3, <1>5, <3>1
    <3> QED
      BY <1>2, <3>1, <3>2, <3>3 DEF CaughtUp
  <2> QED
    BY <2>1, <2>2
<1> QED
  BY <1>1, <1>2, <1>4, <1>5 DEF CaughtUp

(* What a process does next, it does within what it has left.               *)
LEMMA GoesOn ==
    ASSUME NEW kind \in Kinds, NEW left \in 0 .. MaxWrites, NEW last \in Answers,
           Goes(kind, left, last)
    PROVE  ChildFits' /\ child'.at = "alive" /\ child'.last = last
<1>1. PICK next \in Intents(kind, left) :
          child' = [at |-> "alive", next |-> next, left |-> left, last |-> last]
  BY DEF Goes
<1>2. /\ next \in Exits \cup Messages \cup {"hang", "noise"}
      /\ next \in Messages \cup {"noise"} => left # 0
  BY <1>1 DEF Intents, Messages, Results, Exits
<1>3. left \in Nat
  BY RunAssumption
<1> QED
  BY <1>1, <1>2, <1>3 DEF ChildFits, Processes, Answers

(* A run that is open, and its process.                                     *)
LEMMA OpenRun ==
    ASSUME RInv, Running \/ child # Off
    PROVE  /\ Running /\ child # Off /\ run \in OpenRuns /\ ChildFits
           /\ child \in Processes
           /\ CaughtUp(out, run.final, child.last)
           /\ run.at = "reprompt" => /\ child.at = "exited" /\ child.next = "exit0"
                                     /\ child.last = "mute" /\ run.kind = "multi"
<1>1. run \in {Off} \cup EndedRuns => ~Running
  BY DEF Off, EndedRuns, Running
<1>2. run \in OpenRuns => Running
  BY DEF OpenRuns, Running
<1>3. ChildFits => child # Off /\ child \in Processes
  BY DEF ChildFits, Processes, Off
<1> QED
  BY <1>1, <1>2, <1>3 DEF RInv, RunFits

(* Running, with nothing but the run, the process and the pipes in question. *)
LEMMA StillOpen ==
    ASSUME run' \in OpenRuns, ChildFits', CaughtUp(out', run'.final, child'.last),
           run'.at = "reading",
           out' \in Seq(Messages), Len(out') <= PipeRoom, err' \in 0 .. PipeRoom
    PROVE  RInv'
BY DEF RInv, RunFits

(* A stage ends with what its process has earned.                           *)
LEMMA Ends ==
    ASSUME NEW result \in Outcomes, NEW answer, End(result, answer),
           Earned(answer) = result
    PROVE  RInv'
<1>1. /\ run' = [at |-> "ended", result |-> result, earned |-> result]
      /\ child' = Off /\ out' = <<>> /\ err' = 0
  BY DEF End
<1>2. run' \in EndedRuns /\ run'.result = run'.earned
  BY <1>1 DEF EndedRuns
<1>3. out' \in Seq(Messages) /\ Len(out') <= PipeRoom /\ err' \in 0 .. PipeRoom
  BY <1>1, RunAssumption
<1> QED
  BY <1>1, <1>2, <1>3 DEF RInv, RunFits

LEMMA RunWrites == ASSUME RInv, Writes \/ WritesError \/ Exit PROVE RInv'
<1>1. /\ Running /\ run \in OpenRuns /\ ChildFits /\ child \in Processes
      /\ CaughtUp(out, run.final, child.last)
      /\ run.at = "reading" /\ child.at = "alive" /\ UNCHANGED run
  <2>1. child.at = "alive" /\ UNCHANGED run
    BY DEF Writes, WritesError, Exit
  <2>2. child # Off
    BY <2>1 DEF Off
  <2> QED
    BY <2>1, <2>2, OpenRun DEF Running
<1>2. /\ child.left \in 0 .. MaxWrites /\ child.last \in Answers /\ run.kind \in Kinds
      /\ out \in Seq(Messages) /\ Len(out) <= PipeRoom /\ err \in 0 .. PipeRoom
  BY <1>1 DEF RInv, Processes, OpenRuns
<1>3. CASE Writes
  <2>1. /\ child.next \in Messages /\ child.left > 0 /\ Len(out) < PipeRoom
        /\ out' = Append(out, child.next) /\ err' = err
        /\ Goes(run.kind, child.left - 1,
                IF child.next \in Results THEN child.next ELSE child.last)
    BY <1>1, <1>3 DEF Writes, ChildFits
  <2>2. child.left - 1 \in 0 .. MaxWrites
    BY <1>2, <2>1, RunAssumption
  <2>3. PICK last \in Answers :
            last = IF child.next \in Results THEN child.next ELSE child.last
    BY <1>2 DEF Answers
  <2>4. ChildFits' /\ child'.last = last
    BY <1>2, <2>1, <2>2, <2>3, GoesOn
  <2>5. /\ out' \in Seq(Messages) /\ Len(out') = Len(out) + 1
        /\ CaughtUp(out', run.final, last)
    BY <1>1, <1>2, <2>1, <2>3, Written
  <2>6. Len(out') <= PipeRoom
    BY <1>2, <2>1, <2>5, RunAssumption
  <2> QED
    BY <1>1, <1>2, <2>1, <2>4, <2>5, <2>6, StillOpen
<1>4. CASE WritesError
  <2>1. /\ child.left > 0 /\ err' = err + 1 /\ err < PipeRoom /\ out' = out
        /\ Goes(run.kind, child.left - 1, child.last)
    BY <1>1, <1>4 DEF WritesError, ChildFits
  <2>2. child.left - 1 \in 0 .. MaxWrites /\ err' \in 0 .. PipeRoom
    BY <1>2, <2>1, RunAssumption
  <2>3. ChildFits' /\ child'.last = child.last
    BY <1>2, <2>1, <2>2, GoesOn
  <2> QED
    BY <1>1, <1>2, <2>1, <2>2, <2>3, StillOpen
<1>5. CASE Exit
  <2>1. child.next \in Exits /\ child' = [child EXCEPT !.at = "exited"] /\ UNCHANGED <<out, err>>
    BY <1>5 DEF Exit
  <2>2. ChildFits' /\ child'.last = child.last
    BY <1>1, <2>1 DEF ChildFits, Processes
  <2> QED
    BY <1>1, <1>2, <2>1, <2>2, StillOpen
<1> QED
  BY <1>3, <1>4, <1>5

LEMMA RunReads == ASSUME RInv, ReadOut \/ ReadErr PROVE RInv'
<1>1. /\ run \in OpenRuns /\ ChildFits /\ CaughtUp(out, run.final, child.last)
      /\ run.at = "reading" /\ UNCHANGED child
      /\ out \in Seq(Messages) /\ Len(out) <= PipeRoom /\ err \in 0 .. PipeRoom
  <2>1. run.at = "reading" /\ UNCHANGED child
    BY DEF ReadOut, ReadErr
  <2> QED
    BY <2>1, OpenRun DEF Running, RInv
<1>2. ChildFits' /\ child'.last = child.last
  BY <1>1 DEF ChildFits
<1>3. CASE ReadOut
  <2>1. PICK final \in Answers : final = IF Head(out) \in Results THEN Head(out) ELSE run.final
    BY <1>1 DEF OpenRuns, Answers
  <2>2. out # <<>> /\ out' = Tail(out) /\ err' = err
    BY <1>3 DEF ReadOut
  <2>3. /\ out' \in Seq(Messages) /\ Len(out') = Len(out) - 1
        /\ CaughtUp(out', final, child.last)
    BY <1>1, <2>1, <2>2, Read
  <2>4. run' = [run EXCEPT !.final = final]
    <3>1. CASE Head(out) \in Results
      BY <1>3, <2>1, <3>1 DEF ReadOut
    <3>2. CASE Head(out) \notin Results
      <4>1. run' = run /\ final = run.final
        BY <1>3, <2>1, <3>2 DEF ReadOut
      <4> QED
        BY <1>1, <4>1 DEF OpenRuns
    <3> QED
      BY <3>1, <3>2
  <2>5. run' \in OpenRuns /\ run'.at = "reading" /\ run'.final = final
    BY <1>1, <2>4 DEF OpenRuns
  <2>6. Len(out') <= PipeRoom
    <3>1. Len(out) \in Nat
      BY <1>1
    <3> QED
      BY <1>1, <2>3, <3>1, RunAssumption
  <2> QED
    BY <1>1, <1>2, <2>2, <2>3, <2>5, <2>6, StillOpen
<1>4. CASE ReadErr
  <2>1. err' \in 0 .. PipeRoom /\ UNCHANGED <<out, run>>
    BY <1>1, <1>4, RunAssumption DEF ReadErr
  <2> QED
    BY <1>1, <1>2, <2>1, StillOpen
<1> QED
  BY <1>3, <1>4

(* Both pipes at their end, the runner has what the process said last.      *)
LEMMA RunConcludes == ASSUME RInv, Conclude PROVE RInv'
<1>1. /\ run.at = "reading" /\ child.at = "exited" /\ out = <<>> /\ err = 0
      /\ run \in OpenRuns /\ ChildFits /\ child \in Processes
      /\ CaughtUp(out, run.final, child.last)
  BY OpenRun DEF Conclude, Running
<1>2. run.final = child.last /\ child.last \in Answers /\ child.next \in {"exit0", "exit1"}
  BY <1>1 DEF CaughtUp, ChildFits, Exits, Processes
<1>3. child.next # "hang" /\ child.next \in Exits
  BY <1>2 DEF Exits
<1>4. CASE run.kind = "verify"
  <2>1. End(Verified(child.next), "none")
    BY <1>4 DEF Conclude
  <2>2. Earned("none") = Verified(child.next) /\ Verified(child.next) \in Outcomes
    BY <1>3, <1>4 DEF Earned, Verified, Outcomes
  <2> QED
    BY <2>1, <2>2, Ends
<1>5. CASE run.kind # "verify"
  <2>1. PICK verdict : verdict = Verdict(child.next, child.last)
    OBVIOUS
  <2>2. \/ verdict = "error" /\ Earned("none") = "error" /\ End("error", "none")
        \/ verdict = "good" /\ Earned("none") = "done" /\ End("done", "none")
        \/ verdict = "mute" /\ child.next = "exit0" /\ child.last = "mute"
    <3>1. CASE child.next = "exit1"
      <4>1. verdict = "error" /\ Earned("none") = "error"
        BY <1>2, <1>3, <1>5, <2>1, <3>1 DEF Verdict, Earned
      <4> QED
        BY <1>2, <1>5, <2>1, <4>1 DEF Conclude
    <3>2. CASE child.next = "exit0" /\ child.last \in {"none", "broken"}
      <4>1. verdict = "error" /\ Earned("none") = "error"
        BY <1>2, <1>3, <1>5, <2>1, <3>2 DEF Verdict, Earned
      <4> QED
        BY <1>2, <1>5, <2>1, <4>1 DEF Conclude
    <3>3. CASE child.next = "exit0" /\ child.last = "good"
      <4>1. verdict = "good" /\ Earned("none") = "done"
        BY <1>2, <1>3, <1>5, <2>1, <3>3 DEF Verdict, Earned
      <4> QED
        BY <1>2, <1>5, <2>1, <4>1 DEF Conclude
    <3>4. CASE child.next = "exit0" /\ child.last = "mute"
      <4>1. verdict = "mute"
        BY <1>2, <1>3, <1>5, <2>1, <3>4 DEF Verdict
      <4> QED
        BY <3>4, <4>1
    <3> QED
      BY <1>2, <3>1, <3>2, <3>3, <3>4 DEF Answers, Results
  <2>3. CASE verdict = "error" \/ verdict = "good"
    BY <2>2, <2>3, Ends DEF Outcomes
  <2>4. CASE verdict = "mute" /\ child.next = "exit0" /\ child.last = "mute"
    <3>1. \/ /\ run.kind = "multi" /\ run' = [run EXCEPT !.at = "reprompt"]
             /\ UNCHANGED <<child, out, err>>
          \/ End(Fallback(run.kind), "none")
      BY <1>2, <1>5, <2>1, <2>4 DEF Conclude
    <3>2. CASE /\ run.kind = "multi" /\ run' = [run EXCEPT !.at = "reprompt"]
               /\ UNCHANGED <<child, out, err>>
      <4>1. run' \in OpenRuns /\ run'.kind = "multi" /\ run'.final = run.final
        BY <1>1, <3>2 DEF OpenRuns
      <4> QED
        BY <1>1, <2>4, <3>2, <4>1 DEF RInv, RunFits, ChildFits
    <3>3. CASE End(Fallback(run.kind), "none")
      <4>1. Earned("none") = Fallback(run.kind) /\ Fallback(run.kind) \in Outcomes
        BY <1>3, <1>5, <2>4 DEF Earned, Fallback, Outcomes
      <4> QED
        BY <3>3, <4>1, Ends
    <3> QED
      BY <3>1, <3>2, <3>3
  <2> QED
    BY <2>2, <2>3, <2>4
<1> QED
  BY <1>4, <1>5

LEMMA RunAnswered == ASSUME RInv, Answer PROVE RInv'
<1>1. /\ child.next = "exit0" /\ child.last = "mute" /\ run.kind = "multi"
  BY OpenRun DEF Answer, Running
<1>2. Earned("good") = "done" /\ Earned("none") = "error" /\ Fallback(run.kind) = "error"
  BY <1>1 DEF Earned, Fallback, Exits
<1> QED
  BY <1>2, Ends DEF Answer, Outcomes

(* Nothing moves any more only when the process hangs.                      *)
LEMMA RunTimesOut == ASSUME RInv, TimesOut PROVE RInv'
<1>1. /\ child \in Processes /\ out \in Seq(Messages) /\ err \in 0 .. PipeRoom
  BY OpenRun DEF TimesOut, Running, RInv
<1>2. out = <<>> /\ err = 0
  BY <1>1, RunAssumption DEF TimesOut, Stuck, Reads
<1>3. Len(out) < PipeRoom /\ err < PipeRoom
  BY <1>2, RunAssumption
<1>4. child.next = "hang"
  BY <1>1, <1>3 DEF TimesOut, Stuck, Processes
<1>5. Earned("none") = "error"
  BY <1>4 DEF Earned
<1> QED
  BY <1>5, Ends DEF TimesOut, Outcomes

LEMMA RunLost == ASSUME LoseRun PROVE RInv'
<1>1. out' = <<>> /\ err' = 0 /\ child' = Off /\ run' = Off
  BY DEF LoseRun
<1>2. out' \in Seq(Messages) /\ Len(out') <= PipeRoom /\ err' \in 0 .. PipeRoom
  BY <1>1, RunAssumption
<1>3. Off.at = "off"
  BY DEF Off
<1> QED
  BY <1>1, <1>2, <1>3 DEF RInv, RunFits

LEMMA RunStarts == ASSUME NEW kind \in Kinds, StartRun(kind) PROVE RInv'
<1>1. /\ run' = [at |-> "reading", kind |-> kind, final |-> "none"]
      /\ out' = <<>> /\ err' = 0 /\ Goes(kind, MaxWrites, "none")
  BY DEF StartRun
<1>2. MaxWrites \in 0 .. MaxWrites /\ "none" \in Answers
  BY RunAssumption DEF Answers
<1>3. ChildFits' /\ child'.last = "none"
  BY <1>1, <1>2, GoesOn
<1>4. run' \in OpenRuns
  BY <1>1, <1>2 DEF OpenRuns
<1>5. out' \in Seq(Messages) /\ Len(out') <= PipeRoom /\ err' \in 0 .. PipeRoom
  BY <1>1, RunAssumption
<1>6. CaughtUp(out', run'.final, child'.last)
  BY <1>1, <1>3 DEF CaughtUp
<1> QED
  BY <1>1, <1>3, <1>4, <1>5, <1>6, StillOpen

LEMMA RunKeeps == RInv /\ [Next]_vars => RInv'
<1> SUFFICES ASSUME RInv, [Next]_vars PROVE RInv'
  OBVIOUS
<1>0. ASSUME UNCHANGED runVars PROVE RInv'
  BY <1>0 DEF RInv, RunFits, ChildFits, runVars
<1>1. CASE Claim
  BY <1>1, RunStarts DEF Claim
<1>2. CASE Stage
  BY <1>2, RunWrites, RunReads, RunConcludes, RunAnswered, RunTimesOut DEF Stage, RunStep
<1>3. ASSUME NEW v \in Viewers, View(v) \/ Visit(v) PROVE RInv'
  BY <1>3, <1>0 DEF View, Visit, ViewStep, ViewerActs
<1>4. ASSUME NEW u \in Updaters, Kickstart(u) PROVE RInv'
  BY <1>4, RunLost DEF Kickstart, Killed
<1>5. ASSUME NEW u \in Updaters, NEW mode \in Modes,
             Fire(u, mode) \/ Upgrade(u) \/ Decide(u) \/ KickstartFails(u)
      PROVE  RInv'
  BY <1>5, <1>0 DEF Fire, Upgrade, Decide, KickstartFails
<1>6. ASSUME NEW u \in Updaters,
             AutoupdateInstall(u) \/ AutoupdateSchedule(u) \/ AutoupdateUninstall(u)
      PROVE  RInv'
  BY <1>6, <1>0 DEF AutoupdateInstall, AutoupdateSchedule, AutoupdateUninstall, Replaced
<1>7. CASE Dies \/ ServiceInstall \/ ServiceUninstall
  BY <1>7, RunLost DEF Dies, ServiceInstall, ServiceUninstall, Killed
<1>8. CASE Publish \/ UpdateOnly \/ Bootstrap
  BY <1>8, <1>0 DEF Publish, UpdateOnly, Bootstrap
<1>9. CASE UNCHANGED vars
  BY <1>9, <1>0 DEF vars
<1> QED
  BY <1>1, <1>2, <1>3, <1>4, <1>5, <1>6, <1>7, <1>8, <1>9 DEF Next, Proceed, Modes

LEMMA RunInitially == Init => RInv
<1> SUFFICES ASSUME Init PROVE RInv
  OBVIOUS
<1>1. out = <<>> /\ err = 0 /\ child = Off /\ run = Off
  BY DEF Init, RunInit
<1>2. out \in Seq(Messages) /\ Len(out) <= PipeRoom /\ err \in 0 .. PipeRoom
  BY <1>1, RunAssumption
<1>3. Off.at = "off"
  BY DEF Off
<1> QED
  BY <1>1, <1>2, <1>3 DEF RInv, RunFits

(* VerdictIsRight, however the process interleaves what it writes with what *)
(* is read, for any kinds of stages, any room in the pipes and any length   *)
(* of what is written (claude_cli.py, verify.py).                           *)
THEOREM VerdictIsRightHolds == Spec => []VerdictIsRight
<1>1. RInv => VerdictIsRight
  <2>1. run \in OpenRuns => run.at # "ended"
    BY DEF OpenRuns
  <2> QED
    BY <2>1 DEF RInv, RunFits, VerdictIsRight
<1> QED
  BY <1>1, RunInitially, RunKeeps, PTL DEF Spec

-----------------------------------------------------------------------------
(* The service and its updates.                                             *)

UpdateFits(w, n) ==
    \/ w = Idle
    \/ /\ w \in [at : {"upgrading", "upgraded"}, mode : Modes, before : Nat]
       /\ w.before <= n
    \/ w \in [at : {"restarting"}, mode : Modes]

VersionsFit ==
    /\ published \in 0 .. MaxReleases /\ installed \in Nat /\ runs \in Nat
    /\ runs <= installed /\ installed <= published
    /\ update = [u \in Updaters |-> update[u]]
    /\ \A u \in Updaters : UpdateFits(update[u], installed)

JobFits ==
    /\ running \in BOOLEAN
    /\ job \in {"loaded", "out", "absent"} /\ outages \in 0 .. MaxOutages
    /\ job # "loaded" => run = Off /\ \A v \in Viewers : viewer[v] = Away
    /\ settled \in 0 .. Stages
    /\ Running => settled < Stages

LEMMA VersionsKept == VersionsFit /\ [Next]_vars => VersionsFit'
<1> SUFFICES ASSUME VersionsFit, [Next]_vars PROVE VersionsFit'
  OBVIOUS
<1>0. /\ published \in Nat /\ published <= MaxReleases /\ MaxReleases \in Nat
      /\ installed \in Nat /\ runs \in Nat
      /\ runs <= installed /\ installed <= published
      /\ update = [u \in Updaters |-> update[u]]
      /\ \A u \in Updaters : UpdateFits(update[u], installed)
  BY ServiceAssumption DEF VersionsFit
<1>1. ASSUME UNCHANGED versionVars PROVE VersionsFit'
  BY <1>1 DEF VersionsFit, versionVars
<1>2. ASSUME NEW u \in Updaters, NEW w, UpdateFits(w, installed),
             update' = [update EXCEPT ![u] = w], UNCHANGED <<published, installed, runs>>
      PROVE  VersionsFit'
  BY <1>0, <1>2, ServiceAssumption DEF VersionsFit
<1>3. UpdateFits(Idle, installed)
  BY DEF UpdateFits
<1>4. ASSUME NEW mode \in Modes PROVE UpdateFits(Fired(mode), installed)
  BY <1>0, <1>4 DEF UpdateFits, Fired, Reported
<1>5. ASSUME NEW done, Killed(done), installed' = installed, published' = published,
             runs' \in {runs, installed}
      PROVE  VersionsFit'
  <2>1. \A u \in Updaters : UpdateFits(update'[u], installed)
    BY <1>0, <1>3, <1>5 DEF Killed
  <2>2. update' = [u \in Updaters |-> update'[u]]
    BY <1>5 DEF Killed
  <2> QED
    BY <1>0, <1>5, <2>1, <2>2 DEF VersionsFit
<1>6. ASSUME NEW n \in Nat, installed <= n, n <= published, installed' = n,
             update' = [w \in Updaters |-> update'[w]],
             \A w \in Updaters : UpdateFits(update'[w], installed) ,
             UNCHANGED <<published, runs>>
      PROVE  VersionsFit'
  <2>1. ASSUME NEW w \in Updaters PROVE UpdateFits(update'[w], n)
    <3>1. UpdateFits(update'[w], installed)
      BY <1>6
    <3>2. ASSUME NEW b \in Nat, b <= installed PROVE b <= n
      BY <1>0, <1>6, <3>2
    <3> QED
      BY <3>1, <3>2 DEF UpdateFits
  <2>2. runs <= n
    BY <1>0, <1>6
  <2> QED
    BY <1>0, <1>6, <2>1, <2>2 DEF VersionsFit
<1>7. CASE Claim \/ Stage
  BY <1>7, <1>1 DEF Claim, Stage
<1>8. ASSUME NEW v \in Viewers, View(v) \/ Visit(v) PROVE VersionsFit'
  BY <1>8, <1>1 DEF View, Visit
<1>9. ASSUME NEW u \in Updaters, NEW mode \in Modes, Fire(u, mode) PROVE VersionsFit'
  BY <1>2, <1>4, <1>9 DEF Fire
<1>10. ASSUME NEW u \in Updaters, Upgrade(u) PROVE VersionsFit'
  <2>1. update[u].at = "upgrading"
    BY <1>10 DEF Upgrade
  <2>2. /\ update[u] \in [at : {"upgrading", "upgraded"}, mode : Modes, before : Nat]
        /\ update[u].before <= installed
    BY <1>0, <2>1 DEF UpdateFits, Idle
  <2>3. CASE installed' = published /\ update' = [update EXCEPT ![u].at = "upgraded"]
    <3>1. UpdateFits([update[u] EXCEPT !.at = "upgraded"], installed)
      BY <2>2 DEF UpdateFits
    <3>2. /\ update' = [w \in Updaters |-> update'[w]]
          /\ \A w \in Updaters : UpdateFits(update'[w], installed)
      BY <1>0, <2>3, <3>1
    <3> QED
      BY <1>0, <1>6, <1>10, <2>3, <3>2 DEF Upgrade
  <2>4. CASE update' = [update EXCEPT ![u] = Idle] /\ UNCHANGED installed
    BY <1>2, <1>3, <1>10, <2>4 DEF Upgrade
  <2> QED
    BY <1>10, <2>3, <2>4 DEF Upgrade
<1>11. ASSUME NEW u \in Updaters, Decide(u) PROVE VersionsFit'
  <2>1. update[u].at = "upgraded"
    BY <1>11 DEF Decide
  <2>2. update[u] \in [at : {"upgrading", "upgraded"}, mode : Modes, before : Nat]
    BY <1>0, <2>1 DEF UpdateFits, Idle
  <2>3. UpdateFits([at |-> "restarting", mode |-> update[u].mode], installed)
    BY <2>2 DEF UpdateFits
  <2> QED
    BY <1>2, <1>3, <1>11, <2>3 DEF Decide
<1>12. ASSUME NEW u \in Updaters, Kickstart(u) PROVE VersionsFit'
  BY <1>5, <1>12 DEF Kickstart
<1>13. ASSUME NEW u \in Updaters, KickstartFails(u) PROVE VersionsFit'
  BY <1>2, <1>3, <1>13 DEF KickstartFails
<1>14. ASSUME NEW u \in Updaters,
             AutoupdateInstall(u) \/ AutoupdateSchedule(u) \/ AutoupdateUninstall(u)
      PROVE  VersionsFit'
  BY <1>2, <1>3, <1>4, <1>14 DEF AutoupdateInstall, AutoupdateSchedule,
     AutoupdateUninstall, Replaced, Modes
<1>15. CASE Publish
  <2>1. published' = published + 1 /\ published < MaxReleases
        /\ UNCHANGED <<installed, runs, update>>
    BY <1>15 DEF Publish
  <2>2. published' \in 0 .. MaxReleases /\ installed <= published'
    BY <1>0, <2>1
  <2> QED
    BY <1>0, <2>1, <2>2 DEF VersionsFit
<1>16. CASE UpdateOnly
  BY <1>0, <1>6, <1>16 DEF UpdateOnly
<1>17. CASE Dies \/ ServiceInstall \/ ServiceUninstall
  BY <1>5, <1>17 DEF Dies, ServiceInstall, ServiceUninstall
<1>18. CASE Bootstrap
  BY <1>0, <1>1, <1>18 DEF Bootstrap, VersionsFit, versionVars
<1>19. CASE UNCHANGED vars
  BY <1>1, <1>19 DEF vars
<1> QED
  BY <1>7, <1>8, <1>9, <1>10, <1>11, <1>12, <1>13, <1>14, <1>15, <1>16, <1>17, <1>18,
     <1>19 DEF Next, Proceed

(* While the service is out or absent, nothing runs and no page is open.    *)
LEMMA JobKept == JobFits /\ RInv /\ [Next]_vars => JobFits'
<1> SUFFICES ASSUME JobFits, RInv, [Next]_vars PROVE JobFits'
  OBVIOUS
<1>0. /\ Stages \in Nat /\ settled \in Nat /\ settled <= Stages
      /\ outages \in Nat /\ outages <= MaxOutages /\ MaxOutages \in Nat
  BY ServiceAssumption DEF JobFits
<1>1. ASSUME UNCHANGED <<running, run, viewer, job, settled>>,
             outages' = outages \/ Outage
      PROVE  JobFits'
  BY <1>0, <1>1 DEF JobFits, Running, Outage
<1>2. ASSUME LoseRun, job' \in {"loaded", "out", "absent"}, UNCHANGED settled,
             outages' = outages \/ Outage
      PROVE  JobFits'
  <2>1. running' = FALSE /\ run' = Off /\ viewer' = [v \in Viewers |-> Away]
    BY <1>2 DEF LoseRun, LoseOutput
  <2>2. ~Running'
    BY <2>1 DEF Running, Off
  <2>3. \A v \in Viewers : viewer'[v] = Away
    BY <2>1
  <2>4. settled' \in 0 .. Stages /\ outages' \in 0 .. MaxOutages
    BY <1>0, <1>2 DEF Outage
  <2> QED
    BY <1>2, <2>1, <2>2, <2>3, <2>4 DEF JobFits
<1>3. CASE Claim
  <2>1. /\ job = "loaded" /\ settled < Stages /\ running' = TRUE
        /\ UNCHANGED <<job, outages, settled>>
    BY <1>3 DEF Claim, StartRun, ResetOutput, jobVars
  <2> QED
    BY <2>1 DEF JobFits
<1>4. CASE Stage
  <2>1. Running
    <3>1. child # Off \/ Running
      BY <1>4 DEF Stage, RunStep, Writes, WritesError, Exit, ReadOut, ReadErr, Conclude,
         Answer, TimesOut, Running, Off
    <3> QED
      BY <3>1, OpenRun
  <2>2. job = "loaded" /\ settled < Stages
    <3>1. run # Off
      BY <2>1 DEF Running, Off
    <3> QED
      BY <2>1, <3>1 DEF JobFits
  <2>3. UNCHANGED <<job, outages>>
    BY <1>4 DEF Stage, jobVars
  <2>4. running' \in BOOLEAN
    BY <1>4 DEF Stage, RunStep, Writes, WritesError, Exit, ReadOut, ReadErr, Conclude,
       Answer, TimesOut, End, CloseOutput, AppendOutput, outputVars, JobFits
  <2>5. /\ settled' \in 0 .. Stages
        /\ run'.at # "ended" => settled' = settled
    <3>1. settled' = settled \/ settled' = settled + 1
      BY <1>4 DEF Stage
    <3>2. settled' \in 0 .. Stages
      BY <1>0, <2>2, <3>1
    <3>3. run'.at # "ended" => settled' = settled
      BY <1>4 DEF Stage
    <3> QED
      BY <3>2, <3>3
  <2>6. Running' => settled' < Stages
    BY <2>2, <2>5 DEF Running
  <2> QED
    BY <2>2, <2>3, <2>4, <2>5, <2>6 DEF JobFits
<1>5. ASSUME NEW v \in Viewers, View(v) \/ Visit(v) PROVE JobFits'
  <2>1. /\ UNCHANGED <<run, job, outages, settled, running>>
    BY <1>5 DEF View, Visit, ViewStep, ViewerActs, Resume, Take, Subscribe, Unsubscribe,
       jobVars, runVars
  <2>2. job = "loaded"
    <3>1. Visit(v) => job = "loaded"
      BY DEF Visit
    <3>2. View(v) => viewer[v] # Away
      BY DEF View, ViewStep, Resume, Take, Viewing
    <3> QED
      BY <1>5, <3>1, <3>2 DEF JobFits
  <2> QED
    BY <2>1, <2>2 DEF JobFits, Running
<1>6. ASSUME NEW u \in Updaters, Kickstart(u) PROVE JobFits'
  BY <1>2, <1>6 DEF Kickstart, Killed, JobFits, jobVars
<1>7. ASSUME NEW u \in Updaters, NEW mode \in Modes,
             Fire(u, mode) \/ Upgrade(u) \/ Decide(u) \/ KickstartFails(u)
      PROVE  JobFits'
  BY <1>7, <1>1 DEF Fire, Upgrade, Decide, KickstartFails, jobVars, outputVars, runVars
<1>8. ASSUME NEW u \in Updaters,
             AutoupdateInstall(u) \/ AutoupdateSchedule(u) \/ AutoupdateUninstall(u)
      PROVE  JobFits'
  BY <1>8, <1>1 DEF AutoupdateInstall, AutoupdateSchedule, AutoupdateUninstall, Replaced,
     outputVars, runVars
<1>9. CASE Dies \/ ServiceInstall \/ ServiceUninstall
  <2>1. LoseRun /\ UNCHANGED settled /\ Outage
    BY <1>9 DEF Dies, ServiceInstall, ServiceUninstall, Killed
  <2>2. job' \in {"loaded", "out", "absent"}
    BY <1>9 DEF Dies, ServiceInstall, ServiceUninstall, JobFits
  <2> QED
    BY <1>2, <2>1, <2>2
<1>10. CASE Publish \/ UpdateOnly \/ UNCHANGED vars
  BY <1>10, <1>1 DEF Publish, UpdateOnly, vars, jobVars, outputVars, runVars
<1>11. CASE Bootstrap
  <2>1. /\ job = "out" /\ job' \in {"loaded", "absent"}
        /\ UNCHANGED <<running, run, viewer, outages, settled>>
    BY <1>11 DEF Bootstrap, outputVars, runVars
  <2> QED
    BY <2>1 DEF JobFits, Running
<1> QED
  BY <1>3, <1>4, <1>5, <1>6, <1>7, <1>8, <1>9, <1>10, <1>11 DEF Next, Proceed, Modes

Inv == SInv /\ RInv /\ VersionsFit /\ JobFits

LEMMA TypeFollows == Inv => TypeOK
<1> SUFFICES ASSUME Inv PROVE TypeOK
  OBVIOUS
<1>1. ASSUME NEW s, Lines(s) PROVE s \in Seq(Nat \ {0})
  <2>1. s \in Seq(Nat) /\ \A i \in 1 .. Len(s) : s[i] \in Nat \ {0}
    BY <1>1 DEF Lines, EndMark
  <2>2. s \in [1 .. Len(s) -> Nat \ {0}] /\ Len(s) \in Nat
    BY <2>1
  <2> QED
    BY <2>2
<1>2. buffer \in Seq(Nat \ {0}) /\ Len(buffer) <= MaxLines
  BY <1>1 DEF Inv, SInv, BufferOK
<1>3. ASSUME NEW v \in Viewers
      PROVE  /\ \/ viewer[v] = Away
                \/ /\ viewer[v].at \in {"replay", "live"}
                   /\ viewer[v].queue \in Seq(Nat) /\ Len(viewer[v].queue) <= MaxLines
                   /\ viewer[v].at = "replay" => viewer[v].left \in Seq(Nat \ {0})
             /\ heard[v] \in Seq(Nat \ {0}) /\ lagged[v] \in BOOLEAN
  <2>1. StreamOK(viewer[v], heard[v], lagged[v], said)
    BY DEF Inv, SInv, Streams
  <2>2. CASE viewer[v] = Away /\ heard[v] = <<>> /\ lagged[v] = FALSE
    <3>1. <<>> \in Seq(Nat \ {0})
      OBVIOUS
    <3> QED
      BY <2>2, <3>1
  <2>3. ASSUME NEW l, NEW q, viewer[v] = [at |-> "replay", left |-> l, queue |-> q],
               Fits(heard[v], l, q, lagged[v], said)
        PROVE  /\ viewer[v].at = "replay" /\ viewer[v].queue \in Seq(Nat)
               /\ Len(viewer[v].queue) <= MaxLines /\ viewer[v].left \in Seq(Nat \ {0})
               /\ heard[v] \in Seq(Nat \ {0})
    BY <2>3, <1>1 DEF Fits, Heard, Replayed, Queued
  <2>4. ASSUME NEW q, viewer[v] = [at |-> "live", queue |-> q],
               Fits(heard[v], <<>>, q, lagged[v], said)
        PROVE  /\ viewer[v].at = "live" /\ viewer[v].queue \in Seq(Nat)
               /\ Len(viewer[v].queue) <= MaxLines /\ heard[v] \in Seq(Nat \ {0})
    BY <2>4, <1>1 DEF Fits, Heard, Queued
  <2> QED
    BY <2>1, <2>2, <2>3, <2>4 DEF StreamOK
<1>4. heard \in [Viewers -> Seq(Nat \ {0})] /\ lagged \in [Viewers -> BOOLEAN]
  BY <1>3 DEF Inv, SInv, Streams
<1>5. OutputTypeOK
  BY <1>2, <1>3, <1>4 DEF OutputTypeOK, Inv, JobFits
<1>6. RunTypeOK
  <2>1. out \in Seq(Messages) /\ Len(out) <= PipeRoom /\ err \in 0 .. PipeRoom /\ said \in Nat
    BY DEF Inv, RInv, SInv
  <2>2. CASE run \in {Off} \cup EndedRuns /\ child = Off
    BY <1>5, <2>1, <2>2 DEF RunTypeOK, Off, EndedRuns, Outcomes, Running
  <2>3. CASE run \in OpenRuns /\ ChildFits
    <3>1. child \in Processes
      BY <2>3 DEF ChildFits
    <3>2. child # Off
      BY <3>1 DEF Processes, Off
    <3>3. child.next \in Intents("single", 1)
      BY <3>1 DEF Processes, Intents
    <3> QED
      BY <1>5, <2>1, <2>3, <3>1, <3>2, <3>3
         DEF RunTypeOK, Processes, OpenRuns, Running, Answers
  <2> QED
    BY <2>2, <2>3 DEF Inv, RInv, RunFits
<1>7. ASSUME NEW u \in Updaters
      PROVE  \/ update[u] = Idle
             \/ /\ update[u].at \in {"upgrading", "upgraded", "restarting"}
                /\ update[u].mode \in Modes
                /\ update[u].at # "restarting" => update[u].before <= installed
  BY DEF Inv, VersionsFit, UpdateFits
<1> QED
  BY <1>6, <1>7 DEF TypeOK, Inv, VersionsFit, JobFits, Viewing

(* Every variable has its type, whatever the updates, the operator and the  *)
(* stages do: a service that is out runs nothing, a version only follows    *)
(* another, and a stage that runs is not settled yet.                       *)
THEOREM TypeCorrect == Spec => []TypeOK
<1>1. Init => VersionsFit /\ JobFits
  <2> SUFFICES ASSUME Init PROVE VersionsFit /\ JobFits
    OBVIOUS
  <2>1. VersionsFit
    BY ServiceAssumption DEF Init, VersionsFit, UpdateFits
  <2>2. ~Running
    BY DEF Init, RunInit, Running, Off
  <2>3. Stages \in Nat /\ MaxOutages \in Nat /\ 0 \in 0 .. Stages /\ 0 \in 0 .. MaxOutages
    BY ServiceAssumption
  <2>4. job = "loaded" /\ running = FALSE /\ outages = 0 /\ settled = 0
    BY DEF Init, OutputInit
  <2>5. JobFits
    BY <2>2, <2>3, <2>4 DEF JobFits
  <2> QED
    BY <2>1, <2>5
<1>2. SInv /\ RInv /\ VersionsFit /\ JobFits => TypeOK
  BY TypeFollows DEF Inv
<1> QED
  BY <1>1, <1>2, StreamInitially, StepKeeps, RunInitially, RunKeeps, VersionsKept, JobKept,
     PTL DEF Spec

=============================================================================
