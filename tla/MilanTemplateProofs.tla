------------------------ MODULE MilanTemplateProofs ------------------------
(* Whatever the comparisons of images say, and however many sub-templates   *)
(* and candidates there are: what holds of a Milan template through         *)
(* enrolment, study and the candidate pass.                                 *)
EXTENDS MilanTemplate, FiniteSetTheorems, SequenceTheorems, TLAPS

\* The ages of a template: below their number, the newest one highest.
AgesSound(t) ==
    /\ Count(t) > 0 => t.newest >= 1
    /\ \A i \in 1..Count(t) : t.age[i] < Count(t)
    /\ NewestYoungest(t)

\* What holds of every template, in memory or packed.
Good(t) == TemplateOK(t) /\ RowsTile(t) /\ t.anchor <= Count(t) /\ AgesSound(t)

\* What holds of a template of this sensor.
Fits(t) ==
    /\ sensor = "plain" => AgesNumber(t)
    /\ t.retired => IF sensor = "plain" THEN Count(t) = MAX ELSE t.counter > RETIRE_AFTER

-----------------------------------------------------------------------------
(* Templates.                                                              *)

LEMMA TemplateFields ==
    ASSUME NEW t, TemplateOK(t)
    PROVE  /\ t.age \in Seq(Nat) /\ t.row \in Seq(Nat) /\ t.rows \in Nat
           /\ t.order \in [Slot -> 0..MAX] /\ t.anchor \in 0..MAX
           /\ t.rank \in [Candidate -> -1..(CACHE - 1)] /\ t.retired \in BOOLEAN
           /\ t.counter \in Nat /\ t.newest \in 0..MAX
           /\ Count(t) \in 0..MAX
           /\ DOMAIN t.age = 1..Count(t) /\ DOMAIN t.row = 1..Count(t)
           /\ \A i \in 1..Count(t) : t.age[i] \in Nat /\ t.row[i] \in Nat
<1>1. t \in Template
  BY DEF TemplateOK
<1>2. /\ t.age \in Seq(Nat) /\ t.row \in Seq(Nat) /\ t.rows \in Nat
      /\ t.order \in [Slot -> 0..MAX] /\ t.anchor \in 0..MAX
      /\ t.rank \in [Candidate -> -1..(CACHE - 1)] /\ t.retired \in BOOLEAN
      /\ t.counter \in Nat /\ t.newest \in 0..MAX
  BY <1>1 DEF Template
<1>3. Len(t.age) = Count(t) /\ Len(t.row) = Count(t) /\ Count(t) \in 0..MAX
  BY <1>2, MilanAssumption DEF TemplateOK, Count, MilanAssumption
<1>4. /\ DOMAIN t.age = 1..Count(t) /\ DOMAIN t.row = 1..Count(t)
      /\ \A i \in 1..Count(t) : t.age[i] \in Nat /\ t.row[i] \in Nat
  BY <1>2, <1>3
<1> QED BY <1>2, <1>3, <1>4

\* A template with the ages and rows of a good one is good, whatever its order,
\* its candidates and its study counter.
LEMMA SameTree ==
    ASSUME NEW t, Good(t), NEW u \in Template,
           u.age = t.age, u.row = t.row, u.rows = t.rows, u.newest = t.newest,
           u.anchor <= Count(t)
    PROVE  Good(u) /\ Count(u) = Count(t) /\ (AgesNumber(t) => AgesNumber(u))
  BY DEF Good, TemplateOK, RowsTile, AgesSound, NewestYoungest, AgesNumber, Count

LEMMA NewGood == Good(NewTemp) /\ AgesNumber(NewTemp) /\ NewTemp.retired = FALSE
<1>1. NewTemp \in Template
  BY MilanAssumption DEF NewTemp, Template, Empty, Slot, Candidate, MilanAssumption
<1>2. Count(NewTemp) = 0 /\ Len(NewTemp.row) = 0 /\ NewTemp.newest = 0 /\ NewTemp.anchor = 0
      /\ NewTemp.rows = 0
  BY DEF NewTemp, Count
<1>3. NewTemp.retired = FALSE
  BY DEF NewTemp
<1> HIDE DEF NewTemp
<1> QED BY <1>1, <1>2, <1>3, MilanAssumption
        DEF Good, TemplateOK, RowsTile, AgesSound, NewestYoungest, AgesNumber, MilanAssumption

\* One more sub-template keeps a template good.
LEMMA GrownGood ==
    ASSUME NEW t, Good(t), Count(t) < MAX,
           NEW order \in [Slot -> 0..MAX], NEW a \in 0..Count(t)
    PROVE  LET u == Grown(t, order, a)
           IN /\ Good(u) /\ Count(u) = Count(t) + 1
              /\ AgesNumber(t) => AgesNumber(u)
              /\ u.rank = t.rank /\ u.retired = t.retired /\ u.counter = t.counter
              /\ \A i \in 1..Count(t) : u.age[i] = t.age[i]
              /\ u.age[Count(t) + 1] = Count(t)
<1> DEFINE n == Count(t)
           u == Grown(t, order, a)
<1>1. TemplateOK(t)
  BY DEF Good
<1>2. /\ t.age \in Seq(Nat) /\ t.row \in Seq(Nat) /\ t.rows \in Nat /\ n \in 0..MAX
      /\ DOMAIN t.age = 1..n /\ DOMAIN t.row = 1..n /\ Len(t.age) = n /\ Len(t.row) = n
      /\ \A i \in 1..n : t.age[i] \in Nat /\ t.row[i] \in Nat
  BY <1>1, TemplateFields DEF Count, TemplateOK
<1>3. /\ u.age = Append(t.age, n) /\ u.row = Append(t.row, IF n + 1 = 1 THEN 0 ELSE t.rows)
      /\ u.rows = t.rows + RowLength(n + 1) /\ u.order = order /\ u.anchor = a
      /\ u.newest = n + 1 /\ u.rank = t.rank /\ u.retired = t.retired /\ u.counter = t.counter
  BY <1>1, <1>2 DEF Grown, Count, TemplateOK, Template
<1>4. RowLength(n + 1) \in Nat
  BY <1>2 DEF RowLength
<1>5. u \in Template
  <2>1. Append(t.age, n) \in Seq(Nat) /\ Append(t.row, IF n + 1 = 1 THEN 0 ELSE t.rows) \in Seq(Nat)
    BY <1>2
  <2>2. t.rows + RowLength(n + 1) \in Nat /\ a \in 0..MAX /\ n + 1 \in 0..MAX
    BY <1>2, <1>4, MilanAssumption DEF MilanAssumption
  <2>3. u = [t EXCEPT !.age = Append(t.age, n), !.row = Append(t.row, IF n + 1 = 1 THEN 0 ELSE t.rows),
                      !.rows = t.rows + RowLength(n + 1), !.order = order, !.anchor = a, !.newest = n + 1]
    <3>1. (n + 1) - 1 = n /\ n + 1 \in Nat
      BY <1>2
    <3>2. u = [t EXCEPT !.age = Append(t.age, (n + 1) - 1), !.row = Append(t.row, IF n + 1 = 1 THEN 0 ELSE t.rows),
                        !.rows = t.rows + RowLength(n + 1), !.order = order, !.anchor = a, !.newest = n + 1]
      BY Zenon DEF Grown
    <3> HIDE DEF n, u
    <3> QED BY <3>1, <3>2
  <2> HIDE DEF n, u
  <2> QED BY <1>1, <2>1, <2>2, <2>3 DEF Template, TemplateOK
<1>6. Len(u.age) = n + 1 /\ Len(u.row) = n + 1 /\ Count(u) = n + 1
  BY <1>2, <1>3 DEF Count
<1>7. /\ \A i \in 1..n : u.age[i] = t.age[i] /\ u.row[i] = t.row[i]
      /\ u.age[n + 1] = n /\ u.row[n + 1] = IF n = 0 THEN 0 ELSE t.rows
  BY <1>2, <1>3
<1> HIDE DEF n, u
<1>n. n = Count(t) /\ n < MAX /\ a \in 0..n /\ MAX \in Nat
  BY MilanAssumption DEF n, MilanAssumption
<1>8. TemplateOK(u)
  BY <1>2, <1>3, <1>5, <1>6, <1>n DEF TemplateOK
<1>9. RowsTile(u)
  <2>1. /\ n > 0 => t.row[1] = 0
        /\ \A k \in 1..(n - 1) : t.row[k + 1] = t.row[k] + RowLength(k)
        /\ t.rows = IF n = 0 THEN 0 ELSE t.row[n] + RowLength(n)
    BY <1>n DEF Good, RowsTile
  <2>2. u.row[1] = 0
    BY <1>2, <1>7, <2>1
  <2>3. ASSUME NEW k \in 1..n PROVE u.row[k + 1] = u.row[k] + RowLength(k)
    <3>1. CASE k = n
      BY <1>2, <1>7, <2>1, <3>1
    <3>2. CASE k # n
      <4>1. k \in 1..(n - 1) /\ k + 1 \in 1..n
        BY <1>2, <3>2
      <4>2. u.row[k] = t.row[k] /\ u.row[k + 1] = t.row[k + 1] /\ t.row[k + 1] = t.row[k] + RowLength(k)
        BY <1>7, <2>1, <4>1
      <4> QED BY <4>2
    <3> QED BY <3>1, <3>2
  <2>4. u.rows = u.row[n + 1] + RowLength(n + 1)
    BY <1>2, <1>3, <1>7, <2>1 DEF RowLength
  <2> QED BY <1>2, <1>6, <2>2, <2>3, <2>4 DEF RowsTile
<1>10. AgesSound(u)
  BY <1>2, <1>3, <1>6, <1>7, <1>n DEF AgesSound, NewestYoungest, Good
<1>11. AgesNumber(t) => AgesNumber(u)
  <2> SUFFICES ASSUME AgesNumber(t), NEW i \in 1..(n + 1), NEW j \in 1..(n + 1)
               PROVE  u.age[i] < n + 1 /\ (u.age[i] = u.age[j] => i = j)
    BY <1>6, <1>n DEF AgesNumber
  <2>1. \A k, l \in 1..n : u.age[k] \in Nat /\ u.age[k] < n /\ (u.age[k] = u.age[l] => k = l)
    BY <1>2, <1>7, <1>n DEF AgesNumber
  <2>2. \A k \in 1..(n + 1) : k \in 1..n \/ k = n + 1
    BY <1>2
  <2> QED BY <1>2, <1>7, <2>1, <2>2
<1>12. Good(u)
  BY <1>2, <1>3, <1>6, <1>8, <1>9, <1>10, <1>n DEF Good
<1> QED BY <1>3, <1>6, <1>7, <1>11, <1>12, <1>n DEF u

\* Removing the last sub-template of a template that was only enrolled.
LEMMA ShrunkGood ==
    ASSUME NEW t, Good(t), Count(t) > 0, \A i \in 1..Count(t) : t.age[i] = i - 1,
           NEW a \in 0..(Count(t) - 1)
    PROVE  LET u == Shrunk(t, a)
           IN /\ Good(u) /\ Count(u) = Count(t) - 1
              /\ \A i \in 1..Count(u) : u.age[i] = i - 1
              /\ u.rank = t.rank /\ u.retired = t.retired /\ u.counter = t.counter
<1> DEFINE n == Count(t)
           u == Shrunk(t, a)
<1>1. TemplateOK(t)
  BY DEF Good
<1>2. /\ t.age \in Seq(Nat) /\ t.row \in Seq(Nat) /\ t.rows \in Nat /\ n \in 0..MAX
      /\ DOMAIN t.age = 1..n /\ DOMAIN t.row = 1..n /\ Len(t.age) = n /\ Len(t.row) = n
      /\ \A i \in 1..n : t.age[i] \in Nat /\ t.row[i] \in Nat
  BY <1>1, TemplateFields DEF Count, TemplateOK
<1>3. /\ u.age = SubSeq(t.age, 1, n - 1) /\ u.row = SubSeq(t.row, 1, n - 1)
      /\ u.rows = t.row[n] /\ u.anchor = a /\ u.newest = n - 1
      /\ u.rank = t.rank /\ u.retired = t.retired /\ u.counter = t.counter
  BY <1>1, <1>2 DEF Shrunk, Count, TemplateOK, Template
<1>x. u = [t EXCEPT !.age = SubSeq(t.age, 1, n - 1), !.row = SubSeq(t.row, 1, n - 1),
                    !.rows = t.row[n], !.anchor = a, !.newest = n - 1]
  BY DEF Shrunk
<1> HIDE DEF n, u
<1>n. /\ n = Count(t) /\ n > 0 /\ a \in 0..(n - 1) /\ MAX \in Nat
      /\ \A i \in 1..n : t.age[i] = i - 1
  BY MilanAssumption DEF n, MilanAssumption
<1>4. /\ u.age \in Seq(Nat) /\ u.row \in Seq(Nat) /\ Len(u.age) = n - 1 /\ Len(u.row) = n - 1
      /\ \A i \in 1..(n - 1) : u.age[i] = t.age[i] /\ u.row[i] = t.row[i]
  <2>1. n - 1 \in Int /\ 1 \in Int /\ \A i \in 1..(n - 1) : t.age[i] \in Nat /\ t.row[i] \in Nat
    BY <1>2
  <2>2. /\ SubSeq(t.age, 1, n - 1) \in Seq(Nat)
        /\ Len(SubSeq(t.age, 1, n - 1)) = IF 1 <= n - 1 THEN n - 1 - 1 + 1 ELSE 0
        /\ \A i \in 1..(n - 1 - 1 + 1) : SubSeq(t.age, 1, n - 1)[i] = t.age[1 + i - 1]
    BY <2>1, SubSeqProperties
  <2>3. /\ SubSeq(t.row, 1, n - 1) \in Seq(Nat)
        /\ Len(SubSeq(t.row, 1, n - 1)) = IF 1 <= n - 1 THEN n - 1 - 1 + 1 ELSE 0
        /\ \A i \in 1..(n - 1 - 1 + 1) : SubSeq(t.row, 1, n - 1)[i] = t.row[1 + i - 1]
    BY <2>1, SubSeqProperties
  <2>4. n - 1 - 1 + 1 = n - 1 /\ \A i \in 1..(n - 1) : 1 + i - 1 = i
    BY <1>2
  <2> QED BY <1>2, <1>3, <1>n, <2>2, <2>3, <2>4
<1>5. \A i \in 1..(n - 1) : u.age[i] = t.age[i] /\ u.row[i] = t.row[i]
  BY <1>4
<1>6. u \in Template
  <2>1. t.row[n] \in Nat /\ a \in 0..MAX /\ n - 1 \in 0..MAX
    BY <1>2, <1>n
  <2> QED BY <1>1, <1>3, <1>4, <1>x, <2>1 DEF Template, TemplateOK
<1>7. TemplateOK(u) /\ Count(u) = n - 1
  BY <1>2, <1>3, <1>4, <1>6, <1>n DEF TemplateOK, Count
<1>8. RowsTile(u)
  <2>1. /\ t.row[1] = 0
        /\ \A k \in 1..(n - 1) : t.row[k + 1] = t.row[k] + RowLength(k)
    BY <1>n DEF Good, RowsTile
  <2>2. n - 1 > 0 => u.row[1] = 0
    BY <1>2, <1>5, <2>1
  <2>3. ASSUME NEW k \in 1..(n - 2) PROVE u.row[k + 1] = u.row[k] + RowLength(k)
    <3>1. k \in 1..(n - 1) /\ k + 1 \in 1..(n - 1)
      BY <1>2
    <3>2. u.row[k] = t.row[k] /\ u.row[k + 1] = t.row[k + 1] /\ t.row[k + 1] = t.row[k] + RowLength(k)
      BY <1>5, <2>1, <3>1
    <3> QED BY <3>2
  <2>4. CASE n = 1
    BY <1>3, <1>7, <2>1, <2>2, <2>3, <2>4 DEF RowsTile
  <2>5. CASE n # 1
    <3>1. t.row[n] = t.row[n - 1] + RowLength(n - 1)
      <4>1. n - 1 \in 1..(n - 1) /\ (n - 1) + 1 = n
        BY <1>2, <1>n, <2>5
      <4> QED BY <2>1, <4>1
    <3>2. n - 1 \in 1..(n - 1) /\ n - 1 > 0 /\ (n - 1) - 1 = n - 2
      BY <1>2, <1>n, <2>5
    <3>3. u.row[n - 1] = t.row[n - 1]
      BY <1>5, <3>2
    <3> QED BY <1>3, <1>7, <2>2, <2>3, <3>1, <3>2, <3>3 DEF RowsTile
  <2> QED BY <2>4, <2>5
<1>9. AgesSound(u)
  <2>1. \A i \in 1..(n - 1) : u.age[i] = i - 1
    BY <1>2, <1>5, <1>n
  <2>2. n - 1 > 0 => n - 1 \in 1..(n - 1)
    BY <1>2, <1>n
  <2> QED BY <1>2, <1>3, <1>7, <1>n, <2>1, <2>2 DEF AgesSound, NewestYoungest
<1>10. Good(u)
  BY <1>2, <1>3, <1>7, <1>8, <1>9, <1>n DEF Good
<1>11. \A i \in 1..Count(u) : u.age[i] = i - 1
  BY <1>2, <1>5, <1>7, <1>n
<1> QED BY <1>3, <1>7, <1>10, <1>11, <1>n DEF u

\* Replacing a sub-template of a full template.
LEMMA OverwrittenGood ==
    ASSUME NEW t, Good(t), Count(t) = MAX, NEW s \in Slot, NEW since \in Nat,
           since = 0 \/ (since = t.age[s] /\ AgesNumber(t))
    PROVE  LET u == Overwritten(t, s, since)
           IN /\ Good(u) /\ Count(u) = MAX
              /\ since = t.age[s] /\ AgesNumber(t) => AgesNumber(u)
              /\ u.rank = t.rank /\ u.retired = t.retired /\ u.counter = t.counter
<1> DEFINE u == Overwritten(t, s, since)
<1>1. TemplateOK(t)
  BY DEF Good
<1>2. /\ t.age \in Seq(Nat) /\ DOMAIN t.age = 1..MAX /\ Len(t.row) = MAX /\ MAX \in Nat \ {0}
      /\ \A i \in 1..MAX : t.age[i] \in Nat /\ t.age[i] < MAX
      /\ s \in 1..MAX
  BY <1>1, TemplateFields, MilanAssumption DEF TemplateOK, Good, AgesSound, Slot, MilanAssumption
<1>3. /\ u.age = [i \in 1..MAX |-> IF i = s THEN MAX - 1
                                   ELSE IF t.age[i] > since THEN t.age[i] - 1 ELSE t.age[i]]
      /\ u.row = t.row /\ u.rows = t.rows /\ u.anchor = t.anchor /\ u.newest = s
      /\ u.order = t.order /\ u.rank = t.rank /\ u.retired = t.retired /\ u.counter = t.counter
  BY <1>1 DEF Overwritten, TemplateOK, Template
<1>4. \A i \in 1..MAX : u.age[i] \in Nat /\ u.age[i] < MAX
  BY <1>2, <1>3
<1>5. u.age \in Seq(Nat) /\ Len(u.age) = MAX
  <2>1. u.age \in [1..MAX -> Nat]
    BY <1>3, <1>4
  <2>2. u.age \in Seq(Nat)
    <3>1. Seq(Nat) = UNION {[1..n -> Nat] : n \in Nat}
      BY SeqDef
    <3> QED BY <1>2, <2>1, <3>1
  <2>3. DOMAIN u.age = 1..MAX /\ Len(u.age) \in Nat /\ DOMAIN u.age = 1..Len(u.age)
    BY <2>1, <2>2, LenProperties
  <2>4. \A k \in Nat : 1..k = 1..MAX => k = MAX
    BY <1>2
  <2> QED BY <2>2, <2>3, <2>4
<1>6. u \in Template
  <2>1. u = [t EXCEPT !.age = u.age, !.newest = s]
    BY <1>1, <1>3 DEF Overwritten, TemplateOK, Template
  <2>2. s \in 0..MAX
    BY <1>2
  <2> HIDE DEF u
  <2> QED BY <1>1, <1>5, <2>1, <2>2 DEF TemplateOK, Template
<1> HIDE DEF u
<1>7. TemplateOK(u) /\ Count(u) = MAX
  BY <1>2, <1>3, <1>5, <1>6 DEF TemplateOK, Count
<1>8. RowsTile(u)
  BY <1>3, <1>7 DEF Good, RowsTile
<1>9. ASSUME NEW i \in 1..MAX, i # s PROVE u.age[i] < u.age[s]
  <2>1. u.age[s] = MAX - 1
    BY <1>2, <1>3
  <2>2. CASE t.age[i] > since
    BY <1>2, <1>3, <1>9, <2>1, <2>2
  <2>3. CASE ~(t.age[i] > since) /\ since = 0
    <3>1. u.age[i] = 0 /\ MAX > 1
      BY <1>2, <1>3, <1>9, <2>3
    <3> QED BY <1>2, <2>1, <3>1
  <2>4. CASE ~(t.age[i] > since) /\ since = t.age[s] /\ AgesNumber(t)
    <3>1. t.age[i] # t.age[s]
      BY <1>2, <1>9, <2>4 DEF AgesNumber
    <3> QED BY <1>2, <1>3, <1>9, <2>1, <2>4, <3>1
  <2> QED BY <2>2, <2>3, <2>4
<1>10. AgesSound(u)
  BY <1>2, <1>3, <1>4, <1>7, <1>9 DEF AgesSound, NewestYoungest
<1>11. ASSUME since = t.age[s], AgesNumber(t) PROVE AgesNumber(u)
  <2> SUFFICES ASSUME NEW i \in 1..MAX, NEW j \in 1..MAX, u.age[i] = u.age[j] PROVE i = j
    BY <1>4, <1>7 DEF AgesNumber
  <2>1. \A k, l \in 1..MAX : t.age[k] = t.age[l] => k = l
    BY <1>11 DEF AgesNumber
  <2>2. i = s \/ j = s => i = j
    BY <1>2, <1>4, <1>9
  <2>3. i # s /\ j # s => t.age[i] = t.age[j]
    <3>1. t.age[i] # t.age[s] \/ i = s
      BY <1>2, <2>1
    <3>2. t.age[j] # t.age[s] \/ j = s
      BY <1>2, <2>1
    <3> QED BY <1>2, <1>3, <1>11, <3>1, <3>2
  <2> QED BY <2>1, <2>2, <2>3
<1>12. Good(u)
  BY <1>2, <1>3, <1>7, <1>8, <1>10 DEF Good
<1> QED BY <1>3, <1>7, <1>11, <1>12 DEF u

-----------------------------------------------------------------------------
(* The candidate cache.                                                    *)

\* Inserting an image changes nothing but the ranks.
LEMMA InsertedGood ==
    ASSUME NEW t, Good(t), NEW u \in Inserted(t)
    PROVE  /\ Good(u) /\ Count(u) = Count(t) /\ (AgesNumber(t) => AgesNumber(u))
           /\ u.age = t.age /\ u.newest = t.newest /\ u.anchor = t.anchor
           /\ u.retired = t.retired /\ u.counter = t.counter
<1>1. TemplateOK(t) /\ t \in Template /\ t.rank \in [Candidate -> -1..(CACHE - 1)]
  BY TemplateFields DEF Good, TemplateOK
<1>2. CASE u = t
  BY <1>2
<1>3. CASE \E c \in Candidate, top \in -1..(CACHE - 1) : u = [t EXCEPT !.rank = Ranked(t.rank, c, top)]
  <2> PICK c \in Candidate, top \in -1..(CACHE - 1) : u = [t EXCEPT !.rank = Ranked(t.rank, c, top)]
    BY <1>3
  <2>1. Ranked(t.rank, c, top) \in [Candidate -> -1..(CACHE - 1)]
    <3>1. CASE top = CACHE - 1
      BY <1>1, <3>1, MilanAssumption DEF Ranked, MilanAssumption
    <3>2. CASE top # CACHE - 1
      <4>1. top + 1 \in -1..(CACHE - 1)
        BY <3>2, MilanAssumption DEF MilanAssumption
      <4> QED BY <1>1, <3>2, <4>1 DEF Ranked
    <3> QED BY <3>1, <3>2
  <2>2. /\ u \in Template
        /\ u.age = t.age /\ u.row = t.row /\ u.rows = t.rows /\ u.anchor = t.anchor
        /\ u.newest = t.newest /\ u.retired = t.retired /\ u.counter = t.counter
    BY <1>1, <2>1 DEF Template
  <2>3. u.anchor <= Count(t)
    BY <2>2 DEF Good
  <2>4. Good(u) /\ Count(u) = Count(t) /\ (AgesNumber(t) => AgesNumber(u))
    BY <2>2, <2>3, SameTree
  <2> QED BY <2>2, <2>4
<1> QED BY <1>2, <1>3 DEF Inserted

\* Taking a candidate out changes nothing but the ranks, and takes out only it.
LEMMA TakenGood ==
    ASSUME NEW t, Good(t), NEW c \in Candidate, t.rank[c] # -1
    PROVE  LET u == Taken(t, c)
           IN /\ Good(u) /\ Count(u) = Count(t) /\ (AgesNumber(t) => AgesNumber(u))
              /\ u.age = t.age /\ u.newest = t.newest /\ u.anchor = t.anchor
              /\ u.retired = t.retired /\ u.counter = t.counter
              /\ CachedIn(u) = CachedIn(t) \ {c}
<1> DEFINE u == Taken(t, c)
<1>1. TemplateOK(t) /\ t \in Template /\ t.rank \in [Candidate -> -1..(CACHE - 1)]
  BY TemplateFields DEF Good, TemplateOK
<1>2. u.rank = [d \in Candidate |-> IF d = c THEN -1
                                   ELSE IF t.rank[d] > t.rank[c] THEN t.rank[d] - 1 ELSE t.rank[d]]
  BY <1>1 DEF Taken, Template
<1>3. \A d \in Candidate : t.rank[d] \in -1..(CACHE - 1) /\ t.rank[c] >= 0
  BY <1>1, MilanAssumption DEF MilanAssumption
<1>4. u.rank \in [Candidate -> -1..(CACHE - 1)]
  BY <1>2, <1>3, MilanAssumption DEF MilanAssumption
<1>5. /\ u \in Template
      /\ u.age = t.age /\ u.row = t.row /\ u.rows = t.rows /\ u.anchor = t.anchor
      /\ u.newest = t.newest /\ u.retired = t.retired /\ u.counter = t.counter
  <2>1. u = [t EXCEPT !.rank = u.rank]
    BY <1>1, <1>2 DEF Taken, Template
  <2> HIDE DEF u
  <2> QED BY <1>1, <1>4, <2>1 DEF Template
<1> HIDE DEF u
<1>6. CachedIn(u) = CachedIn(t) \ {c}
  <2>1. \A d \in Candidate : u.rank[d] # -1 <=> t.rank[d] # -1 /\ d # c
    BY <1>2, <1>3
  <2> QED BY <2>1 DEF CachedIn
<1>7. Good(u) /\ Count(u) = Count(t) /\ (AgesNumber(t) => AgesNumber(u))
  <2>1. u.anchor <= Count(t)
    BY <1>5 DEF Good
  <2> QED BY <1>5, <2>1, SameTree
<1> QED BY <1>5, <1>6, <1>7 DEF u
-----------------------------------------------------------------------------
(* Studies.                                                                *)

\* What every outcome of a study keeps.
Keeps(t, o) ==
    /\ Good(o.tpl) /\ Count(t) <= Count(o.tpl)
    /\ o.at \in 0..MAX /\ o.n \in 0..5
    /\ o.tpl.retired = t.retired /\ o.tpl.counter = t.counter
    /\ ~t.retired => o.tpl.rank = t.rank
    /\ o.n = 0 => o.tpl.age = t.age /\ o.tpl.newest = t.newest

LEMMA SubTemplates ==
    ASSUME NEW t, Good(t)
    PROVE  Count(t) \in 0..MAX /\ MAX \in Nat \ {0} /\ t.anchor \in 0..Count(t) /\ t \in Template
  BY TemplateFields, MilanAssumption DEF Good, TemplateOK, MilanAssumption

LEMMA RefusedKeeps ==
    ASSUME NEW t, Good(t)
    PROVE  Keeps(t, Refused(t)) /\ Refused(t).tpl = t
  BY SubTemplates DEF Keeps, Refused

LEMMA GrowingKeeps ==
    ASSUME NEW t, Good(t), Count(t) < MAX, NEW A \in SUBSET (0..Count(t)), NEW o \in Growing(t, A)
    PROVE  Keeps(t, o) /\ (AgesNumber(t) => AgesNumber(o.tpl))
<1> DEFINE order == [t.order EXCEPT ![Count(t) + 1] = Count(t) + 1]
<1>1. PICK a \in A : o = [tpl |-> Grown(t, order, a), at |-> Count(t) + 1, n |-> 1]
  BY DEF Growing
<1>2. order \in [Slot -> 0..MAX]
  <2>1. t.order \in [Slot -> 0..MAX]
    BY TemplateFields DEF Good
  <2>2. Count(t) + 1 \in 0..MAX
    BY SubTemplates
  <2> QED BY <2>1, <2>2
<1> HIDE DEF order
<1>3. a \in 0..Count(t)
  BY <1>1
<1>4. /\ Good(Grown(t, order, a)) /\ Count(Grown(t, order, a)) = Count(t) + 1
      /\ AgesNumber(t) => AgesNumber(Grown(t, order, a))
      /\ Grown(t, order, a).rank = t.rank /\ Grown(t, order, a).retired = t.retired
      /\ Grown(t, order, a).counter = t.counter
  BY <1>2, <1>3, GrownGood
<1> QED BY <1>1, <1>4, SubTemplates DEF Keeps

LEMMA OverwrittenKeeps ==
    ASSUME NEW t, Good(t), Count(t) = MAX, NEW s \in Slot, NEW n \in 1..5, NEW since \in Nat,
           since = 0 \/ (since = t.age[s] /\ AgesNumber(t)),
           NEW o, o = [tpl |-> Overwritten(t, s, since), at |-> s, n |-> n]
    PROVE  Keeps(t, o) /\ (since = t.age[s] /\ AgesNumber(t) => AgesNumber(o.tpl))
<1>1. /\ Good(Overwritten(t, s, since)) /\ Count(Overwritten(t, s, since)) = MAX
      /\ since = t.age[s] /\ AgesNumber(t) => AgesNumber(Overwritten(t, s, since))
      /\ Overwritten(t, s, since).rank = t.rank /\ Overwritten(t, s, since).retired = t.retired
      /\ Overwritten(t, s, since).counter = t.counter
  BY OverwrittenGood
<1>2. s \in 0..MAX /\ n # 0 /\ n \in 0..5 /\ Count(t) <= MAX
  BY SubTemplates DEF Slot
<1>3. o.tpl = Overwritten(t, s, since) /\ o.at = s /\ o.n = n
  OBVIOUS
<1> QED BY <1>1, <1>2, <1>3 DEF Keeps

LEMMA PlainStudyKeeps ==
    ASSUME NEW t, Good(t), AgesNumber(t), NEW o \in PlainStudy(t)
    PROVE  Keeps(t, o) /\ AgesNumber(o.tpl)
<1>1. CASE o = Refused(t)
  BY <1>1, RefusedKeeps
<1>2. CASE Count(t) < MAX /\ o \in Growing(t, IF t.anchor = 0 THEN 1..Count(t) ELSE {t.anchor})
  <2> DEFINE A == IF t.anchor = 0 THEN 1..Count(t) ELSE {t.anchor}
  <2>1. A \in SUBSET (0..Count(t))
    BY SubTemplates
  <2>2. Count(t) < MAX /\ o \in Growing(t, A)
    BY <1>2
  <2> HIDE DEF A
  <2> QED BY <2>1, <2>2, GrowingKeeps
<1>3. CASE \E s \in Slot : o = [tpl |-> t, at |-> s, n |-> 0]
  BY <1>3, SubTemplates DEF Keeps, Slot
<1>4. CASE Count(t) = MAX /\ \E s \in Slot, n \in 2..4 : o = [tpl |-> Overwritten(t, s, t.age[s]), at |-> s, n |-> n]
  <2> PICK s \in Slot, n \in 2..4 : o = [tpl |-> Overwritten(t, s, t.age[s]), at |-> s, n |-> n]
    BY <1>4
  <2>1. n \in 1..5 /\ t.age[s] \in Nat
    BY <1>4, TemplateFields DEF Good, Slot
  <2> QED BY <1>4, <2>1, OverwrittenKeeps
<1>5. ~(Count(t) < MAX) => Count(t) = MAX
  BY SubTemplates
<1> QED BY <1>1, <1>2, <1>3, <1>4, <1>5 DEF PlainStudy

\* Keeping a candidate first keeps as much.
LEMMA KeptKeeps ==
    ASSUME NEW t, Good(t), NEW u \in Kept(t)
    PROVE  /\ Good(u) /\ Count(u) = Count(t)
           /\ \A o : Keeps(u, o) => Keeps(t, o)
<1>1. CASE u = t
  BY <1>1
<1>2. CASE t.retired /\ u \in Inserted(t)
  BY <1>2, InsertedGood DEF Keeps
<1> QED BY <1>1, <1>2 DEF Kept

LEMMA RebuiltKeeps ==
    ASSUME NEW t, NEW o \in [tpl : Template, at : 0..MAX, n : 0..5], Keeps(t, o), NEW r \in Rebuilt(o)
    PROVE  Keeps(t, r)
<1>1. PICK a \in 0..Count(o.tpl) : r = [o EXCEPT !.tpl.anchor = a]
  BY SubTemplates DEF Keeps, Rebuilt
<1>2. r.tpl = [o.tpl EXCEPT !.anchor = a] /\ r.at = o.at /\ r.n = o.n
  BY <1>1
<1>3. /\ o.tpl \in Template /\ a \in 0..MAX /\ a <= Count(o.tpl)
  BY <1>1, SubTemplates DEF Keeps
<1>4. /\ r.tpl \in Template /\ r.tpl.anchor = a
      /\ r.tpl.age = o.tpl.age /\ r.tpl.row = o.tpl.row /\ r.tpl.rows = o.tpl.rows
      /\ r.tpl.newest = o.tpl.newest /\ r.tpl.retired = o.tpl.retired
      /\ r.tpl.counter = o.tpl.counter /\ r.tpl.rank = o.tpl.rank
  BY <1>2, <1>3 DEF Template
<1>5. Good(r.tpl) /\ Count(r.tpl) = Count(o.tpl)
  BY <1>3, <1>4, SameTree DEF Keeps
<1> QED BY <1>2, <1>4, <1>5 DEF Keeps

LEMMA PairedStudyKeeps ==
    ASSUME NEW t, Good(t), NEW o \in PairedStudy(t)
    PROVE  Keeps(t, o)
<1>1. PICK p \in IF Count(t) < MAX
                  THEN Growing(t, {t.anchor})
                  ELSE {Refused(t)} \union {Refused(u) : u \in Kept(t)}
                       \union {[tpl |-> Overwritten(u, s, 0), at |-> s, n |-> n] :
                                  u \in Kept(t), s \in Slot, n \in {3, 4}} : o \in Rebuilt(p)
  BY DEF PairedStudy
<1>2. Keeps(t, p) /\ p = [tpl |-> p.tpl, at |-> p.at, n |-> p.n]
  <2>1. CASE Count(t) < MAX /\ p \in Growing(t, {t.anchor})
    <3>1. {t.anchor} \in SUBSET (0..Count(t))
      BY SubTemplates
    <3>2. p = [tpl |-> p.tpl, at |-> p.at, n |-> p.n]
      BY <2>1 DEF Growing
    <3> QED BY <2>1, <3>1, <3>2, GrowingKeeps
  <2>2. CASE p = Refused(t)
    BY <2>2, RefusedKeeps DEF Refused
  <2>3. CASE \E u \in Kept(t) : p = Refused(u)
    BY <2>3, RefusedKeeps, KeptKeeps DEF Refused
  <2>4. CASE Count(t) = MAX /\ \E u \in Kept(t), s \in Slot, n \in {3, 4} :
               p = [tpl |-> Overwritten(u, s, 0), at |-> s, n |-> n]
    <3> PICK u \in Kept(t), s \in Slot, n \in {3, 4} : p = [tpl |-> Overwritten(u, s, 0), at |-> s, n |-> n]
      BY <2>4
    <3>1. Good(u) /\ Count(u) = MAX /\ (Keeps(u, p) => Keeps(t, p))
      BY <2>4, KeptKeeps
    <3>2. n \in 1..5 /\ 0 \in Nat
      OBVIOUS
    <3>3. Keeps(u, p)
      BY <3>1, <3>2, OverwrittenKeeps
    <3>4. p = [tpl |-> p.tpl, at |-> p.at, n |-> p.n]
      OBVIOUS
    <3> QED BY <3>1, <3>3, <3>4
  <2>5. ~(Count(t) < MAX) => Count(t) = MAX
    BY SubTemplates
  <2> QED BY <1>1, <2>1, <2>2, <2>3, <2>4, <2>5
<1>3. p \in [tpl : Template, at : 0..MAX, n : 0..5]
  <2>1. p.tpl \in Template /\ p.at \in 0..MAX /\ p.n \in 0..5
    BY <1>2, SubTemplates DEF Keeps
  <2> QED BY <1>2, <2>1
<1> QED BY <1>1, <1>2, <1>3, RebuiltKeeps

LEMMA StudyKeeps ==
    ASSUME sensor \in {"paired", "plain"}, NEW t, Good(t), sensor = "plain" => AgesNumber(t), NEW o \in Study(t)
    PROVE  Keeps(t, o) /\ (sensor = "plain" => AgesNumber(o.tpl))
<1>1. CASE sensor = "paired"
  BY <1>1, PairedStudyKeeps DEF Study
<1>2. CASE sensor = "plain"
  BY <1>2, PlainStudyKeeps DEF Study
<1> QED BY <1>1, <1>2
-----------------------------------------------------------------------------
(* The inductive invariant.                                                *)

\* The part of the types that is not about templates.
ControlOK ==
    /\ sensor \in {"paired", "plain"}
    /\ caller \in {"engine", "resident"}
    /\ phase \in {"enrol", "closed", "open", "matched", "pass", "settle", "studied"}
    /\ probe \in {"none", "good", "skipped", "refused", "used"}
    /\ nUpdate \in 0..5
    /\ pass \in [ring : [0..(CACHE - 1) -> 0..MAX], head : 0..(CACHE - 1), tail : 0..(CACHE - 1),
                  current : 0..MAX, next : 0..CACHE, left : Nat, result : {0, 5}]

\* An enrolled template was never studied.
Enrolling ==
    phase = "enrol" =>
       ~tpl.retired /\ \A i \in 1..Count(tpl) : tpl.age[i] = i - 1

\* Outside a study there is no pass and nothing to report.
Quiet == phase \notin {"pass", "settle", "studied"} => pass = NoPass /\ nUpdate = 0

\* The ring between head and tail holds what is left; a candidate used makes
\* room for the sub-template it changed.
PassOK ==
    phase = "pass" =>
       /\ ~tpl.retired
       /\ pass.left <= CACHE
       /\ pass.tail = pass.head + pass.left \/ pass.tail = pass.head + pass.left - CACHE
       /\ pass.left + Cached <= CACHE \/ (pass.left = 1 /\ pass.next = 0)

\* What the engine has in memory, compared with what it stored.
Unlearned == tpl.age = stored.age /\ tpl.newest = stored.newest

EngineOK ==
    caller = "engine" =>
       /\ phase = "open" => tpl.rank = Empty /\ Unlearned
       /\ phase = "matched" => Unlearned /\ (probe = "good" => tpl.rank = Empty)
       /\ phase = "pass" => tpl.rank = Empty
       /\ phase \in {"pass", "settle"} => pass.result = 0
       /\ phase \in {"pass", "settle", "studied"} /\ nUpdate = 0 => Unlearned

Templates == Good(tpl) /\ Fits(tpl) /\ Good(stored) /\ Fits(stored) /\ stored.rank = Empty

IInv == ControlOK /\ Templates /\ Enrolling /\ Quiet /\ PassOK /\ EngineOK

\* The number of cached candidates.
LEMMA CachedBound ==
    ASSUME NEW t
    PROVE  /\ IsFiniteSet(CachedIn(t)) /\ Cardinality(CachedIn(t)) \in 0..CACHE
           /\ \A c \in CachedIn(t) : Cardinality(CachedIn(t) \ {c}) = Cardinality(CachedIn(t)) - 1
<1>1. IsFiniteSet(Candidate) /\ Cardinality(Candidate) = CACHE
  BY FS_Interval, MilanAssumption DEF Candidate, MilanAssumption
<1>2. CachedIn(t) \in SUBSET Candidate
  BY DEF CachedIn
<1>3. IsFiniteSet(CachedIn(t)) /\ Cardinality(CachedIn(t)) <= CACHE
  BY <1>1, <1>2, FS_Subset
<1>4. Cardinality(CachedIn(t)) \in Nat
  BY <1>3, FS_CardinalityType
<1> QED BY <1>3, <1>4, FS_RemoveElement, MilanAssumption DEF MilanAssumption

LEMMA NoPassTyped ==
    NoPass \in [ring : [0..(CACHE - 1) -> 0..MAX], head : 0..(CACHE - 1), tail : 0..(CACHE - 1),
                current : 0..MAX, next : 0..CACHE, left : Nat, result : {0, 5}]
  BY MilanAssumption DEF NoPass, MilanAssumption

LEMMA MilanInit == Init => IInv
<1> SUFFICES ASSUME Init PROVE IInv
  OBVIOUS
<1>1. ControlOK
  BY NoPassTyped DEF Init, ControlOK
<1>2. Templates
  BY NewGood DEF Init, Templates, Fits, NewTemp
<1>3. Enrolling /\ Quiet
  BY NewGood DEF Init, Enrolling, Quiet, NewTemp, Count
<1>4. PassOK /\ EngineOK
  BY DEF Init, PassOK, EngineOK
<1> QED BY <1>1, <1>2, <1>3, <1>4 DEF IInv

\* The ages of an enrolled template number its sub-templates.
LEMMA EnrolledAges ==
    ASSUME NEW t, Good(t), \A i \in 1..Count(t) : t.age[i] = i - 1
    PROVE  AgesNumber(t)
  BY SubTemplates DEF AgesNumber

LEMMA RegisterStep == IInv /\ Register => IInv'
<1> SUFFICES ASSUME IInv, Register PROVE IInv'
  OBVIOUS
<1> DEFINE order == [i \in Slot |-> IF i <= Count(tpl) + 1 THEN i ELSE 0]
<1>1. Good(tpl) /\ Count(tpl) \in 0..MAX /\ tpl.anchor \in 0..Count(tpl) /\ phase = "enrol" /\ MAX \in Nat
      /\ ~tpl.retired
  BY SubTemplates DEF IInv, Templates, Register, Enrolling
<1>2. order \in [Slot -> 0..MAX]
  BY <1>1 DEF Slot
<1>3. PICK a \in 0..Count(tpl) : tpl' = Grown(tpl, order, a)
  BY <1>1 DEF Register
<1> HIDE DEF order
<1>4. /\ Good(tpl') /\ Count(tpl') = Count(tpl) + 1
      /\ tpl'.retired = tpl.retired
      /\ \A i \in 1..Count(tpl) : tpl'.age[i] = tpl.age[i]
      /\ tpl'.age[Count(tpl) + 1] = Count(tpl)
  BY <1>1, <1>2, <1>3, GrownGood DEF Register
<1>5. \A i \in 1..Count(tpl') : tpl'.age[i] = i - 1
  BY <1>1, <1>4 DEF IInv, Enrolling
<1>6. AgesNumber(tpl')
  BY <1>4, <1>5, EnrolledAges
<1>7. ~tpl'.retired
  BY <1>1, <1>4
<1>8. Templates'
  BY <1>4, <1>6, <1>7 DEF IInv, Templates, Fits, Register
<1>9. Enrolling'
  BY <1>5, <1>7 DEF Enrolling
<1>10. ControlOK' /\ Quiet' /\ PassOK' /\ EngineOK'
  BY DEF IInv, Register, ControlOK, Quiet, PassOK, EngineOK
<1> QED BY <1>8, <1>9, <1>10 DEF IInv

LEMMA RemoveLastStep == IInv /\ RemoveLast => IInv'
<1> SUFFICES ASSUME IInv, RemoveLast PROVE IInv'
  OBVIOUS
<1> DEFINE a == IF tpl.anchor = Count(tpl) THEN 0 ELSE tpl.anchor
<1>1. /\ Good(tpl) /\ Count(tpl) > 0 /\ tpl.anchor \in 0..Count(tpl) /\ Count(tpl) \in 0..MAX
      /\ MAX \in Nat /\ ~tpl.retired /\ \A i \in 1..Count(tpl) : tpl.age[i] = i - 1
      /\ phase = "enrol"
  BY SubTemplates DEF IInv, Templates, RemoveLast, Enrolling
<1>2. a \in 0..(Count(tpl) - 1)
  BY <1>1
<1>3. tpl' = Shrunk(tpl, a)
  BY DEF RemoveLast
<1> HIDE DEF a
<1>4. /\ Good(tpl') /\ tpl'.retired = tpl.retired
      /\ \A i \in 1..Count(tpl') : tpl'.age[i] = i - 1
  BY <1>1, <1>2, <1>3, ShrunkGood
<1>5. AgesNumber(tpl')
  BY <1>4, EnrolledAges
<1>6. Templates'
  BY <1>1, <1>4, <1>5 DEF IInv, Templates, Fits, RemoveLast
<1>7. Enrolling'
  BY <1>1, <1>4 DEF Enrolling
<1>8. ControlOK' /\ Quiet' /\ PassOK' /\ EngineOK'
  BY DEF IInv, RemoveLast, ControlOK, Quiet, PassOK, EngineOK
<1> QED BY <1>6, <1>7, <1>8 DEF IInv

\* Packing keeps a template but for its candidates.
LEMMA PackedGood ==
    ASSUME NEW t, Good(t)
    PROVE  LET u == Packed(t)
           IN /\ Good(u) /\ Count(u) = Count(t) /\ (AgesNumber(t) => AgesNumber(u))
              /\ u.retired = t.retired /\ u.counter = t.counter /\ u.rank = Empty
              /\ u.age = t.age /\ u.newest = t.newest
<1> DEFINE u == Packed(t)
<1>1. t \in Template /\ t.anchor <= Count(t)
  BY SubTemplates DEF Good
<1>2. Empty \in [Candidate -> -1..(CACHE - 1)]
  BY MilanAssumption DEF Empty, MilanAssumption
<1>3. /\ u \in Template /\ u.rank = Empty
      /\ u.age = t.age /\ u.row = t.row /\ u.rows = t.rows /\ u.anchor = t.anchor
      /\ u.newest = t.newest /\ u.retired = t.retired /\ u.counter = t.counter
  BY <1>1, <1>2 DEF Packed, Template
<1> HIDE DEF u
<1>4. Good(u) /\ Count(u) = Count(t) /\ (AgesNumber(t) => AgesNumber(u))
  BY <1>1, <1>3, SameTree
<1> QED BY <1>3, <1>4 DEF u

LEMMA PackEnrolledStep == IInv /\ PackEnrolled => IInv'
<1> SUFFICES ASSUME IInv, PackEnrolled PROVE IInv'
  OBVIOUS
<1>1. /\ Good(stored') /\ Count(stored') = Count(tpl) /\ (AgesNumber(tpl) => AgesNumber(stored'))
      /\ stored'.retired = tpl.retired /\ stored'.counter = tpl.counter /\ stored'.rank = Empty
  BY PackedGood DEF IInv, Templates, PackEnrolled
<1>2. Templates'
  BY <1>1, NewGood DEF IInv, Templates, Fits, PackEnrolled
<1>3. ControlOK' /\ Enrolling' /\ Quiet' /\ PassOK' /\ EngineOK'
  BY DEF IInv, PackEnrolled, ControlOK, Enrolling, Quiet, PassOK, EngineOK
<1> QED BY <1>2, <1>3 DEF IInv

LEMMA UnpackStep == IInv /\ Unpack => IInv'
<1> SUFFICES ASSUME IInv, Unpack PROVE IInv'
  OBVIOUS
<1>1. Templates'
  BY DEF IInv, Templates, Fits, Unpack
<1>2. ControlOK' /\ Enrolling' /\ Quiet' /\ PassOK' /\ EngineOK'
  BY DEF IInv, Templates, Unpack, ControlOK, Enrolling, Quiet, PassOK, EngineOK, Unlearned
<1> QED BY <1>1, <1>2 DEF IInv

\* Sorting the search order changes nothing else.
LEMMA ResortedGood ==
    ASSUME NEW t, Good(t), NEW u \in Resorted(t)
    PROVE  /\ Good(u) /\ Count(u) = Count(t) /\ (AgesNumber(t) => AgesNumber(u))
           /\ u.rank = t.rank /\ u.retired = t.retired /\ u.counter = t.counter
           /\ u.age = t.age /\ u.newest = t.newest
<1>1. /\ t \in Template /\ Count(t) \in 0..MAX /\ t.anchor <= Count(t) /\ MAX \in Nat
      /\ t.order \in [Slot -> 0..MAX]
  BY SubTemplates, TemplateFields DEF Good
<1>2. PICK p \in [1..Count(t) -> 1..Count(t)] :
         u = [t EXCEPT !.order = [i \in Slot |-> IF i <= Count(t) THEN t.order[p[i]] ELSE t.order[i]]]
  BY DEF Resorted
<1>3. [i \in Slot |-> IF i <= Count(t) THEN t.order[p[i]] ELSE t.order[i]] \in [Slot -> 0..MAX]
  BY <1>1 DEF Slot
<1>4. /\ u \in Template
      /\ u.age = t.age /\ u.row = t.row /\ u.rows = t.rows /\ u.anchor = t.anchor
      /\ u.newest = t.newest /\ u.retired = t.retired /\ u.counter = t.counter /\ u.rank = t.rank
  BY <1>1, <1>2, <1>3 DEF Template
<1>5. Good(u) /\ Count(u) = Count(t) /\ (AgesNumber(t) => AgesNumber(u))
  BY <1>1, <1>4, SameTree
<1> QED BY <1>4, <1>5

LEMMA MatchStep == IInv /\ Match => IInv'
<1> SUFFICES ASSUME IInv, Match PROVE IInv'
  OBVIOUS
<1>1. /\ Good(tpl') /\ Count(tpl') = Count(tpl) /\ (AgesNumber(tpl) => AgesNumber(tpl'))
      /\ tpl'.rank = tpl.rank /\ tpl'.retired = tpl.retired /\ tpl'.counter = tpl.counter
      /\ tpl'.age = tpl.age /\ tpl'.newest = tpl.newest
  BY ResortedGood DEF IInv, Templates, Match
<1>2. Templates'
  BY <1>1 DEF IInv, Templates, Fits, Match
<1>3. ControlOK' /\ Enrolling' /\ Quiet' /\ PassOK' /\ EngineOK'
  BY <1>1 DEF IInv, Match, ControlOK, Enrolling, Quiet, PassOK, EngineOK, Unlearned
<1> QED BY <1>2, <1>3 DEF IInv

LEMMA MatchOnlyStep == IInv /\ MatchOnly => IInv'
<1> SUFFICES ASSUME IInv, MatchOnly PROVE IInv'
  OBVIOUS
<1>1. /\ Good(tpl') /\ Count(tpl') = Count(tpl) /\ (AgesNumber(tpl) => AgesNumber(tpl'))
      /\ tpl'.retired = tpl.retired /\ tpl'.counter = tpl.counter
      /\ tpl'.age = tpl.age /\ tpl'.newest = tpl.newest
  <2> PICK u \in {tpl} \union Inserted(tpl) : tpl' \in Resorted(u)
    BY DEF MatchOnly
  <2>1. /\ Good(u) /\ Count(u) = Count(tpl) /\ (AgesNumber(tpl) => AgesNumber(u))
        /\ u.retired = tpl.retired /\ u.counter = tpl.counter
        /\ u.age = tpl.age /\ u.newest = tpl.newest
    BY InsertedGood DEF IInv, Templates
  <2> QED BY <2>1, ResortedGood
<1>2. Templates'
  BY <1>1 DEF IInv, Templates, Fits, MatchOnly
<1>3. ControlOK' /\ Enrolling' /\ Quiet' /\ PassOK' /\ EngineOK'
  BY <1>1 DEF IInv, MatchOnly, ControlOK, Enrolling, Quiet, PassOK, EngineOK, Unlearned
<1> QED BY <1>2, <1>3 DEF IInv

LEMMA NoMatchStep == IInv /\ NoMatch => IInv'
<1> SUFFICES ASSUME IInv, NoMatch PROVE IInv'
  OBVIOUS
<1>1. CASE caller = "engine"
  <2>1. Templates'
    BY <1>1, NewGood DEF IInv, Templates, Fits, NoMatch
  <2>2. ControlOK' /\ Enrolling' /\ Quiet' /\ PassOK' /\ EngineOK'
    BY <1>1 DEF IInv, NoMatch, ControlOK, Enrolling, Quiet, PassOK, EngineOK
  <2> QED BY <2>1, <2>2 DEF IInv
<1>2. CASE caller # "engine"
  <2>1. /\ Good(tpl') /\ Count(tpl') = Count(tpl) /\ (AgesNumber(tpl) => AgesNumber(tpl'))
        /\ tpl'.retired = tpl.retired /\ tpl'.counter = tpl.counter
    BY <1>2, InsertedGood DEF IInv, Templates, NoMatch
  <2>2. Templates'
    BY <1>2, <2>1 DEF IInv, Templates, Fits, NoMatch
  <2>3. ControlOK' /\ Enrolling' /\ Quiet' /\ PassOK' /\ EngineOK'
    BY <1>2 DEF IInv, NoMatch, ControlOK, Enrolling, Quiet, PassOK, EngineOK
  <2> QED BY <2>2, <2>3 DEF IInv
<1> QED BY <1>1, <1>2

\* What a study leaves fits the sensor as the template did.
LEMMA KeepsFits ==
    ASSUME NEW t, Good(t), Fits(t), NEW o, Keeps(t, o), sensor = "plain" => AgesNumber(o.tpl)
    PROVE  Fits(o.tpl)
<1>1. Count(t) \in 0..MAX /\ Count(o.tpl) \in 0..MAX /\ MAX \in Nat
  BY SubTemplates DEF Keeps
<1>2. Count(t) <= Count(o.tpl) /\ o.tpl.retired = t.retired /\ o.tpl.counter = t.counter
  BY DEF Keeps
<1> QED BY <1>1, <1>2 DEF Fits
\* The ring wraps around.
LEMMA AfterWraps ==
    ASSUME NEW i \in 0..(CACHE - 1)
    PROVE  After(i) = IF i = CACHE - 1 THEN 0 ELSE i + 1
  BY MilanAssumption DEF After, MilanAssumption

PassType ==
    [ring : [0..(CACHE - 1) -> 0..MAX], head : 0..(CACHE - 1), tail : 0..(CACHE - 1),
     current : 0..MAX, next : 0..CACHE, left : Nat, result : {0, 5}]

LEMMA QueuedFields ==
    ASSUME NEW p \in PassType, NEW s \in 0..MAX
    PROVE  LET q == Queued(p, s)
           IN /\ q \in PassType /\ q.head = p.head /\ q.current = p.current /\ q.next = p.next
              /\ q.result = p.result /\ q.left = p.left + 1
              /\ q.tail = IF p.tail = CACHE - 1 THEN 0 ELSE p.tail + 1
<1>1. After(p.tail) = (IF p.tail = CACHE - 1 THEN 0 ELSE p.tail + 1) /\ After(p.tail) \in 0..(CACHE - 1)
  <2>1. p.tail \in 0..(CACHE - 1) /\ CACHE \in Nat /\ CACHE > 1
    BY MilanAssumption DEF PassType, MilanAssumption
  <2>2. After(p.tail) = IF p.tail = CACHE - 1 THEN 0 ELSE p.tail + 1
    BY <2>1, AfterWraps
  <2> QED BY <2>1, <2>2
<1>2. p.left + 1 \in Nat /\ p.tail \in 0..(CACHE - 1)
  BY DEF PassType
<1> QED BY <1>1, <1>2 DEF Queued, PassType

LEMMA StudyProbeStep == IInv /\ StudyProbe => IInv'
<1> SUFFICES ASSUME IInv, StudyProbe PROVE IInv'
  OBVIOUS
<1> PICK o \in Study(tpl) :
       /\ tpl' = o.tpl
       /\ nUpdate' = o.n
       /\ probe' = IF o.at = 0 THEN "refused" ELSE "used"
       /\ \/ /\ phase' = "settle"
             /\ UNCHANGED pass
          \/ /\ o.at # 0 /\ ~o.tpl.retired
             /\ phase' = "pass"
             /\ pass' = Queued(NoPass, o.at)
  BY DEF StudyProbe
<1>1. Keeps(tpl, o) /\ (sensor = "plain" => AgesNumber(o.tpl))
  BY StudyKeeps DEF IInv, ControlOK, Templates, Fits
<1>2. /\ phase = "matched" /\ probe = "good" /\ pass = NoPass /\ nUpdate = 0
      /\ sensor' = sensor /\ caller' = caller /\ stored' = stored
  BY DEF IInv, Quiet, StudyProbe
<1>3. Templates'
  BY <1>1, <1>2, KeepsFits DEF IInv, Templates, Fits, Keeps
<1>4. Enrolling' /\ Quiet'
  BY DEF Enrolling, Quiet
<1>5. CASE phase' = "settle" /\ pass' = pass
  <2>1. ControlOK'
    BY <1>1, <1>2, <1>5 DEF IInv, ControlOK, Keeps
  <2>2. PassOK'
    BY <1>5 DEF PassOK
  <2>3. EngineOK'
    BY <1>1, <1>2, <1>5 DEF IInv, EngineOK, Keeps, Unlearned, NoPass
  <2> QED BY <1>3, <1>4, <2>1, <2>2, <2>3 DEF IInv
<1>6. CASE phase' = "pass" /\ ~o.tpl.retired /\ pass' = Queued(NoPass, o.at)
  <2>1. NoPass \in PassType /\ o.at \in 0..MAX
    BY <1>1, NoPassTyped DEF PassType, Keeps
  <2>2. /\ pass' \in PassType /\ pass'.head = 0 /\ pass'.next = 0 /\ pass'.result = 0 /\ pass'.left = 1
        /\ pass'.tail = 1
    <3>1. 0 # CACHE - 1
      BY MilanAssumption DEF MilanAssumption
    <3>2. /\ NoPass.head = 0 /\ NoPass.tail = 0 /\ NoPass.next = 0 /\ NoPass.left = 0
          /\ NoPass.result = 0
      BY DEF NoPass
    <3>3. /\ pass' \in PassType /\ pass'.head = NoPass.head /\ pass'.next = NoPass.next
          /\ pass'.result = NoPass.result /\ pass'.left = NoPass.left + 1
          /\ pass'.tail = IF NoPass.tail = CACHE - 1 THEN 0 ELSE NoPass.tail + 1
      BY <1>6, <2>1, QueuedFields
    <3> QED BY <3>1, <3>2, <3>3
  <2>3. ControlOK'
    BY <1>1, <1>2, <1>6, <2>2 DEF IInv, ControlOK, Keeps, PassType
  <2>4. PassOK'
    BY <1>6, <2>2, MilanAssumption DEF PassOK, MilanAssumption
  <2>5. EngineOK'
    BY <1>1, <1>2, <1>6, <2>2 DEF IInv, EngineOK, Keeps, Unlearned
  <2> QED BY <1>3, <1>4, <2>3, <2>4, <2>5 DEF IInv
<1> QED BY <1>5, <1>6

LEMMA SkipProbeStep == IInv /\ SkipProbe => IInv'
<1> SUFFICES ASSUME IInv, SkipProbe PROVE IInv'
  OBVIOUS
<1>1. Templates'
  BY DEF IInv, Templates, Fits, SkipProbe
<1>2. ControlOK' /\ Enrolling' /\ Quiet' /\ PassOK' /\ EngineOK'
  BY DEF IInv, SkipProbe, ControlOK, Enrolling, Quiet, PassOK, EngineOK, Unlearned, NoPass
<1> QED BY <1>1, <1>2 DEF IInv

LEMMA TakeChangedStep == IInv /\ TakeChanged => IInv'
<1> SUFFICES ASSUME IInv, TakeChanged PROVE IInv'
  OBVIOUS
<1>1. /\ pass \in PassType /\ phase = "pass" /\ pass.next = 0 /\ pass.head # pass.tail
      /\ phase' = phase /\ tpl' = tpl /\ stored' = stored /\ nUpdate' = nUpdate
      /\ sensor' = sensor /\ caller' = caller /\ probe' = probe
      /\ CACHE \in Nat /\ CACHE > 1
  BY MilanAssumption DEF IInv, ControlOK, TakeChanged, PassType, MilanAssumption
<1>2. pass.left # 0 /\ pass.left - 1 \in Nat
  <2>1. pass.tail = pass.head + pass.left \/ pass.tail = pass.head + pass.left - CACHE
    BY <1>1 DEF IInv, PassOK
  <2>2. pass.head \in 0..(CACHE - 1) /\ pass.tail \in 0..(CACHE - 1) /\ pass.left \in Nat
    BY <1>1 DEF PassType
  <2> QED BY <1>1, <2>1, <2>2
<1>3. After(pass.head) \in 0..(CACHE - 1) /\ After(pass.head) = IF pass.head = CACHE - 1 THEN 0 ELSE pass.head + 1
  BY <1>1, AfterWraps DEF PassType
<1>4. /\ pass' \in PassType /\ pass'.head = After(pass.head) /\ pass'.tail = pass.tail
      /\ pass'.left = pass.left - 1 /\ pass'.next = 1 /\ pass'.result = pass.result
  <2>1. pass.ring[pass.head] \in 0..MAX /\ 1 \in 0..CACHE
    BY <1>1 DEF PassType
  <2> QED BY <1>1, <1>2, <1>3, <2>1 DEF TakeChanged, PassType
<1>5. Templates' /\ Enrolling' /\ Quiet'
  BY <1>1 DEF IInv, Templates, Fits, Enrolling, Quiet
<1>6. ControlOK'
  BY <1>1, <1>4 DEF IInv, ControlOK, PassType
<1>7. EngineOK'
  BY <1>1, <1>4 DEF IInv, EngineOK, Unlearned
<1>8. PassOK'
  <2>1. Cached \in 0..CACHE /\ Cached' = Cached
    BY <1>1, CachedBound DEF Cached
  <2>2. pass.head \in 0..(CACHE - 1) /\ pass.tail \in 0..(CACHE - 1) /\ pass.left \in Nat
    BY <1>1 DEF PassType
  <2>3. /\ ~tpl.retired /\ pass.left <= CACHE
        /\ pass.tail = pass.head + pass.left \/ pass.tail = pass.head + pass.left - CACHE
        /\ pass.left + Cached <= CACHE \/ pass.left = 1
    BY <1>1 DEF IInv, PassOK
  <2>4. pass'.left <= CACHE /\ pass'.left + Cached <= CACHE
    BY <1>1, <1>4, <2>1, <2>2, <2>3
  <2>5. pass'.tail = pass'.head + pass'.left \/ pass'.tail = pass'.head + pass'.left - CACHE
    <3>1. CASE pass.head = CACHE - 1
      BY <1>1, <1>3, <1>4, <2>2, <2>3, <3>1
    <3>2. CASE pass.head # CACHE - 1
      BY <1>1, <1>3, <1>4, <2>2, <2>3, <3>2
    <3> QED BY <3>1, <3>2
  <2> QED BY <1>1, <2>1, <2>3, <2>4, <2>5 DEF PassOK
<1> QED BY <1>5, <1>6, <1>7, <1>8 DEF IInv

LEMMA FollowingTyped ==
    ASSUME pass \in PassType, pass.next # 0
    PROVE  Following \in 0..CACHE /\ (Following = 0 \/ Following = pass.next + 1)
  BY MilanAssumption DEF Following, PassType, MilanAssumption

LEMMA PassOverStep == IInv /\ PassOver => IInv'
<1> SUFFICES ASSUME IInv, PassOver PROVE IInv'
  OBVIOUS
<1>1. /\ pass \in PassType /\ phase = "pass" /\ pass.next # 0
      /\ phase' = phase /\ tpl' = tpl /\ stored' = stored /\ nUpdate' = nUpdate
      /\ sensor' = sensor /\ caller' = caller /\ probe' = probe
  BY DEF IInv, ControlOK, PassOver, PassType
<1>2. /\ pass' \in PassType /\ pass'.head = pass.head /\ pass'.tail = pass.tail
      /\ pass'.left = pass.left /\ pass'.result = pass.result
  BY <1>1, FollowingTyped DEF PassOver, PassType
<1>3. Templates' /\ Enrolling' /\ Quiet'
  BY <1>1 DEF IInv, Templates, Fits, Enrolling, Quiet
<1>4. ControlOK' /\ EngineOK'
  BY <1>1, <1>2 DEF IInv, ControlOK, PassType, EngineOK, Unlearned
<1>5. PassOK'
  BY <1>1, <1>2 DEF IInv, PassOK, Cached
<1> QED BY <1>3, <1>4, <1>5 DEF IInv

\* What a candidate used or refused does to the template and the pass.
LEMMA CandidateEffect ==
    ASSUME IInv, StudyCandidate
    PROVE  /\ pass \in PassType /\ phase = "pass" /\ pass.next # 0 /\ phase' = phase
           /\ Good(tpl') /\ Fits(tpl') /\ ~tpl'.retired
           /\ Cached \in 1..CACHE /\ Cached' = Cached - 1
           /\ pass' \in PassType /\ pass'.head = pass.head
           /\ \/ /\ pass'.left = pass.left /\ pass'.tail = pass.tail
                 /\ pass'.next \in {0, pass.next + 1}
              \/ /\ pass'.left = pass.left + 1
                 /\ pass'.tail = IF pass.tail = CACHE - 1 THEN 0 ELSE pass.tail + 1
                 /\ pass'.next \in {0, pass.next + 1}
<1>1. /\ pass \in PassType /\ phase = "pass" /\ pass.next # 0 /\ phase' = phase
      /\ tpl.rank[pass.next] # -1 /\ ~tpl.retired /\ Good(tpl) /\ Fits(tpl)
      /\ sensor \in {"paired", "plain"} /\ sensor' = sensor
  BY DEF IInv, ControlOK, Templates, PassOK, StudyCandidate, PassType
<1>2. PICK o \in Study(tpl) :
         /\ tpl' = Taken(o.tpl, pass.next)
         /\ pass' = IF o.at = 0
                      THEN [pass EXCEPT !.result = 0, !.next = Following]
                      ELSE [Queued(pass, o.at) EXCEPT
                               !.result = 5,
                               !.next = IF o.at = pass.current THEN 0 ELSE Following]
  BY DEF StudyCandidate
<1>3. /\ Good(o.tpl) /\ Fits(o.tpl) /\ ~o.tpl.retired /\ o.tpl.rank = tpl.rank /\ o.at \in 0..MAX
  <2>1. Keeps(tpl, o) /\ (sensor = "plain" => AgesNumber(o.tpl))
    BY <1>1, StudyKeeps DEF Fits
  <2> QED BY <1>1, <2>1, KeepsFits DEF Keeps
<1>4. pass.next \in Candidate
  BY <1>1, MilanAssumption DEF PassType, Candidate, MilanAssumption
<1>5. /\ Good(tpl') /\ Count(tpl') = Count(o.tpl) /\ (AgesNumber(o.tpl) => AgesNumber(tpl'))
      /\ tpl'.retired = o.tpl.retired /\ tpl'.counter = o.tpl.counter
      /\ CachedIn(tpl') = CachedIn(o.tpl) \ {pass.next}
  BY <1>1, <1>2, <1>3, <1>4, TakenGood
<1>6. Fits(tpl') /\ ~tpl'.retired
  BY <1>3, <1>5 DEF Fits
<1>7. Cached \in 1..CACHE /\ Cached' = Cached - 1
  <2>1. CachedIn(o.tpl) = CachedIn(tpl) /\ pass.next \in CachedIn(tpl)
    BY <1>1, <1>3, <1>4 DEF CachedIn
  <2>2. /\ Cardinality(CachedIn(tpl)) \in 0..CACHE
        /\ Cardinality(CachedIn(tpl) \ {pass.next}) = Cardinality(CachedIn(tpl)) - 1
    BY <2>1, CachedBound
  <2>3. Cardinality(CachedIn(tpl) \ {pass.next}) \in 0..CACHE
    <3>1. CachedIn(tpl') = CachedIn(tpl) \ {pass.next}
      BY <1>5, <2>1
    <3> QED BY <3>1, CachedBound
  <2> QED BY <1>5, <2>1, <2>2, <2>3, MilanAssumption DEF Cached, MilanAssumption
<1>8. Following \in 0..CACHE /\ Following \in {0, pass.next + 1}
  BY <1>1, FollowingTyped
<1>9. CASE o.at = 0
  <2>1. /\ pass' \in PassType /\ pass'.head = pass.head /\ pass'.left = pass.left
        /\ pass'.tail = pass.tail /\ pass'.next = Following
    BY <1>1, <1>2, <1>8, <1>9 DEF PassType
  <2> QED BY <1>1, <1>5, <1>6, <1>7, <1>8, <2>1
<1>10. CASE o.at # 0
  <2> DEFINE q == Queued(pass, o.at)
             f == IF o.at = pass.current THEN 0 ELSE Following
  <2>1. /\ q \in PassType /\ q.head = pass.head /\ q.left = pass.left + 1
        /\ q.tail = IF pass.tail = CACHE - 1 THEN 0 ELSE pass.tail + 1
    BY <1>1, <1>3, QueuedFields
  <2>2. f \in 0..CACHE /\ f \in {0, pass.next + 1}
    BY <1>8, MilanAssumption DEF MilanAssumption
  <2>3. pass' = [q EXCEPT !.result = 5, !.next = f]
    BY <1>2, <1>10
  <2> HIDE DEF q, f
  <2>4. /\ pass' \in PassType /\ pass'.head = pass.head /\ pass'.left = pass.left + 1
        /\ pass'.tail = (IF pass.tail = CACHE - 1 THEN 0 ELSE pass.tail + 1)
        /\ pass'.next = f
    BY <2>1, <2>2, <2>3 DEF PassType
  <2> QED BY <1>1, <1>5, <1>6, <1>7, <2>2, <2>4
<1> QED BY <1>9, <1>10

LEMMA StudyCandidateStep == IInv /\ StudyCandidate => IInv'
<1> SUFFICES ASSUME IInv, StudyCandidate PROVE IInv'
  OBVIOUS
<1>1. /\ pass \in PassType /\ phase = "pass" /\ pass.next # 0 /\ phase' = phase
      /\ Good(tpl') /\ Fits(tpl') /\ ~tpl'.retired
      /\ Cached \in 1..CACHE /\ Cached' = Cached - 1
      /\ pass' \in PassType /\ pass'.head = pass.head
      /\ \/ /\ pass'.left = pass.left /\ pass'.tail = pass.tail
            /\ pass'.next \in {0, pass.next + 1}
         \/ /\ pass'.left = pass.left + 1
            /\ pass'.tail = IF pass.tail = CACHE - 1 THEN 0 ELSE pass.tail + 1
            /\ pass'.next \in {0, pass.next + 1}
  BY CandidateEffect
<1>2. /\ stored' = stored /\ nUpdate' = nUpdate /\ sensor' = sensor /\ caller' = caller /\ probe' = probe
      /\ tpl.rank[pass.next] # -1
  BY DEF StudyCandidate
<1>3. Templates' /\ Enrolling' /\ Quiet'
  BY <1>1, <1>2 DEF IInv, Templates, Fits, Enrolling, Quiet
<1>4. ControlOK'
  BY <1>1, <1>2 DEF IInv, ControlOK, PassType
<1>5. caller # "engine"
  <2>1. pass.next \in Candidate
    BY <1>1, MilanAssumption DEF PassType, Candidate, MilanAssumption
  <2>2. tpl.rank # Empty
    BY <1>2, <2>1 DEF Empty
  <2> QED BY <1>1, <2>2 DEF IInv, EngineOK
<1>6. EngineOK'
  BY <1>2, <1>5 DEF EngineOK
<1>7. PassOK'
  <2>1. /\ pass.head \in 0..(CACHE - 1) /\ pass.tail \in 0..(CACHE - 1) /\ pass.left \in Nat
        /\ CACHE \in Nat
    BY <1>1, MilanAssumption DEF PassType, MilanAssumption
  <2>2. /\ pass.tail = pass.head + pass.left \/ pass.tail = pass.head + pass.left - CACHE
        /\ pass.left + Cached <= CACHE
    BY <1>1 DEF IInv, PassOK
  <2>3. pass'.left + Cached' <= CACHE /\ pass'.left <= CACHE
    BY <1>1, <2>1, <2>2
  <2>4. pass'.tail = pass'.head + pass'.left \/ pass'.tail = pass'.head + pass'.left - CACHE
    <3>1. CASE pass.tail = CACHE - 1
      BY <1>1, <2>1, <2>2, <3>1
    <3>2. CASE pass.tail # CACHE - 1
      BY <1>1, <2>1, <2>2, <3>2
    <3> QED BY <3>1, <3>2
  <2> QED BY <1>1, <2>3, <2>4 DEF PassOK
<1> QED BY <1>3, <1>4, <1>6, <1>7 DEF IInv

LEMMA EndPassStep == IInv /\ EndPass => IInv'
<1> SUFFICES ASSUME IInv, EndPass PROVE IInv'
  OBVIOUS
<1>1. /\ phase = "pass" /\ phase' = "settle" /\ tpl' = tpl /\ stored' = stored /\ nUpdate' = nUpdate
      /\ sensor' = sensor /\ caller' = caller /\ probe' = probe
      /\ pass' = [NoPass EXCEPT !.result = pass.result]
  BY DEF EndPass
<1>2. pass' \in PassType /\ pass'.result = pass.result
  <2>1. pass.result \in {0, 5} /\ NoPass \in PassType
    BY NoPassTyped DEF IInv, ControlOK, PassType
  <2> HIDE DEF NoPass
  <2> QED BY <1>1, <2>1 DEF PassType
<1>3. Templates' /\ Enrolling' /\ Quiet' /\ PassOK'
  BY <1>1 DEF IInv, Templates, Fits, Enrolling, Quiet, PassOK
<1>4. ControlOK' /\ EngineOK'
  BY <1>1, <1>2 DEF IInv, ControlOK, PassType, EngineOK, Unlearned
<1> QED BY <1>3, <1>4 DEF IInv

LEMMA ResultTyped ==
    ASSUME IInv
    PROVE  Result \in 0..5 /\ (pass.result = 0 => Result = nUpdate)
  BY DEF IInv, ControlOK, Result

\* Retiring the cache or counting study points leaves the tree alone.
LEMMA CountedGood ==
    ASSUME NEW t, Good(t), NEW more \in Nat
    PROVE  LET u == [t EXCEPT !.counter = @ + more]
           IN /\ Good(u) /\ Count(u) = Count(t) /\ (AgesNumber(t) => AgesNumber(u))
              /\ u.age = t.age /\ u.newest = t.newest /\ u.retired = t.retired
              /\ u.counter = t.counter + more
<1> DEFINE u == [t EXCEPT !.counter = @ + more]
<1>1. t \in Template /\ t.anchor <= Count(t) /\ t.counter \in Nat
  BY SubTemplates, TemplateFields DEF Good
<1>2. /\ u \in Template /\ u.counter = t.counter + more
      /\ u.age = t.age /\ u.row = t.row /\ u.rows = t.rows /\ u.anchor = t.anchor
      /\ u.newest = t.newest /\ u.retired = t.retired
  <2>1. t.counter + more \in Nat
    BY <1>1
  <2> QED BY <1>1, <2>1 DEF Template
<1> HIDE DEF u
<1>3. Good(u) /\ Count(u) = Count(t) /\ (AgesNumber(t) => AgesNumber(u))
  BY <1>1, <1>2, SameTree
<1> QED BY <1>2, <1>3 DEF u

LEMMA RetiredGood ==
    ASSUME NEW t, Good(t)
    PROVE  LET u == Retired(t)
           IN /\ Good(u) /\ Count(u) = Count(t) /\ (AgesNumber(t) => AgesNumber(u))
              /\ u.age = t.age /\ u.newest = t.newest /\ u.counter = t.counter /\ u.retired = TRUE
<1> DEFINE u == Retired(t)
<1>1. t \in Template /\ t.anchor <= Count(t)
  BY SubTemplates DEF Good
<1>2. Empty \in [Candidate -> -1..(CACHE - 1)]
  BY MilanAssumption DEF Empty, MilanAssumption
<1>3. /\ u \in Template /\ u.retired = TRUE
      /\ u.age = t.age /\ u.row = t.row /\ u.rows = t.rows /\ u.anchor = t.anchor
      /\ u.newest = t.newest /\ u.counter = t.counter
  BY <1>1, <1>2 DEF Retired, Template
<1> HIDE DEF u
<1>4. Good(u) /\ Count(u) = Count(t) /\ (AgesNumber(t) => AgesNumber(u))
  BY <1>1, <1>3, SameTree
<1> QED BY <1>3, <1>4 DEF u

\* What settling owes to the template decides the rest of the invariant.
LEMMA SettledRest ==
    ASSUME IInv, phase = "settle", phase' = "studied", nUpdate' = Result,
           UNCHANGED <<sensor, caller, stored, probe, pass>>,
           Good(tpl'), Fits(tpl'), tpl'.age = tpl.age, tpl'.newest = tpl.newest
    PROVE  IInv'
<1>1. Templates' /\ Enrolling' /\ Quiet' /\ PassOK'
  BY DEF IInv, Templates, Fits, Enrolling, Quiet, PassOK
<1>2. ControlOK'
  BY ResultTyped DEF IInv, ControlOK
<1>3. EngineOK'
  BY ResultTyped DEF IInv, EngineOK, Unlearned
<1> QED BY <1>1, <1>2, <1>3 DEF IInv

LEMMA SettlePairedStep == IInv /\ SettlePaired => IInv'
<1> SUFFICES ASSUME IInv, SettlePaired PROVE IInv'
  OBVIOUS
<1> DEFINE more == IF tpl.retired \/ Result <= 3 THEN 0 ELSE IF Result = 5 THEN 2 ELSE 1
           t == [tpl EXCEPT !.counter = @ + more]
<1>1. more \in Nat /\ Good(tpl) /\ Fits(tpl) /\ sensor = "paired" /\ sensor' = sensor
      /\ (tpl.retired => more = 0) /\ tpl.counter \in Nat
  BY TemplateFields DEF IInv, Templates, SettlePaired, Good
<1>2. tpl' = IF more > 0 /\ t.counter > RETIRE_AFTER THEN Retired(t) ELSE t
  BY DEF SettlePaired, LimitPassed
<1> HIDE DEF more
<1>3. /\ Good(t) /\ t.age = tpl.age /\ t.newest = tpl.newest /\ t.retired = tpl.retired
      /\ t.counter = tpl.counter + more
  BY <1>1, CountedGood
<1> HIDE DEF t
<1>4. /\ Good(tpl') /\ tpl'.age = tpl.age /\ tpl'.newest = tpl.newest
      /\ tpl'.retired => tpl'.counter > RETIRE_AFTER
  <2>1. CASE more > 0 /\ t.counter > RETIRE_AFTER
    BY <1>2, <1>3, <2>1, RetiredGood
  <2>2. CASE ~(more > 0 /\ t.counter > RETIRE_AFTER)
    <3>1. tpl' = t
      BY <1>2, <2>2
    <3>2. tpl.retired => tpl.counter > RETIRE_AFTER /\ t.counter = tpl.counter
      BY <1>1, <1>3 DEF Fits
    <3> QED BY <1>3, <3>1, <3>2
  <2> QED BY <2>1, <2>2
<1>5. Fits(tpl')
  BY <1>1, <1>4 DEF Fits
<1> QED BY <1>4, <1>5, SettledRest DEF SettlePaired

LEMMA SettlePlainStep == IInv /\ SettlePlain => IInv'
<1> SUFFICES ASSUME IInv, SettlePlain PROVE IInv'
  OBVIOUS
<1> DEFINE full == Count(tpl) = MAX /\ ~tpl.retired
           t == IF full THEN Retired(tpl) ELSE tpl
<1>1. Good(tpl) /\ Fits(tpl) /\ AgesNumber(tpl) /\ sensor = "plain" /\ sensor' = sensor
  BY DEF IInv, Templates, SettlePlain, Fits
<1>2. PICK u \in IF probe = "refused" /\ ~t.retired THEN Inserted(t) ELSE {t} : tpl' \in Resorted(u)
  BY DEF SettlePlain
<1>3. /\ Good(t) /\ AgesNumber(t) /\ t.age = tpl.age /\ t.newest = tpl.newest
      /\ t.retired => Count(t) = MAX
  BY <1>1, RetiredGood DEF Fits
<1> HIDE DEF t
<1>4. /\ Good(u) /\ AgesNumber(u) /\ u.age = tpl.age /\ u.newest = tpl.newest
      /\ u.retired => Count(u) = MAX
  <2>1. CASE u = t
    BY <1>3, <2>1
  <2>2. CASE u \in Inserted(t)
    BY <1>3, <2>2, InsertedGood
  <2> QED BY <1>2, <2>1, <2>2
<1>5. /\ Good(tpl') /\ AgesNumber(tpl') /\ tpl'.age = tpl.age /\ tpl'.newest = tpl.newest
      /\ tpl'.retired => Count(tpl') = MAX
  BY <1>2, <1>4, ResortedGood
<1>6. Fits(tpl')
  BY <1>1, <1>5 DEF Fits
<1> QED BY <1>5, <1>6, SettledRest DEF SettlePlain

LEMMA FinishStep == IInv /\ Finish => IInv'
<1> SUFFICES ASSUME IInv, Finish PROVE IInv'
  OBVIOUS
<1>1. CASE caller = "engine"
  <2>1. /\ Good(Packed(tpl)) /\ Count(Packed(tpl)) = Count(tpl)
        /\ AgesNumber(tpl) => AgesNumber(Packed(tpl))
        /\ Packed(tpl).retired = tpl.retired /\ Packed(tpl).counter = tpl.counter
        /\ Packed(tpl).rank = Empty
    BY PackedGood DEF IInv, Templates
  <2>2. Templates'
    BY <1>1, <2>1, NewGood DEF IInv, Templates, Fits, Finish
  <2>3. ControlOK' /\ Enrolling' /\ Quiet' /\ PassOK' /\ EngineOK'
    BY <1>1, NoPassTyped DEF IInv, Finish, ControlOK, Enrolling, Quiet, PassOK, EngineOK
  <2> QED BY <2>2, <2>3 DEF IInv
<1>2. CASE caller # "engine"
  <2>1. Templates'
    BY <1>2 DEF IInv, Templates, Fits, Finish
  <2>2. ControlOK' /\ Enrolling' /\ Quiet' /\ PassOK' /\ EngineOK'
    BY <1>2, NoPassTyped DEF IInv, Finish, ControlOK, Enrolling, Quiet, PassOK, EngineOK
  <2> QED BY <2>1, <2>2 DEF IInv
<1> QED BY <1>1, <1>2

LEMMA MilanStep == IInv /\ [Next]_vars => IInv'
<1> SUFFICES ASSUME IInv, [Next]_vars PROVE IInv'
  OBVIOUS
<1>1. CASE UNCHANGED vars
  BY <1>1 DEF vars, IInv, ControlOK, Templates, Fits, Enrolling, Quiet, PassOK, EngineOK, Unlearned, Cached
<1> QED BY <1>1, RegisterStep, RemoveLastStep, PackEnrolledStep, UnpackStep, MatchStep, MatchOnlyStep,
           NoMatchStep, StudyProbeStep, SkipProbeStep, TakeChangedStep, PassOverStep, StudyCandidateStep,
           EndPassStep, SettlePairedStep, SettlePlainStep, FinishStep DEF Next

-----------------------------------------------------------------------------
(* Theorems.                                                               *)

\* Every reachable state satisfies the inductive invariant.
THEOREM MilanInvariant == Spec => []IInv
<1> QED BY MilanInit, MilanStep, PTL DEF Spec

\* Templates and the ring of the pass keep their types for every size.
THEOREM MilanTyped == Spec => []TypeOK
<1>1. IInv => TypeOK
  BY DEF IInv, ControlOK, Templates, Good, TypeOK
<1> QED BY <1>1, MilanInvariant, PTL

\* FUN_1800147a0 and FUN_18000e3c0: the rows of pair results follow each other.
THEOREM MilanRowsTiled == Spec => []RowsTiled
<1>1. IInv => RowsTiled
  BY DEF IInv, Templates, Good, RowsTiled
<1> QED BY <1>1, MilanInvariant, PTL

\* The anchor is always a sub-template that is there.
THEOREM MilanAnchorPresent == Spec => []AnchorPresent
<1>1. IInv => AnchorPresent
  BY DEF IInv, Templates, Good, AnchorPresent
<1> QED BY <1>1, MilanInvariant, PTL

\* The sub-template written last is the only one of the highest age.
THEOREM MilanYoungestIsNewest == Spec => []YoungestIsNewest
<1>1. IInv => YoungestIsNewest
  BY DEF IInv, Templates, Good, AgesSound, YoungestIsNewest
<1> QED BY <1>1, MilanInvariant, PTL

\* The ages of a plain template number its sub-templates.
THEOREM MilanPlainAges == Spec => []PlainAgesDistinct
<1>1. IInv => PlainAgesDistinct
  BY DEF IInv, Templates, Fits, PlainAgesDistinct
<1> QED BY <1>1, MilanInvariant, PTL

\* A full ring looks like an empty one only when no candidate is left.
THEOREM MilanPassComplete == Spec => []PassComplete
<1>1. IInv => PassComplete
  <2> SUFFICES ASSUME IInv, phase = "pass", pass.next = 0, pass.head = pass.tail, pass.left # 0
               PROVE  tpl.rank = Empty
    BY DEF PassComplete
  <2>1. /\ pass.left \in Nat /\ pass.head \in 0..(CACHE - 1) /\ pass.tail \in 0..(CACHE - 1)
        /\ CACHE \in Nat /\ CACHE > 1
    BY MilanAssumption DEF IInv, ControlOK, MilanAssumption
  <2>2. /\ IsFiniteSet(CachedIn(tpl)) /\ Cardinality(CachedIn(tpl)) \in 0..CACHE
    BY CachedBound
  <2>3. pass.left = CACHE /\ pass.left + Cardinality(CachedIn(tpl)) <= CACHE
    BY <2>1 DEF IInv, PassOK, Cached
  <2>4. Cardinality(CachedIn(tpl)) = 0
    BY <2>1, <2>2, <2>3
  <2>5. CachedIn(tpl) = {}
    BY <2>2, <2>4, FS_EmptySet
  <2>6. tpl.rank \in [Candidate -> -1..(CACHE - 1)]
    BY TemplateFields DEF IInv, Templates, Good
  <2> QED BY <2>5, <2>6 DEF CachedIn, Empty
<1> QED BY <1>1, MilanInvariant, PTL

\* The engine never studies with a candidate in the cache.
THEOREM MilanEngineCacheUnused == Spec => []EngineCacheUnused
<1>1. IInv => EngineCacheUnused
  BY DEF IInv, EngineOK, EngineCacheUnused
<1> QED BY <1>1, MilanInvariant, PTL

\* What the engine learned it packs.
THEOREM MilanLearnedIsReported == Spec => []LearnedIsReported
<1>1. IInv => LearnedIsReported
  BY DEF IInv, EngineOK, Unlearned, LearnedIsReported
<1> QED BY <1>1, MilanInvariant, PTL

\* A cache is retired for its reason only, and the reason outlives packing.
THEOREM MilanRetiredExplained == Spec => []RetiredExplained
<1>1. IInv => RetiredExplained
  BY DEF IInv, Templates, Fits, RetiredExplained
<1> QED BY <1>1, MilanInvariant, PTL

\* Less work by whole rounds of the scan.
LEMMA FewerRounds ==
    ASSUME NEW k \in Nat, NEW a \in Nat, NEW b \in Nat, b < a, NEW x \in 0..(k - 1), NEW y \in Nat
    PROVE  b * k + x < a * k + y
<1>1. a * k = b * k + (a - b) * k
  OBVIOUS
<1>2. (a - b) * k >= k
  <2>1. (a - b) - 1 \in Nat
    OBVIOUS
  <2>2. (a - b) * k = k + ((a - b) - 1) * k
    OBVIOUS
  <2>3. \A m \in Nat : m * k \in Nat
    OBVIOUS
  <2> QED BY <2>1, <2>2, <2>3
<1> QED BY <1>1, <1>2

\* The candidate pass ends: each of its steps leaves less to do.
THEOREM MilanPassShrinks == Spec => PassShrinks
<1>1. IInv /\ [Next]_vars => (phase = "pass" /\ phase' = "pass" => PassWork' < PassWork) \/ UNCHANGED vars
  <2> SUFFICES ASSUME IInv, Next, phase = "pass", phase' = "pass" PROVE PassWork' < PassWork
    OBVIOUS
  <2>1. /\ pass \in PassType /\ CACHE \in Nat /\ CACHE > 1 /\ pass.left \in Nat /\ pass.next \in 0..CACHE
        /\ Cached \in 0..CACHE
    BY CachedBound, MilanAssumption DEF IInv, ControlOK, PassType, Cached, MilanAssumption
  <2>2. pass' \in PassType /\ pass'.left \in Nat /\ pass'.next \in 0..CACHE
    BY MilanStep DEF IInv, ControlOK, PassType
  <2>3. ToScan \in 0..CACHE /\ ToScan' \in 0..CACHE
    BY <2>1, <2>2 DEF ToScan
  <2>4. CASE TakeChanged
    <3>1. pass'.left = pass.left - 1 /\ Cached' = Cached
      BY <2>1, <2>4 DEF TakeChanged, PassType, Cached
    <3>2. 2 * Cached + pass.left \in Nat /\ 2 * Cached' + pass'.left \in Nat
          /\ 2 * Cached' + pass'.left < 2 * Cached + pass.left
      BY <2>1, <2>2, <3>1
    <3> QED BY <2>1, <2>3, <3>2, FewerRounds DEF PassWork
  <2>5. CASE PassOver
    <3>1. pass'.left = pass.left /\ Cached' = Cached /\ pass'.next = Following /\ pass.next # 0
      BY <2>1, <2>5 DEF PassOver, PassType, Cached
    <3>2. ToScan' < ToScan
      BY <2>1, <2>2, <3>1 DEF ToScan, Following
    <3>3. (2 * Cached + pass.left) * (CACHE + 1) \in Nat
      BY <2>1
    <3> QED BY <2>3, <3>1, <3>2, <3>3 DEF PassWork
  <2>6. CASE StudyCandidate
    <3>1. Cached \in 1..CACHE /\ Cached' = Cached - 1 /\ pass'.left \in {pass.left, pass.left + 1}
      BY <2>6, CandidateEffect
    <3>2. 2 * Cached + pass.left \in Nat /\ 2 * Cached' + pass'.left \in Nat
          /\ 2 * Cached' + pass'.left < 2 * Cached + pass.left
      BY <2>1, <2>2, <3>1
    <3> QED BY <2>1, <2>3, <3>2, FewerRounds DEF PassWork
  <2>7. TakeChanged \/ PassOver \/ StudyCandidate
    BY DEF Next, Register, RemoveLast, PackEnrolled, Unpack, Match, MatchOnly, NoMatch, StudyProbe,
           SkipProbe, EndPass, SettlePaired, SettlePlain, Finish
  <2> QED BY <2>4, <2>5, <2>6, <2>7
<1> QED BY <1>1, MilanInvariant, PTL DEF PassShrinks, Spec

-----------------------------------------------------------------------------
(* The search order and the ranks of the candidates.                       *)

\* A one-to-one function of a finite set into itself reaches all of it.
LEMMA OntoItself ==
    ASSUME NEW S, IsFiniteSet(S), NEW f \in [S -> S], \A x, y \in S : f[x] = f[y] => x = y
    PROVE  \A y \in S : \E x \in S : f[x] = y
<1>1. f \in Injection(S, S)
  BY DEF Injection, IsInjective
<1>2. f \in Surjection(S, S)
  BY <1>1, FS_Injection
<1> QED BY <1>2 DEF Surjection

\* The first entries of the search order are all the sub-templates.
OrderOK(t) == {t.order[i] : i \in 1..Count(t)} = 1..Count(t)

\* k candidates are cached, with the ranks below k, each once.
Compact(rank, k) ==
    /\ \A c \in Candidate : rank[c] < k
    /\ \A c, d \in Candidate : rank[c] >= 0 /\ rank[c] = rank[d] => c = d
    /\ \A r \in 0..(k - 1) : \E c \in Candidate : rank[c] = r

RanksOK(rank) == \E k \in 0..CACHE : Compact(rank, k)

Listed(t) == OrderOK(t) /\ RanksOK(t.rank)

\* An enrolled template lists its sub-templates as they came.
AsEnrolled == phase = "enrol" => \A i \in 1..Count(tpl) : tpl.order[i] = i

ListInv == Listed(tpl) /\ OrderOK(stored) /\ AsEnrolled

LEMMA EmptyRanks == RanksOK(Empty)
<1>1. Compact(Empty, 0)
  BY DEF Compact, Empty
<1> QED BY <1>1, MilanAssumption DEF RanksOK, MilanAssumption

LEMMA Candidates == IsFiniteSet(Candidate) /\ Cardinality(Candidate) = CACHE
  BY FS_Interval, MilanAssumption DEF Candidate, MilanAssumption

\* With every candidate cached the ranks are all in use; otherwise the lowest
\* is an empty one.
LEMMA LowestCandidate ==
    ASSUME NEW rank \in [Candidate -> -1..(CACHE - 1)], NEW k \in 0..CACHE, Compact(rank, k),
           NEW c \in Candidate, IsLowest(rank, c)
    PROVE  /\ k = CACHE => rank[c] = 0 /\ \A d \in Candidate : rank[d] >= 0
           /\ k < CACHE => rank[c] = -1
<1>1. CACHE \in Nat /\ CACHE > 1
  BY MilanAssumption DEF MilanAssumption
<1>2. \A d \in Candidate : rank[d] \in -1..(CACHE - 1) /\ rank[c] <= rank[d] /\ rank[d] < k
  BY DEF IsLowest, Compact
<1>3. ASSUME k = CACHE PROVE rank[c] = 0 /\ \A d \in Candidate : rank[d] >= 0
  <2> DEFINE at == [d \in Candidate |-> CHOOSE e \in Candidate : rank[e] = d - 1]
  <2>1. ASSUME NEW d \in Candidate PROVE \E e \in Candidate : rank[e] = d - 1
    <3>1. d - 1 \in 0..(k - 1)
      BY <1>1, <1>3 DEF Candidate
    <3> QED BY <3>1 DEF Compact
  <2>2. \A d \in Candidate : at[d] \in Candidate /\ rank[at[d]] = d - 1
    BY <2>1
  <2>3. at \in [Candidate -> Candidate]
    BY <2>1
  <2> HIDE DEF at
  <2>4. \A d, e \in Candidate : at[d] = at[e] => d = e
    <3> SUFFICES ASSUME NEW d \in Candidate, NEW e \in Candidate, at[d] = at[e] PROVE d = e
      OBVIOUS
    <3>1. d - 1 = e - 1
      BY <2>2
    <3> QED BY <3>1 DEF Candidate
  <2>5. \A e \in Candidate : \E d \in Candidate : at[d] = e
    BY <2>3, <2>4, OntoItself, Candidates
  <2>6. \A e \in Candidate : rank[e] >= 0
    <3> SUFFICES ASSUME NEW e \in Candidate PROVE rank[e] >= 0
      OBVIOUS
    <3>1. PICK d \in Candidate : at[d] = e
      BY <2>5
    <3> QED BY <2>2, <3>1 DEF Candidate
  <2>7. PICK e \in Candidate : rank[e] = 0
    <3>1. 0 \in 0..(k - 1)
      BY <1>1, <1>3
    <3> QED BY <3>1 DEF Compact
  <2> QED BY <1>2, <2>6, <2>7
<1>4. ASSUME k < CACHE PROVE rank[c] = -1
  <2> SUFFICES ASSUME rank[c] # -1 PROVE FALSE
    OBVIOUS
  <2>1. \A d \in Candidate : rank[d] \in 0..(k - 1)
    BY <1>2
  <2>2. rank \in [Candidate -> 0..(k - 1)]
    BY <2>1
  <2>3. IsFiniteSet(0..(k - 1)) /\ Cardinality(0..(k - 1)) = k
    <3>1. 0 \in Int /\ k - 1 \in Int /\ (0 > k - 1 <=> k = 0) /\ (k - 1) - 0 + 1 = k
      OBVIOUS
    <3> QED BY <3>1, FS_Interval
  <2>4. Cardinality(0..(k - 1)) < Cardinality(Candidate)
    BY <1>4, <2>3, Candidates
  <2>5. \E x, y \in Candidate : x # y /\ rank[x] = rank[y]
    BY <2>2, <2>3, <2>4, Candidates, FS_PigeonHole
  <2> QED BY <2>1, <2>5 DEF Compact
<1> QED BY <1>3, <1>4

\* Inserting an image keeps the ranks compact, with the cache full or not.
LEMMA RankedCompact ==
    ASSUME NEW rank \in [Candidate -> -1..(CACHE - 1)], RanksOK(rank),
           NEW c \in Candidate, IsLowest(rank, c),
           NEW top \in -1..(CACHE - 1), IsHighest(rank, top)
    PROVE  RanksOK(Ranked(rank, c, top))
<1>1. CACHE \in Nat /\ CACHE > 1 /\ \A d \in Candidate : rank[d] \in -1..(CACHE - 1)
  BY MilanAssumption DEF MilanAssumption
<1>2. PICK k \in 0..CACHE : Compact(rank, k)
  BY DEF RanksOK
<1>3. top = k - 1
  <2>1. PICK d \in Candidate : rank[d] = top
    BY DEF IsHighest
  <2>2. top < k
    BY <1>2, <2>1 DEF Compact
  <2>3. k > 0 => \E e \in Candidate : rank[e] = k - 1
    <3>1. k > 0 => k - 1 \in 0..(k - 1)
      OBVIOUS
    <3> QED BY <1>2, <3>1 DEF Compact
  <2>4. k > 0 => top >= k - 1
    BY <1>1, <2>3 DEF IsHighest
  <2> QED BY <2>2, <2>4
<1> DEFINE new == Ranked(rank, c, top)
<1>4. CASE k = CACHE
  <2>1. rank[c] = 0 /\ \A d \in Candidate : rank[d] >= 0
    BY <1>2, <1>4, LowestCandidate
  <2>2. \A d \in Candidate : new[d] = IF d = c THEN CACHE - 1 ELSE rank[d] - 1
    BY <1>1, <1>3, <1>4, <2>1 DEF Ranked
  <2>3. \A d \in Candidate : d # c => rank[d] > 0
    BY <1>1, <1>2, <2>1 DEF Compact
  <2> HIDE DEF new
  <2>4. \A d \in Candidate : new[d] < CACHE
    BY <1>1, <2>2
  <2>5. \A d, e \in Candidate : new[d] >= 0 /\ new[d] = new[e] => d = e
    <3> SUFFICES ASSUME NEW d \in Candidate, NEW e \in Candidate, new[d] = new[e] PROVE d = e
      OBVIOUS
    <3>1. CASE d # c /\ e # c
      BY <1>1, <1>2, <2>1, <2>2, <3>1 DEF Compact
    <3>2. CASE d = c /\ e # c
      BY <1>1, <2>2, <3>2
    <3>3. CASE d # c /\ e = c
      BY <1>1, <2>2, <3>3
    <3> QED BY <3>1, <3>2, <3>3
  <2>6. ASSUME NEW r \in 0..(CACHE - 1) PROVE \E d \in Candidate : new[d] = r
    <3>1. CASE r = CACHE - 1
      BY <2>2, <3>1
    <3>2. CASE r # CACHE - 1
      <4>1. r + 1 \in 0..(k - 1)
        BY <1>1, <1>4, <3>2
      <4>2. PICK d \in Candidate : rank[d] = r + 1
        BY <1>2, <4>1 DEF Compact
      <4>3. d # c /\ new[d] = r
        BY <2>1, <2>2, <4>2
      <4> QED BY <4>3
    <3> QED BY <3>1, <3>2
  <2>7. Compact(new, CACHE) /\ CACHE \in 0..CACHE
    BY <1>1, <2>4, <2>5, <2>6 DEF Compact
  <2> QED BY <2>7 DEF RanksOK, new
<1>5. CASE k # CACHE
  <2>1. k < CACHE /\ k \in Nat /\ k + 1 \in 0..CACHE
    BY <1>1, <1>5
  <2>2. rank[c] = -1
    BY <1>2, <2>1, LowestCandidate
  <2>3. \A d \in Candidate : new[d] = IF d = c THEN k ELSE rank[d]
    BY <1>1, <1>3, <2>1 DEF Ranked
  <2> HIDE DEF new
  <2>4. \A d \in Candidate : rank[d] < k
    BY <1>2 DEF Compact
  <2>5. \A d \in Candidate : new[d] < k + 1
    BY <1>1, <2>1, <2>3, <2>4
  <2>6. \A d, e \in Candidate : new[d] >= 0 /\ new[d] = new[e] => d = e
    BY <1>1, <1>2, <2>1, <2>3, <2>4 DEF Compact
  <2>7. ASSUME NEW r \in 0..((k + 1) - 1) PROVE \E d \in Candidate : new[d] = r
    <3>1. CASE r = k
      BY <2>3, <3>1
    <3>2. CASE r # k
      <4>1. r \in 0..(k - 1)
        BY <2>1, <3>2
      <4>2. PICK d \in Candidate : rank[d] = r
        BY <1>2, <4>1 DEF Compact
      <4>3. d # c
        BY <2>2, <4>1, <4>2
      <4> QED BY <2>3, <4>2, <4>3
    <3> QED BY <3>1, <3>2
  <2>8. Compact(new, k + 1)
    BY <2>5, <2>6, <2>7 DEF Compact
  <2> QED BY <2>1, <2>8 DEF RanksOK, new
<1> QED BY <1>4, <1>5

\* Taking a candidate out of the middle closes its gap.
LEMMA TakenCompact ==
    ASSUME NEW t, Good(t), RanksOK(t.rank), NEW c \in Candidate, t.rank[c] # -1
    PROVE  RanksOK(Taken(t, c).rank)
<1>1. PICK rank \in [Candidate -> -1..(CACHE - 1)] : rank = t.rank
  BY TemplateFields DEF Good
<1>2. PICK new : new = Taken(t, c).rank
  OBVIOUS
<1>3. \A d \in Candidate : new[d] = IF d = c THEN -1
                                    ELSE IF rank[d] > rank[c] THEN rank[d] - 1 ELSE rank[d]
  BY <1>1, <1>2, SubTemplates DEF Taken, Template
<1>4. CACHE \in Nat /\ rank[c] >= 0 /\ \A d \in Candidate : rank[d] \in -1..(CACHE - 1)
  BY <1>1, MilanAssumption DEF MilanAssumption
<1>5. PICK k \in 0..CACHE : Compact(rank, k)
  BY <1>1 DEF RanksOK
<1>6. k - 1 \in 0..CACHE /\ rank[c] <= k - 1
  BY <1>4, <1>5 DEF Compact
<1>7. \A d \in Candidate : rank[d] < k /\ (d # c => rank[d] # rank[c])
  BY <1>4, <1>5 DEF Compact
<1>8. \A d \in Candidate : new[d] < k - 1
  <2> SUFFICES ASSUME NEW d \in Candidate PROVE new[d] < k - 1
    OBVIOUS
  <2>1. CASE d = c
    BY <1>3, <1>4, <1>6, <2>1
  <2>2. CASE d # c
    BY <1>3, <1>4, <1>6, <1>7, <2>2
  <2> QED BY <2>1, <2>2
<1>9. \A d, e \in Candidate : new[d] >= 0 /\ new[d] = new[e] => d = e
  <2> SUFFICES ASSUME NEW d \in Candidate, NEW e \in Candidate, new[d] >= 0, new[d] = new[e] PROVE d = e
    OBVIOUS
  <2>1. d # c /\ e # c
    BY <1>3
  <2>2. rank[d] # rank[c] /\ rank[e] # rank[c]
    BY <1>7, <2>1
  <2>3. rank[d] = rank[e] /\ rank[d] >= 0
    BY <1>3, <1>4, <2>1, <2>2
  <2> QED BY <1>5, <2>3 DEF Compact
<1>10. ASSUME NEW r \in 0..((k - 1) - 1) PROVE \E d \in Candidate : new[d] = r
  <2>1. r \in 0..(k - 1) /\ r + 1 \in 0..(k - 1)
    BY <1>6
  <2>2. CASE r < rank[c]
    <3>1. PICK d \in Candidate : rank[d] = r
      BY <1>5, <2>1 DEF Compact
    <3> QED BY <1>3, <1>4, <2>2, <3>1
  <2>3. CASE r >= rank[c]
    <3>1. PICK d \in Candidate : rank[d] = r + 1
      BY <1>5, <2>1 DEF Compact
    <3>2. d # c /\ rank[d] > rank[c]
      BY <1>4, <2>1, <2>3, <3>1
    <3> QED BY <1>3, <2>1, <3>1, <3>2
  <2> QED BY <1>4, <2>1, <2>2, <2>3
<1>11. Compact(new, k - 1)
  BY <1>8, <1>9, <1>10 DEF Compact
<1> QED BY <1>2, <1>6, <1>11 DEF RanksOK

\* Operators that keep the search order and the ranks.
LEMMA SameLists ==
    ASSUME NEW t, NEW u, Count(u) = Count(t), u.order = t.order
    PROVE  OrderOK(t) => OrderOK(u)
  BY DEF OrderOK

\* A sub-template more at the end of the list.
LEMMA OneMoreListed ==
    ASSUME NEW t, NEW u, NEW n \in Nat, Count(t) = n, Count(u) = n + 1, OrderOK(t),
           \A i \in 1..n : u.order[i] = t.order[i], u.order[n + 1] = n + 1
    PROVE  OrderOK(u)
<1>1. \A i \in 1..(n + 1) : i \in 1..n \/ i = n + 1
  OBVIOUS
<1>2. \A x : x \in {u.order[i] : i \in 1..(n + 1)} <=> x \in {t.order[i] : i \in 1..n} \/ x = n + 1
  <2>1. 1..n \subseteq 1..(n + 1) /\ n + 1 \in 1..(n + 1)
    OBVIOUS
  <2> QED BY <1>1, <2>1
<1>3. \A x : x \in 1..n \/ x = n + 1 <=> x \in 1..(n + 1)
  OBVIOUS
<1> QED BY <1>2, <1>3 DEF OrderOK

LEMMA GrowingListed ==
    ASSUME NEW t, Good(t), Listed(t), Count(t) < MAX, NEW A \in SUBSET (0..Count(t)), NEW o \in Growing(t, A)
    PROVE  Listed(o.tpl)
<1> DEFINE order == [t.order EXCEPT ![Count(t) + 1] = Count(t) + 1]
<1>1. PICK a \in A : o.tpl = Grown(t, order, a)
  BY DEF Growing
<1>2. t.order \in [Slot -> 0..MAX] /\ Count(t) \in 0..MAX /\ MAX \in Nat /\ t \in Template
  BY SubTemplates, TemplateFields DEF Good
<1>3. /\ \A i \in 1..Count(t) : order[i] = t.order[i]
      /\ order[Count(t) + 1] = Count(t) + 1 /\ order \in [Slot -> 0..MAX]
  BY <1>2 DEF Slot
<1> HIDE DEF order
<1>4. a \in 0..Count(t)
  BY <1>1
<1>5. Count(o.tpl) = Count(t) + 1 /\ o.tpl.rank = t.rank
  BY <1>1, <1>3, <1>4, GrownGood
<1>6. o.tpl.order = order
  BY <1>1, <1>2 DEF Grown, Template
<1>7. OrderOK(o.tpl)
  <2>1. Count(t) \in Nat /\ \A i \in 1..Count(t) : o.tpl.order[i] = t.order[i]
    BY <1>2, <1>3, <1>6
  <2> QED BY <1>3, <1>5, <1>6, <2>1, OneMoreListed DEF Listed
<1> QED BY <1>5, <1>7 DEF Listed

LEMMA InsertedListed ==
    ASSUME NEW t, Good(t), Listed(t), NEW u \in Inserted(t)
    PROVE  Listed(u)
<1>1. CASE u = t
  BY <1>1
<1>2. CASE \E c \in {d \in Candidate : IsLowest(t.rank, d)},
              top \in {r \in -1..(CACHE - 1) : IsHighest(t.rank, r)} :
                 u = [t EXCEPT !.rank = Ranked(t.rank, c, top)]
  <2> PICK c \in {d \in Candidate : IsLowest(t.rank, d)},
           top \in {r \in -1..(CACHE - 1) : IsHighest(t.rank, r)} :
              u = [t EXCEPT !.rank = Ranked(t.rank, c, top)]
    BY <1>2
  <2>1. t \in Template /\ t.rank \in [Candidate -> -1..(CACHE - 1)] /\ RanksOK(t.rank)
    BY SubTemplates, TemplateFields DEF Good, Listed
  <2>2. u.rank = Ranked(t.rank, c, top) /\ u.order = t.order /\ u.age = t.age
    BY <2>1 DEF Template
  <2>3. RanksOK(Ranked(t.rank, c, top))
    BY <2>1, RankedCompact
  <2>4. OrderOK(u)
    BY <2>2, SameLists DEF Listed, Count
  <2> QED BY <2>2, <2>3, <2>4 DEF Listed
<1> QED BY <1>1, <1>2 DEF Inserted

LEMMA KeptListed ==
    ASSUME NEW t, Good(t), Listed(t), NEW u \in Kept(t)
    PROVE  Good(u) /\ Listed(u)
  BY KeptKeeps, InsertedListed DEF Kept

LEMMA OverwrittenListed ==
    ASSUME NEW t, Good(t), Listed(t), Count(t) = MAX, NEW s \in Slot, NEW since \in Nat,
           since = 0 \/ (since = t.age[s] /\ AgesNumber(t))
    PROVE  Listed(Overwritten(t, s, since))
<1>1. Count(Overwritten(t, s, since)) = MAX /\ Overwritten(t, s, since).rank = t.rank
  BY OverwrittenGood
<1>2. Overwritten(t, s, since).order = t.order
  BY SubTemplates DEF Overwritten, Template
<1>3. OrderOK(Overwritten(t, s, since))
  BY <1>1, <1>2, SameLists DEF Listed
<1> QED BY <1>1, <1>3 DEF Listed

LEMMA RebuiltListed ==
    ASSUME NEW o \in [tpl : Template, at : 0..MAX, n : 0..5], Listed(o.tpl), NEW r \in Rebuilt(o)
    PROVE  Listed(r.tpl)
<1>1. PICK a : r = [o EXCEPT !.tpl.anchor = a]
  BY DEF Rebuilt
<1>2. PICK t \in Template : t = o.tpl /\ r.tpl = [t EXCEPT !.anchor = a]
  BY <1>1
<1>3. r.tpl.order = t.order /\ r.tpl.age = t.age /\ r.tpl.rank = t.rank
  BY <1>2 DEF Template
<1>4. OrderOK(r.tpl)
  BY <1>2, <1>3, SameLists DEF Listed, Count
<1> QED BY <1>2, <1>3, <1>4 DEF Listed

LEMMA PlainStudyListed ==
    ASSUME NEW t, Good(t), AgesNumber(t), Listed(t), NEW o \in PlainStudy(t)
    PROVE  Listed(o.tpl)
<1>1. CASE o.tpl = t
  BY <1>1
<1>2. CASE Count(t) < MAX /\ o \in Growing(t, IF t.anchor = 0 THEN 1..Count(t) ELSE {t.anchor})
  <2> DEFINE A == IF t.anchor = 0 THEN 1..Count(t) ELSE {t.anchor}
  <2>1. A \in SUBSET (0..Count(t))
    BY SubTemplates
  <2>2. Count(t) < MAX /\ o \in Growing(t, A)
    BY <1>2
  <2> HIDE DEF A
  <2> QED BY <2>1, <2>2, GrowingListed
<1>3. CASE Count(t) = MAX /\ \E s \in Slot : o.tpl = Overwritten(t, s, t.age[s])
  <2> PICK s \in Slot : o.tpl = Overwritten(t, s, t.age[s])
    BY <1>3
  <2>1. t.age[s] \in Nat
    BY <1>3, TemplateFields DEF Good, Slot
  <2> QED BY <1>3, <2>1, OverwrittenListed
<1>4. ~(Count(t) < MAX) => Count(t) = MAX
  BY SubTemplates
<1> QED BY <1>1, <1>2, <1>3, <1>4 DEF PlainStudy, Refused

LEMMA PairedStudyListed ==
    ASSUME NEW t, Good(t), Listed(t), NEW o \in PairedStudy(t)
    PROVE  Listed(o.tpl)
<1>1. PICK p \in IF Count(t) < MAX
                  THEN Growing(t, {t.anchor})
                  ELSE {Refused(t)} \union {Refused(u) : u \in Kept(t)}
                       \union {[tpl |-> Overwritten(u, s, 0), at |-> s, n |-> n] :
                                  u \in Kept(t), s \in Slot, n \in {3, 4}} : o \in Rebuilt(p)
  BY DEF PairedStudy
<1>2. Listed(p.tpl) /\ p \in [tpl : Template, at : 0..MAX, n : 0..5]
  <2>1. CASE Count(t) < MAX /\ p \in Growing(t, {t.anchor})
    <3>1. {t.anchor} \in SUBSET (0..Count(t))
      BY SubTemplates
    <3>2. Listed(p.tpl) /\ Keeps(t, p)
      BY <2>1, <3>1, GrowingListed, GrowingKeeps
    <3>3. p = [tpl |-> p.tpl, at |-> p.at, n |-> p.n]
      BY <2>1 DEF Growing
    <3>4. p.tpl \in Template /\ p.at \in 0..MAX /\ p.n \in 0..5
      BY <3>2, SubTemplates DEF Keeps
    <3> QED BY <3>2, <3>3, <3>4
  <2>2. CASE \E u \in Kept(t) : p = Refused(u)
    <3> PICK u \in Kept(t) : p = Refused(u)
      BY <2>2
    <3>1. Listed(u) /\ u \in Template /\ 0 \in 0..MAX
      BY KeptListed, SubTemplates
    <3> QED BY <3>1 DEF Refused
  <2>3. CASE p = Refused(t)
    <3>1. Listed(t) /\ t \in Template /\ 0 \in 0..MAX
      BY SubTemplates
    <3> QED BY <2>3, <3>1 DEF Refused
  <2>4. CASE Count(t) = MAX /\ \E u \in Kept(t), s \in Slot, n \in {3, 4} :
               p = [tpl |-> Overwritten(u, s, 0), at |-> s, n |-> n]
    <3> PICK u \in Kept(t), s \in Slot, n \in {3, 4} : p = [tpl |-> Overwritten(u, s, 0), at |-> s, n |-> n]
      BY <2>4
    <3>1. Good(u) /\ Listed(u) /\ Count(u) = MAX
      BY <2>4, KeptListed, KeptKeeps
    <3>2. Listed(Overwritten(u, s, 0)) /\ Good(Overwritten(u, s, 0))
      BY <3>1, OverwrittenListed, OverwrittenGood
    <3>3. Overwritten(u, s, 0) \in Template /\ s \in 0..MAX /\ n \in 0..5
      BY <3>2, SubTemplates DEF Slot
    <3>4. p.tpl = Overwritten(u, s, 0)
      OBVIOUS
    <3> QED BY <3>2, <3>3, <3>4
  <2>5. ~(Count(t) < MAX) => Count(t) = MAX
    BY SubTemplates
  <2> QED BY <1>1, <2>1, <2>2, <2>3, <2>4, <2>5
<1> QED BY <1>1, <1>2, RebuiltListed

LEMMA StudyListed ==
    ASSUME sensor \in {"paired", "plain"}, NEW t, Good(t), Listed(t),
           sensor = "plain" => AgesNumber(t), NEW o \in Study(t)
    PROVE  Listed(o.tpl)
<1>1. CASE sensor = "paired"
  BY <1>1, PairedStudyListed DEF Study
<1>2. CASE sensor = "plain"
  BY <1>2, PlainStudyListed DEF Study
<1> QED BY <1>1, <1>2

\* Sorting keeps every sub-template in the list.
LEMMA ResortedListed ==
    ASSUME NEW t, Good(t), Listed(t), NEW u \in Resorted(t)
    PROVE  Listed(u)
<1> DEFINE n == Count(t)
<1>1. n \in 0..MAX /\ MAX \in Nat /\ t \in Template
  BY SubTemplates
<1>2. PICK p \in [1..n -> 1..n] :
         /\ \A i, j \in 1..n : p[i] = p[j] => i = j
         /\ u = [t EXCEPT !.order = [i \in Slot |-> IF i <= n THEN t.order[p[i]] ELSE t.order[i]]]
  BY DEF Resorted
<1>3. /\ u.order = [i \in Slot |-> IF i <= n THEN t.order[p[i]] ELSE t.order[i]]
      /\ u.rank = t.rank /\ Count(u) = n
  BY <1>1, <1>2 DEF Template, Count
<1> HIDE DEF n
<1>4. \A i \in 1..n : u.order[i] = t.order[p[i]]
  BY <1>1, <1>3 DEF Slot
<1>5. IsFiniteSet(1..n)
  BY <1>1, FS_Interval
<1>6. \A j \in 1..n : \E i \in 1..n : p[i] = j
  BY <1>2, <1>5, OntoItself
<1>7. \A x : x \in {u.order[i] : i \in 1..n} <=> x \in {t.order[i] : i \in 1..n}
  BY <1>2, <1>4, <1>6
<1>8. {t.order[i] : i \in 1..n} = 1..n
  BY DEF Listed, OrderOK, n
<1>9. OrderOK(u)
  BY <1>3, <1>7, <1>8 DEF OrderOK
<1> QED BY <1>3, <1>9 DEF Listed

LEMMA NewListed == Listed(NewTemp)
<1>1. Count(NewTemp) = 0 /\ NewTemp.rank = Empty
  BY DEF NewTemp, Count
<1>2. OrderOK(NewTemp)
  BY <1>1 DEF OrderOK
<1> QED BY <1>1, <1>2, EmptyRanks DEF Listed

\* Packing forgets the candidates, retiring drops them, counting does neither.
LEMMA PlainChangeListed ==
    ASSUME NEW t, Good(t), Listed(t), NEW u, u.age = t.age, u.order = t.order,
           u.rank = t.rank \/ u.rank = Empty
    PROVE  Listed(u)
<1>1. OrderOK(u)
  BY SameLists DEF Listed, Count
<1> QED BY <1>1, EmptyRanks DEF Listed

LEMMA EnrolmentListed ==
    ASSUME IInv, ListInv, Register \/ RemoveLast
    PROVE  ListInv'
<1>1. /\ Good(tpl) /\ Count(tpl) \in 0..MAX /\ tpl.anchor \in 0..Count(tpl) /\ MAX \in Nat /\ tpl \in Template
      /\ \A i \in 1..Count(tpl) : tpl.order[i] = i
  BY SubTemplates DEF IInv, Templates, ListInv, AsEnrolled, Register, RemoveLast
<1>2. ASSUME Register PROVE tpl'.rank = tpl.rank /\ \A i \in 1..Count(tpl') : tpl'.order[i] = i
  <2> DEFINE order == [i \in Slot |-> IF i <= Count(tpl) + 1 THEN i ELSE 0]
  <2>1. order \in [Slot -> 0..MAX] /\ Count(tpl) < MAX
    BY <1>1, <1>2 DEF Slot, Register
  <2>2. PICK a \in 0..Count(tpl) : tpl' = Grown(tpl, order, a)
    BY <1>1, <1>2 DEF Register
  <2>3. \A i \in 1..(Count(tpl) + 1) : order[i] = i
    BY <1>1, <2>1 DEF Slot
  <2> HIDE DEF order
  <2>4. Count(tpl') = Count(tpl) + 1 /\ tpl'.rank = tpl.rank
    BY <1>1, <2>1, <2>2, GrownGood
  <2>5. tpl'.order = order
    BY <1>1, <2>2 DEF Grown, Template
  <2> QED BY <2>3, <2>4, <2>5
<1>3. ASSUME RemoveLast PROVE tpl'.rank = tpl.rank /\ \A i \in 1..Count(tpl') : tpl'.order[i] = i
  <2> DEFINE a == IF tpl.anchor = Count(tpl) THEN 0 ELSE tpl.anchor
  <2>1. a \in 0..(Count(tpl) - 1) /\ Count(tpl) > 0
    BY <1>1, <1>3 DEF RemoveLast
  <2>2. tpl' = Shrunk(tpl, a)
    BY <1>3 DEF RemoveLast
  <2> HIDE DEF a
  <2>3. \A i \in 1..Count(tpl) : tpl.age[i] = i - 1
    BY <1>3 DEF IInv, Enrolling, RemoveLast
  <2>4. Count(tpl') = Count(tpl) - 1 /\ tpl'.rank = tpl.rank
    BY <1>1, <2>1, <2>2, <2>3, ShrunkGood
  <2>5. tpl'.order = tpl.order
    BY <1>1, <2>2 DEF Shrunk, Template
  <2> QED BY <1>1, <2>4, <2>5
<1>4. tpl'.rank = tpl.rank /\ \A i \in 1..Count(tpl') : tpl'.order[i] = i
  BY <1>2, <1>3
<1>5. OrderOK(tpl')
  BY <1>4 DEF OrderOK
<1>6. stored' = stored
  BY DEF Register, RemoveLast
<1> QED BY <1>4, <1>5, <1>6 DEF ListInv, Listed, AsEnrolled

\* Once enrolled: what a step makes of the two templates.
LEMMA ListedLater ==
    ASSUME ListInv, phase' # "enrol", Listed(tpl'), stored' = stored
    PROVE  ListInv'
  BY DEF ListInv, AsEnrolled

LEMMA PackingListed ==
    ASSUME IInv, ListInv, PackEnrolled \/ Finish
    PROVE  ListInv'
<1>1. /\ Good(tpl) /\ Listed(tpl) /\ OrderOK(stored) /\ tpl \in Template
  BY SubTemplates DEF IInv, Templates, ListInv
<1>2. Packed(tpl).age = tpl.age /\ Packed(tpl).order = tpl.order
  BY <1>1 DEF Packed, Template
<1>3. OrderOK(Packed(tpl))
  BY <1>1, <1>2, SameLists DEF Listed, Count
<1>4. Listed(tpl') /\ OrderOK(stored') /\ phase' # "enrol"
  BY <1>1, <1>3, NewListed DEF PackEnrolled, Finish
<1> QED BY <1>4 DEF ListInv, AsEnrolled

LEMMA ComparisonListed ==
    ASSUME IInv, ListInv, Unpack \/ Match \/ MatchOnly \/ NoMatch
    PROVE  ListInv'
<1>1. /\ Good(tpl) /\ Listed(tpl) /\ OrderOK(stored) /\ stored.rank = Empty
  BY DEF IInv, Templates, ListInv
<1>2. Listed(stored)
  BY <1>1, EmptyRanks DEF Listed
<1>3. Listed(tpl')
  <2>1. CASE MatchOnly
    <3> PICK u \in {tpl} \union Inserted(tpl) : tpl' \in Resorted(u)
      BY <2>1 DEF MatchOnly
    <3>1. Good(u) /\ Listed(u)
      BY <1>1, InsertedGood, InsertedListed
    <3> QED BY <3>1, ResortedListed
  <2>2. CASE Unpack \/ Match \/ NoMatch
    BY <1>1, <1>2, <2>2, NewListed, ResortedListed, InsertedListed DEF Unpack, Match, NoMatch
  <2> QED BY <2>1, <2>2
<1>4. stored' = stored /\ phase' # "enrol"
  BY DEF Unpack, Match, MatchOnly, NoMatch
<1> QED BY <1>3, <1>4, ListedLater

LEMMA StudyingListed ==
    ASSUME IInv, ListInv, StudyProbe \/ StudyCandidate
    PROVE  ListInv'
<1>1. /\ Good(tpl) /\ Listed(tpl) /\ sensor \in {"paired", "plain"} /\ (sensor = "plain" => AgesNumber(tpl))
  BY DEF IInv, Templates, Fits, ListInv, ControlOK
<1>2. \A o \in Study(tpl) : Listed(o.tpl) /\ Keeps(tpl, o)
  BY <1>1, StudyListed, StudyKeeps
<1>3. CASE StudyProbe
  <2>1. Listed(tpl') /\ stored' = stored /\ phase' # "enrol"
    BY <1>2, <1>3 DEF StudyProbe
  <2> QED BY <2>1, ListedLater
<1>4. CASE StudyCandidate
  <2>1. pass.next \in Candidate /\ tpl.rank[pass.next] # -1 /\ ~tpl.retired
    <3>1. /\ phase = "pass" /\ pass.next # 0 /\ tpl.rank[pass.next] # -1
      BY <1>4 DEF StudyCandidate
    <3>2. pass.next \in 0..CACHE /\ ~tpl.retired
      BY <3>1 DEF IInv, ControlOK, PassOK
    <3> QED BY <3>1, <3>2, MilanAssumption DEF Candidate, MilanAssumption
  <2>2. PICK o \in Study(tpl) : tpl' = Taken(o.tpl, pass.next)
    BY <1>4 DEF StudyCandidate
  <2>3. Good(o.tpl) /\ Listed(o.tpl) /\ o.tpl.rank = tpl.rank
    BY <1>2, <2>1 DEF Keeps
  <2>4. RanksOK(tpl'.rank)
    BY <2>1, <2>2, <2>3, TakenCompact DEF Listed
  <2>5. tpl'.order = o.tpl.order /\ tpl'.age = o.tpl.age
    BY <2>2, <2>3, SubTemplates DEF Taken, Template
  <2>6. OrderOK(tpl')
    BY <2>3, <2>5, SameLists DEF Listed, Count
  <2>7. Listed(tpl') /\ stored' = stored /\ phase' # "enrol"
    BY <1>4, <2>4, <2>6 DEF Listed, StudyCandidate
  <2> QED BY <2>7, ListedLater
<1> QED BY <1>3, <1>4

LEMMA SettlingListed ==
    ASSUME IInv, ListInv, SettlePaired \/ SettlePlain
    PROVE  ListInv'
<1>1. Good(tpl) /\ Listed(tpl) /\ tpl \in Template
  BY SubTemplates DEF IInv, Templates, ListInv
<1>2. /\ Retired(tpl).age = tpl.age /\ Retired(tpl).order = tpl.order /\ Retired(tpl).rank = Empty
  BY <1>1 DEF Retired, Template
<1>3. CASE SettlePaired
  <2>1. PICK more : \/ tpl' = [tpl EXCEPT !.counter = @ + more]
                    \/ tpl' = Retired([tpl EXCEPT !.counter = @ + more])
    BY <1>3 DEF SettlePaired
  <2>2. tpl'.age = tpl.age /\ tpl'.order = tpl.order /\ (tpl'.rank = tpl.rank \/ tpl'.rank = Empty)
    BY <1>1, <2>1 DEF Retired, Template
  <2>3. Listed(tpl') /\ stored' = stored /\ phase' # "enrol"
    BY <1>1, <1>3, <2>2, PlainChangeListed DEF SettlePaired
  <2> QED BY <2>3, ListedLater
<1>4. CASE SettlePlain
  <2> DEFINE t == IF Count(tpl) = MAX /\ ~tpl.retired THEN Retired(tpl) ELSE tpl
  <2>1. PICK u \in IF probe = "refused" /\ ~t.retired THEN Inserted(t) ELSE {t} : tpl' \in Resorted(u)
    BY <1>4 DEF SettlePlain
  <2>2. Good(t) /\ Listed(t)
    BY <1>1, <1>2, PlainChangeListed, RetiredGood
  <2> HIDE DEF t
  <2>3. Good(u) /\ Listed(u)
    BY <2>1, <2>2, InsertedGood, InsertedListed
  <2>4. Listed(tpl') /\ stored' = stored /\ phase' # "enrol"
    BY <1>4, <2>1, <2>3, ResortedListed DEF SettlePlain
  <2> QED BY <2>4, ListedLater
<1> QED BY <1>3, <1>4

LEMMA ListStep == IInv /\ ListInv /\ [Next]_vars => ListInv'
<1> SUFFICES ASSUME IInv, ListInv, [Next]_vars PROVE ListInv'
  OBVIOUS
<1>1. CASE UNCHANGED <<tpl, stored>> /\ (phase' = "enrol" => phase = "enrol")
  BY <1>1 DEF ListInv, AsEnrolled
<1>2. CASE UNCHANGED vars \/ SkipProbe \/ TakeChanged \/ PassOver \/ EndPass
  BY <1>1, <1>2 DEF vars, SkipProbe, TakeChanged, PassOver, EndPass
<1> QED BY <1>2, EnrolmentListed, PackingListed, ComparisonListed, StudyingListed, SettlingListed DEF Next

LEMMA ListInit == Init => ListInv
<1> SUFFICES ASSUME Init PROVE ListInv
  OBVIOUS
<1>1. Count(NewTemp) = 0
  BY DEF NewTemp, Count
<1> QED BY <1>1, NewListed DEF Init, ListInv, Listed, AsEnrolled

LEMMA ListAlways == Spec => []ListInv
<1> QED BY ListInit, ListStep, MilanInvariant, PTL DEF Spec

\* Recognition tries every sub-template once, after any removals and studies.
THEOREM MilanOrderComplete == Spec => []OrderComplete
<1>1. ListInv => OrderComplete
  BY DEF ListInv, Listed, OrderOK, OrderComplete
<1> QED BY <1>1, ListAlways, PTL

\* FUN_18001f370 and FUN_18001b260: ranks of n cached candidates are 0 to n - 1, each once.
THEOREM MilanRanksCompact == Spec => []RanksCompact
<1>1. IInv /\ ListInv => RanksCompact
  <2> SUFFICES ASSUME IInv, ListInv PROVE RanksCompact
    OBVIOUS
  <2>1. PICK rank \in [Candidate -> -1..(CACHE - 1)] : rank = tpl.rank
    BY TemplateFields DEF IInv, Templates, Good
  <2>2. PICK k \in 0..CACHE : Compact(rank, k)
    BY <2>1 DEF ListInv, Listed, RanksOK
  <2>3. CACHE \in Nat
    BY MilanAssumption DEF MilanAssumption
  <2>4. ASSUME NEW c \in Candidate, rank[c] > 0 PROVE \E d \in Candidate : rank[d] = rank[c] - 1
    <3>1. rank[c] \in -1..(CACHE - 1) /\ rank[c] < k
      BY <2>1, <2>2 DEF Compact
    <3>2. rank[c] - 1 \in 0..(k - 1)
      BY <2>3, <2>4, <3>1
    <3> QED BY <2>2, <3>2 DEF Compact
  <2>5. \A c, d \in Candidate : rank[c] >= 0 /\ rank[d] = rank[c] => d = c
    BY <2>2 DEF Compact
  <2> QED BY <2>1, <2>4, <2>5 DEF RanksCompact
<1> QED BY <1>1, ListAlways, MilanInvariant, PTL

=============================================================================
