--------------------------- MODULE GmailToolProofs ---------------------------
(***************************************************************************)
(* Proofs about the turns of a mail conversation, for any number of turns   *)
(* and processes, any mailbox, any messages and advice, and any limits that *)
(* are in the order they have in gmail-tool.ts.                             *)
(*                                                                         *)
(* Two invariants.  KeptInv says of every context that is kept, and of      *)
(* every turn for the place where it is or, while it stores, where it goes  *)
(* then, what its steps need: a hunt has found each mail once and of the    *)
(* period of its goal, and has read no bodies but for a trip.               *)
(* LatestInv says what a turn that is alone finds in the memory of its      *)
(* process and in the row.                                                  *)
(***************************************************************************)
EXTENDS GmailTool, FiniteSetTheorems, TLAPS

-----------------------------------------------------------------------------
(* Sequences, and the places of a sequence *)

\* A sequence has as many places as it is long.
LEMMA Indices ==
  ASSUME NEW s, NEW S, s \in Seq(S)
  PROVE  /\ DOMAIN s = 1..Len(s) /\ Len(s) \in Nat
         /\ IsFiniteSet(DOMAIN s) /\ Cardinality(DOMAIN s) = Len(s)
<1>1. DOMAIN s = 1..Len(s) /\ Len(s) \in Nat
  OBVIOUS
<1> DEFINE n == Len(s)
<1>2. IsFiniteSet(1..n) /\ Cardinality(1..n) = IF 1 > n THEN 0 ELSE n - 1 + 1
  BY <1>1, FS_Interval
<1> HIDE DEF n
<1>3. n \in Nat => (IF 1 > n THEN 0 ELSE n - 1 + 1) = n
  OBVIOUS
<1>4. QED
  BY <1>1, <1>2, <1>3 DEF n

\* Every place has a rank, and every rank up to their number has a place.
UpTo(all, top) == {other \in all : other <= top}

LEMMA Rank ==
  ASSUME NEW places \in SUBSET Nat, IsFiniteSet(places), NEW i \in places
  PROVE  Cardinality(UpTo(places, i)) \in 1..Cardinality(places)
<1> DEFINE m == Cardinality(places)
           r == Cardinality(UpTo(places, i))
<1>1. UpTo(places, i) \in SUBSET places /\ {i} \in SUBSET UpTo(places, i)
  BY DEF UpTo
<1>2. IsFiniteSet(UpTo(places, i)) /\ r <= m
  BY <1>1, FS_Subset
<1>3. Cardinality({i}) = 1 /\ Cardinality({i}) <= r
  BY <1>1, <1>2, FS_Subset, FS_Singleton
<1>4. r \in Nat /\ m \in Nat
  BY <1>2, FS_CardinalityType
<1> HIDE DEF m, r
<1>5. r \in 1..m
  BY <1>2, <1>3, <1>4
<1>6. QED
  BY <1>5 DEF m, r

\* Two places of one rank are the same.
LEMMA OneOfARank ==
  ASSUME NEW places \in SUBSET Nat, IsFiniteSet(places),
         NEW i \in places, NEW j \in places,
         Cardinality(UpTo(places, i)) = Cardinality(UpTo(places, j))
  PROVE  i = j
<1>1. ASSUME NEW x \in places, NEW y \in places, x < y
      PROVE  Cardinality(UpTo(places, x)) # Cardinality(UpTo(places, y))
  <2>1. x \in Nat /\ y \in Nat /\ \A z \in places : z \in Nat /\ (z <= x => z <= y)
    BY <1>1
  <2>2. UpTo(places, x) \in SUBSET UpTo(places, y)
    BY <2>1 DEF UpTo
  <2>3. UpTo(places, y) \in SUBSET places
    BY DEF UpTo
  <2>4. y \in UpTo(places, y)
    BY <2>1 DEF UpTo
  <2>5. y \notin UpTo(places, x)
    <3>1. ~(y <= x)
      BY <1>1, <2>1
    <3>2. QED
      BY <3>1 DEF UpTo
  <2>6. IsFiniteSet(UpTo(places, y))
    BY <2>3, FS_Subset
  <2>7. QED
    BY <2>2, <2>4, <2>5, <2>6, FS_Subset
<1>2. ~(i < j)
  BY <1>1
<1>3. ~(j < i)
  BY <1>1
<1>4. i \in Nat /\ j \in Nat
  OBVIOUS
<1>5. QED
  BY <1>2, <1>3, <1>4, SMT

\* Nth is the place of a rank: each rank has one, and each place is one.
LEMMA Places ==
  ASSUME NEW places \in SUBSET Nat, IsFiniteSet(places)
  PROVE  /\ \A n \in 1..Cardinality(places) :
              /\ Nth(places, n) \in places
              /\ Cardinality(UpTo(places, Nth(places, n))) = n
         /\ \A i \in places :
              \E n \in 1..Cardinality(places) : Nth(places, n) = i
<1> DEFINE m == Cardinality(places)
           rank == [i \in places |-> Cardinality(UpTo(places, i))]
<1>1. IsFiniteSet(1..m) /\ Cardinality(1..m) = m
  <2>1. m \in Nat
    BY FS_CardinalityType
  <2>2. IsFiniteSet(1..m) /\ Cardinality(1..m) = IF 1 > m THEN 0 ELSE m - 1 + 1
    BY <2>1, FS_Interval
  <2> HIDE DEF m
  <2>3. QED
    BY <2>1, <2>2
<1>2. rank \in Surjection(places, 1..m)
  <2>1. rank \in [places -> 1..m]
    BY Rank
  <2>2. rank \in Injection(places, 1..m)
    BY <2>1, OneOfARank DEF Injection, IsInjective
  <2>3. QED
    BY <2>2, <1>1, FS_Injection
<1>3. ASSUME NEW n \in 1..m
      PROVE  Nth(places, n) \in places /\ Cardinality(UpTo(places, Nth(places, n))) = n
  <2>1. PICK i \in places : rank[i] = n
    BY <1>2 DEF Surjection
  <2>2. Cardinality(UpTo(places, i)) = n
    BY <2>1
  <2>3. QED
    BY <2>2 DEF Nth, UpTo
<1>4. ASSUME NEW i \in places
      PROVE  \E n \in 1..m : Nth(places, n) = i
  <2> DEFINE n == Cardinality(UpTo(places, i))
  <2>1. n \in 1..m
    BY Rank
  <2>2. Nth(places, n) = i
    BY <2>1, <1>3, OneOfARank
  <2>3. QED
    BY <2>1, <2>2
<1>5. QED
  BY <1>3, <1>4

\* A pick has exactly the members at the places, each place once.
LEMMA PickedIs ==
  ASSUME NEW S, NEW s \in Seq(S), NEW places \in SUBSET DOMAIN s
  PROVE  /\ Picked(s, places) \in Seq(S)
         /\ Len(Picked(s, places)) = Cardinality(places)
         /\ Cardinality(places) \in 0..Len(s)
         /\ Picked(s, places) = <<>> <=> places = {}
         /\ \A n \in DOMAIN Picked(s, places) :
              /\ Nth(places, n) \in places
              /\ Picked(s, places)[n] = s[Nth(places, n)]
         /\ \A n, k \in DOMAIN Picked(s, places) :
              Nth(places, n) = Nth(places, k) => n = k
         /\ \A i \in places :
              \E n \in DOMAIN Picked(s, places) : Picked(s, places)[n] = s[i]
<1> DEFINE m == Cardinality(places)
           new == Picked(s, places)
<1>1. /\ DOMAIN s = 1..Len(s) /\ Len(s) \in Nat
      /\ IsFiniteSet(DOMAIN s) /\ Cardinality(DOMAIN s) = Len(s)
  BY Indices
<1>2. IsFiniteSet(places) /\ m <= Len(s) /\ places \in SUBSET Nat
  BY <1>1, FS_Subset
<1>3. m \in Nat /\ m \in 0..Len(s)
  BY <1>1, <1>2, FS_CardinalityType
<1>4. /\ \A n \in 1..m : Nth(places, n) \in places
      /\ \A n \in 1..m : Cardinality(UpTo(places, Nth(places, n))) = n
      /\ \A i \in places : \E n \in 1..m : Nth(places, n) = i
  BY <1>2, Places
<1>5. places = {} <=> m = 0
  BY <1>2, FS_EmptySet
<1>6. new = [n \in 1..m |-> s[Nth(places, n)]]
  BY DEF Picked
<1> HIDE DEF m, new
<1>7. \A n \in 1..m : new[n] = s[Nth(places, n)] /\ new[n] \in S
  BY <1>4, <1>6
<1>8. new \in Seq(S) /\ Len(new) = m /\ DOMAIN new = 1..m /\ (new = <<>> <=> m = 0)
  BY <1>3, <1>6, <1>7
<1>9. \A n, k \in 1..m : Nth(places, n) = Nth(places, k) => n = k
  BY <1>4
<1>10. \A i \in places : \E n \in 1..m : new[n] = s[i]
  BY <1>4, <1>7
<1>11. QED
  BY <1>3, <1>4, <1>5, <1>7, <1>8, <1>9, <1>10 DEF m, new

-----------------------------------------------------------------------------
(* Lists of mails: each mail once, all of one period *)

Once(s) == \A i, j \in DOMAIN s : s[i].id = s[j].id => i = j
OfPeriodOf(s, p) == p # "any" => \A i \in DOMAIN s : s[i].period = p
Good(s, p) == s \in Seq(Mails) /\ Once(s) /\ OfPeriodOf(s, p)

\* The empty list is good for every period.
LEMMA GoodNothing == \A p : Good(<<>>, p)
BY DEF Good, Once, OfPeriodOf

\* A pick of a good list is good.
LEMMA GoodPicked ==
  ASSUME NEW p, NEW s, Good(s, p), NEW places \in SUBSET DOMAIN s
  PROVE  /\ Good(Picked(s, places), p)
         /\ Len(Picked(s, places)) \in 0..Len(s)
         /\ \A n \in DOMAIN Picked(s, places) : \E i \in places : Picked(s, places)[n] = s[i]
<1> DEFINE new == Picked(s, places)
<1>1. s \in Seq(Mails) /\ Once(s) /\ OfPeriodOf(s, p)
  BY DEF Good
<1>2. /\ new \in Seq(Mails) /\ Len(new) \in 0..Len(s)
      /\ \A n \in DOMAIN new : Nth(places, n) \in places /\ new[n] = s[Nth(places, n)]
      /\ \A n, k \in DOMAIN new : Nth(places, n) = Nth(places, k) => n = k
  BY <1>1, PickedIs
<1> HIDE DEF new
<1>3. \A n \in DOMAIN new : Nth(places, n) \in DOMAIN s
  BY <1>2
<1>4. Once(new)
  BY <1>1, <1>2, <1>3 DEF Once
<1>5. OfPeriodOf(new, p)
  BY <1>1, <1>2, <1>3 DEF OfPeriodOf
<1>6. \A n \in DOMAIN new : \E i \in places : new[n] = s[i]
  BY <1>2
<1>7. QED
  BY <1>2, <1>4, <1>5, <1>6 DEF new, Good

\* AtMost is the beginning of a list, and no longer than asked for.
LEMMA AtMostIs ==
  ASSUME NEW S, NEW s \in Seq(S), NEW n \in Nat
  PROVE  /\ AtMost(n, s) \in Seq(S)
         /\ Len(AtMost(n, s)) = Smaller(Len(s), n)
         /\ Len(AtMost(n, s)) <= n /\ Len(AtMost(n, s)) <= Len(s)
         /\ DOMAIN AtMost(n, s) = 1..Smaller(Len(s), n)
         /\ DOMAIN AtMost(n, s) \subseteq DOMAIN s
         /\ \A i \in DOMAIN AtMost(n, s) : AtMost(n, s)[i] = s[i]
<1> DEFINE m == IF Len(s) < n THEN Len(s) ELSE n
<1>1. m \in Nat /\ m <= Len(s) /\ m <= n /\ m = Smaller(Len(s), n) /\ 1..m \subseteq DOMAIN s
  BY DEF Smaller
<1>2. AtMost(n, s) = SubSeq(s, 1, m)
  BY DEF AtMost
<1> HIDE DEF m
<1>3. /\ SubSeq(s, 1, m) \in Seq(S)
      /\ Len(SubSeq(s, 1, m)) = m
      /\ \A i \in 1..m : SubSeq(s, 1, m)[i] = s[i]
  BY <1>1
<1>4. DOMAIN SubSeq(s, 1, m) = 1..m
  BY <1>3
<1>5. QED
  BY <1>1, <1>2, <1>3, <1>4

\* The beginning of a good list is good.
LEMMA GoodAtMost ==
  ASSUME NEW p, NEW s, Good(s, p), NEW n \in Nat
  PROVE  Good(AtMost(n, s), p)
<1> DEFINE new == AtMost(n, s)
<1>1. s \in Seq(Mails) /\ Once(s) /\ OfPeriodOf(s, p)
  BY DEF Good
<1>2. /\ new \in Seq(Mails) /\ DOMAIN new \subseteq DOMAIN s
      /\ \A i \in DOMAIN new : new[i] = s[i]
  BY <1>1, AtMostIs
<1> HIDE DEF new
<1>3. Once(new) /\ OfPeriodOf(new, p)
  BY <1>1, <1>2 DEF Once, OfPeriodOf
<1>4. QED
  BY <1>2, <1>3 DEF new, Good

\* The records of a good list of mails are good.
LEMMA GoodRecords ==
  ASSUME NEW p, NEW s, Good(s, p)
  PROVE  Good(Records(s), p)
<1> DEFINE places == {i \in DOMAIN s : s[i].paid}
<1>1. places \in SUBSET DOMAIN s
  OBVIOUS
<1>2. QED
  BY <1>1, GoodPicked DEF Records

\* Bodies: what is read of a mail is neither its id nor its period.
LEMMA ReadIs ==
  ASSUME NEW mail \in Mails
  PROVE  Read(mail) \in Mails /\ Read(mail).id = mail.id /\ Read(mail).period = mail.period
BY DEF Read, Mails, Shown

\* A list with the ids and the periods of a good one is good.
LEMMA GoodSame ==
  ASSUME NEW p, NEW s, Good(s, p), NEW new, DOMAIN new = DOMAIN s, new \in Seq(Mails),
         \A i \in DOMAIN s : new[i].id = s[i].id /\ new[i].period = s[i].period
  PROVE  Good(new, p)
<1>1. Once(new)
  BY DEF Good, Once
<1>2. OfPeriodOf(new, p)
  BY DEF Good, OfPeriodOf
<1>3. QED
  BY <1>1, <1>2 DEF Good

\* A function on the indices of a sequence is one.
LEMMA MadeSequence ==
  ASSUME NEW S, NEW s \in Seq(S), NEW T, NEW f \in [DOMAIN s -> T]
  PROVE  f \in Seq(T) /\ DOMAIN f = DOMAIN s
<1> DEFINE n == Len(s)
<1>1. n \in Nat /\ DOMAIN s = 1..n
  OBVIOUS
<1> HIDE DEF n
<1>2. QED
  BY <1>1

\* Opening bodies keeps ids and periods, and reads a few.
LEMMA OpenIs ==
  ASSUME NEW p, NEW s, Good(s, p), NEW doubtful \in Seq(Mails)
  PROVE  /\ Good(Open(s, doubtful).records, p)
         /\ DOMAIN Open(s, doubtful).records = DOMAIN s
         /\ \A i \in DOMAIN s : Open(s, doubtful).records[i].id = s[i].id
         /\ Open(s, doubtful).bodies \in Nat /\ Open(s, doubtful).bodies <= BodyChecks
<1> DEFINE opened == AtMost(BodyChecks, doubtful)
           new == [i \in DOMAIN s |-> IF s[i] \in Range(opened) THEN Read(s[i]) ELSE s[i]]
<1>1. Open(s, doubtful).records = new /\ Open(s, doubtful).bodies = Len(opened)
  BY DEF Open
<1>2. s \in Seq(Mails)
  BY DEF Good
<1>3. \A i \in DOMAIN s : s[i] \in Mails
  BY <1>2
<1>4. \A i \in DOMAIN s : /\ new[i] \in Mails
                          /\ new[i].id = s[i].id /\ new[i].period = s[i].period
  BY <1>3, ReadIs
<1>5. new \in [DOMAIN s -> Mails]
  BY <1>4
<1> HIDE DEF new
<1>6. new \in Seq(Mails) /\ DOMAIN new = DOMAIN s
  BY <1>2, <1>5, MadeSequence
<1>7. Good(new, p)
  BY <1>4, <1>6, GoodSame
<1>8. Len(opened) \in Nat /\ Len(opened) <= BodyChecks
  BY LimitsAssumption, AtMostIs
<1> HIDE DEF opened
<1>9. QED
  BY <1>1, <1>4, <1>6, <1>7, <1>8

\* A list has as many ids as mails if it has each once, and never more.
LEMMA CountIds ==
  ASSUME NEW s \in Seq(Mails)
  PROVE  /\ Ids(s) \in SUBSET Nat /\ IsFiniteSet(Ids(s))
         /\ Cardinality(Ids(s)) \in 0..Len(s)
         /\ Once(s) => Cardinality(Ids(s)) = Len(s)
<1> DEFINE f == [i \in DOMAIN s |-> s[i].id]
<1>1. IsFiniteSet(DOMAIN s) /\ Cardinality(DOMAIN s) = Len(s) /\ Len(s) \in Nat
  BY Indices
<1>2. \A i \in DOMAIN s : s[i].id \in Nat
  <2>1. \A i \in DOMAIN s : s[i] \in Mails
    OBVIOUS
  <2>2. QED
    BY <2>1 DEF Mails
<1>3. f \in Surjection(DOMAIN s, Ids(s))
  BY DEF Ids, Surjection
<1>4. Once(s) => f \in Injection(DOMAIN s, Ids(s))
  BY <1>3 DEF Once, Injection, IsInjective, Surjection
<1>5. /\ IsFiniteSet(Ids(s)) /\ Cardinality(Ids(s)) <= Len(s)
      /\ Once(s) => Cardinality(Ids(s)) = Len(s)
  BY <1>1, <1>3, <1>4, FS_Surjection
<1>6. Ids(s) \in SUBSET Nat
  BY <1>2 DEF Ids
<1>7. Cardinality(Ids(s)) \in Nat
  BY <1>5, FS_CardinalityType
<1>8. QED
  BY <1>1, <1>5, <1>6, <1>7

-----------------------------------------------------------------------------
(* What a search finds in a mailbox *)

AMailbox(box) == box \in Seq(Mails) /\ Once(box)

\* It finds what is in the mailbox, which is not so of what was opened.
From(s, box) == \A n \in DOMAIN s : \E i \in DOMAIN box : s[n] = box[i]

LEMMA MailboxesAre == \A box \in Mailboxes : AMailbox(box)
BY MailboxesAssumption DEF AMailbox, Once

\* A query finds mails of the mailbox, each once, of the period asked for.
LEMMA MatchingIs ==
  ASSUME NEW box, AMailbox(box), NEW p \in Periods, NEW precise \in BOOLEAN, NEW trip \in BOOLEAN
  PROVE  LET q == [period |-> p, precise |-> precise, trip |-> trip]
         IN  Good(Matching(box, q), p) /\ From(Matching(box, q), box)
<1> DEFINE q == [period |-> p, precise |-> precise, trip |-> trip]
           places == {i \in DOMAIN box : Matches(box[i], q)}
           new == Picked(box, places)
<1>1. Good(box, "any")
  BY DEF AMailbox, Good, OfPeriodOf
<1>2. places \in SUBSET DOMAIN box
  OBVIOUS
<1>3. \A i \in places : p # "any" => box[i].period = p
  BY DEF Matches
<1>4. new = Matching(box, q)
  BY DEF Matching
<1> HIDE DEF places
<1>5. Good(new, "any") /\ \A n \in DOMAIN new : \E i \in places : new[n] = box[i]
  BY <1>1, <1>2, GoodPicked
<1> HIDE DEF new, q
<1>6. OfPeriodOf(new, p)
  BY <1>3, <1>5 DEF OfPeriodOf
<1>7. Good(new, p)
  BY <1>5, <1>6 DEF Good
<1>8. From(new, box)
  BY <1>2, <1>5 DEF From
<1>9. QED
  BY <1>4, <1>7, <1>8 DEF q

GoodResult(r, p, max) ==
  /\ Good(r.mails, p) /\ Good(r.records, p) /\ r.estimate \in Nat
  /\ Len(r.mails) <= max

\* What a result is made of.
LEMMA ResultIs ==
  ASSUME NEW p, NEW max \in Nat, NEW mails, Good(mails, p), Len(mails) <= max,
         NEW estimate \in Nat
  PROVE  GoodResult(Result(mails, estimate), p, max)
BY GoodRecords DEF Result, GoodResult

\* One search of Gmail is a good result.
LEMMA FetchIs ==
  ASSUME NEW box, AMailbox(box), NEW p \in Periods, NEW precise \in BOOLEAN, NEW trip \in BOOLEAN,
         NEW max \in Nat
  PROVE  GoodResult(Fetch(box, [period |-> p, precise |-> precise, trip |-> trip], max), p, max)
<1> DEFINE q == [period |-> p, precise |-> precise, trip |-> trip]
           all == Matching(box, q)
<1>1. Good(all, p)
  BY MatchingIs
<1> HIDE DEF q
<1>2. all \in Seq(Mails)
  BY <1>1 DEF Good
<1>3. Len(all) \in Nat
  BY <1>2
<1>4. Good(AtMost(max, all), p) /\ Len(AtMost(max, all)) <= max
  BY <1>1, <1>2, GoodAtMost, AtMostIs
<1>5. GoodResult(Result(AtMost(max, all), Len(all)), p, max)
  BY <1>3, <1>4, ResultIs
<1>6. QED
  BY <1>5 DEF Fetch, q

\* Two lists of a mailbox that share no mail, one after the other.
LEMMA GoodBoth ==
  ASSUME NEW box, AMailbox(box), NEW p, NEW a, NEW b, Good(a, p), Good(b, p),
         From(a, box), From(b, box), \A i \in DOMAIN a, j \in DOMAIN b : a[i] # b[j]
  PROVE  Good(a \o b, p)
<1> DEFINE m == Len(a)
           n == Len(b)
           both == a \o b
<1>1. a \in Seq(Mails) /\ b \in Seq(Mails) /\ Once(a) /\ Once(b)
  BY DEF Good
<1>2. /\ m \in Nat /\ n \in Nat /\ DOMAIN a = 1..m /\ DOMAIN b = 1..n
      /\ both \in Seq(Mails)
  BY <1>1
<1>3. DOMAIN both = 1..(m + n) /\ \A i \in 1..(m + n) : both[i] = IF i <= m THEN a[i] ELSE b[i - m]
  BY <1>1, <1>2
<1> HIDE DEF m, n, both
<1>4. \A i \in 1..(m + n) :
        \/ i <= m /\ i \in DOMAIN a /\ both[i] = a[i]
        \/ i > m /\ i - m \in DOMAIN b /\ both[i] = b[i - m]
  BY <1>2, <1>3
<1>5. \A i \in DOMAIN a, j \in DOMAIN b : a[i].id # b[j].id
  BY DEF From, AMailbox, Once
<1>6. ASSUME NEW i \in 1..(m + n), NEW j \in 1..(m + n), both[i].id = both[j].id
      PROVE  i = j
  <2>1. CASE i <= m /\ j <= m
    <3>1. i \in DOMAIN a /\ j \in DOMAIN a /\ both[i] = a[i] /\ both[j] = a[j]
      BY <2>1, <1>2, <1>4
    <3>2. QED
      BY <3>1, <1>1, <1>6 DEF Once
  <2>2. CASE i > m /\ j > m
    <3>1. /\ i - m \in DOMAIN b /\ both[i] = b[i - m]
          /\ j - m \in DOMAIN b /\ both[j] = b[j - m]
      BY <2>2, <1>2, <1>4
    <3>2. i - m = j - m
      BY <3>1, <1>1, <1>6 DEF Once
    <3>3. QED
      BY <3>2, <1>2
  <2>3. CASE i <= m /\ j > m
    <3>1. i \in DOMAIN a /\ both[i] = a[i] /\ j - m \in DOMAIN b /\ both[j] = b[j - m]
      BY <2>3, <1>2, <1>4
    <3>2. QED
      BY <3>1, <1>5, <1>6
  <2>4. CASE i > m /\ j <= m
    <3>1. j \in DOMAIN a /\ both[j] = a[j] /\ i - m \in DOMAIN b /\ both[i] = b[i - m]
      BY <2>4, <1>2, <1>4
    <3>2. QED
      BY <3>1, <1>5, <1>6
  <2>5. (i <= m \/ i > m) /\ (j <= m \/ j > m)
    BY <1>2
  <2>6. QED
    BY <2>1, <2>2, <2>3, <2>4, <2>5
<1>7. Once(both)
  BY <1>3, <1>6 DEF Once
<1>8. OfPeriodOf(both, p)
  <2>1. OfPeriodOf(a, p) /\ OfPeriodOf(b, p)
    BY DEF Good
  <2>2. QED
    BY <2>1, <1>3, <1>4 DEF OfPeriodOf
<1>9. QED
  BY <1>2, <1>7, <1>8 DEF Good, both

\* A search by several queries counts no mail twice.
LEMMA AcrossIs ==
  ASSUME NEW box, AMailbox(box), NEW p \in Periods, NEW max \in Nat
  PROVE  GoodResult(Across(box, [period |-> p, precise |-> TRUE, trip |-> FALSE],
                           [period |-> p, precise |-> FALSE, trip |-> FALSE], max), p, max)
<1> DEFINE q == [period |-> p, precise |-> TRUE, trip |-> FALSE]
           wider == [period |-> p, precise |-> FALSE, trip |-> FALSE]
           some == Matching(box, q)
           all == Matching(box, wider)
           first == AtMost(max, some)
           second == AtMost(max - Len(first), all)
           places == {i \in DOMAIN second : second[i] \notin Range(first)}
           new == Picked(second, places)
<1>1. Good(some, p) /\ From(some, box) /\ Good(all, p) /\ From(all, box)
  BY MatchingIs
<1> HIDE DEF q, wider, some, all
<1>2. some \in Seq(Mails) /\ all \in Seq(Mails) /\ Len(some) \in Nat /\ Len(all) \in Nat
  BY <1>1 DEF Good
<1>3. /\ Good(first, p) /\ Len(first) <= max /\ first \in Seq(Mails)
      /\ DOMAIN first \subseteq DOMAIN some /\ \A i \in DOMAIN first : first[i] = some[i]
  BY <1>1, <1>2, GoodAtMost, AtMostIs
<1> HIDE DEF first
<1>4. Len(first) \in Nat /\ max - Len(first) \in Nat
  BY <1>3
<1>5. /\ Good(second, p) /\ Len(second) <= max - Len(first) /\ second \in Seq(Mails)
      /\ DOMAIN second \subseteq DOMAIN all /\ \A i \in DOMAIN second : second[i] = all[i]
  BY <1>1, <1>2, <1>4, GoodAtMost, AtMostIs
<1> HIDE DEF second
<1>6. places \in SUBSET DOMAIN second /\ \A i \in places : second[i] \notin Range(first)
  OBVIOUS
<1> HIDE DEF places
<1>7. /\ Good(new, p) /\ Len(new) \in 0..Len(second)
      /\ \A n \in DOMAIN new : \E i \in places : new[n] = second[i]
  BY <1>5, <1>6, GoodPicked
<1> HIDE DEF new
<1>8. From(first, box)
  BY <1>1, <1>3 DEF From
<1>9. From(new, box)
  BY <1>1, <1>5, <1>6, <1>7 DEF From
<1>10. \A i \in DOMAIN first, j \in DOMAIN new : first[i] # new[j]
  <2>1. \A i \in DOMAIN first : first[i] \in Range(first)
    BY DEF Range
  <2>2. QED
    BY <2>1, <1>6, <1>7
<1>11. Good(first \o new, p)
  BY <1>3, <1>7, <1>8, <1>9, <1>10, GoodBoth
<1>12. Len(first \o new) <= max
  <2>1. new \in Seq(Mails) /\ Len(second) \in Nat
    BY <1>5, <1>7 DEF Good
  <2>2. Len(first \o new) = Len(first) + Len(new) /\ Len(new) \in Nat
    BY <2>1, <1>3
  <2>3. QED
    BY <2>1, <2>2, <1>4, <1>5, <1>7
<1>13. Larger(Len(some), Len(all)) \in Nat
  BY <1>2 DEF Larger
<1>14. /\ GoodResult(Result(first, Len(some)), p, max)
       /\ GoodResult(Result(first \o new, Larger(Len(some), Len(all))), p, max)
  BY <1>2, <1>3, <1>11, <1>12, <1>13, ResultIs
<1>15. Across(box, q, wider, max) =
         IF Len(first) = max THEN Result(first, Len(some))
         ELSE Result(first \o new, Larger(Len(some), Len(all)))
  BY DEF Across, first, second, places, new, some, all
<1>16. QED
  BY <1>14, <1>15 DEF q, wider

-----------------------------------------------------------------------------
(* The stages of a search *)


\* The limits are numbers, in the order they have in the code.
LEMMA Limits ==
  ASSUME NEW m
  PROVE  /\ ScanLimit(m) \in Nat /\ FewCandidates(m) \in Nat /\ ManyCandidates(m) \in Nat
         /\ FewCandidates(m) <= ManyCandidates(m)
         /\ MaxScan \in Nat /\ Budget \in Nat /\ BodyChecks \in Nat
<1>1. /\ Budget \in Nat /\ DefaultScan \in Nat /\ MaxScan \in Nat /\ ExtendedScan \in Nat
      /\ TopicScan \in Nat /\ WideTopicScan \in Nat /\ BodyChecks \in Nat
  BY LimitsAssumption
<1>2. ScanLimit(m) \in Nat
  BY <1>1 DEF ScanLimit, Smaller, Larger
<1>3. FewCandidates(m) \in Nat
  BY <1>1 DEF FewCandidates, Larger
<1>4. ManyCandidates(m) \in Nat /\ FewCandidates(m) <= ManyCandidates(m)
  BY <1>1, <1>3 DEF ManyCandidates, Larger
<1>5. QED
  BY <1>1, <1>2, <1>3, <1>4

Searching == {"precise", "short", "cut", "none"}
OfATrip == {"few", "many", "wide"}

HuntSound(m, h) ==
  /\ h \in Hunts
  /\ Good(h.mails, m.period) /\ Good(h.records, m.period)
  /\ Len(h.mails) <= h.limit
  /\ h.stage \in Searching => ScanLimit(m) <= h.limit
  /\ h.stage = "few" => h.limit = FewCandidates(m)
  /\ h.stage \in {"many", "wide"} => h.limit = ManyCandidates(m)

\* The calls of a stage change what was found, and what was read for it.
Finds(h, new) ==
  /\ new.stage = h.stage /\ new.trip = h.trip /\ new.limit = h.limit

\* What a stage adds to a hunt leaves it sound.
LEMMA WithIs ==
  ASSUME NEW m \in Goals, NEW h, HuntSound(m, h), NEW r, NEW max \in Nat,
         GoodResult(r, m.period, max), max <= h.limit
  PROVE  HuntSound(m, With(h, r)) /\ Finds(h, With(h, r)) /\ With(h, r).bodies = h.bodies
<1> DEFINE new == With(h, r)
<1>1. /\ h \in Hunts /\ r.mails \in Seq(Mails) /\ r.records \in Seq(Mails) /\ r.estimate \in Nat
      /\ Len(r.mails) <= max /\ h.limit \in Nat
  BY DEF HuntSound, GoodResult, Good, Hunts
<1>2. /\ new \in Hunts
      /\ new.mails = r.mails /\ new.records = r.records
      /\ new.stage = h.stage /\ new.trip = h.trip /\ new.limit = h.limit
      /\ new.bodies = h.bodies
  BY <1>1 DEF With, Hunts
<1>3. Len(new.mails) <= new.limit
  <2>1. Len(r.mails) \in Nat
    BY <1>1
  <2>2. QED
    BY <2>1, <1>1, <1>2
<1> HIDE DEF new
<1>4. HuntSound(m, new)
  BY <1>2, <1>3 DEF HuntSound, GoodResult
<1>5. QED
  BY <1>2, <1>4 DEF new, Finds

LEMMA WithTripIs ==
  ASSUME NEW m \in Goals, NEW h, HuntSound(m, h), NEW r, GoodResult(r, m.period, h.limit)
  PROVE  HuntSound(m, WithTrip(h, r)) /\ Finds(h, WithTrip(h, r))
<1> DEFINE p == m.period
           on == OnTrip(r.records, h.trip)
           opened == ReadForTrip(r.records)
           onThen == OnTrip(opened.records, h.trip)
           with == With(h, r)
<1>1. /\ h \in Hunts /\ h.trip \in BOOLEAN /\ h.limit \in Nat
      /\ Good(r.records, p) /\ r.records \in Seq(Mails)
  BY DEF HuntSound, GoodResult, Good, Hunts
<1>2. HuntSound(m, with) /\ Finds(h, with)
  BY <1>1, WithIs
<1>3. Good(on, p)
  <2> DEFINE places == {i \in DOMAIN r.records : h.trip => r.records[i].trip = "header"}
  <2>1. places \in SUBSET DOMAIN r.records
    OBVIOUS
  <2>2. QED
    BY <1>1, <2>1, GoodPicked DEF OnTrip
<1>4. Good(opened.records, p) /\ opened.bodies \in Nat
  <2> DEFINE places == {i \in DOMAIN r.records : r.records[i].trip # "header"}
  <2>1. places \in SUBSET DOMAIN r.records
    OBVIOUS
  <2>2. OffTrip(r.records) \in Seq(Mails)
    BY <1>1, <2>1, PickedIs DEF OffTrip
  <2>3. QED
    BY <1>1, <2>2, OpenIs DEF ReadForTrip
<1>5. Good(onThen, p)
  <2> DEFINE s == opened.records
             places == {i \in DOMAIN s : h.trip => s[i].trip = "header"}
  <2>1. places \in SUBSET DOMAIN s
    OBVIOUS
  <2>2. QED
    BY <1>4, <2>1, GoodPicked DEF OnTrip
<1> HIDE DEF on, opened, onThen, with, p
<1>6. CASE on # <<>>
  <2> DEFINE new == [with EXCEPT !.records = on]
  <2>1. WithTrip(h, r) = new
    BY <1>6 DEF WithTrip, on, with
  <2>2. with \in Hunts /\ on \in Seq(Mails)
    BY <1>2, <1>3 DEF HuntSound, Good
  <2>3. /\ new \in Hunts /\ new.records = on /\ new.mails = with.mails
        /\ new.stage = with.stage /\ new.trip = with.trip /\ new.limit = with.limit
    BY <2>2 DEF Hunts
  <2> HIDE DEF new
  <2>4. HuntSound(m, new)
    BY <1>2, <1>3, <2>3 DEF HuntSound, p
  <2>5. Finds(h, new)
    BY <1>2, <2>3 DEF Finds
  <2>6. QED
    BY <2>1, <2>4, <2>5
<1>7. CASE on = <<>>
  <2> DEFINE bodies == h.bodies + opened.bodies
             new == [with EXCEPT !.records = onThen, !.bodies = bodies]
  <2>1. WithTrip(h, r) = new
    BY <1>7 DEF WithTrip, on, onThen, opened, with
  <2>2. h.bodies \in Nat
    BY <1>1 DEF Hunts
  <2>3. with \in Hunts /\ onThen \in Seq(Mails) /\ bodies \in Nat
    BY <1>2, <1>4, <1>5, <2>2 DEF HuntSound, Good
  <2> HIDE DEF bodies
  <2>4. /\ new \in Hunts /\ new.records = onThen /\ new.mails = with.mails
        /\ new.stage = with.stage /\ new.trip = with.trip /\ new.limit = with.limit
    BY <2>3 DEF Hunts
  <2> HIDE DEF new
  <2>5. HuntSound(m, new)
    BY <1>2, <1>5, <2>4 DEF HuntSound, p
  <2>6. Finds(h, new)
    BY <1>2, <2>4 DEF Finds
  <2>7. QED
    BY <2>1, <2>5, <2>6
<1>8. QED
  BY <1>6, <1>7

\* The calls of a stage leave a hunt sound; those for a trip may read bodies.
LEMMA CalledIs ==
  ASSUME NEW box, AMailbox(box), NEW m \in Goals, NEW h, HuntSound(m, h), h.stage # "done"
  PROVE  /\ HuntSound(m, Called(box, m, h)) /\ Finds(h, Called(box, m, h))
         /\ h.stage \notin OfATrip => Called(box, m, h).bodies = h.bodies
<1> DEFINE p == m.period
           c == Called(box, m, h)
           broad == Fetch(box, BroadQuery(m), ScanLimit(m))
<1>1. /\ h \in Hunts /\ h.limit \in Nat /\ h.trip \in BOOLEAN /\ p \in Periods
      /\ h.stage \in Stages \ {"done"} /\ ScanLimit(m) \in Nat
  BY Limits DEF HuntSound, Hunts, Goals
<1>2. /\ GoodResult(Fetch(box, BroadQuery(m), h.limit), p, h.limit)
      /\ GoodResult(Fetch(box, Precise(m), h.limit), p, h.limit)
      /\ GoodResult(Fetch(box, Query(m, TRUE, h.trip), h.limit), p, h.limit)
      /\ GoodResult(broad, p, ScanLimit(m))
      /\ GoodResult(Across(box, Precise(m), BroadQuery(m), h.limit), p, h.limit)
  BY <1>1, FetchIs, AcrossIs DEF BroadQuery, Precise, Query
<1>3. CASE h.stage = "headers"
  <2>1. c = With(h, Fetch(box, BroadQuery(m), h.limit))
    BY <1>3 DEF Called
  <2>2. QED
    BY <2>1, <1>1, <1>2, <1>3, WithIs DEF OfATrip
<1>4. CASE h.stage = "precise"
  <2>1. c = With(h, Fetch(box, Precise(m), h.limit))
    BY <1>4 DEF Called
  <2>2. QED
    BY <2>1, <1>1, <1>2, <1>4, WithIs DEF OfATrip
<1>5. CASE h.stage \in {"expanded", "cut"}
  <2>1. c = With(h, Across(box, Precise(m), BroadQuery(m), h.limit))
    BY <1>5 DEF Called
  <2>2. QED
    BY <2>1, <1>1, <1>2, <1>5, WithIs DEF OfATrip
<1>6. CASE h.stage \in {"few", "many"}
  <2>1. c = WithTrip(h, Fetch(box, Query(m, TRUE, h.trip), h.limit))
    BY <1>6 DEF Called
  <2>2. QED
    BY <2>1, <1>2, <1>6, WithTripIs DEF OfATrip
<1>7. CASE h.stage = "wide"
  <2>1. c = WithTrip(h, Fetch(box, Precise(m), h.limit))
    BY <1>7 DEF Called
  <2>2. QED
    BY <2>1, <1>2, <1>7, WithTripIs DEF OfATrip
<1>8. CASE h.stage \in {"short", "none"}
  <2>1. c = IfMore(h, broad, \/ Len(broad.mails) > Len(h.mails)
                             \/ Len(broad.records) > Len(h.records))
    BY <1>8 DEF Called
  <2>2. c = With(h, broad) \/ c = h
    BY <2>1 DEF IfMore
  <2>3. ScanLimit(m) <= h.limit
    BY <1>8 DEF HuntSound, Searching
  <2>4. HuntSound(m, With(h, broad)) /\ Finds(h, With(h, broad)) /\ With(h, broad).bodies = h.bodies
    BY <2>3, <1>1, <1>2, WithIs
  <2>5. Finds(h, h)
    BY DEF Finds
  <2> HIDE DEF c, broad
  <2>6. QED
    BY <2>2, <2>4, <2>5, <1>8 DEF OfATrip, c
<1>9. QED
  BY <1>1, <1>3, <1>4, <1>5, <1>6, <1>7, <1>8 DEF Stages

\* A step to the next stage leaves what was found alone.
LEMMA MovesOn ==
  ASSUME NEW h \in Hunts, NEW stage \in Stages
  PROVE  [h EXCEPT !.stage = stage] = [h EXCEPT !.stage = stage, !.limit = h.limit]
BY DEF Hunts

StagesAfter(stage) ==
  CASE stage = "few" -> {"many", "wide", "done"}
    [] stage = "many" -> {"wide", "done"}
    [] stage = "wide" -> {"done"}
    [] OTHER -> Stages \ OfATrip

\* A hunt goes to a later stage, finds nothing on the way and stays sound.
LEMMA OnwardIs ==
  ASSUME NEW m \in Goals, NEW h, HuntSound(m, h), h.stage # "done"
  PROVE  /\ HuntSound(m, Onward(m, h))
         /\ Onward(m, h).stage \in StagesAfter(h.stage)
         /\ Onward(m, h).bodies = h.bodies /\ Onward(m, h).trip = h.trip
         /\ Onward(m, h).stage = "many" => h.stage = "few"
<1> DEFINE new == Onward(m, h)
<1>1. /\ h \in Hunts /\ h.limit \in Nat /\ h.stage \in Stages \ {"done"}
      /\ MaxScan \in Nat /\ ManyCandidates(m) \in Nat /\ FewCandidates(m) <= ManyCandidates(m)
      /\ FewCandidates(m) \in Nat /\ ScanLimit(m) \in Nat /\ Len(h.mails) \in Nat
  BY Limits DEF HuntSound, Hunts
<1>2. ASSUME NEW stage \in Stages, NEW limit \in Nat,
             new = [h EXCEPT !.stage = stage, !.limit = limit],
             h.limit <= limit, stage \in StagesAfter(h.stage),
             stage \in Searching => ScanLimit(m) <= limit,
             stage # "few", stage \in {"many", "wide"} => limit = ManyCandidates(m),
             stage = "many" => h.stage = "few"
      PROVE  /\ HuntSound(m, new) /\ new.stage \in StagesAfter(h.stage)
             /\ new.bodies = h.bodies /\ new.trip = h.trip
             /\ new.stage = "many" => h.stage = "few"
  <2> HIDE DEF new
  <2>1. /\ new \in Hunts /\ new.stage = stage /\ new.limit = limit
        /\ new.mails = h.mails /\ new.records = h.records
        /\ new.bodies = h.bodies /\ new.trip = h.trip
    <3> DEFINE other == [h EXCEPT !.stage = stage, !.limit = limit]
    <3>1. /\ other \in Hunts /\ other.stage = stage /\ other.limit = limit
          /\ other.mails = h.mails /\ other.records = h.records
          /\ other.bodies = h.bodies /\ other.trip = h.trip
      BY <1>1, <1>2 DEF Hunts
    <3>2. new = other
      BY <1>2
    <3> HIDE DEF other
    <3>3. QED
      BY <3>1, <3>2
  <2>2. Len(h.mails) <= limit
    BY <1>1, <1>2 DEF HuntSound
  <2>3. HuntSound(m, new)
    BY <2>1, <2>2, <1>2 DEF HuntSound
  <2>4. QED
    BY <2>1, <2>3, <1>2
<1>3. \A stage \in Stages : [h EXCEPT !.stage = stage] = [h EXCEPT !.stage = stage, !.limit = h.limit]
  BY <1>1, MovesOn
<1>4. h.stage \notin OfATrip => StagesAfter(h.stage) = Stages \ OfATrip
  BY DEF StagesAfter, OfATrip
<1>5. ASSUME h.stage \in Searching, h.stage # "none",
             new \in {OrCut(h), OrNone(h), [h EXCEPT !.stage = "short"], [h EXCEPT !.stage = "done"]}
      PROVE  \E stage \in {"short", "cut", "none", "done"}, limit \in {h.limit, MaxScan} :
               /\ new = [h EXCEPT !.stage = stage, !.limit = limit]
               /\ h.limit <= limit
  <2>1. \A stage \in {"short", "none", "done"} :
          [h EXCEPT !.stage = stage] = [h EXCEPT !.stage = stage, !.limit = h.limit]
    BY <1>3 DEF Stages
  <2>2. h.limit <= h.limit
    BY <1>1
  <2>3. CASE \E stage \in {"short", "none", "done"} : new = [h EXCEPT !.stage = stage]
    BY <2>1, <2>2, <2>3
  <2>4. CASE h.limit < MaxScan /\ new = [h EXCEPT !.stage = "cut", !.limit = MaxScan]
    <3>1. h.limit <= MaxScan
      BY <2>4, <1>1
    <3>2. QED
      BY <2>4, <3>1
  <2>5. QED
    BY <1>5, <2>3, <2>4 DEF OrCut, OrNone, MayBeCut
<1>6. CASE h.stage \in {"precise", "short", "cut"}
  <2>1. new \in {OrCut(h), OrNone(h), [h EXCEPT !.stage = "short"], [h EXCEPT !.stage = "done"]}
    BY <1>6 DEF Onward
  <2>2. PICK stage \in {"short", "cut", "none", "done"}, limit \in {h.limit, MaxScan} :
          new = [h EXCEPT !.stage = stage, !.limit = limit] /\ h.limit <= limit
    BY <2>1, <1>5, <1>6 DEF Searching
  <2>3. stage \in Stages /\ stage \in StagesAfter(h.stage) /\ limit \in Nat
    BY <1>1, <1>4, <1>6 DEF Stages, OfATrip
  <2>4. ScanLimit(m) <= h.limit
    BY <1>6 DEF HuntSound, Searching
  <2>5. ScanLimit(m) <= limit
    BY <2>2, <2>3, <2>4, <1>1
  <2> HIDE DEF new
  <2>6. QED
    BY <2>2, <2>3, <2>5, <1>2 DEF new
<1>7. CASE h.stage \in {"few", "many"}
  <2> DEFINE many == [h EXCEPT !.stage = "many", !.limit = ManyCandidates(m)]
             wide == [h EXCEPT !.stage = "wide", !.limit = ManyCandidates(m)]
             done == [h EXCEPT !.stage = "done"]
  <2>1. \/ h.stage = "few" /\ new = many
        \/ new = wide
        \/ new = done
    BY <1>7 DEF Onward
  <2>2. h.limit <= ManyCandidates(m) /\ h.limit <= h.limit
    BY <1>1, <1>7 DEF HuntSound
  <2>3. /\ "wide" \in StagesAfter(h.stage) /\ "done" \in StagesAfter(h.stage)
        /\ h.stage = "few" => "many" \in StagesAfter(h.stage)
        /\ "wide" \in Stages /\ "done" \in Stages /\ "many" \in Stages
    BY <1>7 DEF StagesAfter, Stages
  <2>4. CASE h.stage = "few" /\ new = many
    BY <2>2, <2>3, <2>4, <1>1, <1>2 DEF Searching
  <2>5. CASE new = wide
    BY <2>2, <2>3, <2>5, <1>1, <1>2 DEF Searching
  <2>6. CASE new = done
    <3>1. new = [h EXCEPT !.stage = "done", !.limit = h.limit]
      BY <2>3, <2>6, <1>3
    <3>2. QED
      BY <3>1, <2>2, <2>3, <1>1, <1>2 DEF Searching
  <2> HIDE DEF new, many, wide, done
  <2>7. QED
    BY <2>1, <2>4, <2>5, <2>6 DEF new
<1>8. CASE h.stage \in {"headers", "expanded", "none", "wide"}
  <2>1. new = [h EXCEPT !.stage = "done"]
    BY <1>8 DEF Onward
  <2>2. "done" \in Stages /\ "done" \in StagesAfter(h.stage) /\ h.limit <= h.limit
    BY <1>1, <1>8 DEF StagesAfter, Stages, OfATrip
  <2>3. new = [h EXCEPT !.stage = "done", !.limit = h.limit]
    BY <2>1, <2>2, <1>3
  <2> HIDE DEF new
  <2>4. QED
    BY <2>2, <2>3, <1>1, <1>2 DEF Searching, new
<1>9. QED
  BY <1>1, <1>6, <1>7, <1>8 DEF Stages

-----------------------------------------------------------------------------
(* A stage and the step to the next *)

LEMMA HuntStep ==
  ASSUME NEW box, AMailbox(box), NEW m \in Goals, NEW h, HuntSound(m, h), h.stage # "done"
  PROVE  /\ HuntSound(m, Onward(m, Called(box, m, h)))
         /\ h.stage \notin OfATrip =>
              /\ Onward(m, Called(box, m, h)).stage \notin OfATrip
              /\ Onward(m, Called(box, m, h)).bodies = h.bodies
<1> DEFINE c == Called(box, m, h)
           new == Onward(m, c)
<1>1. /\ HuntSound(m, c) /\ c.stage = h.stage
      /\ h.stage \notin OfATrip => c.bodies = h.bodies
  BY CalledIs DEF Finds
<1> HIDE DEF c
<1>2. HuntSound(m, new) /\ new.stage \in StagesAfter(h.stage) /\ new.bodies = c.bodies
  BY <1>1, OnwardIs
<1>3. h.stage \notin OfATrip => StagesAfter(h.stage) = Stages \ OfATrip
  BY DEF StagesAfter, OfATrip
<1> HIDE DEF new
<1>4. QED
  BY <1>1, <1>2, <1>3 DEF c, new

-----------------------------------------------------------------------------
(* The invariant of a turn *)

\* The context of a task: each mail once, and of the period of its goal unless
\* it was refined.
GoodContext(c) ==
  /\ c \in Context
  /\ Once(c.records) /\ Once(c.mails)
  /\ ~c.refined => OfPeriodOf(c.records, c.goal.period) /\ OfPeriodOf(c.mails, c.goal.period)

Holds(c) == c = NoContext \/ GoodContext(c)

\* What a message is, or what was advised for it, so that its answer need not be
\* of its period.
Exempt(r) ==
  \/ r.message.period = "any"
  \/ r.family \notin {"payment", "none"}
  \/ "coverage" \in r.message.signs \/ r.decision.intent = "coverage"

\* Where a turn that stores its context is going.
Towards(r) == IF r.pc = "store" THEN r.next ELSE r.pc

ContextPart(w, r) == IF w = "got" THEN Holds(r.context) \/ r.context = Over ELSE Holds(r.context)

ReadsPart(w, r) == (w \in {"read", "got"} => r.reads <= 2) /\ (w = "branch" => r.reads = 2)

OnTopic(w, r) == w \in {"hunt", "found"} /\ r.job = "topic"

TaskPart(w, r) ==
  /\ w \in {"payment", "refine", "issuer", "format"} \/ OnTopic(w, r) => GoodContext(r.context)
  /\ w \in {"branch", "active", "advise", "advised", "readvise", "final"} /\ r.context # NoContext =>
       r.family = r.context.family
  /\ w = "payment" => r.family # "none"
  /\ w = "search" => r.job \in Families

HuntPart(box, w, r) ==
  w \in {"hunt", "found"} =>
    /\ HuntSound(r.goal, r.hunt)
    /\ r.job # "topic" /\ "trip" \notin r.goal.signs => r.hunt.stage \notin OfATrip /\ r.hunt.bodies = 0
    /\ w = "found" <=> r.hunt.stage = "done"

PeriodPart(w, r) ==
  /\ w \in {"search", "hunt", "found"} => r.goal.period = r.message.period \/ Exempt(r)
  /\ w \in {"refine", "issuer"} \/ OnTopic(w, r) => Exempt(r)
  /\ w = "format" =>
       Exempt(r) \/ r.context.refined \/ OfPeriodOf(r.context.records, r.message.period)
  /\ w = "done" /\ r.answer.kind \in {"found", "cached"} =>
       \/ Exempt(r)
       \/ r.context # NoContext /\ r.context.refined
       \/ OfPeriodOf(r.answer.records, r.message.period)

\* What a turn that answers about a trip is about.
OfTrip(r) ==
  \/ (r.goal.signs \cup r.message.signs) \cap {"trip", "refine"} # {}
  \/ r.decision.intent = "refine_topic" \/ r.job = "topic"
  \/ r.context # NoContext /\ r.context.trip

FewOf(r) ==
  ~OfTrip(r) =>
    CASE r.answer.kind = "body" -> r.answer.bodies = 1
      [] r.answer.kind = "cached" -> r.answer.bodies <= BodyChecks
      [] OTHER -> r.answer.bodies = 0

\* There is no answer yet, but for the bodies that were read for it.
Unanswered(r) ==
  /\ r.answer.kind = "none" /\ Once(r.answer.records)
  /\ r.answer.bodies <= BodyChecks

Answered(r) ==
  /\ Once(r.answer.records)
  /\ r.answer.kind = "found" => Len(r.answer.mails) <= r.answer.limit
  /\ FewOf(r)

AnswerPart(w, r) == IF w = "done" THEN Answered(r) ELSE Unanswered(r)

Enters(box, w, r) ==
  /\ ContextPart(w, r) /\ ReadsPart(w, r) /\ TaskPart(w, r) /\ HuntPart(box, w, r)
  /\ PeriodPart(w, r) /\ AnswerPart(w, r)

TurnSound(box, r) == r \in Turn /\ Towards(r) # "store" /\ Enters(box, Towards(r), r)

\* What the invariant says of the contexts that are kept, and of every turn.
KeptInv ==
  /\ TypeOK
  /\ \A p \in Processes : Holds(memory[p])
  /\ Holds(row) \/ row = Over
  /\ \A t \in Turns : TurnSound(mailbox, turn[t])

-----------------------------------------------------------------------------
(* What the steps of a turn do to it *)

LEMMA EmptyIs == <<>> \in Seq(Mails) /\ Len(<<>>) = 0 /\ Once(<<>>) /\ \A p : OfPeriodOf(<<>>, p)
BY DEF Once, OfPeriodOf

\* A plain answer has no records and no bodies.
LEMMA AnswerIs ==
  ASSUME NEW kind \in Kinds
  PROVE  /\ Answer(kind) \in Answers
         /\ Answer(kind).kind = kind /\ Answer(kind).records = <<>> /\ Answer(kind).mails = <<>>
         /\ Answer(kind).limit = 0 /\ Answer(kind).bodies = 0
BY EmptyIs DEF Answer, Answers

\* What may be kept is a context or none.
LEMMA HoldsIs ==
  ASSUME NEW c, Holds(c)
  PROVE  c \in Context \cup {NoContext} /\ (c # NoContext => GoodContext(c) /\ c \in Context)
BY DEF Holds, GoodContext

\* Turns that differ in where they are only.
Alike(new, r) ==
  /\ new.message = r.message /\ new.reads = r.reads /\ new.context = r.context
  /\ new.decision = r.decision /\ new.family = r.family /\ new.job = r.job
  /\ new.goal = r.goal /\ new.hunt = r.hunt /\ new.answer = r.answer

LEMMA AlikeEnters ==
  ASSUME NEW box, NEW w, NEW r, NEW new, Alike(new, r), Enters(box, w, r)
  PROVE  Enters(box, w, new)
<1> USE DEF Alike
<1>1. ContextPart(w, new) /\ ReadsPart(w, new)
  BY DEF Enters, ContextPart, ReadsPart
<1>2. TaskPart(w, new)
  BY DEF Enters, TaskPart, OnTopic
<1>3. HuntPart(box, w, new)
  BY DEF Enters, HuntPart
<1>4. PeriodPart(w, new)
  BY DEF Enters, PeriodPart, OnTopic, Exempt
<1>5. AnswerPart(w, new)
  BY DEF Enters, AnswerPart, Unanswered, Answered, FewOf, OfTrip
<1>6. QED
  BY <1>1, <1>2, <1>3, <1>4, <1>5 DEF Enters

\* A step of one turn leaves what is true of the others.
LEMMA OthersStill ==
  ASSUME KeptInv, NEW t \in Turns, NEW new, TurnSound(mailbox, new), UNCHANGED mailbox,
         turn' = [turn EXCEPT ![t] = new]
  PROVE  /\ turn' \in [Turns -> Turn]
         /\ \A u \in Turns : TurnSound(mailbox', turn'[u])
<1>1. turn \in [Turns -> Turn] /\ new \in Turn
  BY DEF KeptInv, TypeOK, TurnSound
<1>2. \A u \in Turns : turn'[u] = IF u = t THEN new ELSE turn[u]
  BY <1>1
<1>3. QED
  BY <1>1, <1>2 DEF KeptInv

\* A step that changes a turn only,
LEMMA Quiet ==
  ASSUME KeptInv, NEW t \in Turns, NEW new, TurnSound(mailbox, new),
         turn' = [turn EXCEPT ![t] = new], UNCHANGED storeVars,
         UNCHANGED <<mailbox, fastPath, latest, owner>>, failures' \in 0..MaxFailures
  PROVE  KeptInv'
<1>1. /\ turn' \in [Turns -> Turn]
      /\ \A u \in Turns : TurnSound(mailbox', turn'[u])
  BY OthersStill
<1>2. TypeOK'
  BY <1>1 DEF KeptInv, TypeOK, storeVars
<1>3. QED
  BY <1>1, <1>2 DEF KeptInv, storeVars

\* and one that changes its context and the memory of its process.
LEMMA Remembers ==
  ASSUME KeptInv, NEW t \in Turns, NEW new, TurnSound(mailbox, new),
         turn' = [turn EXCEPT ![t] = new],
         NEW p \in Processes, NEW c, Holds(c), SetMemory(p, c), Still
  PROVE  KeptInv'
<1>1. /\ turn' \in [Turns -> Turn]
      /\ \A u \in Turns : TurnSound(mailbox', turn'[u])
  BY OthersStill DEF Still
<1>2. memory \in [Processes -> Context \cup {NoContext}] /\ c \in Context \cup {NoContext}
  BY HoldsIs DEF KeptInv, TypeOK
<1>3. memory' \in [Processes -> Context \cup {NoContext}]
  BY <1>2 DEF SetMemory
<1>4. TypeOK'
  BY <1>1, <1>3 DEF KeptInv, TypeOK, SetMemory, Still
<1>5. \A q \in Processes : Holds(memory'[q])
  <2>1. \A q \in Processes : memory'[q] = IF q = p THEN c ELSE memory[q]
    BY <1>2 DEF SetMemory
  <2>2. QED
    BY <2>1 DEF KeptInv
<1>6. QED
  BY <1>1, <1>4, <1>5 DEF KeptInv, SetMemory, Still

\* A turn that goes on as it is, to a place where that is enough.
LEMMA GotoIs ==
  ASSUME KeptInv, NEW t \in Turns, NEW pc \in Pcs \ {"store"}, Goto(t, pc), Still,
         Enters(mailbox, pc, turn[t])
  PROVE  KeptInv'
<1> DEFINE r == turn[t]
           new == [r EXCEPT !.pc = pc]
<1>1. r \in Turn /\ turn \in [Turns -> Turn]
  BY DEF KeptInv, TypeOK
<1>2. turn' = [turn EXCEPT ![t] = new] /\ UNCHANGED storeVars
  BY DEF Goto
<1> HIDE DEF r
<1>3. new \in Turn /\ new.pc = pc /\ Alike(new, r)
  BY <1>1 DEF Turn, Alike
<1> HIDE DEF new
<1>4. Enters(mailbox, pc, new)
  BY <1>3, AlikeEnters DEF r
<1>5. TurnSound(mailbox, new)
  BY <1>3, <1>4 DEF TurnSound, Towards
<1>6. failures' \in 0..MaxFailures
  BY DEF Still, KeptInv, TypeOK
<1>7. QED
  BY <1>2, <1>5, <1>6, Quiet DEF Still

\* The turn with its answer,
Telling(r, answer) == [r EXCEPT !.pc = "done", !.answer = answer]

LEMMA TellingIs ==
  ASSUME NEW r \in Turn, NEW answer \in Answers
  PROVE  LET new == Telling(r, answer)
         IN  /\ new \in Turn /\ new.pc = "done" /\ new.answer = answer
             /\ new.message = r.message /\ new.reads = r.reads /\ new.context = r.context
             /\ new.decision = r.decision /\ new.family = r.family /\ new.job = r.job
             /\ new.goal = r.goal /\ new.hunt = r.hunt
<1> DEFINE new == [r EXCEPT !.pc = "done", !.answer = answer]
<1>1. "done" \in Pcs
  BY DEF Pcs
<1>2. new \in Turn
  BY <1>1 DEF Turn
<1>3. /\ new.pc = "done" /\ new.answer = answer
      /\ new.message = r.message /\ new.reads = r.reads /\ new.context = r.context
      /\ new.decision = r.decision /\ new.family = r.family /\ new.job = r.job
      /\ new.goal = r.goal /\ new.hunt = r.hunt
  BY DEF Turn
<1>4. QED
  BY <1>2, <1>3 DEF Telling

\* The ways in which an answer may be of the message's period,
OfItsPeriod(answer, r) ==
  answer.kind \in {"found", "cached"} =>
    \/ Exempt(r)
    \/ r.context # NoContext /\ r.context.refined
    \/ OfPeriodOf(answer.records, r.message.period)

LEMMA DoneIs ==
  ASSUME NEW box, NEW new, Holds(new.context), Answered(new), OfItsPeriod(new.answer, new)
  PROVE  Enters(box, "done", new)
<1>1. ContextPart("done", new) /\ ReadsPart("done", new)
  BY DEF ContextPart, ReadsPart
<1>2. TaskPart("done", new) /\ HuntPart(box, "done", new)
  BY DEF TaskPart, OnTopic, HuntPart
<1>3. PeriodPart("done", new)
  BY DEF PeriodPart, OnTopic, OfItsPeriod
<1>4. AnswerPart("done", new)
  BY DEF AnswerPart
<1>5. QED
  BY <1>1, <1>2, <1>3, <1>4 DEF Enters

\* A turn that has its answer.
LEMMA ReplyIs ==
  ASSUME KeptInv, NEW t \in Turns, NEW answer \in Answers, Reply(t, answer), Still,
         Holds(turn[t].context), Answered(Telling(turn[t], answer)), OfItsPeriod(answer, turn[t])
  PROVE  KeptInv'
<1> DEFINE r == turn[t]
           new == Telling(r, answer)
<1>1. r \in Turn /\ turn \in [Turns -> Turn]
  BY DEF KeptInv, TypeOK
<1>2. turn' = [turn EXCEPT ![t] = new] /\ UNCHANGED storeVars
  BY DEF Reply, Telling
<1> HIDE DEF r
<1>3. /\ new \in Turn /\ new.pc = "done" /\ new.answer = answer
      /\ new.message = r.message /\ new.context = r.context
      /\ new.decision = r.decision /\ new.family = r.family
  BY <1>1, TellingIs
<1>4. Answered(new)
  BY DEF r
<1> HIDE DEF new
<1>5. Holds(new.context)
  BY <1>3 DEF r
<1>6. OfItsPeriod(new.answer, new)
  BY <1>3 DEF OfItsPeriod, Exempt, r
<1>7. Enters(mailbox, "done", new)
  BY <1>4, <1>5, <1>6, DoneIs
<1>8. TurnSound(mailbox, new)
  BY <1>3, <1>7 DEF TurnSound, Towards
<1>9. failures' \in 0..MaxFailures
  BY DEF Still, KeptInv, TypeOK
<1>10. QED
  BY <1>2, <1>8, <1>9, Quiet DEF Still

\* An answer that counts nothing and opened nothing.
Plain == Kinds \ {"body", "found", "cached"}

LEMMA PlainAnswered ==
  ASSUME NEW new, NEW kind \in Plain, new.answer = Answer(kind)
  PROVE  Answered(new)
<1>1. /\ new.answer.kind = kind /\ new.answer.records = <<>> /\ new.answer.bodies = 0
      /\ kind \notin {"body", "found", "cached"}
  BY AnswerIs DEF Plain
<1>2. FewOf(new)
  BY <1>1 DEF FewOf
<1>3. QED
  BY <1>1, <1>2, EmptyIs DEF Answered

\* A turn that answers without records.
LEMMA SayIs ==
  ASSUME KeptInv, NEW t \in Turns, NEW kind \in Plain, Say(t, kind), Still,
         Holds(turn[t].context)
  PROVE  KeptInv'
<1>1. Answer(kind) \in Answers /\ Answer(kind).kind = kind
  BY AnswerIs DEF Plain
<1>2. turn[t] \in Turn
  BY DEF KeptInv, TypeOK
<1>3. Answered(Telling(turn[t], Answer(kind)))
  BY <1>1, <1>2, TellingIs, PlainAnswered
<1>4. OfItsPeriod(Answer(kind), turn[t])
  BY <1>1 DEF OfItsPeriod, Plain
<1>5. QED
  BY <1>1, <1>3, <1>4, ReplyIs DEF Say

\* and the turn with a new context.
Into(r, next, c, job, goal, answer) ==
  [r EXCEPT !.pc = "store", !.context = c, !.next = next,
            !.job = job, !.goal = goal, !.answer = answer]

LEMMA IntoIs ==
  ASSUME NEW r \in Turn, NEW c, Holds(c), NEW next \in Pcs, NEW job \in Families \cup {"topic"},
         NEW goal \in Goals, NEW answer \in Answers
  PROVE  LET new == Into(r, next, c, job, goal, answer)
         IN  /\ new \in Turn /\ new.pc = "store" /\ new.next = next
             /\ new.context = c /\ new.job = job /\ new.goal = goal /\ new.answer = answer
             /\ new.message = r.message /\ new.reads = r.reads
             /\ new.decision = r.decision /\ new.family = r.family /\ new.hunt = r.hunt
<1>1. c \in Context \cup {NoContext, Over}
  BY HoldsIs
<1> DEFINE new == [r EXCEPT !.pc = "store", !.context = c, !.next = next,
                            !.job = job, !.goal = goal, !.answer = answer]
<1>2. "store" \in Pcs
  BY DEF Pcs
<1>3. new \in Turn
  BY <1>1, <1>2 DEF Turn
<1>4. /\ new.pc = "store" /\ new.next = next
      /\ new.context = c /\ new.job = job /\ new.goal = goal /\ new.answer = answer
      /\ new.message = r.message /\ new.reads = r.reads
      /\ new.decision = r.decision /\ new.family = r.family /\ new.hunt = r.hunt
  BY DEF Turn
<1>5. QED
  BY <1>3, <1>4 DEF Into

\* A turn that changes its context, and goes on after it is stored.
LEMMA SetAndIs ==
  ASSUME KeptInv, NEW t \in Turns, NEW c, Holds(c), NEW next \in Pcs \ {"store"},
         NEW job \in Families \cup {"topic"}, NEW goal \in Goals, NEW answer \in Answers,
         SetAnd(t, c, next, job, goal, answer), Still,
         Enters(mailbox, next, Into(turn[t], next, c, job, goal, answer))
  PROVE  KeptInv'
<1> DEFINE r == turn[t]
           new == Into(r, next, c, job, goal, answer)
<1>1. r \in Turn /\ turn \in [Turns -> Turn]
  BY DEF KeptInv, TypeOK
<1>2. turn' = [turn EXCEPT ![t] = new] /\ SetMemory(r.process, c)
  BY DEF SetAnd, Into
<1>3. r.process \in Processes
  BY <1>1 DEF Turn
<1>4. new \in Turn /\ new.pc = "store" /\ new.next = next
  BY <1>1, IntoIs
<1>5. Enters(mailbox, next, new)
  OBVIOUS
<1> HIDE DEF new, r
<1>6. TurnSound(mailbox, new)
  BY <1>4, <1>5 DEF TurnSound, Towards
<1>7. QED
  BY <1>2, <1>3, <1>6, Remembers

\* What is known of a turn where it is.
LEMMA HereIs ==
  ASSUME KeptInv, NEW t \in Turns, turn[t].pc # "store"
  PROVE  /\ turn \in [Turns -> Turn] /\ turn[t] \in Turn
         /\ Enters(mailbox, turn[t].pc, turn[t])
         /\ turn[t].process \in Processes /\ Holds(memory[turn[t].process])
         /\ Message(t) \in Goals /\ AMailbox(mailbox)
         /\ turn[t].answer \in Answers /\ turn[t].job \in Families \cup {"topic"}
         /\ turn[t].goal \in Goals
<1>1. turn \in [Turns -> Turn] /\ mailbox \in Mailboxes
  BY DEF KeptInv, TypeOK
<1>2. turn[t] \in Turn
  BY <1>1
<1>3. /\ turn[t].process \in Processes /\ turn[t].message \in Messages \cup {NoMessage}
      /\ turn[t].answer \in Answers /\ turn[t].job \in Families \cup {"topic"}
      /\ turn[t].goal \in Goals
  BY <1>2 DEF Turn
<1>4. NoMessage \in Goals
  BY DEF NoMessage, Goals, Periods
<1>5. Message(t) \in Goals
  BY <1>3, <1>4, MessagesAssumption DEF Message
<1>6. TurnSound(mailbox, turn[t]) /\ Towards(turn[t]) = turn[t].pc
  BY DEF KeptInv, Towards
<1>7. Enters(mailbox, turn[t].pc, turn[t])
  BY <1>6 DEF TurnSound
<1>8. Holds(memory[turn[t].process])
  BY <1>3 DEF KeptInv
<1>9. QED
  BY <1>1, <1>2, <1>3, <1>5, <1>7, <1>8, MailboxesAre

\* Its context is cleared, or is one that waits for the source.
LEMMA PlainlyLeft ==
  ASSUME KeptInv, NEW t \in Turns, NEW c, Holds(c), NEW job \in Families \cup {"topic"},
         NEW goal \in Goals, NEW kind \in Plain,
         SetAnd(t, c, "done", job, goal, Answer(kind)), Still
  PROVE  KeptInv'
<1> DEFINE r == turn[t]
           answer == Answer(kind)
           new == Into(r, "done", c, job, goal, answer)
<1>1. answer \in Answers /\ answer.kind = kind
  BY AnswerIs DEF Plain
<1>2. r \in Turn /\ "done" \in Pcs /\ "done" \in Pcs \ {"store"}
  BY DEF KeptInv, TypeOK, Pcs
<1>3. new.context = c /\ new.answer = answer
  <2> HIDE DEF r, answer
  <2>1. QED
    BY <1>1, <1>2, IntoIs
<1> HIDE DEF new
<1>4. Answered(new)
  BY <1>3, PlainAnswered
<1>5. OfItsPeriod(new.answer, new)
  BY <1>1, <1>3 DEF OfItsPeriod, Plain
<1>6. Enters(mailbox, "done", new)
  BY <1>3, <1>4, <1>5, DoneIs
<1>7. QED
  BY <1>1, <1>2, <1>6, SetAndIs DEF new

LEMMA NoMessageIs == NoMessage \in Goals
BY DEF NoMessage, Goals, Periods

\* A task that is dropped.
LEMMA DropIs ==
  ASSUME KeptInv, NEW t \in Turns, NEW kind \in Plain, Drop(t, kind), Still
  PROVE  KeptInv'
<1>1. turn[t] \in Turn
  BY DEF KeptInv, TypeOK
<1>2. turn[t].job \in Families \cup {"topic"} /\ Holds(NoContext)
  BY <1>1 DEF Turn, Holds
<1>3. QED
  BY <1>2, NoMessageIs, PlainlyLeft DEF Drop, ClearAnd

LEMMA SearchIs ==
  ASSUME NEW box, NEW new, Holds(new.context), new.job \in Families,
         new.goal.period = new.message.period \/ Exempt(new), Unanswered(new)
  PROVE  Enters(box, "search", new)
<1>1. ContextPart("search", new) /\ ReadsPart("search", new)
  BY DEF ContextPart, ReadsPart
<1>2. TaskPart("search", new) /\ HuntPart(box, "search", new)
  BY DEF TaskPart, OnTopic, HuntPart
<1>3. PeriodPart("search", new)
  BY DEF PeriodPart, OnTopic
<1>4. AnswerPart("search", new)
  BY DEF AnswerPart
<1>5. QED
  BY <1>1, <1>2, <1>3, <1>4 DEF Enters

\* A search that comes after the context is stored.
LEMMA SearchAfterSet ==
  ASSUME KeptInv, NEW t \in Turns, NEW c, Holds(c), NEW job \in Families, NEW goal \in Goals,
         SetAnd(t, c, "search", job, goal, turn[t].answer), Still,
         goal.period = Message(t).period \/ Exempt(turn[t]), Unanswered(turn[t])
  PROVE  KeptInv'
<1> DEFINE r == turn[t]
           new == Into(r, "search", c, job, goal, r.answer)
<1>1. "search" \in Pcs \ {"store"} /\ job \in Families \cup {"topic"}
  BY DEF Pcs
<1>2. r \in Turn
  BY DEF KeptInv, TypeOK
<1>3. r.answer \in Answers
  BY <1>2 DEF Turn
<1>4. /\ new.context = c /\ new.job = job /\ new.goal = goal /\ new.answer = r.answer
      /\ new.message = r.message /\ new.decision = r.decision /\ new.family = r.family
  BY <1>1, <1>2, <1>3, IntoIs
<1>5. r.answer = turn[t].answer /\ r.message = Message(t) /\ Exempt(r) <=> Exempt(turn[t])
  BY DEF Message
<1>6. Enters(mailbox, "search", new)
  <2>1. goal.period = r.message.period \/ Exempt(r)
    BY DEF Message
  <2>2. Unanswered(r)
    OBVIOUS
  <2> HIDE DEF new, r
  <2>3. new.goal.period = new.message.period \/ Exempt(new)
    BY <2>1, <1>4 DEF Exempt
  <2>4. Unanswered(new)
    BY <2>2, <1>4 DEF Unanswered
  <2>5. QED
    BY <2>3, <2>4, <1>4, SearchIs
<1>7. QED
  BY <1>1, <1>3, <1>6, SetAndIs

\* A search that starts at once.
LEMMA StartSearchIs ==
  ASSUME KeptInv, NEW t \in Turns, NEW job \in Families, NEW goal \in Goals,
         StartSearch(t, job, goal), Still, Holds(turn[t].context),
         goal.period = Message(t).period \/ Exempt(turn[t]), Unanswered(turn[t])
  PROVE  KeptInv'
<1> DEFINE r == turn[t]
           new == [r EXCEPT !.pc = "search", !.job = job, !.goal = goal]
<1>1. r \in Turn /\ "search" \in Pcs /\ job \in Families \cup {"topic"}
  BY DEF KeptInv, TypeOK, Pcs
<1>2. turn' = [turn EXCEPT ![t] = new] /\ UNCHANGED storeVars
  BY DEF StartSearch
<1>3. Holds(r.context) /\ (goal.period = r.message.period \/ Exempt(r)) /\ Unanswered(r)
  BY DEF Message
<1> HIDE DEF r
<1>4. new \in Turn
  BY <1>1 DEF Turn
<1>5. /\ new.pc = "search" /\ new.context = r.context /\ new.job = job /\ new.goal = goal
      /\ new.answer = r.answer
      /\ new.message = r.message /\ new.decision = r.decision /\ new.family = r.family
  BY <1>1 DEF Turn
<1> HIDE DEF new
<1>6. new.goal.period = new.message.period \/ Exempt(new)
  BY <1>3, <1>5 DEF Exempt
<1>7. Unanswered(new)
  BY <1>3, <1>5 DEF Unanswered
<1>8. Enters(mailbox, "search", new)
  BY <1>3, <1>5, <1>6, <1>7, SearchIs
<1>9. TurnSound(mailbox, new)
  BY <1>4, <1>5, <1>8 DEF TurnSound, Towards
<1>10. failures' \in 0..MaxFailures
  BY DEF Still, KeptInv, TypeOK
<1>11. QED
  BY <1>2, <1>9, <1>10, Quiet DEF Still

\* restartPaymentTaskFromActiveContext
LEMMA RestartIs ==
  ASSUME KeptInv, NEW t \in Turns, turn[t].pc # "store", Restart(t), Still, Unanswered(turn[t])
  PROVE  KeptInv'
<1>1. CASE turn[t].ready
  <2>1. Message(t) \in Goals /\ Holds(NoContext) /\ "payment" \in Families
    BY HereIs DEF Holds, Families
  <2>2. QED
    BY <1>1, <2>1, SearchAfterSet DEF Restart, ClearAnd
<1>2. CASE ~turn[t].ready
  BY <1>2, DropIs DEF Restart, Plain, Kinds
<1>3. QED
  BY <1>1, <1>2

-----------------------------------------------------------------------------
(* The steps: the row, and getTaskContext *)

\* The row gets the context that the memory has had already.
LEMMA StoreKeeps ==
  ASSUME KeptInv, NEW t \in Turns, Store(t)
  PROVE  KeptInv'
<1> DEFINE r == turn[t]
<1>1. turn \in [Turns -> Turn] /\ r \in Turn /\ failures \in 0..MaxFailures
  BY DEF KeptInv, TypeOK
<1>2. /\ TurnSound(mailbox, r) /\ r.pc = "store" /\ Towards(r) = r.next
  BY DEF KeptInv, Store, At, Towards
<1>3. r.next \in Pcs \ {"store"} /\ Enters(mailbox, r.next, r)
  BY <1>1, <1>2 DEF TurnSound, Turn
<1>4. ASSUME NEW sound \in BOOLEAN, NEW new,
             new = [r EXCEPT !.pc = r.next, !.wrote = TRUE, !.sound = sound]
      PROVE  TurnSound(mailbox, new)
  <2> HIDE DEF r
  <2> DEFINE other == [r EXCEPT !.pc = r.next, !.wrote = TRUE, !.sound = sound]
  <2>1. other \in Turn
    BY <1>1, <1>3 DEF Turn
  <2>2. other.pc = r.next /\ Alike(other, r)
    BY <1>1 DEF Turn, Alike
  <2> HIDE DEF other
  <2>3. Enters(mailbox, r.next, other)
    BY <2>2, <1>3, AlikeEnters
  <2>4. TurnSound(mailbox, other)
    BY <2>1, <2>2, <2>3, <1>3 DEF TurnSound, Towards
  <2>5. QED
    BY <2>4, <1>4 DEF other
<1>5. CASE WriteRow(Task(t)) /\ turn' = [turn EXCEPT ![t].pc = turn[t].next, ![t].wrote = TRUE] /\ Still
  <2> DEFINE new == [r EXCEPT !.pc = r.next, !.wrote = TRUE]
  <2>1. new = [r EXCEPT !.pc = r.next, !.wrote = TRUE, !.sound = r.sound] /\ r.sound \in BOOLEAN
    BY <1>1 DEF Turn
  <2>2. turn' = [turn EXCEPT ![t] = new]
    BY <1>5
  <2>3. ContextPart(r.next, r)
    BY <1>3 DEF Enters
  <2>4. Holds(r.context) \/ r.context = Over
    BY <2>3 DEF ContextPart
  <2>5. row' = r.context /\ UNCHANGED <<memory, search>>
    BY <1>5 DEF WriteRow, Task
  <2>6. r.context \in Context \cup {NoContext, Over}
    BY <1>1 DEF Turn
  <2> HIDE DEF new, r
  <2>7. TurnSound(mailbox, new)
    BY <2>1, <1>4
  <2>8. UNCHANGED mailbox
    BY <1>5 DEF Still
  <2>9. turn' \in [Turns -> Turn] /\ \A u \in Turns : TurnSound(mailbox', turn'[u])
    BY <2>2, <2>7, <2>8, OthersStill
  <2>10. TypeOK'
    BY <2>5, <2>6, <2>9, <1>5 DEF KeptInv, TypeOK, Still
  <2>11. QED
    BY <2>4, <2>5, <2>9, <2>10 DEF KeptInv
<1>6. CASE CallFails /\ turn' = [turn EXCEPT ![t].pc = turn[t].next, ![t].wrote = TRUE, ![t].sound = FALSE]
  <2> DEFINE new == [r EXCEPT !.pc = r.next, !.wrote = TRUE, !.sound = FALSE]
  <2>1. turn' = [turn EXCEPT ![t] = new]
    BY <1>6
  <2>2. TurnSound(mailbox, new)
    BY <1>4
  <2> HIDE DEF new
  <2>3. failures' \in 0..MaxFailures /\ UNCHANGED <<mailbox, fastPath, latest, owner, storeVars>>
    BY <1>1, <1>6, MaxFailuresAssumption DEF CallFails
  <2>4. QED
    BY <2>1, <2>2, <2>3, Quiet
<1>7. QED
  BY <1>5, <1>6 DEF Store

Thinking == {"active", "advise", "advised", "readvise", "final"}

LEMMA ThinkingIs ==
  ASSUME NEW box, NEW r, NEW w \in Thinking
  PROVE  Enters(box, w, r) <=>
           Holds(r.context) /\ (r.context # NoContext => r.family = r.context.family) /\ Unanswered(r)
<1>1. ContextPart(w, r) <=> Holds(r.context)
  BY DEF ContextPart, Thinking
<1>2. ReadsPart(w, r) /\ HuntPart(box, w, r)
  BY DEF ReadsPart, HuntPart, Thinking
<1>3. TaskPart(w, r) <=> (r.context # NoContext => r.family = r.context.family)
  BY DEF TaskPart, OnTopic, Thinking
<1>4. PeriodPart(w, r)
  BY DEF PeriodPart, OnTopic, Thinking
<1>5. AnswerPart(w, r) <=> Unanswered(r)
  BY DEF AnswerPart, Thinking
<1>6. QED
  BY <1>1, <1>2, <1>3, <1>4, <1>5 DEF Enters

LEMMA BranchIs ==
  ASSUME NEW box, NEW r
  PROVE  Enters(box, "branch", r) <=>
           /\ Holds(r.context) /\ (r.context # NoContext => r.family = r.context.family)
           /\ Unanswered(r) /\ r.reads = 2
<1>1. ContextPart("branch", r) <=> Holds(r.context)
  BY DEF ContextPart
<1>2. (ReadsPart("branch", r) <=> r.reads = 2) /\ HuntPart(box, "branch", r)
  BY DEF ReadsPart, HuntPart
<1>3. TaskPart("branch", r) <=> (r.context # NoContext => r.family = r.context.family)
  BY DEF TaskPart, OnTopic
<1>4. PeriodPart("branch", r)
  BY DEF PeriodPart, OnTopic
<1>5. AnswerPart("branch", r) <=> Unanswered(r)
  BY DEF AnswerPart
<1>6. QED
  BY <1>1, <1>2, <1>3, <1>4, <1>5 DEF Enters

LEMMA ReadingIs ==
  ASSUME NEW box, NEW r
  PROVE  /\ Enters(box, "read", r) <=> Holds(r.context) /\ Unanswered(r) /\ r.reads <= 2
         /\ Enters(box, "got", r) <=>
              (Holds(r.context) \/ r.context = Over) /\ Unanswered(r) /\ r.reads <= 2
<1>1. /\ ContextPart("read", r) <=> Holds(r.context)
      /\ ContextPart("got", r) <=> Holds(r.context) \/ r.context = Over
  BY DEF ContextPart
<1>2. ASSUME NEW w \in {"read", "got"}
      PROVE  /\ (ReadsPart(w, r) <=> r.reads <= 2) /\ HuntPart(box, w, r)
             /\ TaskPart(w, r) /\ PeriodPart(w, r)
             /\ AnswerPart(w, r) <=> Unanswered(r)
  <2>1. (ReadsPart(w, r) <=> r.reads <= 2) /\ HuntPart(box, w, r)
    BY DEF ReadsPart, HuntPart
  <2>2. TaskPart(w, r)
    BY DEF TaskPart, OnTopic
  <2>3. PeriodPart(w, r)
    BY DEF PeriodPart, OnTopic
  <2>4. AnswerPart(w, r) <=> Unanswered(r)
    BY DEF AnswerPart
  <2>5. QED
    BY <2>1, <2>2, <2>3, <2>4
<1>3. QED
  BY <1>1, <1>2 DEF Enters

\* The turn with the context that it has read.
Having(r, pc, c) == [r EXCEPT !.pc = pc, !.context = c, !.reads = 2, !.family = c.family]

LEMMA HavingIs ==
  ASSUME NEW r \in Turn, NEW pc \in Pcs, NEW c \in Context
  PROVE  LET new == Having(r, pc, c)
         IN  /\ new \in Turn /\ new.pc = pc /\ new.context = c /\ new.reads = 2
             /\ new.family = c.family /\ new.answer = r.answer
<1> DEFINE family == c.family
           new == [r EXCEPT !.pc = pc, !.context = c, !.reads = 2, !.family = family]
<1>1. 2 \in 0..3 /\ family \in Families
  BY DEF Context
<1> HIDE DEF family
<1>2. new \in Turn
  BY <1>1 DEF Turn
<1>3. /\ new.pc = pc /\ new.context = c /\ new.reads = 2
      /\ new.family = family /\ new.answer = r.answer
  BY DEF Turn
<1>4. QED
  BY <1>2, <1>3 DEF Having, family

LEMMA HitKeeps ==
  ASSUME KeptInv, NEW t \in Turns, Hit(t)
  PROVE  KeptInv'
<1> DEFINE r == turn[t]
           c == memory[r.process]
           pc == IF r.reads < 2 THEN "branch" ELSE "active"
           new == Having(r, pc, c)
<1>1. r.pc = "read" /\ c # NoContext /\ UNCHANGED storeVars /\ Still
  BY DEF Hit, At
<1>2. r \in Turn /\ Enters(mailbox, "read", r) /\ Holds(c)
  BY <1>1, HereIs
<1>3. turn' = [turn EXCEPT ![t] = new]
  <2>1. turn' = [turn EXCEPT ![t].context = c, ![t].pc = pc, ![t].reads = 2, ![t].family = c.family]
    BY DEF Hit, AfterHit
  <2>2. new = [r EXCEPT !.context = c, !.pc = pc, !.reads = 2, !.family = c.family]
    BY <1>2 DEF Having, Turn
  <2>3. QED
    BY <2>1, <2>2
<1>4. GoodContext(c) /\ c \in Context
  BY <1>1, <1>2, HoldsIs
<1>5. pc \in {"branch", "active"} /\ pc \in Pcs
  BY DEF Pcs
<1>6. Unanswered(r)
  BY <1>2, ReadingIs
<1> HIDE DEF r, c, pc
<1>7. /\ new \in Turn
      /\ new.pc = pc /\ new.context = c /\ new.reads = 2 /\ new.family = c.family
      /\ new.answer = r.answer
  BY <1>2, <1>4, <1>5, HavingIs
<1> HIDE DEF new
<1>8. Unanswered(new)
  BY <1>6, <1>7 DEF Unanswered
<1>9. Enters(mailbox, pc, new)
  BY <1>2, <1>5, <1>7, <1>8, BranchIs, ThinkingIs DEF Thinking
<1>10. TurnSound(mailbox, new)
  BY <1>5, <1>7, <1>9 DEF TurnSound, Towards
<1>11. failures' \in 0..MaxFailures
  BY <1>1 DEF Still, KeptInv, TypeOK
<1>12. QED
  BY <1>1, <1>3, <1>10, <1>11, Quiet DEF Still

\* A turn gets what the row has, or nothing when the call fails.
LEMMA GetKeeps ==
  ASSUME KeptInv, NEW t \in Turns, Get(t)
  PROVE  KeptInv'
<1> DEFINE r == turn[t]
<1>1. r.pc = "read"
  BY DEF Get, At
<1>2. r \in Turn /\ Enters(mailbox, "read", r)
  BY <1>1, HereIs
<1>3. Unanswered(r) /\ r.reads <= 2
  BY <1>2, ReadingIs
<1>4. "got" \in Pcs /\ r.sound \in BOOLEAN
  BY <1>2 DEF Pcs, Turn
<1>5. ASSUME NEW c, Holds(c) \/ c = Over, NEW sound \in BOOLEAN
      PROVE  TurnSound(mailbox, [r EXCEPT !.pc = "got", !.context = c, !.sound = sound])
  <2> DEFINE new == [r EXCEPT !.pc = "got", !.context = c, !.sound = sound]
  <2>1. c \in Context \cup {NoContext, Over}
    BY <1>5, HoldsIs
  <2> HIDE DEF r
  <2>2. new \in Turn
    BY <2>1, <1>2, <1>4 DEF Turn
  <2>3. new.pc = "got" /\ new.context = c /\ new.reads = r.reads /\ new.answer = r.answer
    BY <1>2 DEF Turn
  <2> HIDE DEF new
  <2>4. Unanswered(new)
    BY <1>3, <2>3 DEF Unanswered
  <2>5. Enters(mailbox, "got", new)
    BY <1>3, <1>5, <2>3, <2>4, ReadingIs
  <2>6. TurnSound(mailbox, new)
    BY <2>2, <2>3, <2>5 DEF TurnSound, Towards
  <2>7. QED
    BY <2>6 DEF new
<1>6. CASE turn' = [turn EXCEPT ![t].pc = "got", ![t].context = row] /\ UNCHANGED storeVars /\ Still
  <2> DEFINE new == [r EXCEPT !.pc = "got", !.context = row]
             same == [r EXCEPT !.pc = "got", !.context = row, !.sound = r.sound]
  <2>1. new = same
    BY <1>2 DEF Turn
  <2>2. turn' = [turn EXCEPT ![t] = new]
    BY <1>6
  <2>3. Holds(row) \/ row = Over
    BY DEF KeptInv
  <2> HIDE DEF r, new
  <2>4. TurnSound(mailbox, same)
    BY <2>3, <1>4, <1>5
  <2> HIDE DEF same
  <2>5. failures' \in 0..MaxFailures
    BY <1>6 DEF Still, KeptInv, TypeOK
  <2>6. QED
    BY <2>1, <2>2, <2>4, <2>5, <1>6, Quiet DEF Still
<1>7. CASE CallFails /\ turn' = [turn EXCEPT ![t].pc = "got", ![t].context = NoContext, ![t].sound = FALSE]
  <2> DEFINE new == [r EXCEPT !.pc = "got", !.context = NoContext, !.sound = FALSE]
  <2>1. turn' = [turn EXCEPT ![t] = new]
    BY <1>7
  <2>2. Holds(NoContext)
    BY DEF Holds
  <2> HIDE DEF r
  <2>3. TurnSound(mailbox, new)
    BY <2>2, <1>5
  <2> HIDE DEF new
  <2>4. failures' \in 0..MaxFailures /\ UNCHANGED <<mailbox, fastPath, latest, owner, storeVars>>
    BY <1>7, MaxFailuresAssumption DEF CallFails, KeptInv, TypeOK
  <2>5. QED
    BY <2>1, <2>3, <2>4, Quiet
<1>8. QED
  BY <1>6, <1>7 DEF Get

\* It takes that for its task, deletes it when it is over, or looks again.
LEMMA GotKeeps ==
  ASSUME KeptInv, NEW t \in Turns, Got(t)
  PROVE  KeptInv'
<1> DEFINE r == turn[t]
           c == Task(t)
           p == r.process
<1>1. r.pc = "got" /\ Still
  BY DEF Got, At
<1>2. r \in Turn /\ Enters(mailbox, "got", r) /\ p \in Processes
  BY <1>1, HereIs
<1>3. c = r.context
  BY DEF Task
<1>4. (Holds(c) \/ c = Over) /\ Unanswered(r) /\ r.reads <= 2
  BY <1>2, <1>3, ReadingIs
<1>5. r.reads \in 0..3
  BY <1>2 DEF Turn
<1>6. failures' \in 0..MaxFailures
  BY <1>1 DEF Still, KeptInv, TypeOK
<1> DEFINE pc == IF r.reads < 2 THEN "branch" ELSE "active"
           then == CASE r.reads = 0 -> "read" [] r.reads = 1 -> "branch" [] OTHER -> "active"
<1>7. AfterHit(t) = pc /\ AfterMiss(t) = then
  BY DEF AfterHit, AfterMiss
<1>8. CASE /\ Valid(c) /\ Keep(p, c)
           /\ turn' = [turn EXCEPT ![t].pc = AfterHit(t), ![t].reads = 2, ![t].family = c.family]
  <2> DEFINE new == Having(r, pc, c)
  <2>1. turn' = [turn EXCEPT ![t] = new]
    <3>1. turn' = [turn EXCEPT ![t] = [r EXCEPT !.pc = pc, !.reads = 2, !.family = c.family]]
      BY <1>7, <1>8
    <3>2. new = [r EXCEPT !.pc = pc, !.reads = 2, !.family = c.family]
      BY <1>2, <1>3 DEF Having, Turn
    <3>3. QED
      BY <3>1, <3>2
  <2>2. c # NoContext /\ Holds(c)
    BY <1>4, <1>8 DEF Valid
  <2>3. GoodContext(c) /\ c \in Context
    BY <2>2, HoldsIs
  <2>4. pc \in {"branch", "active"} /\ pc \in Pcs
    BY DEF Pcs
  <2>5. SetMemory(p, c)
    BY <1>8 DEF Keep, SetMemory
  <2> HIDE DEF r, c, p, pc
  <2>6. /\ new \in Turn
        /\ new.pc = pc /\ new.context = c /\ new.reads = 2 /\ new.family = c.family
        /\ new.answer = r.answer
    BY <1>2, <2>3, <2>4, HavingIs
  <2> HIDE DEF new
  <2>7. Unanswered(new)
    BY <1>4, <2>6 DEF Unanswered
  <2>8. Enters(mailbox, pc, new)
    BY <2>2, <2>4, <2>6, <2>7, BranchIs, ThinkingIs DEF Thinking
  <2>9. TurnSound(mailbox, new)
    BY <2>4, <2>6, <2>8 DEF TurnSound, Towards
  <2>10. QED
    BY <1>1, <1>2, <2>1, <2>2, <2>5, <2>9, Remembers
<1>9. \A new : /\ new.context = NoContext /\ new.reads = r.reads + 1 /\ new.answer = r.answer
               => Enters(mailbox, then, new)
  <2> TAKE new
  <2> HAVE new.context = NoContext /\ new.reads = r.reads + 1 /\ new.answer = r.answer
  <2>1. Unanswered(new)
    BY <1>4 DEF Unanswered
  <2>2. Holds(new.context)
    BY DEF Holds
  <2> HIDE DEF r
  <2>3. r.reads \in {0, 1, 2}
    BY <1>4, <1>5
  <2>4. \/ then = "read" /\ new.reads <= 2
        \/ then = "branch" /\ new.reads = 2
        \/ then = "active"
    BY <2>3
  <2> HIDE DEF then
  <2>5. CASE then = "read" /\ new.reads <= 2
    BY <2>1, <2>2, <2>5, ReadingIs
  <2>6. CASE then = "branch" /\ new.reads = 2
    BY <2>1, <2>2, <2>6, BranchIs
  <2>7. CASE then = "active"
    BY <2>1, <2>2, <2>7, ThinkingIs DEF Thinking
  <2>8. QED
    BY <2>4, <2>5, <2>6, <2>7
<1>10. then \in Pcs \ {"store"} /\ "store" \in Pcs
  BY DEF Pcs
<1>11. r.reads + 1 \in 0..3
  <2> HIDE DEF r
  <2>1. QED
    BY <1>4, <1>5
<1>12. CASE /\ ClearMemory(p)
            /\ turn' = [turn EXCEPT ![t].pc = "store", ![t].next = AfterMiss(t),
                                    ![t].context = NoContext, ![t].reads = @ + 1]
  <2> DEFINE new == [r EXCEPT !.pc = "store", !.next = then, !.context = NoContext,
                              !.reads = r.reads + 1]
  <2>1. turn' = [turn EXCEPT ![t] = new]
    BY <1>7, <1>12
  <2>2. SetMemory(p, NoContext) /\ Holds(NoContext)
    BY <1>12 DEF ClearMemory, Holds
  <2> HIDE DEF r, p, then
  <2>3. new \in Turn
    BY <1>2, <1>10, <1>11 DEF Turn
  <2>4. /\ new.pc = "store" /\ new.next = then /\ new.context = NoContext
        /\ new.reads = r.reads + 1 /\ new.answer = r.answer
    BY <1>2 DEF Turn
  <2> HIDE DEF new
  <2>5. Enters(mailbox, then, new)
    BY <1>9, <2>4
  <2>6. TurnSound(mailbox, new)
    BY <1>10, <2>3, <2>4, <2>5 DEF TurnSound, Towards
  <2>7. QED
    BY <1>1, <1>2, <2>1, <2>2, <2>6, Remembers
<1>13. CASE /\ c = NoContext /\ UNCHANGED storeVars
            /\ turn' = [turn EXCEPT ![t].pc = AfterMiss(t), ![t].reads = @ + 1]
  <2> DEFINE new == [r EXCEPT !.pc = then, !.reads = r.reads + 1]
  <2>1. turn' = [turn EXCEPT ![t] = new]
    BY <1>7, <1>13
  <2> HIDE DEF r, p, then
  <2>2. new \in Turn
    BY <1>2, <1>10, <1>11 DEF Turn
  <2>3. /\ new.pc = then /\ new.context = NoContext
        /\ new.reads = r.reads + 1 /\ new.answer = r.answer
    BY <1>2, <1>3, <1>13 DEF Turn
  <2> HIDE DEF new
  <2>4. Enters(mailbox, then, new)
    BY <1>9, <2>3
  <2>5. TurnSound(mailbox, new)
    BY <1>10, <2>2, <2>3, <2>4 DEF TurnSound, Towards
  <2>6. QED
    BY <1>1, <1>6, <1>13, <2>1, <2>5, Quiet DEF Still
<1>14. QED
  BY <1>8, <1>12, <1>13 DEF Got

-----------------------------------------------------------------------------
(* Contexts that are kept, with a new age or more *)

\* A context with the lists, the goal and the refinement of a good one is good.
LEMMA SameTask ==
  ASSUME NEW c, GoodContext(c), NEW new \in Context,
         new.records = c.records, new.mails = c.mails,
         new.refined = c.refined, new.goal = c.goal
  PROVE  GoodContext(new)
BY DEF GoodContext

LEMMA TouchedIs ==
  ASSUME NEW c, GoodContext(c)
  PROVE  /\ GoodContext(Touched(c)) /\ Touched(c) \in Context
         /\ Touched(c).records = c.records /\ Touched(c).mails = c.mails
         /\ Touched(c).refined = c.refined /\ Touched(c).goal = c.goal
         /\ Touched(c).family = c.family /\ Touched(c).trip = c.trip
         /\ Touched(c).limit = c.limit
<1>1. c \in Context
  BY DEF GoodContext
<1> DEFINE new == [c EXCEPT !.age = Fresh]
<1>2. new \in Context
  BY <1>1 DEF Context
<1>3. /\ new.records = c.records /\ new.mails = c.mails
      /\ new.refined = c.refined /\ new.goal = c.goal
      /\ new.family = c.family /\ new.trip = c.trip /\ new.limit = c.limit
  BY <1>1 DEF Context
<1> HIDE DEF new
<1>4. GoodContext(new)
  BY <1>2, <1>3, SameTask
<1>5. QED
  BY <1>2, <1>3, <1>4 DEF new, Touched

\* What a turn goes on with, with a task at hand.
Handling(r, c, next) ==
  /\ next \in {"payment", "refine", "issuer", "format"}
  /\ next = "payment" => r.family # "none"
  /\ next \in {"refine", "issuer"} => Exempt(r)
  /\ next = "format" => Exempt(r) \/ c.refined \/ OfPeriodOf(c.records, r.message.period)

LEMMA HandlingIs ==
  ASSUME NEW box, NEW new, NEW w, GoodContext(new.context), Unanswered(new),
         Handling(new, new.context, w)
  PROVE  Enters(box, w, new)
<1>1. Holds(new.context)
  BY DEF Holds
<1>2. ContextPart(w, new) /\ ReadsPart(w, new)
  BY <1>1 DEF Handling, ContextPart, ReadsPart
<1>3. HuntPart(box, w, new) /\ AnswerPart(w, new)
  BY DEF Handling, HuntPart, AnswerPart
<1>4. TaskPart(w, new)
  BY DEF Handling, TaskPart, OnTopic
<1>5. PeriodPart(w, new)
  BY DEF Handling, PeriodPart, OnTopic
<1>6. QED
  BY <1>2, <1>3, <1>4, <1>5 DEF Enters

LEMMA SetAfter ==
  ASSUME KeptInv, NEW t \in Turns, NEW c, GoodContext(c), NEW next,
         NEW job \in Families \cup {"topic"}, NEW goal \in Goals, NEW answer \in Answers,
         SetAnd(t, c, next, job, goal, answer), Still,
         NEW r, r = turn[t], Handling(r, c, next),
         \A new : new.answer = answer => Unanswered(new)
  PROVE  KeptInv'
<1> DEFINE new == Into(r, next, c, job, goal, answer)
<1>1. Holds(c) /\ next \in Pcs \ {"store"} /\ next \in Pcs
  BY DEF Holds, Handling, Pcs
<1>2. r \in Turn
  BY DEF KeptInv, TypeOK
<1>3. /\ new.context = c /\ new.job = job /\ new.goal = goal /\ new.answer = answer
      /\ new.message = r.message /\ new.decision = r.decision /\ new.family = r.family
  BY <1>1, <1>2, IntoIs
<1> HIDE DEF new
<1>4. Unanswered(new)
  BY <1>3
<1>5. Handling(new, new.context, next)
  BY <1>3 DEF Handling, Exempt
<1>6. GoodContext(new.context)
  BY <1>3
<1>7. Enters(mailbox, next, new)
  BY <1>4, <1>5, <1>6, HandlingIs
<1>8. QED
  BY <1>1, <1>7, SetAndIs DEF new

LEMMA SetIs ==
  ASSUME KeptInv, NEW t \in Turns, turn[t].pc # "store", NEW c, GoodContext(c), NEW next,
         NEW job \in Families \cup {"topic"}, NEW goal \in Goals,
         SetAnd(t, c, next, job, goal, turn[t].answer), Still,
         Unanswered(turn[t]), Handling(turn[t], c, next)
  PROVE  KeptInv'
<1> DEFINE r == turn[t]
<1>1. r.answer \in Answers
  BY HereIs
<1>2. \A new : new.answer = r.answer => Unanswered(new)
  BY DEF Unanswered
<1>3. Handling(r, c, next) /\ SetAnd(t, c, next, job, goal, r.answer) /\ r = turn[t]
  OBVIOUS
<1> HIDE DEF r
<1>4. QED
  BY <1>1, <1>2, <1>3, SetAfter

-----------------------------------------------------------------------------
(* The question of the source *)

LEMMA CapabilityKeeps ==
  ASSUME KeptInv, NEW t \in Turns, Capability(t)
  PROVE  KeptInv'
<1>1. turn[t].pc = "branch" /\ Still
  BY DEF Capability, At
<1>2. Enters(mailbox, "branch", turn[t])
  BY <1>1, HereIs
<1>3. Holds(turn[t].context)
  BY <1>2, BranchIs
<1>4. "capability" \in Plain
  BY DEF Plain, Kinds
<1>5. CASE Drop(t, "capability")
  BY <1>1, <1>4, <1>5, DropIs
<1>6. CASE Say(t, "capability")
  BY <1>1, <1>3, <1>4, <1>6, SayIs
<1>7. QED
  BY <1>5, <1>6 DEF Capability

LEMMA PromptIs ==
  ASSUME KeptInv, NEW t \in Turns, NEW c, GoodContext(c), Prompt(t, c), Still
  PROVE  KeptInv'
<1>1. GoodContext(Touched(c))
  BY TouchedIs
<1>2. turn[t] \in Turn
  BY DEF KeptInv, TypeOK
<1>3. turn[t].job \in Families \cup {"topic"}
  BY <1>2 DEF Turn
<1>4. Holds(Touched(c)) /\ "prompt" \in Plain /\ NoMessage \in Goals
  BY <1>1, NoMessageIs DEF Holds, Plain, Kinds
<1>5. SetAnd(t, Touched(c), "done", turn[t].job, NoMessage, Answer("prompt"))
  BY DEF Prompt, Touched
<1>6. QED
  BY <1>3, <1>4, <1>5, PlainlyLeft

LEMMA AwaitingKeeps ==
  ASSUME KeptInv, NEW t \in Turns, Awaiting(t)
  PROVE  KeptInv'
<1> DEFINE r == turn[t]
           c == Task(t)
<1>1. r.pc = "branch" /\ Still /\ c # NoContext /\ c = r.context
  BY DEF Awaiting, At, Task
<1>2. Enters(mailbox, "branch", r) /\ r \in Turn /\ r.job \in Families \cup {"topic"}
  BY <1>1, HereIs
<1>3. Holds(c) /\ Unanswered(r) /\ r.reads = 2 /\ r.answer \in Answers
  BY <1>1, <1>2, BranchIs, HereIs
<1>4. GoodContext(c) /\ c \in Context
  BY <1>1, <1>3, HoldsIs
<1>5. c.family \in Families /\ c.goal \in Goals /\ c.resends \in 0..1
  BY <1>4 DEF Context
<1>6. {"cancelled", "unavailable", "forward"} \subseteq Plain
  BY DEF Plain, Kinds
<1>7. CASE StartSearch(t, c.family, c.goal) /\ Says(t, "gmailConfirm")
  <2>1. r.message \in Messages \cup {NoMessage} /\ Is(r.message, "gmailConfirm")
    BY <1>2, <1>7 DEF Turn, Says
  <2>2. r.message \in Messages
    BY <2>1 DEF Is, NoMessage
  <2>3. Exempt(turn[t])
    BY <2>1, <2>2, MessagesAssumption DEF Exempt
  <2>4. QED
    BY <1>1, <1>3, <1>5, <1>7, <2>3, StartSearchIs
<1>8. CASE Drop(t, "cancelled") \/ Drop(t, "unavailable") \/ Drop(t, "forward")
  BY <1>1, <1>6, <1>8, DropIs
<1>9. CASE MayAskAgain(t, c) /\ Prompt(t, [c EXCEPT !.resends = @ + 1])
  <2> DEFINE new == [c EXCEPT !.resends = c.resends + 1]
  <2>1. c.resends + 1 \in 0..1
    <3> HIDE DEF c
    <3>1. c.resends < 1
      BY <1>9 DEF MayAskAgain
    <3>2. QED
      BY <3>1, <1>5
  <2>2. Prompt(t, new)
    BY <1>9
  <2> HIDE DEF c
  <2>3. new \in Context
    BY <2>1, <1>4 DEF Context
  <2>4. /\ new.records = c.records /\ new.mails = c.mails
        /\ new.refined = c.refined /\ new.goal = c.goal
    BY <1>4 DEF Context
  <2> HIDE DEF new
  <2>5. GoodContext(new)
    BY <2>3, <2>4, <1>4, SameTask
  <2>6. QED
    BY <2>2, <2>5, <1>1, PromptIs
<1>10. CASE ClearAnd(t, "read", turn[t].job, NoMessage, turn[t].answer)
  <2> DEFINE new == Into(r, "read", NoContext, r.job, NoMessage, r.answer)
  <2>1. Holds(NoContext) /\ "read" \in Pcs \ {"store"} /\ "read" \in Pcs
    BY DEF Holds, Pcs
  <2>2. SetAnd(t, NoContext, "read", r.job, NoMessage, r.answer)
    BY <1>10 DEF ClearAnd
  <2>3. new.context = NoContext /\ new.answer = r.answer /\ new.reads = r.reads
    <3> HIDE DEF r
    <3>1. QED
      BY <1>2, <1>3, <2>1, NoMessageIs, IntoIs
  <2>4. Enters(mailbox, "read", new)
    <3> HIDE DEF new, r
    <3>1. Unanswered(new)
      BY <1>3, <2>3 DEF Unanswered
    <3>2. new.reads <= 2
      BY <1>3, <2>3
    <3>3. QED
      BY <3>1, <3>2, <2>1, <2>3, ReadingIs
  <2>5. QED
    BY <1>1, <1>2, <1>3, <2>1, <2>2, <2>4, NoMessageIs, SetAndIs
<1>11. QED
  BY <1>7, <1>8, <1>9, <1>10 DEF Awaiting

LEMMA NotAwaitingKeeps ==
  ASSUME KeptInv, NEW t \in Turns, NotAwaiting(t)
  PROVE  KeptInv'
<1>1. turn[t].pc = "branch" /\ Still /\ Goto(t, "read")
  BY DEF NotAwaiting, At
<1>2. Enters(mailbox, "branch", turn[t])
  BY <1>1, HereIs
<1>3. Holds(turn[t].context) /\ Unanswered(turn[t]) /\ turn[t].reads <= 2
  BY <1>2, BranchIs
<1>4. Enters(mailbox, "read", turn[t]) /\ "read" \in Pcs \ {"store"}
  BY <1>3, ReadingIs DEF Pcs
<1>5. QED
  BY <1>1, <1>4, GotoIs

-----------------------------------------------------------------------------
(* The decision and the advice *)

LEMMA DecideKeeps ==
  ASSUME KeptInv, NEW t \in Turns, Decide(t)
  PROVE  KeptInv'
<1> DEFINE r == turn[t]
           c == Task(t)
<1>1. r.pc = "active" /\ r.pc # "store" /\ Still /\ c = r.context
  BY DEF Decide, At, Task
<1>2. /\ Enters(mailbox, "active", r) /\ r.job \in Families \cup {"topic"}
      /\ r.goal \in Goals /\ Message(t) \in Goals
  BY <1>1, HereIs
<1>3. Holds(c) /\ Unanswered(r) /\ (c # NoContext => r.family = c.family)
  BY <1>1, <1>2, ThinkingIs DEF Thinking
<1>4. CASE Restart(t)
  BY <1>1, <1>3, <1>4, RestartIs
<1>5. CASE Reusable(c, Message(t)) /\ Set(t, Touched(c), "format")
  <2>1. c # NoContext /\ c.goal.period = r.message.period
    BY <1>5 DEF Reusable, IsActive, Message
  <2>2. GoodContext(c)
    BY <1>3, <2>1, HoldsIs
  <2>3. GoodContext(Touched(c)) /\ Touched(c).records = c.records /\ Touched(c).refined = c.refined
    BY <2>2, TouchedIs
  <2>4. c.refined \/ OfPeriodOf(c.records, r.message.period)
    BY <2>1, <2>2 DEF GoodContext
  <2>5. Handling(r, Touched(c), "format")
    BY <2>3, <2>4 DEF Handling
  <2>6. SetAnd(t, Touched(c), "format", r.job, r.goal, r.answer)
    BY <1>5 DEF Set
  <2>7. QED
    BY <1>1, <1>2, <1>3, <2>3, <2>5, <2>6, SetIs
<1>6. CASE StartSearch(t, "payment", Message(t))
  BY <1>1, <1>2, <1>3, <1>6, StartSearchIs DEF Families
<1>7. CASE Goto(t, "advise")
  <2>1. Enters(mailbox, "advise", turn[t]) /\ "advise" \in Pcs \ {"store"}
    BY <1>1, <1>3, ThinkingIs DEF Thinking, Pcs
  <2>2. QED
    BY <1>1, <1>7, <2>1, GotoIs
<1>8. QED
  BY <1>4, <1>5, <1>6, <1>7 DEF Decide

LEMMA AdviseKeeps ==
  ASSUME KeptInv, NEW t \in Turns, Advise(t)
  PROVE  KeptInv'
<1> DEFINE r == turn[t]
           pc == IF r.pc = "advise" THEN "advised" ELSE "final"
<1>1. r.pc \in {"advise", "readvise"} /\ r.pc # "store" /\ UNCHANGED storeVars /\ Still
  BY DEF Advise, At
<1>2. Enters(mailbox, r.pc, r) /\ r \in Turn
  BY <1>1, HereIs
<1>3. /\ Holds(r.context) /\ Unanswered(r)
      /\ r.context # NoContext => r.family = r.context.family
  BY <1>1, <1>2, ThinkingIs DEF Thinking
<1>4. PICK d \in Decisions \cup {NoDecision} :
        turn' = [turn EXCEPT ![t].decision = d, ![t].pc = pc]
  BY DEF Advise
<1> DEFINE new == [r EXCEPT !.decision = d, !.pc = pc]
<1>5. turn' = [turn EXCEPT ![t] = new]
  BY <1>4
<1>6. pc \in Thinking /\ pc \in Pcs /\ pc # "store"
  BY DEF Thinking, Pcs
<1> HIDE DEF r, pc
<1>7. new \in Turn
  BY <1>2, <1>6 DEF Turn
<1>8. /\ new.pc = pc /\ new.context = r.context /\ new.family = r.family
      /\ new.answer = r.answer
  BY <1>2 DEF Turn
<1> HIDE DEF new
<1>9. Unanswered(new)
  BY <1>3, <1>8 DEF Unanswered
<1>10. Enters(mailbox, pc, new)
  BY <1>3, <1>6, <1>8, <1>9, ThinkingIs
<1>11. TurnSound(mailbox, new)
  BY <1>6, <1>7, <1>8, <1>10 DEF TurnSound, Towards
<1>12. failures' \in 0..MaxFailures
  BY <1>1 DEF Still, KeptInv, TypeOK
<1>13. QED
  BY <1>1, <1>5, <1>11, <1>12, Quiet DEF Still

-----------------------------------------------------------------------------
(* A turn with a task *)

LEMMA UpgradeIs ==
  ASSUME NEW c, GoodContext(c)
  PROVE  GoodContext([c EXCEPT !.family = "payment", !.age = Fresh,
                               !.records = IF c.records = <<>> THEN Records(c.mails) ELSE c.records])
<1> DEFINE records == IF c.records = <<>> THEN Records(c.mails) ELSE c.records
           p == c.goal.period
           new == [c EXCEPT !.family = "payment", !.age = Fresh, !.records = records]
<1>1. c \in Context /\ Once(c.records) /\ Once(c.mails)
  BY DEF GoodContext
<1>2. c.records \in Seq(Mails) /\ c.mails \in Seq(Mails)
  BY <1>1 DEF Context
<1>3. Good(Records(c.mails), "any")
  BY <1>1, <1>2, GoodRecords DEF Good, OfPeriodOf
<1>4. ~c.refined => Good(Records(c.mails), p)
  BY <1>1, <1>2, GoodRecords DEF Good, GoodContext
<1>5. records \in Seq(Mails) /\ Once(records)
  BY <1>1, <1>2, <1>3 DEF Good
<1>6. ~c.refined => OfPeriodOf(records, p) /\ OfPeriodOf(c.mails, p)
  BY <1>4 DEF Good, GoodContext
<1>7. "payment" \in Families
  BY DEF Families
<1> HIDE DEF records
<1>8. new \in Context
  BY <1>1, <1>5, <1>7 DEF Context
<1>9. /\ new.records = records /\ new.mails = c.mails
      /\ new.refined = c.refined /\ new.goal = c.goal
  BY <1>1 DEF Context
<1> HIDE DEF new
<1>10. GoodContext(new)
  BY <1>1, <1>5, <1>6, <1>8, <1>9 DEF GoodContext
<1>11. QED
  BY <1>10 DEF new, records

\* A task is dropped, becomes a payment task, or is followed up.
LEMMA HandleActiveIs ==
  ASSUME KeptInv, NEW t \in Turns, turn[t].pc \in {"advised", "final"},
         Task(t) # NoContext, NEW d, HandleActive(t, d), Still
  PROVE  KeptInv'
<1> DEFINE r == turn[t]
           c == Task(t)
<1>1. r.pc # "store" /\ r.pc \in Thinking /\ c = r.context
  BY DEF Thinking, Task
<1>2. /\ Enters(mailbox, r.pc, r) /\ r.job \in Families \cup {"topic"}
      /\ r.goal \in Goals
  BY <1>1, HereIs
<1>3. Holds(c) /\ Unanswered(r) /\ r.family = c.family
  BY <1>1, <1>2, ThinkingIs
<1>4. GoodContext(c) /\ c \in Context
  BY <1>3, HoldsIs
<1>5. r.family # "none"
  BY <1>3, <1>4 DEF Context, Families
<1>6. CASE Drop(t, "cancelled") \/ Drop(t, "handoff")
  BY <1>6, DropIs DEF Plain, Kinds
<1>7. CASE SetAnd(t, [c EXCEPT !.family = "payment", !.age = Fresh,
                               !.records = IF @ = <<>> THEN Records(c.mails) ELSE @],
                  "payment", "search", NoMessage, turn[t].answer)
  <2> DEFINE new == [c EXCEPT !.family = "payment", !.age = Fresh,
                              !.records = IF c.records = <<>> THEN Records(c.mails) ELSE c.records]
  <2>1. GoodContext(new)
    BY <1>4, UpgradeIs
  <2>2. SetAnd(t, new, "payment", "search", NoMessage, turn[t].answer)
    BY <1>7
  <2> HIDE DEF new
  <2>3. Handling(r, new, "payment")
    BY <1>5 DEF Handling
  <2>4. "search" \in Families \cup {"topic"}
    BY DEF Families
  <2>5. QED
    BY <1>1, <1>3, <2>1, <2>2, <2>3, <2>4, NoMessageIs, SetIs
<1>8. CASE Goto(t, "payment")
  <2>1. Handling(r, r.context, "payment")
    BY <1>5 DEF Handling
  <2>2. Enters(mailbox, "payment", r) /\ "payment" \in Pcs \ {"store"}
    BY <1>1, <1>3, <1>4, <2>1, HandlingIs DEF Pcs
  <2>3. QED
    BY <1>8, <2>2, GotoIs
<1>9. QED
  BY <1>6, <1>7, <1>8 DEF HandleActive

LEMMA AdvisedKeeps ==
  ASSUME KeptInv, NEW t \in Turns, Advised(t)
  PROVE  KeptInv'
<1> DEFINE r == turn[t]
           d == r.decision
<1>1. r.pc = "advised" /\ r.pc # "store" /\ Still
  BY DEF Advised, At
<1>2. Enters(mailbox, "advised", r)
  BY <1>1, HereIs
<1>3. /\ Holds(r.context) /\ Unanswered(r)
      /\ r.context # NoContext => r.family = r.context.family
  BY <1>2, ThinkingIs DEF Thinking
<1>4. CASE \E next \in {"final", "readvise"} : Goto(t, next)
  <2>1. PICK next \in {"final", "readvise"} : Goto(t, next)
    BY <1>4
  <2>2. next \in Thinking /\ next \in Pcs \ {"store"}
    BY DEF Thinking, Pcs
  <2>3. Enters(mailbox, next, turn[t])
    BY <1>3, <2>2, ThinkingIs
  <2>4. QED
    BY <1>1, <2>1, <2>2, <2>3, GotoIs
<1>5. CASE Say(t, "capability")
  BY <1>1, <1>3, <1>5, SayIs DEF Plain, Kinds
<1>6. CASE Drop(t, "handoff")
  BY <1>1, <1>6, DropIs DEF Plain, Kinds
<1>7. CASE Restart(t)
  BY <1>1, <1>3, <1>7, RestartIs
<1>8. CASE IsActive(Task(t)) /\ HandleActive(t, d)
  BY <1>1, <1>8, HandleActiveIs DEF IsActive
<1>9. QED
  BY <1>4, <1>5, <1>6, <1>7, <1>8 DEF Advised

-----------------------------------------------------------------------------
(* A follow-up *)

LEMMA JoinedIs ==
  ASSUME NEW a \in Goals, NEW b \in Goals
  PROVE  Joined(a, b) \in Goals
<1>1. BothPeriods(a.period, b.period) \in Periods
  BY DEF BothPeriods, Periods
<1>2. a.signs \cup b.signs \in SUBSET Signs
  BY DEF Goals
<1>3. QED
  BY <1>1, <1>2 DEF Joined, Goals

LEMMA SignedIs ==
  ASSUME NEW a \in Goals, NEW more \in SUBSET Signs
  PROVE  /\ [a EXCEPT !.signs = @ \cup more] \in Goals
         /\ [a EXCEPT !.signs = @ \cup more].period = a.period
BY DEF Goals

\* The goals of a search made again are goals; for a date it is that of the message.
LEMMA GoalsOfSearches ==
  ASSUME NEW goal \in Goals, NEW m \in Goals
  PROVE  /\ Wider(goal, m) \in Goals /\ Again(goal, m) \in Goals
         /\ OfPeriod(m) \in Goals /\ OfPeriod(m).period = m.period
<1>1. {"expanded", "coverage"} \in SUBSET Signs /\ {"payment", "sum"} \in SUBSET Signs
  BY DEF Signs
<1>2. Joined(goal, m) \in Goals
  BY JoinedIs
<1>3. Wider(goal, m) \in Goals
  BY <1>1, <1>2, SignedIs DEF Wider
<1>4. OfPeriod(m) \in Goals /\ OfPeriod(m).period = m.period
  BY <1>1, SignedIs DEF OfPeriod
<1>5. Again(goal, m) \in Goals
  BY <1>2 DEF Again
<1>6. QED
  BY <1>3, <1>4, <1>5

\* Every kind of follow-up.
LEMMA PaymentKeeps ==
  ASSUME KeptInv, NEW t \in Turns, Payment(t)
  PROVE  KeptInv'
<1> DEFINE r == turn[t]
           m == Message(t)
           d == r.decision
           c == Touched(Task(t))
<1>1. r.pc = "payment" /\ r.pc # "store" /\ Still
  BY DEF Payment, At
<1>2. /\ Enters(mailbox, "payment", r) /\ r.job \in Families \cup {"topic"}
      /\ r.goal \in Goals /\ m \in Goals
  BY <1>1, HereIs
<1>3. GoodContext(Task(t)) /\ r.family # "none"
  BY <1>2 DEF Enters, TaskPart, Task
<1>4. Unanswered(r)
  BY <1>2 DEF Enters, AnswerPart
<1>5. GoodContext(c) /\ c \in Context /\ Holds(c) /\ c.goal \in Goals
  <2>1. GoodContext(c) /\ c \in Context
    BY <1>3, TouchedIs
  <2> HIDE DEF c
  <2>2. QED
    BY <2>1 DEF Holds, Context
<1>6. ASSUME NEW goal \in Goals, goal.period = m.period \/ Exempt(r),
             \/ SetAnd(t, c, "search", "payment", goal, turn[t].answer)
             \/ SetAnd(t, c, "done", "payment", NoMessage, Answer("unavailable"))
      PROVE  KeptInv'
  <2>1. "payment" \in Families /\ "payment" \in Families \cup {"topic"} /\ "unavailable" \in Plain
    BY DEF Families, Plain, Kinds
  <2>2. goal.period = Message(t).period \/ Exempt(turn[t])
    BY <1>6
  <2> HIDE DEF c, m
  <2>3. CASE SetAnd(t, c, "search", "payment", goal, turn[t].answer)
    BY <1>1, <1>4, <1>5, <2>1, <2>2, <2>3, SearchAfterSet
  <2>4. CASE SetAnd(t, c, "done", "payment", NoMessage, Answer("unavailable"))
    BY <1>1, <1>5, <2>1, <2>4, NoMessageIs, PlainlyLeft
  <2>5. QED
    BY <1>6, <2>3, <2>4
<1>7. ASSUME NEW next \in {"refine", "issuer", "format"}, Exempt(r), Set(t, c, next)
      PROVE  KeptInv'
  <2>1. Handling(r, c, next)
    BY <1>7 DEF Handling
  <2>2. SetAnd(t, c, next, r.job, r.goal, turn[t].answer)
    BY <1>7 DEF Set
  <2> HIDE DEF c
  <2>3. QED
    BY <1>1, <1>2, <1>4, <1>5, <2>1, <2>2, SetIs
<1> DEFINE coverage == d.intent = "coverage" \/ Is(m, "coverage")
           dated == r.family = "payment" /\ (d.intent = "refine_date" \/ m.period # "any")
<1>8. coverage => Exempt(r)
  BY DEF Exempt, Is, Message
<1>9. ~dated => Exempt(r)
  BY <1>3 DEF Exempt, Message
<1>10. /\ Wider(c.goal, m) \in Goals /\ Again(c.goal, m) \in Goals
       /\ OfPeriod(m) \in Goals /\ OfPeriod(m).period = m.period
  <2> HIDE DEF c, m
  <2>1. QED
    BY <1>2, <1>5, GoalsOfSearches
<1>11. CASE FollowUp(t)
  <2> DEFINE searches(goal) ==
        \/ SetAnd(t, c, "search", "payment", goal, turn[t].answer)
        \/ SetAnd(t, c, "done", "payment", NoMessage, Answer("unavailable"))
  <2>1. \/ coverage /\ searches(Wider(c.goal, m))
        \/ dated /\ searches(OfPeriod(m))
        \/ ~dated /\ searches(Again(c.goal, m))
        \/ ~dated /\ \E next \in {"refine", "issuer", "format"} : Set(t, c, next)
    BY <1>11 DEF FollowUp
  <2> HIDE DEF coverage, dated
  <2>2. CASE coverage /\ searches(Wider(c.goal, m))
    BY <2>2, <1>6, <1>8, <1>10
  <2>3. CASE dated /\ searches(OfPeriod(m))
    BY <2>3, <1>6, <1>10
  <2>4. CASE ~dated /\ searches(Again(c.goal, m))
    BY <2>4, <1>6, <1>9, <1>10
  <2>5. CASE ~dated /\ \E next \in {"refine", "issuer", "format"} : Set(t, c, next)
    BY <2>5, <1>7, <1>9
  <2>6. QED
    BY <2>1, <2>2, <2>3, <2>4, <2>5
<1>12. CASE SetAnd(t, c, "search", "body", m, turn[t].answer)
  <2>1. "body" \in Families
    BY DEF Families
  <2> HIDE DEF c
  <2>2. QED
    BY <1>1, <1>2, <1>4, <1>5, <1>12, <2>1, SearchAfterSet
<1>13. CASE Say(t, "unavailable")
  <2>1. Holds(turn[t].context) /\ "unavailable" \in Plain
    BY <1>3 DEF Holds, Task, Plain, Kinds
  <2>2. QED
    BY <1>1, <1>13, <2>1, SayIs
<1>14. QED
  BY <1>11, <1>12, <1>13 DEF Payment

-----------------------------------------------------------------------------
(* The calls of Gmail *)

LEMMA GmailFailsKeeps ==
  ASSUME KeptInv, NEW t \in Turns, GmailFails(t)
  PROVE  KeptInv'
<1> DEFINE r == turn[t]
<1>1. r.pc \in {"search", "hunt", "refine", "issuer"} /\ r.pc # "store" /\ Still
  BY DEF GmailFails
<1>2. Enters(mailbox, r.pc, r)
  BY <1>1, HereIs
<1>3. Holds(r.context) /\ Unanswered(r)
  BY <1>1, <1>2 DEF Enters, ContextPart, AnswerPart
<1>4. CASE r.pc = "issuer" /\ Goto(t, "format")
  <2>1. GoodContext(r.context) /\ Exempt(r)
    BY <1>2, <1>4 DEF Enters, TaskPart, PeriodPart
  <2>2. Handling(r, r.context, "format") /\ "format" \in Pcs \ {"store"}
    BY <2>1 DEF Handling, Pcs
  <2>3. Enters(mailbox, "format", r)
    BY <1>3, <2>1, <2>2, HandlingIs
  <2>4. QED
    BY <1>1, <1>4, <2>2, <2>3, GotoIs
<1>5. CASE Say(t, "unavailable") \/ Say(t, "failed")
  BY <1>1, <1>3, <1>5, SayIs DEF Plain, Kinds
<1>6. QED
  BY <1>4, <1>5 DEF GmailFails, At

LEMMA NoAttachmentKeeps ==
  ASSUME KeptInv, NEW t \in Turns, NoAttachment(t)
  PROVE  KeptInv'
<1>1. turn[t].pc = "search" /\ Still /\ Say(t, "unclear")
  BY DEF NoAttachment, At
<1>2. Enters(mailbox, "search", turn[t])
  BY <1>1, HereIs
<1>3. Holds(turn[t].context)
  BY <1>2 DEF Enters, ContextPart
<1>4. QED
  BY <1>1, <1>3, SayIs DEF Plain, Kinds

\* One body is opened, of a mail of the last list.
LEMMA OpenBodyKeeps ==
  ASSUME KeptInv, NEW t \in Turns, OpenBody(t)
  PROVE  KeptInv'
<1> DEFINE r == turn[t]
           answer == [Answer("body") EXCEPT !.bodies = 1]
           new == Telling(r, answer)
<1>1. r.pc = "search" /\ r.pc # "store" /\ Still
  BY DEF OpenBody, At
<1>2. Enters(mailbox, "search", r) /\ r \in Turn
  BY <1>1, HereIs
<1>3. Holds(r.context)
  BY <1>2 DEF Enters, ContextPart
<1>4. CASE Say(t, "unclear")
  BY <1>1, <1>3, <1>4, SayIs DEF Plain, Kinds
<1>5. CASE Reply(t, answer)
  <2>1. "body" \in Kinds
    BY DEF Kinds
  <2>2. /\ answer \in Answers
        /\ answer.kind = "body" /\ answer.records = <<>> /\ answer.bodies = 1
    BY <2>1, AnswerIs DEF Answers
  <2>3. Reply(t, answer)
    BY <1>5
  <2> HIDE DEF answer, r
  <2>4. new.answer = answer
    BY <1>2, <2>2, TellingIs
  <2>5. Answered(new)
    BY <2>2, <2>4, EmptyIs DEF Answered, FewOf
  <2>6. OfItsPeriod(answer, r)
    BY <2>2 DEF OfItsPeriod
  <2>7. QED
    BY <1>1, <1>3, <2>2, <2>3, <2>5, <2>6, ReplyIs DEF r
<1>6. QED
  BY <1>4, <1>5 DEF OpenBody

\* The answer without a task, or with one that had none.
LEMMA FinalKeeps ==
  ASSUME KeptInv, NEW t \in Turns, Final(t)
  PROVE  KeptInv'
<1> DEFINE r == turn[t]
           c == Task(t)
           m == Message(t)
           d == IF r.decision = NoDecision THEN OwnDecision(t) ELSE r.decision
           continues == d.action \in {"continue", "refine", "rerun", "cancel"}
           family == IF (Starts(d) \/ continues) /\ d.family = "search" /\ PrefersPayment(c, m)
                     THEN "payment" ELSE d.family
           awaiting == [status |-> "awaiting", family |-> family, goal |-> m, records |-> <<>>,
                        mails |-> <<>>, trip |-> FALSE, refined |-> FALSE, limit |-> 0,
                        resends |-> 0, age |-> Fresh]
<1>1. r.pc = "final" /\ r.pc # "store" /\ Still
  BY DEF Final, At
<1>2. Enters(mailbox, "final", r) /\ r \in Turn /\ m \in Goals
  BY <1>1, HereIs
<1>3. Holds(r.context) /\ Unanswered(r)
  BY <1>2, ThinkingIs DEF Thinking
<1>4. family \in Families
  <2>1. r.decision \in Decision \cup {NoDecision}
    BY <1>2, DecisionsAssumption DEF Turn
  <2>2. r.decision.family \in Families
    BY <2>1 DEF Decision, NoDecision, Families
  <2>3. OwnDecision(t).family \in Families
    BY DEF OwnDecision, Families
  <2>4. d.family \in Families /\ "payment" \in Families
    BY <2>2, <2>3 DEF Families
  <2> HIDE DEF d, c, m
  <2>5. QED
    BY <2>4
<1> HIDE DEF family
<1>5. GoodContext(awaiting)
  <2>1. awaiting \in Context
    BY <1>2, <1>4, EmptyIs DEF Context, Fresh, Stale
  <2>2. QED
    BY <2>1, EmptyIs DEF GoodContext
<1>6. CASE Say(t, "capability") \/ Say(t, "unavailable") \/ Say(t, "forward")
  BY <1>1, <1>3, <1>6, SayIs DEF Plain, Kinds
<1>7. CASE c # NoContext /\ HandleActive(t, r.decision)
  BY <1>1, <1>7, HandleActiveIs
<1>8. CASE Prompt(t, awaiting)
  <2> HIDE DEF awaiting
  <2>1. QED
    BY <1>1, <1>5, <1>8, PromptIs
<1>9. CASE StartSearch(t, family, m)
  BY <1>1, <1>2, <1>3, <1>4, <1>9, StartSearchIs
<1>10. QED
  BY <1>6, <1>7, <1>8, <1>9 DEF Final, family

-----------------------------------------------------------------------------
(* A hunt in a turn *)

LEMMA NewHuntIs ==
  ASSUME NEW m, NEW h \in Hunts, h.mails = <<>>, h.records = <<>>,
         h.stage \in Searching => ScanLimit(m) <= h.limit,
         h.stage = "few" => h.limit = FewCandidates(m), h.stage \notin {"many", "wide"}
  PROVE  HuntSound(m, h)
<1>1. Good(h.mails, m.period) /\ Good(h.records, m.period)
  BY GoodNothing
<1>2. h.limit \in Nat
  BY DEF Hunts
<1>3. Len(h.mails) <= h.limit
  BY <1>2, EmptyIs
<1>4. QED
  BY <1>1, <1>3 DEF HuntSound

\* A hunt starts sound and with no body opened.
LEMMA StartHuntIs ==
  ASSUME NEW m \in Goals, NEW family \in Families
  PROVE  LET h == StartHunt(m, family)
         IN  /\ HuntSound(m, h) /\ h.bodies = 0 /\ h.stage # "done"
             /\ "trip" \notin m.signs => h.stage \notin OfATrip
<1> DEFINE h == StartHunt(m, family)
<1>1. PICK stage \in {"headers", "few", "expanded", "precise"}, limit \in Nat :
        /\ h = NewHunt(stage, stage = "few", limit)
        /\ stage = "precise" => ScanLimit(m) <= limit
        /\ stage = "few" => limit = FewCandidates(m) /\ "trip" \in m.signs
  <2>1. Budget \in Nat /\ FewCandidates(m) \in Nat /\ ScanLimit(m) \in Nat /\ ScanLimit(m) <= ScanLimit(m)
    BY Limits
  <2>2. CASE family # "payment"
    <3>1. h = NewHunt("headers", "headers" = "few", Budget)
      BY <2>2 DEF StartHunt
    <3>2. QED
      BY <2>1, <3>1
  <2>3. CASE family = "payment" /\ Is(m, "trip")
    <3>1. h = NewHunt("few", "few" = "few", FewCandidates(m)) /\ "trip" \in m.signs
      BY <2>3 DEF StartHunt, Is
    <3>2. QED
      BY <2>1, <3>1
  <2>4. CASE family = "payment" /\ ~Is(m, "trip") /\ Is(m, "expanded")
    <3>1. h = NewHunt("expanded", "expanded" = "few", ScanLimit(m))
      BY <2>4 DEF StartHunt
    <3>2. QED
      BY <2>1, <3>1
  <2>5. CASE family = "payment" /\ ~Is(m, "trip") /\ ~Is(m, "expanded")
    <3>1. h = NewHunt("precise", "precise" = "few", ScanLimit(m))
      BY <2>5 DEF StartHunt
    <3>2. QED
      BY <2>1, <3>1
  <2>6. QED
    BY <2>2, <2>3, <2>4, <2>5
<1> HIDE DEF h
<1>2. stage \in Stages /\ stage \notin {"many", "wide", "done"}
  BY DEF Stages
<1>3. h \in Hunts
  BY <1>1, <1>2, EmptyIs DEF NewHunt, Hunts
<1>4. /\ h.stage = stage /\ h.limit = limit /\ h.bodies = 0
      /\ h.mails = <<>> /\ h.records = <<>>
  BY <1>1 DEF NewHunt
<1>5. h.stage \in Searching => ScanLimit(m) <= h.limit
  BY <1>1, <1>4 DEF Searching
<1>6. HuntSound(m, h)
  BY <1>1, <1>2, <1>3, <1>4, <1>5, NewHuntIs
<1>7. "trip" \notin m.signs => stage \notin OfATrip
  BY <1>1 DEF OfATrip
<1>8. QED
  BY <1>2, <1>4, <1>6, <1>7 DEF h

LEMMA HuntingIs ==
  ASSUME NEW box, NEW new, NEW w \in {"hunt", "found"}, Holds(new.context), Unanswered(new),
         HuntPart(box, w, new), new.goal.period = new.message.period \/ Exempt(new),
         new.job = "topic" => GoodContext(new.context) /\ Exempt(new)
  PROVE  Enters(box, w, new)
<1>1. ContextPart(w, new) /\ ReadsPart(w, new)
  BY DEF ContextPart, ReadsPart
<1>2. AnswerPart(w, new)
  BY DEF AnswerPart
<1>3. TaskPart(w, new)
  BY DEF TaskPart, OnTopic
<1>4. PeriodPart(w, new)
  BY DEF PeriodPart, OnTopic
<1>5. QED
  BY <1>1, <1>2, <1>3, <1>4 DEF Enters

LEMMA SearchKeeps ==
  ASSUME KeptInv, NEW t \in Turns, Search(t)
  PROVE  KeptInv'
<1> DEFINE r == turn[t]
           h == StartHunt(r.goal, r.job)
           new == [r EXCEPT !.pc = "hunt", !.hunt = h]
<1>1. r.pc = "search" /\ r.pc # "store" /\ Still /\ UNCHANGED storeVars
  BY DEF Search, At
<1>2. Enters(mailbox, "search", r) /\ r \in Turn /\ r.goal \in Goals
  BY <1>1, HereIs
<1>3. Holds(r.context) /\ Unanswered(r) /\ r.job \in Families
      /\ (r.goal.period = r.message.period \/ Exempt(r))
  BY <1>2 DEF Enters, ContextPart, AnswerPart, TaskPart, PeriodPart
<1>4. turn' = [turn EXCEPT ![t] = new]
  BY DEF Search
<1>5. /\ HuntSound(r.goal, h) /\ h.bodies = 0 /\ h.stage # "done"
      /\ "trip" \notin r.goal.signs => h.stage \notin OfATrip
  <2> HIDE DEF r
  <2>1. QED
    BY <1>2, <1>3, StartHuntIs
<1> HIDE DEF r, h
<1>6. h \in Hunts /\ "hunt" \in Pcs
  BY <1>5 DEF HuntSound, Pcs
<1>7. new \in Turn
  BY <1>2, <1>6 DEF Turn
<1>8. /\ new.pc = "hunt" /\ new.hunt = h /\ new.context = r.context /\ new.answer = r.answer
      /\ new.goal = r.goal /\ new.job = r.job /\ new.message = r.message
      /\ new.decision = r.decision /\ new.family = r.family
  BY <1>2 DEF Turn
<1> HIDE DEF new
<1>9. Unanswered(new) /\ (new.goal.period = new.message.period \/ Exempt(new))
  BY <1>3, <1>8 DEF Unanswered, Exempt
<1>10. new.job # "topic"
  BY <1>3, <1>8 DEF Families
<1>11. HuntPart(mailbox, "hunt", new)
  BY <1>5, <1>8, <1>10 DEF HuntPart
<1>12. Enters(mailbox, "hunt", new)
  BY <1>3, <1>8, <1>9, <1>10, <1>11, HuntingIs
<1>13. TurnSound(mailbox, new)
  BY <1>7, <1>8, <1>12 DEF TurnSound, Towards
<1>14. failures' \in 0..MaxFailures
  BY <1>1 DEF Still, KeptInv, TypeOK
<1>15. QED
  BY <1>1, <1>4, <1>13, <1>14, Quiet DEF Still

\* Each stage keeps what is known of the hunt.
LEMMA HuntKeeps ==
  ASSUME KeptInv, NEW t \in Turns, Hunt(t)
  PROVE  KeptInv'
<1> DEFINE r == turn[t]
           m == r.goal
           h == r.hunt
           next == Onward(m, Called(mailbox, m, h))
           pc == IF next.stage = "done" THEN "found" ELSE "hunt"
           new == [r EXCEPT !.hunt = next, !.pc = pc]
<1>1. r.pc = "hunt" /\ r.pc # "store" /\ Still /\ UNCHANGED storeVars
  BY DEF Hunt, At
<1>2. Enters(mailbox, "hunt", r) /\ r \in Turn /\ m \in Goals /\ AMailbox(mailbox)
  BY <1>1, HereIs
<1>3. /\ Holds(r.context) /\ Unanswered(r) /\ (m.period = r.message.period \/ Exempt(r))
      /\ r.job = "topic" => GoodContext(r.context) /\ Exempt(r)
  BY <1>2 DEF Enters, ContextPart, AnswerPart, TaskPart, PeriodPart, OnTopic
<1>4. /\ HuntSound(m, h) /\ h.stage # "done"
      /\ r.job # "topic" /\ "trip" \notin m.signs => h.stage \notin OfATrip /\ h.bodies = 0
  BY <1>2 DEF Enters, HuntPart
<1>5. turn' = [turn EXCEPT ![t] = new]
  BY DEF Hunt
<1> HIDE DEF r, m, h
<1>6. /\ HuntSound(m, next)
      /\ h.stage \notin OfATrip => next.stage \notin OfATrip /\ next.bodies = h.bodies
  BY <1>2, <1>4, HuntStep
<1> HIDE DEF next
<1>7. next \in Hunts /\ pc \in Pcs /\ pc \in {"hunt", "found"}
  BY <1>6 DEF HuntSound, Pcs
<1>8. pc = "found" <=> next.stage = "done"
  OBVIOUS
<1> HIDE DEF pc
<1>9. new \in Turn
  BY <1>2, <1>7 DEF Turn
<1>10. /\ new.pc = pc /\ new.hunt = next /\ new.context = r.context /\ new.answer = r.answer
       /\ new.goal = m /\ new.job = r.job /\ new.message = r.message
       /\ new.decision = r.decision /\ new.family = r.family
  BY <1>2 DEF Turn, m
<1> HIDE DEF new
<1>11. /\ Unanswered(new) /\ (new.goal.period = new.message.period \/ Exempt(new))
       /\ new.job = "topic" => GoodContext(new.context) /\ Exempt(new)
  BY <1>3, <1>10 DEF Unanswered, Exempt
<1>12. HuntPart(mailbox, pc, new)
  BY <1>4, <1>6, <1>8, <1>10 DEF HuntPart
<1>13. Enters(mailbox, pc, new)
  BY <1>3, <1>7, <1>10, <1>11, <1>12, HuntingIs
<1>14. TurnSound(mailbox, new)
  BY <1>7, <1>9, <1>10, <1>13 DEF TurnSound, Towards
<1>15. failures' \in 0..MaxFailures
  BY <1>1 DEF Still, KeptInv, TypeOK
<1>16. QED
  BY <1>1, <1>5, <1>14, <1>15, Quiet DEF Still

-----------------------------------------------------------------------------
(* Answers that count payments *)

\* An answer that says what it has counted, and was made with few bodies.
LEMMA CountingIs ==
  ASSUME NEW new, new.answer.kind # "body", Once(new.answer.records),
         new.answer.kind = "found" => Len(new.answer.mails) <= new.answer.limit,
         \/ OfTrip(new)
         \/ new.answer.kind = "cached" /\ new.answer.bodies <= BodyChecks
         \/ new.answer.kind # "cached" /\ new.answer.bodies = 0
  PROVE  Answered(new)
BY DEF Answered, FewOf

LEMMA CachedIs ==
  ASSUME NEW c, c.records \in Seq(Mails), NEW bodies \in Nat
  PROVE  LET answer == Cached(c, bodies)
         IN  /\ answer \in Answers /\ answer.kind = "cached"
             /\ answer.records = c.records /\ answer.bodies = bodies
<1> DEFINE answer == [Answer("cached") EXCEPT !.records = c.records, !.bodies = bodies]
<1>1. "cached" \in Kinds
  BY DEF Kinds
<1>2. Answer("cached") \in Answers /\ Answer("cached").kind = "cached"
  BY <1>1, AnswerIs
<1>3. answer \in Answers
  BY <1>2 DEF Answers
<1>4. answer.kind = "cached" /\ answer.records = c.records /\ answer.bodies = bodies
  BY <1>2 DEF Answers
<1>5. QED
  BY <1>3, <1>4 DEF Cached

LEMMA FormatKeeps ==
  ASSUME KeptInv, NEW t \in Turns, Format(t)
  PROVE  KeptInv'
<1> DEFINE r == turn[t]
           c == Task(t)
           answer == Cached(c, r.answer.bodies)
           new == Telling(r, answer)
<1>1. r.pc = "format" /\ r.pc # "store" /\ Still /\ c = r.context
  BY DEF Format, At, Task
<1>2. Enters(mailbox, "format", r) /\ r \in Turn /\ r.answer \in Answers
  BY <1>1, HereIs
<1>3. /\ GoodContext(c) /\ Holds(c) /\ Unanswered(r)
      /\ Exempt(r) \/ c.refined \/ OfPeriodOf(c.records, r.message.period)
  BY <1>1, <1>2 DEF Enters, ContextPart, TaskPart, AnswerPart, PeriodPart
<1>4. CASE Say(t, "unclear")
  BY <1>1, <1>3, <1>4, SayIs DEF Plain, Kinds
<1>5. CASE c.records # <<>> /\ Reply(t, answer)
  <2>1. c.records \in Seq(Mails) /\ Once(c.records) /\ r.answer.bodies \in Nat
    BY <1>2, <1>3 DEF GoodContext, Context, Answers
  <2>2. r.answer.bodies <= BodyChecks
    BY <1>3 DEF Unanswered
  <2>3. r.context # NoContext
    BY <1>1, <1>3, ValuesAssumption DEF GoodContext
  <2>4. Reply(t, answer) /\ c = r.context
    BY <1>1, <1>5
  <2>5. /\ answer \in Answers /\ answer.kind = "cached"
        /\ answer.records = c.records /\ answer.bodies = r.answer.bodies
    <3> HIDE DEF c, r
    <3>1. QED
      BY <2>1, CachedIs
  <2> HIDE DEF answer
  <2>6. new.answer = answer
    BY <1>2, <2>5, TellingIs
  <2> HIDE DEF new
  <2>7. Answered(new)
    BY <2>1, <2>2, <2>5, <2>6, CountingIs
  <2>8. OfItsPeriod(answer, r)
    BY <1>1, <1>3, <2>3, <2>5 DEF OfItsPeriod
  <2>9. QED
    BY <1>1, <1>3, <2>4, <2>5, <2>7, <2>8, ReplyIs DEF new
<1>6. QED
  BY <1>4, <1>5 DEF Format

\* The bodies read for issuers change no id and no period, and are few.
LEMMA IssuersAre ==
  ASSUME NEW p, NEW s, Good(s, p)
  PROVE  LET opened == ReadForIssuer(s)
         IN  /\ Good(opened.records, p)
             /\ opened.bodies \in Nat /\ opened.bodies <= BodyChecks
<1> DEFINE doubtful == NoIssuer(s)
           first == Open(s, doubtful)
           records == [i \in DOMAIN s |-> [s[i] EXCEPT !.issuer = first.records[i].issuer]]
           places == {i \in DOMAIN s : s[i].issuer # "header"}
<1>1. s \in Seq(Mails)
  BY DEF Good
<1>2. places \in SUBSET DOMAIN s
  OBVIOUS
<1>3. doubtful \in Seq(Mails)
  BY <1>1, <1>2, PickedIs DEF NoIssuer
<1> HIDE DEF doubtful
<1>4. /\ first.records \in Seq(Mails) /\ DOMAIN first.records = DOMAIN s
  BY <1>3, OpenIs DEF Good
<1>5. first.bodies \in Nat /\ first.bodies <= BodyChecks
  BY <1>3, OpenIs
<1>6. ReadForIssuer(s).records = records /\ ReadForIssuer(s).bodies = first.bodies
  <2>1. ReadForIssuer(s) = [first EXCEPT !.records = records]
    BY DEF ReadForIssuer, doubtful
  <2>2. first = [records |-> first.records, bodies |-> first.bodies]
    BY DEF Open
  <2> HIDE DEF first, records
  <2>3. QED
    BY <2>1, <2>2
<1> HIDE DEF first
<1>7. \A i \in DOMAIN s : s[i] \in Mails /\ first.records[i] \in Mails
  BY <1>1, <1>4
<1>8. \A mail \in Mails, other \in Mails :
        LET new == [mail EXCEPT !.issuer = other.issuer]
        IN  new \in Mails /\ new.id = mail.id /\ new.period = mail.period
  BY DEF Mails
<1>9. \A i \in DOMAIN s : /\ records[i] \in Mails
                          /\ records[i].id = s[i].id /\ records[i].period = s[i].period
  BY <1>7, <1>8
<1>10. records \in [DOMAIN s -> Mails]
  BY <1>9
<1> HIDE DEF records
<1>11. records \in Seq(Mails) /\ DOMAIN records = DOMAIN s
  BY <1>1, <1>10, MadeSequence
<1>12. Good(records, p)
  BY <1>9, <1>11, GoodSame
<1>13. QED
  BY <1>5, <1>6, <1>12

LEMMA IssuersKeeps ==
  ASSUME KeptInv, NEW t \in Turns, Issuers(t)
  PROVE  KeptInv'
<1> DEFINE r == turn[t]
           c == Task(t)
           opened == ReadForIssuer(c.records)
           new == [c EXCEPT !.records = opened.records, !.age = Fresh]
           answer == [Answer("none") EXCEPT !.bodies = opened.bodies]
<1>1. r.pc = "issuer" /\ r.pc # "store" /\ Still /\ c = r.context
  BY DEF Issuers, At, Task
<1>2. Enters(mailbox, "issuer", r)
  BY <1>1, HereIs
<1>3. GoodContext(c) /\ Exempt(r)
  BY <1>1, <1>2 DEF Enters, TaskPart, PeriodPart
<1>4. SetAnd(t, new, "format", "payment", NoMessage, answer)
  BY DEF Issuers
<1> HIDE DEF c
<1>5. c \in Context /\ c.records \in Seq(Mails) /\ Once(c.records) /\ Once(c.mails)
  BY <1>3 DEF GoodContext, Context
<1>6. /\ Good(opened.records, "any") /\ opened.bodies \in Nat
      /\ opened.bodies <= BodyChecks
  BY <1>5, IssuersAre DEF Good, OfPeriodOf
<1>7. ~c.refined => Good(opened.records, c.goal.period)
  BY <1>3, <1>5, IssuersAre DEF Good, GoodContext
<1> HIDE DEF opened
<1>8. opened.records \in Seq(Mails) /\ Once(opened.records)
  BY <1>6 DEF Good
<1>9. new \in Context
  BY <1>5, <1>8 DEF Context
<1>10. /\ new.records = opened.records /\ new.mails = c.mails
       /\ new.refined = c.refined /\ new.goal = c.goal
  BY <1>5 DEF Context
<1> HIDE DEF new
<1>11. GoodContext(new)
  BY <1>3, <1>5, <1>7, <1>8, <1>9, <1>10 DEF GoodContext, Good
<1>12. Handling(r, new, "format")
  BY <1>3 DEF Handling
<1>13. "none" \in Kinds
  BY DEF Kinds
<1>14. answer \in Answers
  BY <1>6, <1>13, AnswerIs DEF Answers
<1>15. answer.kind = "none" /\ answer.records = <<>> /\ answer.bodies = opened.bodies
  BY <1>13, AnswerIs DEF Answers
<1> HIDE DEF answer
<1>16. \A other : other.answer = answer => Unanswered(other)
  BY <1>6, <1>15, EmptyIs DEF Unanswered
<1>17. r = turn[t] /\ "payment" \in Families \cup {"topic"}
  BY DEF Families
<1> HIDE DEF r
<1>18. QED
  BY <1>1, <1>4, <1>11, <1>12, <1>14, <1>16, <1>17, NoMessageIs, SetAfter

-----------------------------------------------------------------------------
(* The end of a search *)

\* A step that leaves a list and a task.
LEMMA RemembersList ==
  ASSUME KeptInv, NEW t \in Turns, NEW new, TurnSound(mailbox, new),
         turn' = [turn EXCEPT ![t] = new],
         NEW p \in Processes, NEW c, Holds(c), NEW mails \in Seq(Mails),
         SetSearch(p, mails, c), Still
  PROVE  KeptInv'
<1>1. /\ turn' \in [Turns -> Turn]
      /\ \A u \in Turns : TurnSound(mailbox', turn'[u])
  BY OthersStill DEF Still
<1>2. memory \in [Processes -> Context \cup {NoContext}] /\ c \in Context \cup {NoContext}
  BY HoldsIs DEF KeptInv, TypeOK
<1>3. memory' \in [Processes -> Context \cup {NoContext}]
  BY <1>2 DEF SetSearch
<1>4. search' \in [Processes -> [mails: Seq(Mails), age: {Fresh, Stale}]]
  <2> DEFINE list == [mails |-> mails, age |-> Fresh]
  <2>1. list \in [mails: Seq(Mails), age: {Fresh, Stale}]
    OBVIOUS
  <2>2. search' = [search EXCEPT ![p] = list]
    BY DEF SetSearch
  <2> HIDE DEF list
  <2>3. QED
    BY <2>1, <2>2 DEF KeptInv, TypeOK
<1>5. TypeOK'
  BY <1>1, <1>3, <1>4 DEF KeptInv, TypeOK, SetSearch, Still
<1>6. \A q \in Processes : Holds(memory'[q])
  <2>1. \A q \in Processes : memory'[q] = IF q = p THEN c ELSE memory[q]
    BY <1>2 DEF SetSearch
  <2>2. QED
    BY <2>1 DEF KeptInv
<1>7. QED
  BY <1>1, <1>5, <1>6 DEF KeptInv, SetSearch, Still

LEMMA KeptIs ==
  ASSUME NEW m, NEW h, HuntSound(m, h)
  PROVE  Good(Kept(h), m.period) /\ Len(Kept(h)) <= h.limit
<1>1. /\ h \in Hunts /\ Good(h.mails, m.period) /\ Len(h.mails) <= h.limit
      /\ h.limit \in Nat /\ Len(h.mails) \in Nat
  BY DEF HuntSound, Hunts, Good
<1> DEFINE places == {i \in DOMAIN h.mails : h.mails[i].id \in Ids(h.records)}
<1>2. places \in SUBSET DOMAIN h.mails
  OBVIOUS
<1> HIDE DEF places
<1>3. /\ Good(Picked(h.mails, places), m.period)
      /\ Len(Picked(h.mails, places)) \in 0..Len(h.mails)
  BY <1>1, <1>2, GoodPicked
<1>4. Len(Picked(h.mails, places)) <= h.limit
  BY <1>1, <1>3
<1>5. QED
  BY <1>1, <1>3, <1>4 DEF Kept, places

\* What a turn comes with to the end of a search.
LEMMA FoundHas ==
  ASSUME KeptInv, NEW t \in Turns, At(t, "found")
  PROVE  LET r == turn[t]
             h == r.hunt
         IN  /\ r \in Turn /\ Holds(r.context) /\ HuntSound(r.goal, h) /\ h \in Hunts
             /\ r.goal.period = r.message.period \/ Exempt(r)
             /\ r.job = "topic" => GoodContext(r.context) /\ Exempt(r)
             /\ r.job # "topic" /\ "trip" \notin r.goal.signs => h.bodies = 0
<1> DEFINE r == turn[t]
           h == r.hunt
<1>1. r.pc = "found"
  BY DEF At
<1>2. Enters(mailbox, "found", r) /\ r \in Turn
  BY <1>1, HereIs
<1>3. HuntPart(mailbox, "found", r) /\ Holds(r.context)
  BY <1>2 DEF Enters, ContextPart
<1>4. /\ HuntSound(r.goal, h) /\ h \in Hunts
      /\ r.job # "topic" /\ "trip" \notin r.goal.signs => h.bodies = 0
  BY <1>3 DEF HuntPart, HuntSound
<1>5. /\ r.goal.period = r.message.period \/ Exempt(r)
      /\ r.job = "topic" => GoodContext(r.context) /\ Exempt(r)
  BY <1>2 DEF Enters, PeriodPart, TaskPart, OnTopic
<1>6. QED
  BY <1>2, <1>3, <1>4, <1>5

\* The end of a search: the list and the task.
LEMMA FoundKeeps ==
  ASSUME KeptInv, NEW t \in Turns, Found(t)
  PROVE  KeptInv'
<1> DEFINE r == turn[t]
           h == r.hunt
           family == r.job
           c == [status |-> "active", family |-> family, goal |-> r.goal,
                 records |-> h.records, mails |-> Kept(h), trip |-> h.trip,
                 refined |-> FALSE, limit |-> h.limit, resends |-> 0, age |-> Fresh]
           kind == IF family = "payment" /\ c.records = <<>> THEN "unclear" ELSE "found"
           answer == [kind |-> kind, records |-> c.records, mails |-> c.mails,
                      limit |-> c.limit, bodies |-> h.bodies]
           new == [r EXCEPT !.pc = "store", !.next = "done", !.context = c,
                            !.hunt = NoHunt, !.answer = answer]
<1>1. /\ At(t, "found") /\ r.job # "topic" /\ Still
      /\ SetSearch(r.process, AtMost(1, c.mails), c)
      /\ turn' = [turn EXCEPT ![t] = new]
  BY DEF Found
<1>2. /\ r \in Turn /\ Holds(r.context) /\ HuntSound(r.goal, h) /\ h \in Hunts
      /\ r.goal.period = r.message.period \/ Exempt(r)
      /\ "trip" \notin r.goal.signs => h.bodies = 0
  BY <1>1, FoundHas
<1>3. /\ r.process \in Processes /\ r.goal \in Goals /\ family \in Families
  BY <1>1, <1>2 DEF Turn
<1> HIDE DEF r, h, family
<1>4. /\ Good(h.records, r.goal.period) /\ Good(Kept(h), r.goal.period)
      /\ Len(Kept(h)) <= h.limit
  BY <1>2, KeptIs DEF HuntSound
<1>5. h.trip \in BOOLEAN /\ h.limit \in Nat /\ h.bodies \in Nat
  BY <1>2 DEF Hunts
<1>6. c \in Context
  BY <1>3, <1>4, <1>5 DEF Context, Good, Fresh, Stale
<1>7. /\ c.records = h.records /\ c.mails = Kept(h) /\ c.goal = r.goal /\ c.limit = h.limit
  OBVIOUS
<1>8. kind \in Kinds /\ kind # "body" /\ kind \in {"found", "unclear"}
  BY DEF Kinds
<1> HIDE DEF c, kind
<1>9. GoodContext(c) /\ Holds(c) /\ c \in Context \cup {NoContext, Over}
  BY <1>4, <1>6, <1>7 DEF GoodContext, Good, Holds
<1>10. answer \in Answers
  BY <1>4, <1>5, <1>7, <1>8 DEF Answers, Good
<1>11. /\ answer.kind = kind /\ answer.records = h.records /\ answer.mails = Kept(h)
       /\ answer.limit = h.limit /\ answer.bodies = h.bodies
  BY <1>7
<1> HIDE DEF answer
<1>12. NoHunt \in Hunts /\ "store" \in Pcs /\ "done" \in Pcs
  BY EmptyIs DEF NoHunt, NewHunt, Hunts, Stages, Pcs
<1>13. new \in Turn
  BY <1>2, <1>9, <1>10, <1>12 DEF Turn
<1>14. /\ new.pc = "store" /\ new.next = "done" /\ new.context = c /\ new.answer = answer
       /\ new.goal = r.goal /\ new.message = r.message
       /\ new.decision = r.decision /\ new.family = r.family
  BY <1>2 DEF Turn
<1> HIDE DEF new
<1>15. Answered(new)
  <2>1. new.answer.kind # "body" /\ Once(new.answer.records)
    BY <1>4, <1>8, <1>11, <1>14 DEF Good
  <2>2. new.answer.kind = "found" => Len(new.answer.mails) <= new.answer.limit
    BY <1>4, <1>11, <1>14
  <2>3. OfTrip(new) \/ new.answer.bodies = 0
    BY <1>2, <1>11, <1>14 DEF OfTrip
  <2>4. new.answer.kind # "cached"
    BY <1>8, <1>11, <1>14
  <2>5. QED
    BY <2>1, <2>2, <2>3, <2>4, CountingIs
<1>16. OfItsPeriod(new.answer, new)
  <2>1. Exempt(new) <=> Exempt(r)
    BY <1>14 DEF Exempt
  <2>2. r.goal.period = r.message.period => OfPeriodOf(answer.records, new.message.period)
    BY <1>4, <1>11, <1>14 DEF Good
  <2>3. QED
    BY <1>2, <1>14, <2>1, <2>2 DEF OfItsPeriod
<1>17. Enters(mailbox, "done", new)
  BY <1>9, <1>14, <1>15, <1>16, DoneIs
<1>18. TurnSound(mailbox, new)
  BY <1>13, <1>14, <1>17 DEF TurnSound, Towards
<1>19. AtMost(1, c.mails) \in Seq(Mails)
  <2> DEFINE one == 1
  <2>1. one \in Nat
    OBVIOUS
  <2>2. c.mails \in Seq(Mails)
    BY <1>4, <1>7 DEF Good
  <2> HIDE DEF one
  <2>3. AtMost(one, c.mails) \in Seq(Mails)
    BY <2>1, <2>2, AtMostIs
  <2>4. QED
    BY <2>3 DEF one
<1>20. QED
  BY <1>1, <1>3, <1>9, <1>18, <1>19, RemembersList

\* The end of a search for a topic: the task has it and is refined.
LEMMA FoundTopicKeeps ==
  ASSUME KeptInv, NEW t \in Turns, FoundTopic(t)
  PROVE  KeptInv'
<1> DEFINE r == turn[t]
           h == r.hunt
           task == Task(t)
           c == [task EXCEPT !.trip = h.trip, !.refined = TRUE, !.records = h.records,
                             !.mails = h.mails, !.age = Fresh]
<1>1. At(t, "found") /\ r.job = "topic" /\ Still /\ task = r.context
  BY DEF FoundTopic, Task
<1>2. /\ r \in Turn /\ Holds(r.context) /\ HuntSound(r.goal, h) /\ h \in Hunts
      /\ GoodContext(task) /\ Exempt(r)
  BY <1>1, FoundHas
<1>3. /\ h.trip \in BOOLEAN /\ h.bodies \in Nat /\ r.goal \in Goals
      /\ h.records \in Seq(Mails) /\ Once(h.records) /\ h.mails \in Seq(Mails) /\ Once(h.mails)
  BY <1>2 DEF Hunts, Turn, HuntSound, Good
<1>4. CASE Reply(t, [Answer("unclear") EXCEPT !.bodies = h.bodies])
  <2> DEFINE answer == [Answer("unclear") EXCEPT !.bodies = h.bodies]
             new == Telling(r, answer)
  <2>1. "unclear" \in Kinds
    BY DEF Kinds
  <2> HIDE DEF h
  <2>2. answer \in Answers
    BY <1>3, <2>1, AnswerIs DEF Answers
  <2>3. answer.kind = "unclear" /\ answer.records = <<>> /\ answer.bodies = h.bodies
    BY <2>1, AnswerIs DEF Answers
  <2>4. Reply(t, answer)
    BY <1>4
  <2> HIDE DEF answer, r
  <2>5. new.answer = answer /\ new.job = r.job
    BY <1>2, <2>2, TellingIs
  <2> HIDE DEF new
  <2>6. OfTrip(new)
    BY <1>1, <2>5 DEF OfTrip
  <2>7. Answered(new)
    BY <1>2, <2>3, <2>5, <2>6, EmptyIs, CountingIs
  <2>8. OfItsPeriod(answer, r)
    BY <2>3 DEF OfItsPeriod
  <2>9. QED
    BY <1>1, <1>2, <2>2, <2>4, <2>7, <2>8, ReplyIs DEF new, r
<1>5. CASE SetAnd(t, c, "done", "topic", r.goal, Cached(c, h.bodies))
  <2> DEFINE answer == Cached(c, h.bodies)
             job == "topic"
             goal == r.goal
             new == Into(r, "done", c, job, goal, answer)
  <2> HIDE DEF r, h, task
  <2>1. c \in Context
    BY <1>2, <1>3 DEF GoodContext, Context
  <2>2. /\ c.records = h.records /\ c.mails = h.mails /\ c.refined
    BY <1>2 DEF GoodContext, Context
  <2>3. SetAnd(t, c, "done", job, goal, answer) /\ job \in Families \cup {"topic"}
        /\ goal \in Goals
    BY <1>3, <1>5
  <2> HIDE DEF c
  <2>4. GoodContext(c) /\ Holds(c)
    BY <1>3, <2>1, <2>2 DEF GoodContext, Holds
  <2>5. /\ answer \in Answers /\ answer.kind = "cached"
        /\ answer.records = c.records /\ answer.bodies = h.bodies
    BY <1>3, <2>2, CachedIs
  <2> HIDE DEF answer
  <2>6. "done" \in Pcs /\ "done" \in Pcs \ {"store"}
    BY DEF Pcs
  <2>7. /\ new.context = c /\ new.job = job /\ new.answer = answer
        /\ new.message = r.message /\ new.decision = r.decision /\ new.family = r.family
    <3> HIDE DEF job, goal
    <3>1. QED
      BY <1>2, <2>3, <2>4, <2>5, <2>6, IntoIs
  <2> HIDE DEF new
  <2>8. OfTrip(new)
    BY <2>7 DEF OfTrip
  <2> HIDE DEF job, goal
  <2>9. Answered(new)
    BY <1>2, <1>3, <2>2, <2>5, <2>7, <2>8, CountingIs
  <2>10. OfItsPeriod(new.answer, new)
    BY <1>2, <2>7 DEF OfItsPeriod, Exempt
  <2>11. Enters(mailbox, "done", new)
    BY <2>4, <2>7, <2>9, <2>10, DoneIs
  <2>12. QED
    BY <1>1, <1>3, <2>3, <2>4, <2>5, <2>6, <2>11, SetAndIs DEF new, r
<1>6. QED
  BY <1>4, <1>5 DEF FoundTopic

LEMMA TripIs ==
  ASSUME NEW p, NEW s, Good(s, p), NEW trip \in BOOLEAN
  PROVE  LET opened == ReadForTrip(s)
         IN  /\ Good(OnTrip(s, trip), p) /\ Good(OnTrip(opened.records, trip), p)
             /\ opened.bodies \in Nat /\ opened.bodies <= BodyChecks
<1> DEFINE off == {i \in DOMAIN s : s[i].trip # "header"}
           doubtful == OffTrip(s)
           opened == Open(s, doubtful)
<1>1. s \in Seq(Mails) /\ off \in SUBSET DOMAIN s
  BY DEF Good
<1>2. doubtful \in Seq(Mails)
  BY <1>1, PickedIs DEF OffTrip
<1> HIDE DEF doubtful, off
<1>3. Good(opened.records, p)
  BY <1>2, OpenIs
<1>4. opened.bodies \in Nat /\ opened.bodies <= BodyChecks
  BY <1>2, OpenIs
<1> HIDE DEF opened
<1>5. ASSUME NEW a, Good(a, p)
      PROVE  Good(OnTrip(a, trip), p)
  <2> DEFINE places == {i \in DOMAIN a : trip => a[i].trip = "header"}
  <2>1. places \in SUBSET DOMAIN a
    OBVIOUS
  <2> HIDE DEF places
  <2>2. Good(Picked(a, places), p)
    BY <1>5, <2>1, GoodPicked
  <2>3. QED
    BY <2>2 DEF OnTrip, places
<1>6. QED
  BY <1>3, <1>4, <1>5 DEF opened, doubtful, ReadForTrip

\* The records that match the topic, in their headers or in their bodies.
LEMMA RefineKeeps ==
  ASSUME KeptInv, NEW t \in Turns, Refine(t)
  PROVE  KeptInv'
<1> DEFINE r == turn[t]
           c == Task(t)
           trip == c.trip \/ Is(c.goal, "trip") \/ Says(t, "trip")
           goal == Joined(c.goal, Message(t))
           here == OnTrip(c.records, trip)
           opened == ReadForTrip(c.records)
           there == OnTrip(opened.records, trip)
           keeps(records, bodies) ==
             SetAnd(t, [c EXCEPT !.trip = trip, !.refined = TRUE, !.records = records,
                                 !.age = Fresh],
                    "done", "payment", NoMessage,
                    Cached([c EXCEPT !.records = records], bodies))
<1>1. r.pc = "refine" /\ r.pc # "store" /\ Still /\ c = r.context
  BY DEF Refine, At, Task
<1>2. Enters(mailbox, "refine", r) /\ r \in Turn /\ Message(t) \in Goals
  BY <1>1, HereIs
<1>3. GoodContext(c) /\ Holds(c) /\ Exempt(r) /\ Unanswered(r)
  BY <1>1, <1>2 DEF Enters, TaskPart, PeriodPart, AnswerPart, Holds
<1>4. /\ c \in Context /\ trip \in BOOLEAN /\ Good(c.records, "any")
      /\ Once(c.mails) /\ c.goal \in Goals
  BY <1>3 DEF GoodContext, Good, Context, OfPeriodOf, Is
<1>5. /\ Good(here, "any") /\ Good(there, "any")
      /\ opened.bodies \in Nat /\ opened.bodies <= BodyChecks
  <2> HIDE DEF c, trip
  <2>1. QED
    BY <1>4, TripIs
<1>6. goal \in Goals
  <2> HIDE DEF c
  <2>1. QED
    BY <1>2, <1>4, JoinedIs
<1>7. ASSUME NEW records, Good(records, "any"),
             NEW bodies \in Nat, bodies <= BodyChecks, keeps(records, bodies)
      PROVE  KeptInv'
  <2> DEFINE task == [c EXCEPT !.trip = trip, !.refined = TRUE, !.records = records, !.age = Fresh]
             old == [c EXCEPT !.records = records]
             answer == Cached(old, bodies)
             job == "payment"
             new == Into(r, "done", task, job, NoMessage, answer)
  <2>1. SetAnd(t, task, "done", job, NoMessage, answer) /\ job \in Families \cup {"topic"}
    BY <1>7 DEF Families
  <2> HIDE DEF r, c, trip, goal, here, opened, there
  <2>2. records \in Seq(Mails) /\ Once(records)
    BY <1>7 DEF Good
  <2>3. old.records \in Seq(Mails) /\ old.records = records
    BY <1>4, <2>2 DEF Context
  <2>4. task \in Context
    BY <1>4, <2>2 DEF Context
  <2>5. task.records = records /\ task.mails = c.mails /\ task.refined
    BY <1>4 DEF Context
  <2> HIDE DEF task, old
  <2>6. GoodContext(task) /\ Holds(task)
    BY <1>4, <2>2, <2>4, <2>5 DEF GoodContext, Holds
  <2>7. /\ answer \in Answers /\ answer.kind = "cached"
        /\ answer.records = records /\ answer.bodies = bodies
    BY <2>3, CachedIs
  <2> HIDE DEF answer
  <2>8. "done" \in Pcs /\ "done" \in Pcs \ {"store"}
    BY DEF Pcs
  <2> HIDE DEF job
  <2>9. /\ new.context = task /\ new.answer = answer
        /\ new.message = r.message /\ new.decision = r.decision /\ new.family = r.family
    BY <1>2, <2>1, <2>6, <2>7, <2>8, NoMessageIs, IntoIs
  <2> HIDE DEF new
  <2>10. Answered(new)
    BY <1>7, <2>2, <2>7, <2>9, CountingIs
  <2>11. OfItsPeriod(new.answer, new)
    BY <1>3, <2>9 DEF OfItsPeriod, Exempt
  <2>12. Enters(mailbox, "done", new)
    BY <2>6, <2>9, <2>10, <2>11, DoneIs
  <2>13. QED
    BY <1>1, <2>1, <2>6, <2>7, <2>8, <2>12, NoMessageIs, SetAndIs DEF new, r
<1>8. CASE keeps(here, 0)
  <2> DEFINE none == 0
  <2>1. none \in Nat /\ none <= BodyChecks
    BY Limits
  <2>2. keeps(here, none)
    BY <1>8
  <2> HIDE DEF none, here, keeps
  <2>3. QED
    BY <1>5, <1>7, <2>1, <2>2
<1>9. CASE Say(t, "unavailable")
  BY <1>1, <1>3, <1>9, SayIs DEF Plain, Kinds
<1>10. CASE keeps(there, opened.bodies)
  <2> HIDE DEF there, opened, keeps
  <2>1. QED
    BY <1>5, <1>7, <1>10
<1> DEFINE hunt == [NewHunt("few", trip, FewCandidates(goal)) EXCEPT !.bodies = opened.bodies]
           new == [r EXCEPT !.pc = "hunt", !.job = "topic", !.goal = goal, !.hunt = hunt]
<1>11. CASE turn' = [turn EXCEPT ![t].pc = "hunt", ![t].job = "topic", ![t].goal = goal,
                                 ![t].hunt = hunt] /\ UNCHANGED storeVars
  <2>1. turn' = [turn EXCEPT ![t] = new]
    BY <1>11
  <2> HIDE DEF r, c, trip, goal, here, opened, there
  <2>2. FewCandidates(goal) \in Nat
    BY Limits
  <2>3. hunt \in Hunts
    BY <1>4, <1>5, <2>2, EmptyIs DEF NewHunt, Hunts, Stages
  <2>4. /\ hunt.stage = "few" /\ hunt.limit = FewCandidates(goal) /\ hunt.bodies = opened.bodies
        /\ hunt.mails = <<>> /\ hunt.records = <<>>
    BY DEF NewHunt
  <2> HIDE DEF hunt
  <2>5. HuntSound(goal, hunt)
    BY <1>5, <2>3, <2>4, NewHuntIs DEF Searching
  <2>6. "hunt" \in Pcs /\ "topic" \in Families \cup {"topic"}
    BY DEF Pcs
  <2>7. new \in Turn
    BY <1>2, <1>6, <2>3, <2>6 DEF Turn
  <2>8. /\ new.pc = "hunt" /\ new.job = "topic" /\ new.goal = goal /\ new.hunt = hunt
        /\ new.context = r.context /\ new.answer = r.answer /\ new.message = r.message
        /\ new.decision = r.decision /\ new.family = r.family
    BY <1>2 DEF Turn
  <2> HIDE DEF new
  <2>9. Exempt(new) /\ Unanswered(new) /\ GoodContext(new.context) /\ Holds(new.context)
    BY <1>1, <1>3, <2>8 DEF Exempt, Unanswered
  <2>10. HuntPart(mailbox, "hunt", new)
    BY <2>4, <2>5, <2>8 DEF HuntPart
  <2>11. Enters(mailbox, "hunt", new)
    BY <2>9, <2>10, HuntingIs
  <2>12. TurnSound(mailbox, new)
    BY <2>7, <2>8, <2>11 DEF TurnSound, Towards
  <2>13. failures' \in 0..MaxFailures
    BY <1>1 DEF Still, KeptInv, TypeOK
  <2>14. QED
    BY <1>1, <1>11, <2>1, <2>12, <2>13, Quiet DEF Still
<1>12. QED
  BY <1>8, <1>9, <1>10, <1>11 DEF Refine

-----------------------------------------------------------------------------
(* Where turns begin and end *)

Somewhere == CHOOSE p \in Processes : TRUE

LEMMA IdleIs ==
  ASSUME owner \in Processes
  PROVE  /\ IdleTurn \in Turn /\ IdleTurn.pc = "idle" /\ IdleTurn.context = NoContext
         /\ IdleTurn.family = "none" /\ IdleTurn.reads = 0 /\ IdleTurn.answer = Answer("none")
         /\ Unanswered(IdleTurn) /\ Holds(IdleTurn.context)
<1>1. Somewhere \in Processes
  BY DEF Somewhere
<1>2. "none" \in Kinds /\ "idle" \in Pcs /\ "search" \in Families
  BY DEF Kinds, Pcs, Families
<1>3. Answer("none") \in Answers
  BY <1>2, AnswerIs
<1>4. NoHunt \in Hunts
  BY EmptyIs DEF NoHunt, NewHunt, Hunts, Stages
<1> DEFINE answer == Answer("none")
           idle == [pc |-> "idle", next |-> "idle", process |-> Somewhere,
                    message |-> NoMessage, ready |-> FALSE, reads |-> 0, context |-> NoContext,
                    decision |-> NoDecision, family |-> "none", job |-> "search",
                    goal |-> NoMessage, hunt |-> NoHunt, answer |-> answer,
                    expected |-> Uncertain, alone |-> FALSE, sound |-> TRUE, wrote |-> FALSE]
<1>5. IdleTurn = idle
  BY DEF IdleTurn, Somewhere
<1>6. answer \in Answers
  BY <1>3
<1> HIDE DEF answer
<1>7. idle \in Turn
  BY <1>1, <1>2, <1>4, <1>6, NoMessageIs DEF Turn
<1>8. /\ idle.pc = "idle" /\ idle.context = NoContext /\ idle.family = "none"
      /\ idle.reads = 0 /\ idle.answer = answer
  OBVIOUS
<1> HIDE DEF idle
<1>9. /\ answer.kind = "none" /\ answer.records = <<>> /\ answer.bodies = 0
  BY <1>2, AnswerIs DEF answer
<1>10. BodyChecks \in Nat
  BY Limits
<1>11. Unanswered(idle) /\ Holds(idle.context)
  BY <1>8, <1>9, <1>10, EmptyIs DEF Unanswered, Holds
<1>12. QED
  BY <1>5, <1>7, <1>8, <1>11 DEF answer

\* An idle turn is sound.
LEMMA IdleSound ==
  ASSUME owner \in Processes, NEW box
  PROVE  TurnSound(box, IdleTurn)
<1> DEFINE r == IdleTurn
<1>1. /\ r \in Turn /\ r.pc = "idle" /\ Unanswered(r) /\ Holds(r.context)
  BY IdleIs
<1> HIDE DEF r
<1>2. ContextPart("idle", r) /\ ReadsPart("idle", r)
  BY <1>1 DEF ContextPart, ReadsPart
<1>3. TaskPart("idle", r) /\ HuntPart(box, "idle", r)
  BY DEF TaskPart, OnTopic, HuntPart
<1>4. PeriodPart("idle", r)
  BY DEF PeriodPart, OnTopic
<1>5. AnswerPart("idle", r)
  BY <1>1 DEF AnswerPart
<1>6. Enters(box, "idle", r)
  BY <1>2, <1>3, <1>4, <1>5 DEF Enters
<1>7. QED
  BY <1>1, <1>6 DEF TurnSound, Towards, r

\* A turn that is not alone any more is still sound.
LEMMA NotAloneIs ==
  ASSUME NEW box, NEW r, TurnSound(box, r)
  PROVE  TurnSound(box, [r EXCEPT !.alone = FALSE])
<1> DEFINE new == [r EXCEPT !.alone = FALSE]
<1>1. r \in Turn /\ Towards(r) # "store" /\ Enters(box, Towards(r), r)
  BY DEF TurnSound
<1>2. new \in Turn
  BY <1>1 DEF Turn
<1>3. Alike(new, r) /\ new.pc = r.pc /\ new.next = r.next
  BY <1>1 DEF Turn, Alike
<1> HIDE DEF new
<1>4. Towards(new) = Towards(r)
  BY <1>3 DEF Towards
<1>5. Enters(box, Towards(r), new)
  BY <1>1, <1>3, AlikeEnters
<1>6. TurnSound(box, new)
  BY <1>1, <1>2, <1>4, <1>5 DEF TurnSound
<1>7. QED
  BY <1>6 DEF new

\* A new turn.
Beginning(p, m, ready, expected, alone) ==
  [IdleTurn EXCEPT !.pc = "read", !.process = p, !.message = m, !.ready = ready,
                   !.alone = alone, !.expected = expected]

LEMMA BeginningIs ==
  ASSUME owner \in Processes, NEW box, NEW p \in Processes, NEW m \in Messages,
         NEW ready \in BOOLEAN, NEW alone \in BOOLEAN,
         NEW expected \in Context \cup {NoContext, Over, Uncertain}
  PROVE  TurnSound(box, Beginning(p, m, ready, expected, alone))
<1> DEFINE r == IdleTurn
           new == [r EXCEPT !.pc = "read", !.process = p, !.message = m, !.ready = ready,
                            !.alone = alone, !.expected = expected]
<1>1. /\ r \in Turn /\ Unanswered(r) /\ Holds(r.context) /\ r.reads = 0
  BY IdleIs
<1>2. "read" \in Pcs
  BY DEF Pcs
<1> HIDE DEF r
<1>3. new \in Turn
  <2>1. [r EXCEPT !.pc = "read", !.process = p] \in Turn
    BY <1>1, <1>2, ZenonT(60) DEF Turn
  <2>2. \A a \in Turn : [a EXCEPT !.message = m] \in Turn
    BY DEF Turn
  <2>3. \A a \in Turn : [a EXCEPT !.ready = ready, !.alone = alone] \in Turn
    BY ZenonT(60) DEF Turn
  <2>4. \A a \in Turn : [a EXCEPT !.expected = expected] \in Turn
    BY DEF Turn
  <2>5. QED
    BY <2>1, <2>2, <2>3, <2>4
<1>4. new.pc = "read" /\ new.reads = 0 /\ new.context = r.context /\ new.answer = r.answer
  BY <1>1 DEF Turn
<1> HIDE DEF new
<1>5. Unanswered(new)
  BY <1>1, <1>4 DEF Unanswered
<1>6. Enters(box, "read", new)
  BY <1>1, <1>4, <1>5, ReadingIs
<1>7. TurnSound(box, new)
  BY <1>3, <1>4, <1>6 DEF TurnSound, Towards
<1>8. QED
  BY <1>7 DEF new, r, Beginning

\* What a step must keep that changes several turns.
LEMMA AllStill ==
  ASSUME KeptInv, NEW f, turn' = [u \in Turns |-> f[u]],
         \A u \in Turns : TurnSound(mailbox, f[u]),
         UNCHANGED <<mailbox, fastPath, failures>>,
         memory' \in [Processes -> Context \cup {NoContext}], \A p \in Processes : Holds(memory'[p]),
         search' \in [Processes -> [mails: Seq(Mails), age: {Fresh, Stale}]],
         Holds(row') \/ row' = Over,
         latest' \in Context \cup {NoContext, Over, Uncertain}, owner' \in Processes
  PROVE  KeptInv'
<1>1. \A u \in Turns : turn'[u] = f[u] /\ f[u] \in Turn
  BY DEF TurnSound
<1>2. turn' \in [Turns -> Turn]
  BY <1>1
<1>3. row' \in Context \cup {NoContext, Over}
  BY HoldsIs
<1>4. TypeOK'
  BY <1>2, <1>3 DEF KeptInv, TypeOK
<1>5. \A u \in Turns : TurnSound(mailbox', turn'[u])
  BY <1>1
<1>6. QED
  BY <1>4, <1>5 DEF KeptInv

LEMMA BeginKeeps ==
  ASSUME KeptInv, NEW t \in Turns, NEW p \in Processes, NEW m \in Messages, NEW ready \in BOOLEAN,
         Begin(t, p, m, ready)
  PROVE  KeptInv'
<1> DEFINE others == {u \in Turns : Active(u)}
           alone == others = {}
           expected == IF others = {} /\ (p = owner \/ memory[p] = NoContext)
                       THEN latest ELSE Uncertain
           new == Beginning(p, m, ready, expected, alone)
           f == [u \in Turns |->
                   IF u = t THEN new
                   ELSE IF u \in others THEN [turn[u] EXCEPT !.alone = FALSE] ELSE turn[u]]
<1>1. /\ turn' = [u \in Turns |-> f[u]] /\ UNCHANGED storeVars /\ Still
  BY DEF Begin, Beginning
<1>2. owner \in Processes /\ expected \in Context \cup {NoContext, Over, Uncertain} /\ alone \in BOOLEAN
  BY DEF KeptInv, TypeOK
<1> HIDE DEF alone, expected
<1>3. TurnSound(mailbox, new)
  BY <1>2, BeginningIs
<1> HIDE DEF new, others
<1>4. \A u \in Turns : TurnSound(mailbox, turn[u])
  BY DEF KeptInv
<1>5. \A u \in Turns : TurnSound(mailbox, f[u])
  BY <1>3, <1>4, NotAloneIs
<1> HIDE DEF f
<1>6. /\ memory' \in [Processes -> Context \cup {NoContext}] /\ \A q \in Processes : Holds(memory'[q])
      /\ search' \in [Processes -> [mails: Seq(Mails), age: {Fresh, Stale}]]
      /\ Holds(row') \/ row' = Over
      /\ latest' \in Context \cup {NoContext, Over, Uncertain} /\ owner' \in Processes
      /\ UNCHANGED <<mailbox, fastPath, failures>>
  BY <1>1 DEF KeptInv, TypeOK, storeVars, Still
<1>7. QED
  BY <1>1, <1>5, <1>6, AllStill

LEMMA EndKeeps ==
  ASSUME KeptInv, NEW t \in Turns, End(t)
  PROVE  KeptInv'
<1> DEFINE f == [u \in Turns |-> IF u = t THEN IdleTurn ELSE turn[u]]
<1>1. turn \in [Turns -> Turn] /\ owner \in Processes /\ turn[t] \in Turn
  BY DEF KeptInv, TypeOK
<1>2. turn[t].process \in Processes
  BY <1>1 DEF Turn
<1>3. turn' = [turn EXCEPT ![t] = IdleTurn]
  BY DEF End
<1>4. turn' = [u \in Turns |-> f[u]]
  BY <1>1, <1>3
<1>5. \A u \in Turns : TurnSound(mailbox, f[u])
  BY <1>1, IdleSound DEF KeptInv
<1> HIDE DEF f
<1>6. memory[turn[t].process] \in Context \cup {NoContext}
  BY <1>2 DEF KeptInv, TypeOK
<1>7. latest' \in Context \cup {NoContext, Over, Uncertain}
  BY <1>6 DEF End, KeptInv, TypeOK
<1>8. owner' \in Processes
  BY <1>1, <1>2 DEF End
<1>9. /\ memory' \in [Processes -> Context \cup {NoContext}] /\ \A q \in Processes : Holds(memory'[q])
      /\ search' \in [Processes -> [mails: Seq(Mails), age: {Fresh, Stale}]]
      /\ Holds(row') \/ row' = Over
      /\ UNCHANGED <<mailbox, fastPath, failures>>
  BY DEF End, KeptInv, TypeOK, storeVars
<1>10. QED
  BY <1>4, <1>5, <1>7, <1>8, <1>9, AllStill

LEMMA ProcessEndsKeeps ==
  ASSUME KeptInv, NEW p \in Processes, ProcessEnds(p)
  PROVE  KeptInv'
<1> DEFINE lost == {t \in Turns : Active(t) /\ turn[t].process = p}
           f == [u \in Turns |-> IF u \in lost THEN IdleTurn ELSE turn[u]]
<1>1. turn' = [u \in Turns |-> f[u]]
  BY DEF ProcessEnds
<1>2. owner \in Processes
  BY DEF KeptInv, TypeOK
<1> HIDE DEF lost
<1>3. \A u \in Turns : TurnSound(mailbox, f[u])
  BY <1>2, IdleSound DEF KeptInv
<1> HIDE DEF f
<1>4. latest' \in Context \cup {NoContext, Over, Uncertain}
  BY DEF ProcessEnds, KeptInv, TypeOK
<1>5. /\ memory' \in [Processes -> Context \cup {NoContext}]
      /\ \A q \in Processes : Holds(memory'[q])
  <2>1. memory \in [Processes -> Context \cup {NoContext}] /\ \A q \in Processes : Holds(memory[q])
    BY DEF KeptInv, TypeOK
  <2>2. memory' = [memory EXCEPT ![p] = NoContext] /\ Holds(NoContext)
    BY DEF ProcessEnds, Forget, Holds
  <2>3. QED
    BY <2>1, <2>2
<1>6. search' \in [Processes -> [mails: Seq(Mails), age: {Fresh, Stale}]]
  <2>1. NoSearch \in [mails: Seq(Mails), age: {Fresh, Stale}]
    BY EmptyIs DEF NoSearch
  <2>2. search' = [search EXCEPT ![p] = NoSearch]
    BY DEF ProcessEnds, Forget
  <2>3. QED
    BY <2>1, <2>2 DEF KeptInv, TypeOK
<1>7. /\ Holds(row') \/ row' = Over
      /\ UNCHANGED <<mailbox, fastPath, failures>> /\ owner' \in Processes
  BY <1>2 DEF ProcessEnds, Forget, KeptInv
<1>8. QED
  BY <1>1, <1>3, <1>4, <1>5, <1>6, <1>7, AllStill

\* A context that has aged is still good, or over.
LEMMA AgedIs ==
  ASSUME NEW c \in Context \cup {NoContext, Over}, NEW over
  PROVE  /\ Aged(c, over) \in Context \cup {NoContext, Over, over}
         /\ Holds(c) => Holds(Aged(c, over)) \/ Aged(c, over) = over
         /\ c = Over => Aged(c, over) = Over
<1>1. CASE c \notin Context \/ c = NoContext \/ c = Over
  BY <1>1 DEF Aged, Valid
<1>2. CASE c \in Context /\ c # NoContext /\ c # Over /\ c.age = Fresh
  <2> DEFINE new == [c EXCEPT !.age = Stale]
  <2>1. new \in Context
    BY <1>2 DEF Context
  <2>2. /\ new.records = c.records /\ new.mails = c.mails
        /\ new.refined = c.refined /\ new.goal = c.goal
    BY <1>2 DEF Context
  <2>3. Aged(c, over) = new
    BY <1>2 DEF Aged, Valid, Fresh, Stale
  <2> HIDE DEF new
  <2>4. Holds(c) => Holds(new)
    BY <1>2, <2>1, <2>2, SameTask DEF Holds
  <2>5. QED
    BY <1>2, <2>1, <2>3, <2>4
<1>3. CASE c \in Context /\ c # NoContext /\ c # Over /\ c.age # Fresh
  <2>1. c.age = Stale /\ Stale # Fresh
    BY <1>3 DEF Context, Stale, Fresh
  <2>2. Aged(c, over) = over
    BY <1>3, <2>1 DEF Aged, Valid
  <2>3. QED
    BY <1>3, <2>2
<1>4. QED
  BY <1>1, <1>2, <1>3

\* Time only makes contexts older.
LEMMA TickKeeps ==
  ASSUME KeptInv, Tick
  PROVE  KeptInv'
<1> USE DEF KeptInv, TypeOK
<1>1. /\ turn' = turn /\ turn \in [Turns -> Turn] /\ UNCHANGED <<mailbox, fastPath, failures, owner>>
      /\ \A u \in Turns : TurnSound(mailbox, turn[u])
  BY DEF Tick
<1>2. turn' = [u \in Turns |-> turn[u]]
  BY <1>1
<1>3. \A q \in Processes : memory[q] \in Context \cup {NoContext} /\ Holds(memory[q])
  OBVIOUS
<1>4. memory' = [p \in Processes |-> Aged(memory[p], NoContext)]
  BY DEF Tick, TimePasses
<1>5. \A q \in Processes : Holds(memory'[q]) /\ memory'[q] \in Context \cup {NoContext}
  <2> TAKE q \in Processes
  <2> DEFINE c == memory[q]
  <2>1. c \in Context \cup {NoContext, Over} /\ Holds(c) /\ memory'[q] = Aged(c, NoContext)
    BY <1>3, <1>4
  <2> HIDE DEF c
  <2>2. Holds(Aged(c, NoContext))
    BY <2>1, AgedIs DEF Holds
  <2>3. QED
    BY <2>1, <2>2, HoldsIs
<1>6. memory' \in [Processes -> Context \cup {NoContext}]
  BY <1>4, <1>5
<1>7. search' \in [Processes -> [mails: Seq(Mails), age: {Fresh, Stale}]]
  <2> DEFINE T == [mails: Seq(Mails), age: {Fresh, Stale}]
  <2>1. NoSearch \in T
    BY EmptyIs DEF NoSearch
  <2>2. \A s \in T : [s EXCEPT !.age = Stale] \in T
    OBVIOUS
  <2> HIDE DEF T
  <2>3. \A s \in T : Aged(s, NoSearch) \in T
    BY <2>1, <2>2 DEF Aged
  <2>4. search \in [Processes -> T] /\ search' = [p \in Processes |-> Aged(search[p], NoSearch)]
    BY DEF Tick, TimePasses, T
  <2>5. QED
    BY <2>3, <2>4 DEF T
<1>8. Holds(row') \/ row' = Over
  <2>1. row' = Aged(row, Over)
    BY DEF Tick, TimePasses
  <2>2. QED
    BY <2>1, AgedIs
<1>9. latest' \in Context \cup {NoContext, Over, Uncertain}
  <2>1. CASE latest = Uncertain
    BY <2>1 DEF Tick
  <2>2. CASE latest # Uncertain
    <3>1. latest \in Context \cup {NoContext, Over} /\ latest' = Aged(latest, Over)
      BY <2>2 DEF Tick
    <3>2. QED
      BY <3>1, AgedIs
  <2>3. QED
    BY <2>1, <2>2
<1>10. owner' \in Processes
  BY <1>1

<1>11. QED
  BY <1>1, <1>2, <1>5, <1>6, <1>7, <1>8, <1>9, <1>10, AllStill

-----------------------------------------------------------------------------
(* The theorems about answers *)

\* The invariant at the start,
LEMMA KeptInit == Init => KeptInv
<1> SUFFICES ASSUME Init PROVE KeptInv
  OBVIOUS
<1> USE DEF Init, StoreInit
<1>1. TurnSound(mailbox, IdleTurn)
  BY IdleSound
<1>2. IdleTurn \in Turn
  BY IdleIs
<1>3. turn \in [Turns -> Turn] /\ \A t \in Turns : turn[t] = IdleTurn
  BY <1>2
<1>4. Holds(NoContext) /\ \A p \in Processes : Holds(memory[p])
  BY DEF Holds
<1>5. search \in [Processes -> [mails: Seq(Mails), age: {Fresh, Stale}]]
  BY EmptyIs DEF NoSearch
<1>6. failures \in 0..MaxFailures
  BY MaxFailuresAssumption
<1>7. memory \in [Processes -> Context \cup {NoContext}] /\ row \in Context \cup {NoContext, Over}
      /\ latest \in Context \cup {NoContext, Over, Uncertain}
  OBVIOUS
<1>8. TypeOK
  BY <1>3, <1>5, <1>6, <1>7 DEF TypeOK
<1>9. QED
  BY <1>1, <1>3, <1>4, <1>8 DEF KeptInv

\* in each step of a turn,
LEMMA StepKeeps ==
  ASSUME KeptInv, NEW t \in Turns, Step(t)
  PROVE  KeptInv'
<1>1. CASE \E p \in Processes, m \in Messages, ready \in BOOLEAN : Begin(t, p, m, ready)
  BY <1>1, BeginKeeps
<1>2. CASE Hit(t) \/ Get(t) \/ Got(t) \/ Store(t)
  BY <1>2, HitKeeps, GetKeeps, GotKeeps, StoreKeeps
<1>3. CASE Capability(t) \/ Awaiting(t) \/ NotAwaiting(t)
  BY <1>3, CapabilityKeeps, AwaitingKeeps, NotAwaitingKeeps
<1>4. CASE Decide(t) \/ Advise(t) \/ Advised(t) \/ Payment(t) \/ Final(t)
  BY <1>4, DecideKeeps, AdviseKeeps, AdvisedKeeps, PaymentKeeps, FinalKeeps
<1>5. CASE GmailFails(t) \/ OpenBody(t) \/ NoAttachment(t)
  BY <1>5, GmailFailsKeeps, OpenBodyKeeps, NoAttachmentKeeps
<1>6. CASE Search(t) \/ Hunt(t) \/ Found(t) \/ Refine(t)
  BY <1>6, SearchKeeps, HuntKeeps, FoundKeeps, RefineKeeps
<1>7. CASE FoundTopic(t) \/ Issuers(t) \/ Format(t) \/ End(t)
  BY <1>7, FoundTopicKeeps, IssuersKeeps, FormatKeeps, EndKeeps
<1>8. QED
  BY <1>1, <1>2, <1>3, <1>4, <1>5, <1>6, <1>7 DEF Step

\* and in each step at all.
LEMMA KeptNext == KeptInv /\ [Next]_vars => KeptInv'
<1> SUFFICES ASSUME KeptInv, [Next]_vars PROVE KeptInv'
  OBVIOUS
<1>1. CASE Next
  BY <1>1, StepKeeps, ProcessEndsKeeps, TickKeeps DEF Next
<1>2. CASE UNCHANGED vars
  <2>1. UNCHANGED <<mailbox, fastPath, memory, search, row, turn, failures, latest, owner>>
    BY <1>2 DEF vars, storeVars
  <2>2. TypeOK'
    BY <2>1 DEF KeptInv, TypeOK
  <2>3. QED
    BY <2>1, <2>2 DEF KeptInv
<1>3. QED
  BY <1>1, <1>2

LEMMA StaysKept == Spec => []KeptInv
BY KeptInit, KeptNext, PTL DEF Spec

\* What gmail-tool.ts keeps in taskContextByUser and in the row, and what a turn
\* of maybeHandleCustomGmailRequest has in its variables, is of its type: also
\* that the question of the source is put again once and no more
\* (clarificationResendCount), and that a turn reads its context three times.
THEOREM Typing == Spec => []TypeOK
<1>1. KeptInv => TypeOK
  BY DEF KeptInv
<1>2. QED
  BY <1>1, StaysKept, PTL

\* A message that names a period is answered with payments of that period: the
\* searches, the reused records and the follow-ups of a payment task have no
\* other, unless the task was refined, or more coverage is asked for.
THEOREM AnswersAreOfTheirPeriod == Spec => []AnswerIsOfItsPeriod
<1>1. KeptInv => AnswerIsOfItsPeriod
  <2> SUFFICES ASSUME KeptInv, NEW t \in Turns,
                      At(t, "done"), turn[t].answer.kind \in {"found", "cached"},
                      Message(t).period # "any", turn[t].family \in {"payment", "none"},
                      ~Says(t, "coverage"), turn[t].decision.intent # "coverage",
                      Task(t) # NoContext => ~Task(t).refined
               PROVE  \A i \in DOMAIN turn[t].answer.records :
                        turn[t].answer.records[i].period = Message(t).period
    BY DEF AnswerIsOfItsPeriod
  <2>1. turn[t].pc = "done"
    BY DEF At
  <2>2. PeriodPart("done", turn[t])
    BY <2>1, HereIs DEF Enters
  <2>3. ~Exempt(turn[t])
    BY DEF Exempt, Says, Is, Message
  <2>4. OfPeriodOf(turn[t].answer.records, turn[t].message.period)
    BY <2>2, <2>3 DEF PeriodPart, Task
  <2>5. QED
    BY <2>4 DEF OfPeriodOf, Message
<1>2. QED
  BY <1>1, StaysKept, PTL

\* No answer counts a mail twice, in whatever stages its search has found it (the
\* seenIds of fetchPaymentMessagesAcrossQueries), and none lists more mails than
\* it says it has scanned.
THEOREM MailsAreCountedOnce == Spec => []CountsEachMailOnce
<1>1. KeptInv => CountsEachMailOnce
  <2> SUFFICES ASSUME KeptInv, NEW t \in Turns, At(t, "done")
               PROVE  LET answer == turn[t].answer
                      IN  /\ Cardinality(Ids(answer.records)) = Len(answer.records)
                          /\ answer.kind = "found" => Len(answer.mails) <= answer.limit
    BY DEF CountsEachMailOnce
  <2> DEFINE answer == turn[t].answer
  <2>1. turn[t].pc = "done"
    BY DEF At
  <2>2. AnswerPart("done", turn[t]) /\ answer \in Answers
    BY <2>1, HereIs DEF Enters
  <2>3. Answered(turn[t])
    BY <2>2 DEF AnswerPart
  <2>4. /\ Once(answer.records) /\ answer.records \in Seq(Mails)
        /\ answer.kind = "found" => Len(answer.mails) <= answer.limit
    BY <2>2, <2>3 DEF Answered, Answers
  <2> HIDE DEF answer
  <2>5. Cardinality(Ids(answer.records)) = Len(answer.records)
    BY <2>4, CountIds
  <2>6. QED
    BY <2>4, <2>5 DEF answer
<1>2. QED
  BY <1>1, StaysKept, PTL

\* An answer that is not about a trip was made with one body when the user asked for
\* one, with at most MAX_TOPIC_BODY_CHECKS when it reuses a list whose issuers were
\* looked for, and with none after a search: the stages that read are a trip's.
THEOREM BodiesAreFew == Spec => []FewBodies
<1>1. KeptInv => FewBodies
  <2> SUFFICES ASSUME KeptInv, NEW t \in Turns, At(t, "done")
               PROVE  FewOf(turn[t])
    BY DEF FewBodies, FewOf, AboutTrip, OfTrip, Message, Task
  <2>1. turn[t].pc = "done"
    BY DEF At
  <2>2. AnswerPart("done", turn[t])
    BY <2>1, HereIs DEF Enters
  <2>3. QED
    BY <2>2 DEF AnswerPart, Answered
<1>2. QED
  BY <1>1, StaysKept, PTL

-----------------------------------------------------------------------------
(* The invariant of the latest context *)

Dirty(t) == Active(t) /\ (turn[t].wrote \/ At(t, "store"))
EarlyPcs == {"read", "got", "branch", "active"}

\* A turn is alone if no other has been there beside it.
AloneInv == \A t, u \in Turns : Active(t) /\ turn[t].alone /\ Active(u) => u = t

\* It finds in the row and in its memory what it has written.
OwnOf(t) ==
  Active(t) /\ turn[t].alone =>
    /\ At(t, "store") => memory[turn[t].process] = Task(t)
    /\ turn[t].sound /\ turn[t].wrote /\ ~At(t, "store") => row = memory[turn[t].process]
    /\ turn[t].sound /\ At(t, "got") => Task(t) = row

\* Where nobody has written since, the row has the latest context, and the memory
\* of its process has no other.
RowInv ==
  latest # Uncertain /\ (\A t \in Turns : ~Dirty(t)) =>
    /\ row = latest
    /\ memory[owner] \in {NoContext, latest}
    /\ \A t \in Turns : At(t, "got") => Task(t) \in {NoContext, row}

\* Until it writes, a turn that expects a context can only see the latest one; and
\* when it has deleted a row that was over, it sees nothing.
ExpectedOf(t) ==
  Active(t) /\ turn[t].alone /\ turn[t].sound /\ turn[t].expected # Uncertain =>
    /\ ~Dirty(t) =>
         /\ turn[t].expected = latest
         /\ memory[turn[t].process] \in {NoContext, latest}
         /\ turn[t].pc \in {"branch", "active"} => Task(t) = latest
    /\ Dirty(t) /\ turn[t].expected = Over /\ Towards(turn[t]) \in EarlyPcs =>
         Task(t) = NoContext /\ memory[turn[t].process] = NoContext

\* A turn that stores goes on after it.
NextInv == \A t \in Turns : At(t, "store") => turn[t].next # "idle"

LatestInv ==
  /\ AloneInv /\ RowInv /\ NextInv
  /\ \A t \in Turns : OwnOf(t) /\ ExpectedOf(t)

\* A step of turn t, which is then as new says.
Moves(t, new) ==
  /\ turn' = [turn EXCEPT ![t] = new]
  /\ UNCHANGED <<latest, owner>>
  /\ turn[t].pc # "idle" /\ new.pc # "idle"
  /\ new.pc = "store" => new.next # "idle"
  /\ new.process = turn[t].process /\ new.alone = turn[t].alone
  /\ new.expected = turn[t].expected

LEMMA MovesIs ==
  ASSUME KeptInv, NEW t \in Turns, NEW new, Moves(t, new)
  PROVE  /\ turn'[t] = new /\ \A u \in Turns : u # t => turn'[u] = turn[u]
         /\ turn[t].process \in Processes /\ memory \in [Processes -> Context \cup {NoContext}]
<1>1. turn \in [Turns -> Turn] /\ memory \in [Processes -> Context \cup {NoContext}]
  BY DEF KeptInv, TypeOK
<1>2. turn[t] \in Turn
  BY <1>1
<1>3. turn[t].process \in Processes
  BY <1>2 DEF Turn
<1>4. QED
  BY <1>1, <1>3 DEF Moves

\* A step of one turn keeps the invariant, if it does so for that turn and the row.
LEMMA LatestMoves ==
  ASSUME KeptInv, LatestInv, NEW t \in Turns, NEW new, Moves(t, new),
         OwnOf(t)', RowInv', ExpectedOf(t)'
  PROVE  LatestInv'
<1>1. turn'[t] = new /\ \A u \in Turns : u # t => turn'[u] = turn[u]
  BY MovesIs
<1>2. Active(t) /\ Active(t)' /\ (turn[t].alone <=> turn'[t].alone)
  BY <1>1 DEF Moves, Active
<1>3. \A u \in Turns : Active(u)' <=> Active(u)
  BY <1>1, <1>2 DEF Active
<1>4. \A u \in Turns : turn'[u].alone <=> turn[u].alone
  BY <1>1, <1>2
<1>5. AloneInv'
  BY <1>3, <1>4 DEF LatestInv, AloneInv
<1>6. \A u \in Turns : u # t => ~(Active(u)' /\ turn'[u].alone)
  BY <1>2, <1>3, <1>4 DEF LatestInv, AloneInv
<1>7. \A u \in Turns : u # t => OwnOf(u)' /\ ExpectedOf(u)'
  BY <1>6 DEF OwnOf, ExpectedOf
<1>8. NextInv'
  BY <1>1 DEF LatestInv, NextInv, Moves, At
<1>9. QED
  BY <1>5, <1>7, <1>8 DEF LatestInv

\* After the question of what the message is about, a turn reads its context no more.
Late ==
  {"advise", "advised", "payment", "search", "hunt", "found", "refine", "issuer", "format",
   "readvise", "final", "done"}

\* Neither reading nor writing: the turn goes to where it reads its context no more.
LEMMA ThinksOn ==
  ASSUME KeptInv, LatestInv, NEW t \in Turns, NEW new, Moves(t, new),
         UNCHANGED <<memory, row>>, turn[t].pc # "store", new.pc \in Late,
         new.wrote = turn[t].wrote, new.sound = turn[t].sound
  PROVE  LatestInv'
<1>1. turn'[t] = new /\ \A u \in Turns : u # t => turn'[u] = turn[u]
  BY MovesIs
<1>2. new.pc \notin {"idle", "store", "got", "branch", "active", "read"}
  BY DEF Late
<1>3. OwnOf(t) /\ ExpectedOf(t) /\ RowInv
  BY DEF LatestInv
<1>4. OwnOf(t)'
  BY <1>1, <1>2, <1>3 DEF OwnOf, Moves, Active, At
<1>5. Dirty(t)' <=> Dirty(t)
  BY <1>1, <1>2 DEF Dirty, Moves, Active, At
<1>6. \A u \in Turns : u # t => (Dirty(u)' <=> Dirty(u))
  BY <1>1 DEF Dirty, Active, At
<1>7. \A u \in Turns : At(u, "got")' => At(u, "got") /\ Task(u)' = Task(u)
  BY <1>1, <1>2 DEF At, Task
<1>8. RowInv'
  BY <1>3, <1>5, <1>6, <1>7 DEF RowInv, Moves
<1>9. Towards(new) \notin EarlyPcs
  BY <1>2 DEF Towards, EarlyPcs
<1>10. ExpectedOf(t)'
  BY <1>1, <1>2, <1>3, <1>5, <1>9 DEF ExpectedOf, Moves, Active
<1>11. QED
  BY <1>4, <1>8, <1>10, LatestMoves

\* The memory changes, and the row will: the turn is dirty.
LEMMA Sets ==
  ASSUME KeptInv, LatestInv, NEW t \in Turns, NEW new, Moves(t, new), NEW c,
         memory' = [memory EXCEPT ![turn[t].process] = c], UNCHANGED row,
         new.pc = "store", new.context = c, new.next \in Late \/ c = NoContext
  PROVE  LatestInv'
<1>1. /\ turn'[t] = new /\ turn[t].process \in Processes
      /\ memory \in [Processes -> Context \cup {NoContext}]
  BY MovesIs
<1>2. memory'[turn[t].process] = c
  BY <1>1
<1>3. OwnOf(t)'
  BY <1>1, <1>2 DEF OwnOf, Moves, At, Task
<1>4. Dirty(t)'
  BY <1>1 DEF Dirty, Active, At
<1>5. RowInv'
  BY <1>4 DEF RowInv
<1>6. Towards(new) \in EarlyPcs => c = NoContext
  BY DEF Towards, EarlyPcs, Late
<1>7. ExpectedOf(t)'
  BY <1>1, <1>2, <1>4, <1>6 DEF ExpectedOf, Moves, Task
<1>8. QED
  BY <1>3, <1>5, <1>7, LatestMoves

LEMMA MovedIs ==
  ASSUME KeptInv, NEW t \in Turns, Still, turn[t].pc # "idle", NEW new,
         turn' = [turn EXCEPT ![t] = new], new.pc # "idle",
         new.pc = "store" => new.next # "idle",
         new.process = turn[t].process, new.alone = turn[t].alone, new.expected = turn[t].expected
  PROVE  Moves(t, new)
BY DEF Moves, Still

LEMMA GoesOn ==
  ASSUME KeptInv, LatestInv, NEW t \in Turns, NEW pc \in Late, Goto(t, pc), Still,
         turn[t].pc \notin {"idle", "store"}
  PROVE  LatestInv'
<1> DEFINE r == turn[t]
           new == [r EXCEPT !.pc = pc]
<1>1. r \in Turn /\ turn' = [turn EXCEPT ![t] = new] /\ UNCHANGED <<memory, row>>
  BY DEF KeptInv, TypeOK, Goto, storeVars
<1>2. /\ new.pc = pc /\ new.process = r.process /\ new.alone = r.alone
      /\ new.expected = r.expected /\ new.wrote = r.wrote /\ new.sound = r.sound
  <2> HIDE DEF r
  <2>1. QED
    BY <1>1 DEF Turn
<1>3. pc # "idle" /\ pc # "store"
  BY DEF Late
<1> HIDE DEF new
<1>4. Moves(t, new)
  BY <1>1, <1>2, <1>3, MovedIs
<1>5. QED
  BY <1>1, <1>2, <1>4, ThinksOn

LEMMA Replies ==
  ASSUME KeptInv, LatestInv, NEW t \in Turns, NEW answer, Reply(t, answer), Still,
         turn[t].pc \notin {"idle", "store"}
  PROVE  LatestInv'
<1> DEFINE r == turn[t]
           new == [r EXCEPT !.pc = "done", !.answer = answer]
<1>1. r \in Turn /\ turn' = [turn EXCEPT ![t] = new] /\ UNCHANGED <<memory, row>>
  BY DEF KeptInv, TypeOK, Reply, storeVars
<1>2. /\ new.pc = "done" /\ new.process = r.process /\ new.alone = r.alone
      /\ new.expected = r.expected /\ new.wrote = r.wrote /\ new.sound = r.sound
  <2> HIDE DEF r
  <2>1. QED
    BY <1>1 DEF Turn
<1> HIDE DEF new
<1>3. Moves(t, new)
  BY <1>1, <1>2, MovedIs
<1>4. QED
  BY <1>1, <1>2, <1>3, ThinksOn DEF Late

LEMMA SearchesThen ==
  ASSUME KeptInv, LatestInv, NEW t \in Turns, NEW job, NEW goal, StartSearch(t, job, goal), Still,
         turn[t].pc \notin {"idle", "store"}
  PROVE  LatestInv'
<1> DEFINE r == turn[t]
           new == [r EXCEPT !.pc = "search", !.job = job, !.goal = goal]
<1>1. r \in Turn /\ turn' = [turn EXCEPT ![t] = new] /\ UNCHANGED <<memory, row>>
  BY DEF KeptInv, TypeOK, StartSearch, storeVars
<1>2. /\ new.pc = "search" /\ new.process = r.process /\ new.alone = r.alone
      /\ new.expected = r.expected /\ new.wrote = r.wrote /\ new.sound = r.sound
  <2> HIDE DEF r
  <2>1. QED
    BY <1>1 DEF Turn
<1> HIDE DEF new
<1>3. Moves(t, new)
  BY <1>1, <1>2, MovedIs
<1>4. QED
  BY <1>1, <1>2, <1>3, ThinksOn DEF Late

LEMMA SetsThen ==
  ASSUME KeptInv, LatestInv, NEW t \in Turns, NEW c, NEW next, NEW job, NEW goal, NEW answer,
         SetAnd(t, c, next, job, goal, answer), Still,
         turn[t].pc # "idle", next # "idle", next \in Late \/ c = NoContext
  PROVE  LatestInv'
<1> DEFINE r == turn[t]
           new == [r EXCEPT !.pc = "store", !.context = c, !.next = next,
                            !.job = job, !.goal = goal, !.answer = answer]
<1>1. /\ r \in Turn /\ turn' = [turn EXCEPT ![t] = new] /\ UNCHANGED row
      /\ memory' = [memory EXCEPT ![r.process] = c]
  BY DEF KeptInv, TypeOK, SetAnd, SetMemory
<1>2. /\ new.pc = "store" /\ new.next = next /\ new.context = c
      /\ new.process = r.process /\ new.alone = r.alone /\ new.expected = r.expected
  <2> HIDE DEF r
  <2>1. QED
    BY <1>1 DEF Turn
<1> HIDE DEF new
<1>3. Moves(t, new)
  BY <1>1, <1>2, MovedIs
<1>4. QED
  BY <1>1, <1>2, <1>3, Sets

LEMMA Drops ==
  ASSUME KeptInv, LatestInv, NEW t \in Turns, NEW kind, Drop(t, kind), Still, turn[t].pc # "idle"
  PROVE  LatestInv'
BY SetsThen DEF Drop, ClearAnd

LEMMA Restarts ==
  ASSUME KeptInv, LatestInv, NEW t \in Turns, Restart(t), Still, turn[t].pc # "idle"
  PROVE  LatestInv'
BY SetsThen, Drops DEF Restart, ClearAnd

LEMMA Prompts ==
  ASSUME KeptInv, LatestInv, NEW t \in Turns, NEW c, Prompt(t, c), Still, turn[t].pc # "idle"
  PROVE  LatestInv'
BY SetsThen DEF Prompt, Late

LEMMA HandlesActive ==
  ASSUME KeptInv, LatestInv, NEW t \in Turns, NEW d, HandleActive(t, d), Still,
         turn[t].pc \in {"advised", "final"}
  PROVE  LatestInv'
<1>1. CASE Goto(t, "payment")
  BY <1>1, GoesOn DEF Late
<1>2. CASE \E kind : Drop(t, kind)
  BY <1>2, Drops
<1>3. CASE \E c : SetAnd(t, c, "payment", "search", NoMessage, turn[t].answer)
  BY <1>3, SetsThen DEF Late
<1>4. QED
  BY <1>1, <1>2, <1>3 DEF HandleActive

\* When all are still but t, the row has what t has not yet replaced.
LEMMA RowIsLatest ==
  ASSUME LatestInv, NEW t \in Turns, Active(t), turn[t].alone, ~Dirty(t), latest # Uncertain
  PROVE  row = latest /\ memory[owner] \in {NoContext, latest}
<1>1. \A u \in Turns : ~Dirty(u)
  BY DEF LatestInv, AloneInv, Dirty
<1>2. QED
  BY <1>1 DEF LatestInv, RowInv

-----------------------------------------------------------------------------
(* The latest context in the steps of a turn *)

\* The memory has the task: the latest one, if any is expected.
LEMMA HitLatest ==
  ASSUME KeptInv, LatestInv, NEW t \in Turns, Hit(t)
  PROVE  LatestInv'
<1> DEFINE r == turn[t]
           c == memory[r.process]
           pc == IF r.reads < 2 THEN "branch" ELSE "active"
           family == c.family
           two == 2
           new == [r EXCEPT !.context = c, !.pc = pc, !.reads = two, !.family = family]
<1>1. r.pc = "read" /\ c # NoContext /\ UNCHANGED <<memory, row>> /\ Still
  BY DEF Hit, At, storeVars
<1>2. r \in Turn /\ turn' = [turn EXCEPT ![t] = new]
  BY DEF KeptInv, TypeOK, Hit, AfterHit
<1>3. pc \in {"branch", "active"}
  OBVIOUS
<1> HIDE DEF pc, family, two, c
<1>4. /\ new.pc = pc /\ new.context = c /\ new.process = r.process /\ new.alone = r.alone
      /\ new.expected = r.expected /\ new.wrote = r.wrote /\ new.sound = r.sound
  <2> HIDE DEF r
  <2>1. QED
    BY <1>2 DEF Turn
<1> HIDE DEF new
<1>5. Moves(t, new)
  BY <1>1, <1>2, <1>3, <1>4, MovedIs
<1>6. turn'[t] = new /\ \A u \in Turns : u # t => turn'[u] = turn[u]
  BY <1>5, MovesIs
<1>7. OwnOf(t) /\ ExpectedOf(t) /\ RowInv
  BY DEF LatestInv
<1>8. OwnOf(t)'
  BY <1>1, <1>3, <1>4, <1>6, <1>7 DEF OwnOf, Active, At
<1>9. Dirty(t)' <=> Dirty(t)
  BY <1>1, <1>3, <1>4, <1>6 DEF Dirty, Active, At
<1>10. \A u \in Turns : u # t => (Dirty(u)' <=> Dirty(u))
  BY <1>6 DEF Dirty, Active, At
<1>11. \A u \in Turns : At(u, "got")' => At(u, "got") /\ Task(u)' = Task(u)
  BY <1>3, <1>4, <1>6 DEF At, Task
<1>12. RowInv'
  BY <1>1, <1>7, <1>9, <1>10, <1>11 DEF RowInv, Still
<1>13. Towards(r) \in EarlyPcs
  BY <1>1 DEF Towards, EarlyPcs
<1>14. ExpectedOf(t)'
  BY <1>1, <1>4, <1>6, <1>7, <1>9, <1>13 DEF ExpectedOf, Active, Task, Still, c
<1>15. QED
  BY <1>5, <1>8, <1>12, <1>14, LatestMoves

LEMMA NotAwaitingLatest ==
  ASSUME KeptInv, LatestInv, NEW t \in Turns, NotAwaiting(t)
  PROVE  LatestInv'
<1> DEFINE r == turn[t]
           new == [r EXCEPT !.pc = "read"]
<1>1. r.pc = "branch" /\ UNCHANGED <<memory, row>> /\ Still
  BY DEF NotAwaiting, At, Goto, storeVars
<1>2. r \in Turn /\ turn' = [turn EXCEPT ![t] = new]
  BY DEF KeptInv, TypeOK, NotAwaiting, Goto
<1>3. /\ new.pc = "read" /\ new.context = r.context /\ new.process = r.process
      /\ new.alone = r.alone
      /\ new.expected = r.expected /\ new.wrote = r.wrote /\ new.sound = r.sound
  <2> HIDE DEF r
  <2>1. QED
    BY <1>2 DEF Turn
<1> HIDE DEF new
<1>4. Moves(t, new)
  BY <1>1, <1>2, <1>3, MovedIs
<1>5. turn'[t] = new /\ \A u \in Turns : u # t => turn'[u] = turn[u]
  BY <1>4, MovesIs
<1>6. OwnOf(t) /\ ExpectedOf(t) /\ RowInv
  BY DEF LatestInv
<1>7. OwnOf(t)'
  BY <1>1, <1>3, <1>5, <1>6 DEF OwnOf, Active, At
<1>8. \A u \in Turns : /\ Dirty(u)' <=> Dirty(u)
                       /\ At(u, "got")' => At(u, "got") /\ Task(u)' = Task(u)
  BY <1>1, <1>3, <1>5 DEF Dirty, Active, At, Task
<1>9. RowInv'
  BY <1>1, <1>6, <1>8 DEF RowInv, Still
<1>10. Towards(r) \in EarlyPcs
  BY <1>1 DEF Towards, EarlyPcs
<1>11. ExpectedOf(t)'
  BY <1>1, <1>3, <1>5, <1>6, <1>8, <1>10 DEF ExpectedOf, Active, Task, Still
<1>12. QED
  BY <1>4, <1>7, <1>9, <1>11, LatestMoves

\* The row has it, or the call fails and the turn is not sound.
LEMMA GetLatest ==
  ASSUME KeptInv, LatestInv, NEW t \in Turns, Get(t)
  PROVE  LatestInv'
<1> DEFINE r == turn[t]
<1>1. r.pc = "read" /\ memory[r.process] = NoContext /\ UNCHANGED <<memory, row, latest, owner>>
  BY DEF Get, At, storeVars, Still, CallFails
<1>2. r \in Turn
  BY DEF KeptInv, TypeOK
<1>3. OwnOf(t) /\ ExpectedOf(t) /\ RowInv
  BY DEF LatestInv
<1>4. ASSUME NEW c, NEW sound, (c = row /\ sound = r.sound) \/ (c = NoContext /\ sound = FALSE),
             NEW new, turn' = [turn EXCEPT ![t] = new],
             new.pc = "got", new.context = c, new.process = r.process, new.alone = r.alone,
             new.expected = r.expected, new.wrote = r.wrote, new.sound = sound
      PROVE  LatestInv'
  <2>1. Moves(t, new)
    BY <1>1, <1>4 DEF Moves
  <2>2. turn'[t] = new /\ \A u \in Turns : u # t => turn'[u] = turn[u]
    BY <2>1, MovesIs
  <2>3. OwnOf(t)'
    BY <1>1, <1>3, <1>4, <2>2 DEF OwnOf, Active, At, Task
  <2>4. Dirty(t)' <=> Dirty(t)
    BY <1>1, <1>4, <2>2 DEF Dirty, Active, At
  <2>5. \A u \in Turns : u # t => /\ Dirty(u)' <=> Dirty(u)
                                  /\ At(u, "got")' => At(u, "got") /\ Task(u)' = Task(u)
    BY <2>2 DEF Dirty, Active, At, Task
  <2>6. Task(t)' \in {NoContext, row'}
    BY <1>1, <1>4, <2>2 DEF Task
  <2>7. RowInv'
    BY <1>1, <1>3, <2>4, <2>5, <2>6 DEF RowInv
  <2>8. Towards(r) \in EarlyPcs
    BY <1>1 DEF Towards, EarlyPcs
  <2>9. ASSUME r.alone, sound, r.expected # Uncertain
        PROVE  /\ ~Dirty(t) => r.expected = latest
               /\ Dirty(t) /\ r.expected = Over => c = NoContext
    <3>1. r.sound /\ c = row
      BY <1>4, <2>9
    <3>2. ~Dirty(t) => r.expected = latest
      BY <1>1, <1>3, <2>9, <3>1 DEF ExpectedOf, Active
    <3>3. Dirty(t) /\ r.expected = Over => row = memory[r.process]
      BY <1>1, <1>3, <2>9, <3>1 DEF OwnOf, Dirty, Active, At
    <3>4. QED
      BY <1>1, <3>1, <3>2, <3>3
  <2>10. ExpectedOf(t)'
    BY <1>1, <1>4, <2>2, <2>4, <2>9 DEF ExpectedOf, Task
  <2>11. QED
    BY <2>1, <2>3, <2>7, <2>10, LatestMoves
<1>5. CASE turn' = [turn EXCEPT ![t].pc = "got", ![t].context = row]
  <2> DEFINE new == [r EXCEPT !.pc = "got", !.context = row]
  <2>1. turn' = [turn EXCEPT ![t] = new]
    BY <1>5
  <2> HIDE DEF r
  <2>2. /\ new.pc = "got" /\ new.context = row /\ new.process = r.process /\ new.alone = r.alone
        /\ new.expected = r.expected /\ new.wrote = r.wrote /\ new.sound = r.sound
    BY <1>2 DEF Turn
  <2> HIDE DEF new
  <2>3. QED
    BY <1>4, <2>1, <2>2
<1>6. CASE turn' = [turn EXCEPT ![t].pc = "got", ![t].context = NoContext, ![t].sound = FALSE]
  <2> DEFINE no == FALSE
             new == [r EXCEPT !.pc = "got", !.context = NoContext, !.sound = no]
  <2>1. turn' = [turn EXCEPT ![t] = new] /\ no = FALSE
    BY <1>6
  <2> HIDE DEF r, no
  <2>2. /\ new.pc = "got" /\ new.context = NoContext /\ new.process = r.process
        /\ new.alone = r.alone
        /\ new.expected = r.expected /\ new.wrote = r.wrote /\ new.sound = no
    BY <1>2 DEF Turn
  <2> HIDE DEF new
  <2>3. QED
    BY <1>4, <2>1, <2>2
<1>7. QED
  BY <1>5, <1>6 DEF Get

\* The row is written, or the call fails.
LEMMA StoreLatest ==
  ASSUME KeptInv, LatestInv, NEW t \in Turns, Store(t)
  PROVE  LatestInv'
<1> DEFINE r == turn[t]
<1>1. r.pc = "store" /\ UNCHANGED <<memory, latest, owner>>
  BY DEF Store, At, WriteRow, Still, CallFails, storeVars
<1>2. r \in Turn /\ r.next # "store" /\ r.next # "idle"
  <2>1. TurnSound(mailbox, r) /\ r \in Turn
    BY DEF KeptInv, TypeOK
  <2>2. QED
    BY <1>1, <2>1 DEF TurnSound, Towards, LatestInv, NextInv, At
<1>3. OwnOf(t) /\ ExpectedOf(t)
  BY DEF LatestInv
<1>4. ASSUME NEW sound, (row' = r.context /\ sound = r.sound) \/ sound = FALSE,
             NEW new, turn' = [turn EXCEPT ![t] = new],
             new.pc = r.next, new.context = r.context, new.process = r.process,
             new.alone = r.alone, new.expected = r.expected, new.wrote = TRUE, new.sound = sound
      PROVE  LatestInv'
  <2>1. Moves(t, new)
    BY <1>1, <1>2, <1>4 DEF Moves
  <2>2. turn'[t] = new
    BY <2>1, MovesIs
  <2>3. Dirty(t)' /\ Dirty(t)
    BY <1>1, <1>2, <1>4, <2>2 DEF Dirty, Active, At
  <2>4. RowInv'
    BY <2>3 DEF RowInv
  <2>5. r.alone => memory[r.process] = r.context
    BY <1>1, <1>3 DEF OwnOf, Active, At, Task
  <2>6. OwnOf(t)'
    BY <1>1, <1>2, <1>4, <2>2, <2>5 DEF OwnOf, At, Task
  <2>7. Towards(new) = Towards(r)
    BY <1>1, <1>2, <1>4 DEF Towards
  <2>8. ExpectedOf(t)'
    BY <1>1, <1>3, <1>4, <2>2, <2>3, <2>7 DEF ExpectedOf, Active, Task
  <2>9. QED
    BY <2>1, <2>4, <2>6, <2>8, LatestMoves
<1>5. CASE WriteRow(Task(t)) /\ turn' = [turn EXCEPT ![t].pc = turn[t].next, ![t].wrote = TRUE]
  <2> DEFINE next == r.next
             yes == TRUE
             new == [r EXCEPT !.pc = next, !.wrote = yes]
  <2>1. turn' = [turn EXCEPT ![t] = new] /\ yes = TRUE /\ row' = r.context /\ next = r.next
    BY <1>5 DEF WriteRow, Task
  <2> HIDE DEF r, yes, next
  <2>2. /\ new.pc = next /\ new.context = r.context /\ new.process = r.process
        /\ new.alone = r.alone
        /\ new.expected = r.expected /\ new.wrote = yes /\ new.sound = r.sound
    BY <1>2 DEF Turn
  <2> HIDE DEF new
  <2>3. QED
    BY <1>4, <2>1, <2>2
<1>6. CASE turn' = [turn EXCEPT ![t].pc = turn[t].next, ![t].wrote = TRUE, ![t].sound = FALSE]
  <2> DEFINE next == r.next
             yes == TRUE
             no == FALSE
             new == [r EXCEPT !.pc = next, !.wrote = yes, !.sound = no]
  <2>1. turn' = [turn EXCEPT ![t] = new] /\ yes = TRUE /\ no = FALSE /\ next = r.next
    BY <1>6
  <2> HIDE DEF r, yes, no, next
  <2>2. /\ new.pc = next /\ new.context = r.context /\ new.process = r.process
        /\ new.alone = r.alone
        /\ new.expected = r.expected /\ new.wrote = yes /\ new.sound = no
    BY <1>2 DEF Turn
  <2> HIDE DEF new
  <2>3. QED
    BY <1>4, <2>1, <2>2
<1>7. QED
  BY <1>5, <1>6 DEF Store

\* What was read is kept; a row that is over is deleted, and then there is none.
LEMMA GotLatest ==
  ASSUME KeptInv, LatestInv, NEW t \in Turns, Got(t)
  PROVE  LatestInv'
<1> DEFINE r == turn[t]
           c == Task(t)
           p == r.process
           then == AfterMiss(t)
<1>1. r.pc = "got" /\ Still /\ c = r.context
  BY DEF Got, At, Task
<1>2. r \in Turn /\ p \in Processes /\ memory \in [Processes -> Context \cup {NoContext}]
  <2>1. r \in Turn
    BY DEF KeptInv, TypeOK
  <2>2. QED
    BY <2>1 DEF KeptInv, TypeOK, Turn
<1>3. OwnOf(t) /\ ExpectedOf(t) /\ RowInv
  BY DEF LatestInv
<1>4. then \in {"read", "branch", "active"} /\ AfterHit(t) \in {"branch", "active"}
  BY DEF AfterMiss, AfterHit
<1>5. Towards(r) \in EarlyPcs /\ Active(t)
  BY <1>1 DEF Towards, EarlyPcs, Active
\* What it has read is what was expected, unless it has written.
<1>6. ASSUME r.alone, r.sound, r.expected # Uncertain, ~Dirty(t)
      PROVE  /\ r.expected = latest /\ c = latest /\ row = latest
             /\ memory[p] \in {NoContext, latest}
  <2>1. r.expected = latest /\ memory[p] \in {NoContext, latest}
    BY <1>3, <1>5, <1>6 DEF ExpectedOf
  <2>2. row = latest
    BY <1>5, <1>6, <2>1, RowIsLatest
  <2>3. c = row
    BY <1>1, <1>3, <1>5, <1>6 DEF OwnOf, At
  <2>4. QED
    BY <2>1, <2>2, <2>3
<1>7. CASE /\ Valid(c) /\ Keep(p, c)
           /\ turn' = [turn EXCEPT ![t].pc = AfterHit(t), ![t].reads = 2, ![t].family = c.family]
  <2> DEFINE pc == AfterHit(t)
             family == c.family
             two == 2
             new == [r EXCEPT !.pc = pc, !.reads = two, !.family = family]
  <2>1. /\ turn' = [turn EXCEPT ![t] = new] /\ row' = row /\ memory' = [memory EXCEPT ![p] = c]
        /\ c # NoContext
    BY <1>7 DEF Keep, Valid
  <2>2. pc \in {"branch", "active"}
    BY <1>4
  <2> HIDE DEF r, pc, family, two
  <2>3. /\ new.pc = pc /\ new.context = r.context /\ new.process = p /\ new.alone = r.alone
        /\ new.expected = r.expected /\ new.wrote = r.wrote /\ new.sound = r.sound
    BY <1>2 DEF Turn
  <2> HIDE DEF new
  <2>4. Moves(t, new)
    BY <1>1, <2>1, <2>2, <2>3, MovedIs DEF r
  <2>5. turn'[t] = new /\ \A u \in Turns : u # t => turn'[u] = turn[u]
    BY <2>4, MovesIs
  <2>6. memory'[p] = c /\ \A q \in Processes : q # p => memory'[q] = memory[q]
    BY <1>2, <2>1
  <2>7. OwnOf(t)'
    BY <1>1, <1>3, <1>5, <2>1, <2>2, <2>3, <2>5, <2>6 DEF OwnOf, At, r
  <2>8. Dirty(t)' <=> Dirty(t)
    BY <1>1, <2>2, <2>3, <2>5 DEF Dirty, Active, At, r
  <2>9. \A u \in Turns : u # t => (Dirty(u)' <=> Dirty(u))
    BY <2>5 DEF Dirty, Active, At
  <2>10. \A u \in Turns : At(u, "got")' => At(u, "got") /\ Task(u)' = Task(u)
    BY <2>2, <2>3, <2>5 DEF At, Task
  <2>11. RowInv'
    <3> SUFFICES ASSUME latest' # Uncertain, \A u \in Turns : ~Dirty(u)'
                 PROVE  /\ row' = latest'
                        /\ memory'[owner'] \in {NoContext, latest'}
                        /\ \A u \in Turns : At(u, "got")' => Task(u)' \in {NoContext, row'}
      BY DEF RowInv
    <3>1. latest # Uncertain /\ \A u \in Turns : ~Dirty(u)
      BY <1>1, <2>8, <2>9 DEF Still
    <3>2. /\ row = latest /\ memory[owner] \in {NoContext, latest}
          /\ \A u \in Turns : At(u, "got") => Task(u) \in {NoContext, row}
      BY <1>3, <3>1 DEF RowInv
    <3>3. c \in {NoContext, row}
      BY <1>1, <3>2 DEF At, r
    <3>4. owner \in Processes
      BY DEF KeptInv, TypeOK
    <3>5. memory'[owner] \in {NoContext, latest}
      BY <2>6, <3>2, <3>3, <3>4
    <3>6. QED
      BY <1>1, <2>1, <2>10, <3>2, <3>5 DEF Still
  <2>12. ExpectedOf(t)'
    <3>1. Task(t)' = c
      BY <1>1, <2>3, <2>5 DEF Task
    <3>2. Dirty(t) /\ r.alone /\ r.sound /\ r.expected = Over /\ r.expected # Uncertain => c = NoContext
      BY <1>3, <1>5 DEF ExpectedOf, r
    <3>3. latest' = latest
      BY <1>1 DEF Still
    <3> HIDE DEF c, p
    <3>4. QED
      BY <1>6, <2>1, <2>3, <2>5, <2>6, <2>8, <3>1, <3>2, <3>3 DEF ExpectedOf
  <2>13. QED
    BY <2>4, <2>7, <2>11, <2>12, LatestMoves
<1>8. CASE /\ ClearMemory(p)
           /\ turn' = [turn EXCEPT ![t].pc = "store", ![t].next = then,
                                   ![t].context = NoContext, ![t].reads = @ + 1]
  <2> DEFINE reads == r.reads + 1
             new == [r EXCEPT !.pc = "store", !.next = then, !.context = NoContext,
                              !.reads = reads]
  <2>1. /\ turn' = [turn EXCEPT ![t] = new]
        /\ memory' = [memory EXCEPT ![p] = NoContext] /\ row' = row
    BY <1>8 DEF ClearMemory, SetMemory
  <2> HIDE DEF then, reads, r
  <2>2. /\ new.pc = "store" /\ new.next = then /\ new.context = NoContext
        /\ new.process = p /\ new.alone = r.alone /\ new.expected = r.expected
    BY <1>2 DEF Turn
  <2> HIDE DEF new
  <2>3. Moves(t, new)
    BY <1>1, <1>4, <2>1, <2>2, MovedIs DEF r
  <2>4. QED
    BY <2>1, <2>2, <2>3, Sets DEF r
<1>9. CASE /\ c = NoContext /\ UNCHANGED storeVars
           /\ turn' = [turn EXCEPT ![t].pc = then, ![t].reads = @ + 1]
  <2> DEFINE reads == r.reads + 1
             new == [r EXCEPT !.pc = then, !.reads = reads]
  <2>1. turn' = [turn EXCEPT ![t] = new] /\ UNCHANGED <<memory, row>> /\ c = NoContext
    BY <1>9 DEF storeVars
  <2> HIDE DEF then, reads, r
  <2>2. /\ new.pc = then /\ new.context = r.context /\ new.process = p /\ new.alone = r.alone
        /\ new.expected = r.expected /\ new.wrote = r.wrote /\ new.sound = r.sound
    BY <1>2 DEF Turn
  <2> HIDE DEF new
  <2>3. Moves(t, new)
    BY <1>1, <1>4, <2>1, <2>2, MovedIs DEF r
  <2>4. turn'[t] = new /\ \A u \in Turns : u # t => turn'[u] = turn[u]
    BY <2>3, MovesIs
  <2>5. OwnOf(t)'
    BY <1>1, <1>3, <1>4, <1>5, <2>1, <2>2, <2>4 DEF OwnOf, At, r
  <2>6. Dirty(t)' <=> Dirty(t)
    BY <1>1, <1>4, <2>2, <2>4 DEF Dirty, Active, At, r
  <2>7. \A u \in Turns : u # t => (Dirty(u)' <=> Dirty(u))
    BY <2>4 DEF Dirty, Active, At
  <2>8. \A u \in Turns : At(u, "got")' => At(u, "got") /\ Task(u)' = Task(u)
    BY <1>4, <2>2, <2>4 DEF At, Task
  <2>9. RowInv'
    BY <1>1, <1>3, <2>1, <2>6, <2>7, <2>8 DEF RowInv, Still
  <2>10. ExpectedOf(t)'
    <3>1. Task(t)' = c
      BY <1>1, <2>2, <2>4 DEF Task
    <3>2. Dirty(t) /\ r.alone /\ r.sound /\ r.expected = Over /\ r.expected # Uncertain =>
            memory[p] = NoContext
      BY <1>3, <1>5 DEF ExpectedOf, r
    <3>3. latest' = latest
      BY <1>1 DEF Still
    <3> HIDE DEF c, p
    <3>4. QED
      BY <1>6, <2>1, <2>2, <2>4, <2>6, <3>1, <3>2, <3>3 DEF ExpectedOf
  <2>11. QED
    BY <2>3, <2>5, <2>9, <2>10, LatestMoves
<1>10. QED
  BY <1>7, <1>8, <1>9 DEF Got

LEMMA AsksLatest ==
  ASSUME KeptInv, LatestInv, NEW t \in Turns, Capability(t) \/ Awaiting(t)
  PROVE  LatestInv'
<1>1. turn[t].pc \notin {"idle", "store"} /\ Still
  BY DEF Capability, Awaiting, At
<1>2. \/ \E kind \in Kinds : Drop(t, kind) \/ Say(t, kind)
      \/ \E job, goal : StartSearch(t, job, goal)
      \/ \E c : Prompt(t, c)
      \/ ClearAnd(t, "read", turn[t].job, NoMessage, turn[t].answer)
  BY DEF Capability, Awaiting, Kinds
<1>3. CASE \E kind \in Kinds : Drop(t, kind) \/ Say(t, kind)
  BY <1>1, <1>3, Drops, Replies DEF Say
<1>4. CASE \E job, goal : StartSearch(t, job, goal)
  BY <1>1, <1>4, SearchesThen
<1>5. CASE \E c : Prompt(t, c)
  BY <1>1, <1>5, Prompts
<1>6. CASE ClearAnd(t, "read", turn[t].job, NoMessage, turn[t].answer)
  BY <1>1, <1>6, SetsThen DEF ClearAnd
<1>7. QED
  BY <1>2, <1>3, <1>4, <1>5, <1>6

LEMMA DecidesLatest ==
  ASSUME KeptInv, LatestInv, NEW t \in Turns, Decide(t)
  PROVE  LatestInv'
<1>1. turn[t].pc \notin {"idle", "store"} /\ Still
  BY DEF Decide, At
<1>2. CASE Restart(t)
  BY <1>1, <1>2, Restarts
<1>3. CASE Set(t, Touched(Task(t)), "format")
  BY <1>1, <1>3, SetsThen DEF Set, Late
<1>4. CASE StartSearch(t, "payment", Message(t))
  BY <1>1, <1>4, SearchesThen
<1>5. CASE Goto(t, "advise")
  BY <1>1, <1>5, GoesOn DEF Late
<1>6. QED
  BY <1>2, <1>3, <1>4, <1>5 DEF Decide

LEMMA AdviseLatest ==
  ASSUME KeptInv, LatestInv, NEW t \in Turns, Advise(t)
  PROVE  LatestInv'
<1> DEFINE r == turn[t]
<1>1. r.pc \in {"advise", "readvise"} /\ Still /\ UNCHANGED <<memory, row>> /\ r \in Turn
  BY DEF Advise, At, storeVars, KeptInv, TypeOK
<1>2. PICK d : turn' = [turn EXCEPT ![t].decision = d,
                                    ![t].pc = IF @ = "advise" THEN "advised" ELSE "final"]
  BY DEF Advise
<1> DEFINE pc == IF r.pc = "advise" THEN "advised" ELSE "final"
           new == [r EXCEPT !.decision = d, !.pc = pc]
<1>3. turn' = [turn EXCEPT ![t] = new]
  BY <1>2
<1>4. pc \in {"advised", "final"}
  OBVIOUS
<1> HIDE DEF r, pc
<1>5. /\ new.pc = pc /\ new.process = r.process /\ new.alone = r.alone
      /\ new.expected = r.expected /\ new.wrote = r.wrote /\ new.sound = r.sound
  BY <1>1 DEF Turn
<1> HIDE DEF new
<1>6. Moves(t, new)
  BY <1>1, <1>3, <1>4, <1>5, MovedIs DEF r
<1>7. QED
  BY <1>1, <1>4, <1>5, <1>6, ThinksOn DEF Late, r

LEMMA AdvisedLatest ==
  ASSUME KeptInv, LatestInv, NEW t \in Turns, Advised(t)
  PROVE  LatestInv'
<1>1. turn[t].pc = "advised" /\ turn[t].pc \notin {"idle", "store"} /\ Still
  BY DEF Advised, At
<1>2. CASE Goto(t, "final") \/ Goto(t, "readvise")
  BY <1>1, <1>2, GoesOn DEF Late
<1>3. CASE \E kind : Say(t, kind) \/ Drop(t, kind)
  BY <1>1, <1>3, Replies, Drops DEF Say
<1>4. CASE Restart(t)
  BY <1>1, <1>4, Restarts
<1>5. CASE \E d : HandleActive(t, d)
  BY <1>1, <1>5, HandlesActive
<1>6. QED
  BY <1>2, <1>3, <1>4, <1>5 DEF Advised

LEMMA PaymentLatest ==
  ASSUME KeptInv, LatestInv, NEW t \in Turns, Payment(t)
  PROVE  LatestInv'
<1>1. turn[t].pc \notin {"idle", "store"} /\ Still
  BY DEF Payment, At
<1>2. ASSUME NEW c, NEW next \in {"search", "done", "refine", "issuer", "format"},
             NEW job, NEW goal, NEW answer, SetAnd(t, c, next, job, goal, answer)
      PROVE  LatestInv'
  BY <1>1, <1>2, SetsThen DEF Late
<1>3. CASE Say(t, "unavailable")
  BY <1>1, <1>3, Replies DEF Say
<1>4. CASE FollowUp(t)
  <2> DEFINE c == Touched(Task(t))
  <2>1. \/ \E goal : SetAnd(t, c, "search", "payment", goal, turn[t].answer)
        \/ SetAnd(t, c, "done", "payment", NoMessage, Answer("unavailable"))
        \/ \E next \in {"refine", "issuer", "format"} : Set(t, c, next)
    BY <1>4 DEF FollowUp
  <2> HIDE DEF c
  <2>2. CASE \E goal : SetAnd(t, c, "search", "payment", goal, turn[t].answer)
    BY <1>2, <2>2
  <2>3. CASE SetAnd(t, c, "done", "payment", NoMessage, Answer("unavailable"))
    BY <1>2, <2>3
  <2>4. CASE \E next \in {"refine", "issuer", "format"} : Set(t, c, next)
    BY <1>2, <2>4 DEF Set
  <2>5. QED
    BY <2>1, <2>2, <2>3, <2>4
<1>5. CASE SetAnd(t, Touched(Task(t)), "search", "body", Message(t), turn[t].answer)
  BY <1>2, <1>5
<1>6. QED
  BY <1>3, <1>4, <1>5 DEF Payment

LEMMA CallsLatest ==
  ASSUME KeptInv, LatestInv, NEW t \in Turns,
         GmailFails(t) \/ OpenBody(t) \/ NoAttachment(t) \/ Format(t)
  PROVE  LatestInv'
<1>1. turn[t].pc \notin {"idle", "store"} /\ Still
  BY DEF GmailFails, OpenBody, NoAttachment, Format, At
<1>2. CASE Goto(t, "format")
  BY <1>1, <1>2, GoesOn DEF Late
<1>3. CASE \E answer : Reply(t, answer)
  BY <1>1, <1>3, Replies
<1>4. QED
  BY <1>2, <1>3 DEF GmailFails, OpenBody, NoAttachment, Format, Say

LEMMA SearchLatest ==
  ASSUME KeptInv, LatestInv, NEW t \in Turns, Search(t) \/ Hunt(t)
  PROVE  LatestInv'
<1> DEFINE r == turn[t]
<1>1. r.pc \in {"search", "hunt"} /\ Still /\ UNCHANGED <<memory, row>> /\ r \in Turn
  BY DEF Search, Hunt, At, storeVars, KeptInv, TypeOK
<1>2. ASSUME NEW hunt, NEW pc \in {"hunt", "found"},
             turn' = [turn EXCEPT ![t] = [r EXCEPT !.pc = pc, !.hunt = hunt]]
      PROVE  LatestInv'
  <2> DEFINE new == [r EXCEPT !.pc = pc, !.hunt = hunt]
  <2>1. turn' = [turn EXCEPT ![t] = new]
    BY <1>2
  <2> HIDE DEF r
  <2>2. /\ new.pc = pc /\ new.process = r.process /\ new.alone = r.alone
        /\ new.expected = r.expected /\ new.wrote = r.wrote /\ new.sound = r.sound
    BY <1>1 DEF Turn
  <2> HIDE DEF new
  <2>3. Moves(t, new)
    BY <1>1, <2>1, <2>2, MovedIs DEF r
  <2>4. QED
    BY <1>1, <2>2, <2>3, ThinksOn DEF Late, r
<1>3. CASE Search(t)
  <2> DEFINE hunt == StartHunt(r.goal, r.job)
             pc == "hunt"
  <2>1. turn' = [turn EXCEPT ![t] = [r EXCEPT !.pc = pc, !.hunt = hunt]] /\ pc \in {"hunt", "found"}
    BY <1>3 DEF Search
  <2> HIDE DEF hunt, pc, r
  <2>2. QED
    BY <1>2, <2>1
<1>4. CASE Hunt(t)
  <2>1. PICK hunt : turn' = [turn EXCEPT ![t].hunt = hunt,
                                         ![t].pc = IF hunt.stage = "done" THEN "found" ELSE "hunt"]
    BY <1>4 DEF Hunt
  <2> DEFINE pc == IF hunt.stage = "done" THEN "found" ELSE "hunt"
  <2>2. turn' = [turn EXCEPT ![t] = [r EXCEPT !.hunt = hunt, !.pc = pc]] /\ pc \in {"hunt", "found"}
    BY <2>1
  <2> HIDE DEF pc, r
  <2>3. [r EXCEPT !.hunt = hunt, !.pc = pc] = [r EXCEPT !.pc = pc, !.hunt = hunt]
    BY <1>1 DEF Turn
  <2>4. QED
    BY <1>2, <2>2, <2>3
<1>5. QED
  BY <1>3, <1>4

LEMMA FoundLatest ==
  ASSUME KeptInv, LatestInv, NEW t \in Turns, Found(t)
  PROVE  LatestInv'
<1> DEFINE r == turn[t]
<1>1. r.pc = "found" /\ Still /\ r \in Turn /\ UNCHANGED row
  BY DEF Found, At, SetSearch, KeptInv, TypeOK
<1>2. PICK c, answer :
        /\ memory' = [memory EXCEPT ![r.process] = c]
        /\ turn' = [turn EXCEPT ![t].pc = "store", ![t].next = "done", ![t].context = c,
                                ![t].hunt = NoHunt, ![t].answer = answer]
  BY DEF Found, SetSearch
<1> DEFINE new == [r EXCEPT !.pc = "store", !.next = "done", !.context = c,
                            !.hunt = NoHunt, !.answer = answer]
<1>3. turn' = [turn EXCEPT ![t] = new]
  BY <1>2
<1> HIDE DEF r
<1>4. /\ new.pc = "store" /\ new.next = "done" /\ new.context = c
      /\ new.process = r.process /\ new.alone = r.alone /\ new.expected = r.expected
  BY <1>1 DEF Turn
<1> HIDE DEF new
<1>5. Moves(t, new)
  BY <1>1, <1>3, <1>4, MovedIs DEF r
<1>6. QED
  BY <1>1, <1>2, <1>4, <1>5, Sets DEF Late, r

LEMMA RefineLatest ==
  ASSUME KeptInv, LatestInv, NEW t \in Turns, Refine(t)
  PROVE  LatestInv'
<1> DEFINE r == turn[t]
<1>1. r.pc = "refine" /\ Still /\ r \in Turn
  BY DEF Refine, At, KeptInv, TypeOK
<1>2. \/ \E c, answer : SetAnd(t, c, "done", "payment", NoMessage, answer)
      \/ Say(t, "unavailable")
      \/ /\ \E goal, hunt : turn' = [turn EXCEPT ![t].pc = "hunt", ![t].job = "topic",
                                                 ![t].goal = goal, ![t].hunt = hunt]
         /\ UNCHANGED storeVars
  BY DEF Refine
<1>3. CASE \E c, answer : SetAnd(t, c, "done", "payment", NoMessage, answer)
  BY <1>1, <1>3, SetsThen DEF Late
<1>4. CASE Say(t, "unavailable")
  BY <1>1, <1>4, Replies DEF Say
<1>5. ASSUME NEW goal, NEW hunt, UNCHANGED storeVars,
             turn' = [turn EXCEPT ![t].pc = "hunt", ![t].job = "topic",
                                  ![t].goal = goal, ![t].hunt = hunt]
      PROVE  LatestInv'
  <2> DEFINE new == [r EXCEPT !.pc = "hunt", !.job = "topic", !.goal = goal, !.hunt = hunt]
  <2>1. turn' = [turn EXCEPT ![t] = new] /\ UNCHANGED <<memory, row>>
    BY <1>5 DEF storeVars
  <2> HIDE DEF r
  <2>2. /\ new.pc = "hunt" /\ new.process = r.process /\ new.alone = r.alone
        /\ new.expected = r.expected /\ new.wrote = r.wrote /\ new.sound = r.sound
    BY <1>1 DEF Turn
  <2> HIDE DEF new
  <2>3. Moves(t, new)
    BY <1>1, <2>1, <2>2, MovedIs DEF r
  <2>4. QED
    BY <1>1, <2>1, <2>2, <2>3, ThinksOn DEF Late, r
<1>6. QED
  BY <1>2, <1>3, <1>4, <1>5

LEMMA TopicLatest ==
  ASSUME KeptInv, LatestInv, NEW t \in Turns, FoundTopic(t) \/ Issuers(t)
  PROVE  LatestInv'
<1>1. turn[t].pc \notin {"idle", "store"} /\ Still
  BY DEF FoundTopic, Issuers, At
<1>2. ASSUME NEW answer, Reply(t, answer)
      PROVE  LatestInv'
  BY <1>1, <1>2, Replies
<1>3. ASSUME NEW c, NEW next \in {"done", "format"}, NEW job, NEW goal, NEW answer,
             SetAnd(t, c, next, job, goal, answer)
      PROVE  LatestInv'
  BY <1>1, <1>3, SetsThen DEF Late
<1>4. CASE FoundTopic(t)
  <2> DEFINE h == turn[t].hunt
             c == [Task(t) EXCEPT !.trip = h.trip, !.refined = TRUE, !.records = h.records,
                                  !.mails = h.mails, !.age = Fresh]
             unclear == [Answer("unclear") EXCEPT !.bodies = h.bodies]
             answer == Cached(c, h.bodies)
  <2>1. Reply(t, unclear) \/ SetAnd(t, c, "done", "topic", turn[t].goal, answer)
    BY <1>4 DEF FoundTopic
  <2> HIDE DEF c, unclear, answer
  <2>2. QED
    BY <1>2, <1>3, <2>1
<1>5. CASE Issuers(t)
  <2> DEFINE opened == ReadForIssuer(Task(t).records)
             c == [Task(t) EXCEPT !.records = opened.records, !.age = Fresh]
             answer == [Answer("none") EXCEPT !.bodies = opened.bodies]
  <2>1. SetAnd(t, c, "format", "payment", NoMessage, answer)
    BY <1>5 DEF Issuers
  <2> HIDE DEF c, answer
  <2>2. QED
    BY <1>3, <2>1
<1>6. QED
  BY <1>4, <1>5

LEMMA FinalLatest ==
  ASSUME KeptInv, LatestInv, NEW t \in Turns, Final(t)
  PROVE  LatestInv'
<1>1. turn[t].pc = "final" /\ turn[t].pc \notin {"idle", "store"} /\ Still
  BY DEF Final, At
<1>2. CASE \E kind : Say(t, kind)
  BY <1>1, <1>2, Replies DEF Say
<1>3. CASE HandleActive(t, turn[t].decision)
  BY <1>1, <1>3, HandlesActive
<1>4. CASE \E c : Prompt(t, c)
  BY <1>1, <1>4, Prompts
<1>5. CASE \E job, goal : StartSearch(t, job, goal)
  BY <1>1, <1>5, SearchesThen
<1>6. QED
  BY <1>2, <1>3, <1>4, <1>5 DEF Final

-----------------------------------------------------------------------------
(* The latest context where turns begin and end *)

\* A turn that begins expects the latest context where that is certain.
LEMMA BeginLatest ==
  ASSUME KeptInv, LatestInv, NEW t \in Turns, NEW p \in Processes, NEW m \in Messages,
         NEW ready \in BOOLEAN, Begin(t, p, m, ready)
  PROVE  LatestInv'
<1> DEFINE others == {u \in Turns : Active(u)}
           alone == others = {}
           expected == IF others = {} /\ (p = owner \/ memory[p] = NoContext)
                       THEN latest ELSE Uncertain
           new == Beginning(p, m, ready, expected, alone)
           f == [u \in Turns |->
                   IF u = t THEN new
                   ELSE IF u \in others THEN [turn[u] EXCEPT !.alone = FALSE] ELSE turn[u]]
<1>1. /\ turn' = [u \in Turns |-> f[u]] /\ UNCHANGED <<memory, row, latest, owner>>
      /\ turn[t].pc = "idle"
  BY DEF Begin, Beginning, Still, storeVars, At
<1>2. owner \in Processes /\ \A u \in Turns : turn[u] \in Turn
  BY DEF KeptInv, TypeOK
<1> DEFINE no == FALSE
<1>3. ASSUME NEW r \in Turn
      PROVE  LET other == [r EXCEPT !.alone = no]
             IN  /\ other.pc = r.pc /\ other.wrote = r.wrote /\ other.context = r.context
                 /\ other.next = r.next /\ other.alone = no
  <2> HIDE DEF no
  <2>1. QED
    BY <1>3 DEF Turn
<1>4. /\ new.pc = "read" /\ new.process = p /\ new.alone = alone /\ new.expected = expected
      /\ new.wrote = FALSE /\ new.context = NoContext
  <2> DEFINE r == IdleTurn
             a == alone
             e == expected
  <2>1. r \in Turn /\ r.wrote = FALSE /\ r.context = NoContext
    BY <1>2, IdleIs DEF IdleTurn
  <2>2. new = [r EXCEPT !.pc = "read", !.process = p, !.message = m, !.ready = ready,
                        !.alone = a, !.expected = e]
    BY DEF Beginning
  <2> HIDE DEF r, a, e, new
  <2>3. /\ new.pc = "read" /\ new.process = p /\ new.alone = a /\ new.expected = e
        /\ new.wrote = r.wrote /\ new.context = r.context
    BY <2>1, <2>2 DEF Turn
  <2>4. QED
    BY <2>1, <2>3 DEF a, e
<1> HIDE DEF new
<1>5. turn'[t] = new
  BY <1>1
<1>6. \A u \in Turns : u # t =>
        /\ turn'[u].pc = turn[u].pc /\ turn'[u].wrote = turn[u].wrote
        /\ turn'[u].context = turn[u].context /\ turn'[u].next = turn[u].next
        /\ Active(u) => ~turn'[u].alone
  BY <1>1, <1>2, <1>3
<1> HIDE DEF f
<1>7. Active(t)' /\ ~Active(t) /\ ~Dirty(t) /\ ~Dirty(t)' /\ ~At(t, "got")' /\ ~At(t, "store")'
  BY <1>1, <1>4, <1>5 DEF Active, Dirty, At
<1>8. \A u \in Turns : u # t => /\ Active(u)' <=> Active(u)
                                /\ Dirty(u)' <=> Dirty(u)
                                /\ At(u, "got")' <=> At(u, "got")
                                /\ At(u, "store")' <=> At(u, "store")
                                /\ Task(u)' = Task(u)
                                /\ Active(u)' => ~turn'[u].alone
  BY <1>6 DEF Active, Dirty, At, Task
<1>9. AloneInv'
  <2>1. turn'[t].alone => \A u \in Turns : u # t => ~Active(u)'
    BY <1>4, <1>5, <1>8
  <2>2. QED
    BY <1>8, <2>1 DEF AloneInv
<1>10. NextInv'
  BY <1>6, <1>7, <1>8 DEF LatestInv, NextInv
<1>11. RowInv'
  BY <1>1, <1>7, <1>8 DEF LatestInv, RowInv
<1>12. \A u \in Turns : OwnOf(u)'
  BY <1>4, <1>5, <1>7, <1>8 DEF OwnOf
<1>13. ExpectedOf(t)'
  <2> SUFFICES ASSUME alone, expected # Uncertain
               PROVE  expected = latest /\ memory[p] \in {NoContext, latest}
    BY <1>1, <1>4, <1>5, <1>7 DEF ExpectedOf
  <2>1. expected = latest /\ latest # Uncertain /\ (p = owner \/ memory[p] = NoContext)
    OBVIOUS
  <2>2. \A u \in Turns : ~Dirty(u)
    BY DEF Dirty
  <2>3. memory[owner] \in {NoContext, latest}
    BY <2>1, <2>2 DEF LatestInv, RowInv
  <2>4. QED
    BY <2>1, <2>3
<1>14. \A u \in Turns : ExpectedOf(u)'
  BY <1>8, <1>13 DEF ExpectedOf
<1>15. QED
  BY <1>9, <1>10, <1>11, <1>12, <1>14 DEF LatestInv

\* Turns that are left when others have ended.
LEMMA FewerLatest ==
  ASSUME LatestInv, NEW gone \in SUBSET Turns,
         \A u \in Turns : turn'[u] = IF u \in gone THEN IdleTurn ELSE turn[u],
         UNCHANGED row, RowInv',
         \A u \in Turns \ gone : turn[u].alone /\ Active(u) =>
           UNCHANGED <<latest, memory[turn[u].process]>>
  PROVE  LatestInv'
<1>1. IdleTurn.pc = "idle"
  BY DEF IdleTurn
<1>2. \A u \in gone : turn'[u].pc = "idle"
  BY <1>1
<1>3. \A u \in Turns : u \notin gone => turn'[u] = turn[u]
  OBVIOUS
<1>4. \A u \in Turns : Active(u)' => u \notin gone /\ Active(u)
  BY <1>2, <1>3 DEF Active
<1>5. AloneInv'
  BY <1>3, <1>4 DEF LatestInv, AloneInv
<1>6. NextInv'
  BY <1>2, <1>3 DEF LatestInv, NextInv, At
<1>7. \A u \in Turns : OwnOf(u)' /\ ExpectedOf(u)'
  <2> TAKE u \in Turns
  <2>1. CASE ~(Active(u)' /\ turn'[u].alone)
    BY <2>1 DEF OwnOf, ExpectedOf
  <2>2. CASE Active(u)' /\ turn'[u].alone
    <3>1. /\ turn'[u] = turn[u] /\ latest' = latest
          /\ memory'[turn'[u].process] = memory[turn[u].process]
      BY <1>3, <1>4, <2>2
    <3>2. OwnOf(u) /\ ExpectedOf(u)
      BY DEF LatestInv
    <3>3. OwnOf(u)'
      BY <3>1, <3>2 DEF OwnOf, Active, At, Task
    <3>4. ExpectedOf(u)'
      BY <3>1, <3>2 DEF ExpectedOf, Dirty, Active, At, Task
    <3>5. QED
      BY <3>3, <3>4
  <2>3. QED
    BY <2>1, <2>2
<1>8. QED
  BY <1>5, <1>6, <1>7 DEF LatestInv

\* What a turn leaves is what the memory of its process and the row have.
LEMMA EndLatest ==
  ASSUME KeptInv, LatestInv, NEW t \in Turns, End(t)
  PROVE  LatestInv'
<1>1. /\ turn \in [Turns -> Turn] /\ turn[t].pc = "done" /\ UNCHANGED <<memory, row>>
      /\ turn' = [turn EXCEPT ![t] = IdleTurn]
  BY DEF KeptInv, TypeOK, End, At, storeVars
<1>2. turn'[t] = IdleTurn /\ \A u \in Turns : u # t => turn'[u] = turn[u]
  BY <1>1
<1>3. Active(t) /\ ~Dirty(t)' /\ ~At(t, "got")' /\ ~At(t, "store")
  BY <1>1, <1>2 DEF Active, Dirty, At, IdleTurn
<1>4. \A u \in Turns : u # t => /\ Dirty(u)' <=> Dirty(u)
                                /\ At(u, "got")' <=> At(u, "got")
                                /\ Task(u)' = Task(u)
  BY <1>2 DEF Dirty, Active, At, Task
<1>5. RowInv'
  <2>1. CASE ~turn[t].wrote
    <3>1. latest' = latest /\ owner' = owner /\ ~Dirty(t)
      BY <1>3, <2>1 DEF End, Dirty
    <3>2. QED
      BY <1>1, <1>3, <1>4, <3>1 DEF LatestInv, RowInv
  <2>2. CASE turn[t].wrote /\ turn[t].alone /\ turn[t].sound
    <3>1. latest' = memory[turn[t].process] /\ owner' = turn[t].process
      BY <2>2 DEF End
    <3>2. row = memory[turn[t].process]
      BY <1>3, <2>2 DEF LatestInv, OwnOf
    <3>3. \A u \in Turns : u # t => ~Active(u)
      BY <1>3, <2>2 DEF LatestInv, AloneInv
    <3>4. \A u \in Turns : ~At(u, "got")'
      BY <1>3, <1>4, <3>3 DEF Active, At
    <3>5. QED
      BY <1>1, <3>1, <3>2, <3>4 DEF RowInv
  <2>3. CASE turn[t].wrote /\ ~(turn[t].alone /\ turn[t].sound)
    BY <2>3 DEF End, RowInv
  <2>4. QED
    BY <2>1, <2>2, <2>3
<1>6. \A u \in Turns \ {t} : ~(turn[u].alone /\ Active(u))
  BY <1>3 DEF LatestInv, AloneInv
<1>7. \A u \in Turns : turn'[u] = IF u \in {t} THEN IdleTurn ELSE turn[u]
  BY <1>2
<1> DEFINE gone == {t}
<1>8. gone \in SUBSET Turns
  OBVIOUS
<1> HIDE DEF gone
<1>9. QED
  BY <1>1, <1>5, <1>6, <1>7, <1>8, FewerLatest DEF gone

\* A process that ends takes its turns with it, and with them the certainty.
LEMMA ProcessEndsLatest ==
  ASSUME KeptInv, LatestInv, NEW p \in Processes, ProcessEnds(p)
  PROVE  LatestInv'
<1> DEFINE lost == {t \in Turns : Active(t) /\ turn[t].process = p}
<1>1. /\ \A u \in Turns : turn'[u] = IF u \in lost THEN IdleTurn ELSE turn[u]
      /\ UNCHANGED <<row, owner>> /\ memory' = [memory EXCEPT ![p] = NoContext]
      /\ latest' = IF lost = {} THEN latest ELSE Uncertain
  BY DEF ProcessEnds, Forget
<1>2. memory \in [Processes -> Context \cup {NoContext}] /\ owner \in Processes
      /\ \A u \in Turns : turn[u] \in Turn
  BY DEF KeptInv, TypeOK
<1>3. \A u \in Turns : turn[u].process \in Processes
  BY <1>2 DEF Turn
<1>4. lost \in SUBSET Turns
  OBVIOUS
<1>5. RowInv'
  <2>1. CASE lost # {}
    BY <1>1, <2>1 DEF RowInv
  <2>2. CASE lost = {}
    <3>1. latest' = latest /\ \A u \in Turns : turn'[u] = turn[u]
      BY <1>1, <2>2
    <3>2. memory'[owner] \in {NoContext, memory[owner]}
      BY <1>1, <1>2
    <3>3. \A u \in Turns : /\ Dirty(u)' <=> Dirty(u)
                           /\ At(u, "got")' <=> At(u, "got")
                           /\ Task(u)' = Task(u)
      BY <3>1 DEF Dirty, Active, At, Task
    <3>4. QED
      BY <1>1, <3>1, <3>2, <3>3 DEF LatestInv, RowInv
  <2>3. QED
    BY <2>1, <2>2
<1>6. \A u \in Turns \ lost : turn[u].alone /\ Active(u) =>
        UNCHANGED <<latest, memory[turn[u].process]>>
  <2> SUFFICES ASSUME NEW u \in Turns \ lost, turn[u].alone, Active(u)
               PROVE  latest' = latest /\ memory'[turn[u].process] = memory[turn[u].process]
                      /\ turn[u].process = turn'[u].process
    BY <1>1
  <2>1. \A w \in Turns : Active(w) => w = u
    BY DEF LatestInv, AloneInv
  <2>2. lost = {}
    BY <2>1
  <2>3. turn[u].process # p
    OBVIOUS
  <2>4. QED
    BY <1>1, <1>2, <1>3, <2>2, <2>3
<1> HIDE DEF lost
<1>7. QED
  BY <1>1, <1>4, <1>5, <1>6, FewerLatest

\* Time ages the memory, the row and the latest context alike.
LEMMA TickLatest ==
  ASSUME KeptInv, LatestInv, Tick
  PROVE  LatestInv'
<1>1. turn' = turn /\ owner' = owner /\ \A u \in Turns : ~Active(u)
  BY DEF Tick
<1>2. \A u \in Turns : ~Active(u)' /\ ~At(u, "got")' /\ ~At(u, "store")' /\ ~Dirty(u)
  BY <1>1 DEF Active, At, Dirty
<1>3. memory'[owner] = Aged(memory[owner], NoContext) /\ row' = Aged(row, Over)
  BY DEF KeptInv, TypeOK, Tick, TimePasses
<1>4. RowInv'
  <2> SUFFICES ASSUME latest' # Uncertain
               PROVE  row' = latest' /\ memory'[owner] \in {NoContext, latest'}
    BY <1>1, <1>2 DEF RowInv
  <2>1. latest # Uncertain /\ latest' = Aged(latest, Over)
    BY DEF Tick
  <2>2. row = latest /\ memory[owner] \in {NoContext, latest}
    BY <1>2, <2>1 DEF LatestInv, RowInv
  <2>3. memory[owner] \in Context \cup {NoContext}
    BY DEF KeptInv, TypeOK
  <2>4. Aged(NoContext, NoContext) = NoContext
    BY DEF Aged, Valid
  <2>5. memory[owner] = latest /\ latest # NoContext => latest \in Context /\ latest # Over
    BY <2>3, ValuesAssumption
  <2>6. latest \in Context /\ latest # Over /\ latest # NoContext =>
          Aged(latest, NoContext) \in {NoContext, Aged(latest, Over)}
    <3> SUFFICES ASSUME latest \in Context, latest # Over, latest # NoContext
                 PROVE  Aged(latest, NoContext) \in {NoContext, Aged(latest, Over)}
      OBVIOUS
    <3>1. latest.age \in {Fresh, Stale} /\ Fresh # Stale /\ Valid(latest)
      BY DEF Context, Fresh, Stale, Valid
    <3>2. CASE latest.age = Fresh
      BY <3>1, <3>2 DEF Aged
    <3>3. CASE latest.age = Stale
      BY <3>1, <3>3 DEF Aged
    <3>4. QED
      BY <3>1, <3>2, <3>3
  <2>7. QED
    BY <1>3, <2>1, <2>2, <2>4, <2>5, <2>6
<1>5. QED
  BY <1>2, <1>4 DEF LatestInv, AloneInv, NextInv, OwnOf, ExpectedOf

LEMMA LatestInit == Init => LatestInv
<1> SUFFICES ASSUME Init PROVE LatestInv
  OBVIOUS
<1>1. \A t \in Turns : ~Active(t) /\ ~At(t, "got") /\ ~At(t, "store")
  BY DEF Init, Active, At, IdleTurn
<1>2. RowInv
  BY <1>1 DEF Init, StoreInit, RowInv
<1>3. QED
  BY <1>1, <1>2 DEF LatestInv, AloneInv, NextInv, OwnOf, ExpectedOf

LEMMA StepLatest ==
  ASSUME KeptInv, LatestInv, NEW t \in Turns, Step(t)
  PROVE  LatestInv'
<1>1. CASE \E p \in Processes, m \in Messages, ready \in BOOLEAN : Begin(t, p, m, ready)
  BY <1>1, BeginLatest
<1>2. CASE Hit(t) \/ Get(t) \/ Got(t) \/ Store(t)
  BY <1>2, HitLatest, GetLatest, GotLatest, StoreLatest
<1>3. CASE Capability(t) \/ Awaiting(t) \/ NotAwaiting(t)
  BY <1>3, AsksLatest, NotAwaitingLatest
<1>4. CASE Decide(t) \/ Advise(t) \/ Advised(t) \/ Payment(t) \/ Final(t)
  BY <1>4, DecidesLatest, AdviseLatest, AdvisedLatest, PaymentLatest, FinalLatest
<1>5. CASE GmailFails(t) \/ OpenBody(t) \/ NoAttachment(t) \/ Format(t)
  BY <1>5, CallsLatest
<1>6. CASE Search(t) \/ Hunt(t) \/ Found(t) \/ Refine(t)
  BY <1>6, SearchLatest, FoundLatest, RefineLatest
<1>7. CASE FoundTopic(t) \/ Issuers(t) \/ End(t)
  BY <1>7, TopicLatest, EndLatest
<1>8. QED
  BY <1>1, <1>2, <1>3, <1>4, <1>5, <1>6, <1>7 DEF Step

LEMMA LatestNext == KeptInv /\ LatestInv /\ [Next]_vars => LatestInv'
<1> SUFFICES ASSUME KeptInv, LatestInv, [Next]_vars PROVE LatestInv'
  OBVIOUS
<1>1. CASE Next
  BY <1>1, StepLatest, ProcessEndsLatest, TickLatest DEF Next
<1>2. CASE UNCHANGED vars
  <2>1. UNCHANGED <<memory, row, turn, latest, owner>>
    BY <1>2 DEF vars, storeVars
  <2>2. \A u \in Turns :
          /\ UNCHANGED <<Active(u), Dirty(u), Task(u)>>
          /\ UNCHANGED <<At(u, "store"), At(u, "got")>>
    BY <2>1 DEF Active, Dirty, At, Task
  <2>3. AloneInv' /\ NextInv'
    BY <2>1, <2>2 DEF LatestInv, AloneInv, NextInv
  <2>4. RowInv'
    BY <2>1, <2>2 DEF LatestInv, RowInv
  <2>5. \A u \in Turns : OwnOf(u)' /\ ExpectedOf(u)'
    BY <2>1, <2>2 DEF LatestInv, OwnOf, ExpectedOf
  <2>6. QED
    BY <2>3, <2>4, <2>5 DEF LatestInv
<1>3. QED
  BY <1>1, <1>2

\* A follow-up is about the task that the last turn has left, or about none when
\* that task was over, in any process: what getTaskContext finds in its memory
\* and in the row, and what is left when it deletes a row, is never older.
THEOREM FollowUpsUseLatest == Spec => []FollowUpUsesLatest
<1>1. LatestInv => FollowUpUsesLatest
  <2> SUFFICES ASSUME LatestInv, NEW t \in Turns,
                      turn[t].pc \in {"branch", "active"}, turn[t].alone, turn[t].sound,
                      turn[t].expected # Uncertain, ~turn[t].wrote \/ turn[t].expected = Over
               PROVE  \/ Task(t) = turn[t].expected
                      \/ Task(t) = NoContext /\ turn[t].expected = Over
    BY DEF FollowUpUsesLatest
  <2>1. Active(t) /\ ExpectedOf(t)
    BY DEF Active, LatestInv
  <2>2. CASE ~Dirty(t)
    BY <2>1, <2>2 DEF ExpectedOf
  <2>3. CASE Dirty(t)
    <3>1. turn[t].wrote /\ turn[t].expected = Over
      BY <2>3 DEF Dirty, At
    <3>2. Towards(turn[t]) \in EarlyPcs
      BY DEF Towards, EarlyPcs
    <3>3. QED
      BY <2>1, <2>3, <3>1, <3>2 DEF ExpectedOf
  <2>4. QED
    BY <2>2, <2>3
<1>2. QED
  BY <1>1, KeptInit, KeptNext, LatestInit, LatestNext, PTL DEF Spec
=============================================================================
