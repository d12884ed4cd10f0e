-------------------------- MODULE ChecklistProofs --------------------------
(***************************************************************************)
(* Proofs about Checklist: contiguous positions, answers only for active   *)
(* criteria, no cycle of waiting transactions, and the refinement of       *)
(* ChecklistAbs, for any number of families, criteria, homes and           *)
(* transactions.                                                           *)
(*                                                                         *)
(* That positions are contiguous is a statement about committed rows, and  *)
(* is far from inductive: a commit installs versions that were written one *)
(* statement at a time, from a list read several statements earlier.  IInv *)
(* therefore says of each transaction, statement by statement, how its     *)
(* slice ids relates to the committed list (Picked, Retired, Planned) and  *)
(* which positions it has written (Numbered); that those relations survive *)
(* what others commit because they work on other families (LockHeld,       *)
(* OneWriter); and that a share lock pins what it was granted on           *)
(* (SharesHold).                                                           *)
(*                                                                         *)
(* The part on progress has the steps that Quiesces rests on: a transaction*)
(* has finitely many statements left, and one of those under way can       *)
(* always execute its next one.                                            *)
(*                                                                         *)
(* The last part is about Evaluation, which reads the checklist of         *)
(* ChecklistAbs: what its readers know between their statements, and what  *)
(* the summaries they compute add up to.                                   *)
(***************************************************************************)
EXTENDS Checklist, Evaluation, Sums, SequenceTheorems, TLAPS

-----------------------------------------------------------------------------
(* Enumerations of finite sets, RemoveAt and InsertAt.                     *)

\* SetToSeqs in terms of lengths.
LEMMA Enumeration ==
    ASSUME NEW S, IsFiniteSet(S), NEW s \in SetToSeqs(S)
    PROVE  /\ s \in Seq(S)
           /\ Len(s) = Cardinality(S)
           /\ DOMAIN s = 1 .. Len(s)
           /\ \A i, j \in 1 .. Len(s) : s[i] = s[j] => i = j
           /\ \A x \in S : \E i \in 1 .. Len(s) : s[i] = x
<1>1. Cardinality(S) \in Nat
  BY FS_CardinalityType
<1>2. s \in [1 .. Cardinality(S) -> S]
  BY DEF SetToSeqs
<1>3. s \in Seq(S) /\ Len(s) = Cardinality(S) /\ DOMAIN s = 1 .. Len(s)
  BY <1>1, <1>2
<1>4. s \in Injection(1 .. Cardinality(S), S)
  BY <1>2 DEF SetToSeqs, Injection, IsInjective
<1>5. Cardinality(1 .. Cardinality(S)) = Cardinality(S)
  BY <1>1, FS_Interval
<1>6. s \in Surjection(1 .. Cardinality(S), S)
  BY <1>4, <1>5, FS_Injection
<1> QED BY <1>3, <1>4, <1>6 DEF Surjection, Injection, IsInjective

\* The elements of an enumeration of S are S.
LEMMA EnumerationSet ==
    ASSUME NEW S, IsFiniteSet(S), NEW s \in SetToSeqs(S)
    PROVE  ToSet(s) = S
<1>1. s \in Seq(S) /\ DOMAIN s = 1 .. Len(s)
  BY Enumeration
<1>2. \A x \in S : \E i \in 1 .. Len(s) : s[i] = x
  BY Enumeration
<1>3. \A i \in DOMAIN s : s[i] \in S
  BY <1>1
<1> QED BY <1>1, <1>2, <1>3 DEF ToSet

\* A sequence without repetitions whose elements are S enumerates S.
LEMMA EnumerationIntro ==
    ASSUME NEW S, IsFiniteSet(S), NEW s \in Seq(S),
           \A i, j \in 1 .. Len(s) : s[i] = s[j] => i = j,
           \A x \in S : \E i \in 1 .. Len(s) : s[i] = x
    PROVE  s \in SetToSeqs(S)
<1>1. Len(s) \in Nat /\ s \in [1 .. Len(s) -> S]
  BY LenProperties
<1>2. s \in Bijection(1 .. Len(s), S)
  BY <1>1 DEF Bijection, Injection, Surjection, IsInjective
<1>3. IsFiniteSet(1 .. Len(s)) /\ Cardinality(1 .. Len(s)) = Len(s)
  BY <1>1, FS_Interval
<1>4. Cardinality(S) = Len(s)
  BY <1>2, <1>3, FS_Bijection DEF ExistsBijection
<1> QED BY <1>1, <1>4 DEF SetToSeqs

\* Concatenation, element by element.
LEMMA ConcatAt ==
    ASSUME NEW S, NEW a \in Seq(S), NEW b \in Seq(S)
    PROVE  /\ a \o b \in Seq(S)
           /\ Len(a \o b) = Len(a) + Len(b)
           /\ \A i \in 1 .. Len(a) : (a \o b)[i] = a[i]
           /\ \A i \in 1 .. Len(b) : (a \o b)[Len(a) + i] = b[i]
OBVIOUS

\* A part of a sequence, element by element.
LEMMA SubSeqAt ==
    ASSUME NEW S, NEW s \in Seq(S), NEW m \in 1 .. Len(s) + 1, NEW n \in 0 .. Len(s), m <= n + 1
    PROVE  /\ SubSeq(s, m, n) \in Seq(S)
           /\ Len(SubSeq(s, m, n)) = n - m + 1
           /\ \A i \in 1 .. n - m + 1 : SubSeq(s, m, n)[i] = s[m + i - 1]
OBVIOUS

\* What RemoveAt returns.
LEMMA RemoveAtProperties ==
    ASSUME NEW S, NEW s \in Seq(S), NEW k \in 1 .. Len(s)
    PROVE  /\ RemoveAt(s, k) \in Seq(S)
           /\ Len(RemoveAt(s, k)) = Len(s) - 1
           /\ \A i \in 1 .. k - 1 : RemoveAt(s, k)[i] = s[i]
           /\ \A i \in k .. Len(s) - 1 : RemoveAt(s, k)[i] = s[i + 1]
<1> DEFINE a == SubSeq(s, 1, k - 1)
           b == SubSeq(s, k + 1, Len(s))
<1>0. Len(s) \in Nat
  OBVIOUS
<1>1. a \in Seq(S) /\ Len(a) = k - 1 /\ \A i \in 1 .. k - 1 : a[i] = s[i]
  BY <1>0, SubSeqAt
<1>2. b \in Seq(S) /\ Len(b) = Len(s) - k
      /\ \A i \in 1 .. Len(s) - k : b[i] = s[k + i]
  BY <1>0, SubSeqAt
<1> HIDE DEF a, b
<1>3. /\ a \o b \in Seq(S) /\ Len(a \o b) = Len(s) - 1
      /\ \A i \in 1 .. k - 1 : (a \o b)[i] = a[i]
      /\ \A i \in 1 .. Len(s) - k : (a \o b)[k - 1 + i] = b[i]
  <2>0. a \in Seq(S) /\ b \in Seq(S)
    BY <1>1, <1>2
  <2>1. /\ a \o b \in Seq(S)
        /\ Len(a \o b) = Len(a) + Len(b)
        /\ \A i \in 1 .. Len(a) : (a \o b)[i] = a[i]
        /\ \A i \in 1 .. Len(b) : (a \o b)[Len(a) + i] = b[i]
    BY <2>0, ConcatAt
  <2> QED BY <2>1, <1>0, <1>1, <1>2
<1>4. ASSUME NEW i \in k .. Len(s) - 1
      PROVE  (a \o b)[i] = s[i + 1]
  <2>1. PICK j \in 1 .. Len(s) - k : i = k - 1 + j /\ k + j = i + 1
    <3>1. i - k + 1 \in 1 .. Len(s) - k
      BY <1>0
    <3> QED BY <3>1, <1>0
  <2> QED BY <2>1, <1>2, <1>3
<1> QED BY <1>1, <1>3, <1>4 DEF RemoveAt, a, b

\* What InsertAt returns.
LEMMA InsertAtProperties ==
    ASSUME NEW S, NEW s \in Seq(S), NEW e \in S, NEW k \in 1 .. Len(s) + 1
    PROVE  /\ InsertAt(s, k, e) \in Seq(S)
           /\ Len(InsertAt(s, k, e)) = Len(s) + 1
           /\ \A i \in 1 .. k - 1 : InsertAt(s, k, e)[i] = s[i]
           /\ InsertAt(s, k, e)[k] = e
           /\ \A i \in k .. Len(s) : InsertAt(s, k, e)[i + 1] = s[i]
<1> DEFINE a == SubSeq(s, 1, k - 1)
           b == SubSeq(s, k, Len(s))
           ae == a \o <<e>>
<1>0. Len(s) \in Nat
  OBVIOUS
<1>1. a \in Seq(S) /\ Len(a) = k - 1 /\ \A i \in 1 .. k - 1 : a[i] = s[i]
  BY <1>0, SubSeqAt
<1>2. b \in Seq(S) /\ Len(b) = Len(s) - k + 1
      /\ \A i \in 1 .. Len(s) - k + 1 : b[i] = s[k + i - 1]
  BY <1>0, SubSeqAt
<1> HIDE DEF a, b
<1>3. <<e>> \in Seq(S) /\ Len(<<e>>) = 1 /\ <<e>>[1] = e
  OBVIOUS
<1>4. /\ ae \in Seq(S) /\ Len(ae) = k
      /\ \A i \in 1 .. k - 1 : ae[i] = s[i]
      /\ ae[k] = e
  <2>1. /\ ae \in Seq(S) /\ Len(ae) = Len(a) + 1
        /\ \A i \in 1 .. Len(a) : ae[i] = a[i]
        /\ ae[Len(a) + 1] = e
    <3>1. a \in Seq(S)
      BY <1>1
    <3> QED BY <3>1, <1>3, ConcatAt
  <2> HIDE DEF ae
  <2>2. Len(a) + 1 = k
    BY <1>1
  <2> QED BY <2>1, <2>2, <1>1
<1> HIDE DEF ae
<1>5. /\ ae \o b \in Seq(S) /\ Len(ae \o b) = Len(s) + 1
      /\ \A i \in 1 .. k : (ae \o b)[i] = ae[i]
      /\ \A i \in 1 .. Len(s) - k + 1 : (ae \o b)[k + i] = b[i]
  <2>1. /\ ae \o b \in Seq(S)
        /\ Len(ae \o b) = Len(ae) + Len(b)
        /\ \A i \in 1 .. Len(ae) : (ae \o b)[i] = ae[i]
        /\ \A i \in 1 .. Len(b) : (ae \o b)[Len(ae) + i] = b[i]
    BY <1>2, <1>4, ConcatAt
  <2> QED BY <2>1, <1>0, <1>2, <1>4
<1>6. ASSUME NEW i \in k .. Len(s)
      PROVE  (ae \o b)[i + 1] = s[i]
  <2>1. PICK j \in 1 .. Len(s) - k + 1 : i + 1 = k + j /\ k + j - 1 = i
    <3>1. i - k + 1 \in 1 .. Len(s) - k + 1
      BY <1>0
    <3> QED BY <3>1, <1>0
  <2> QED BY <2>1, <1>2, <1>5
<1>7. \A i \in 1 .. k - 1 : (ae \o b)[i] = s[i]
  BY <1>4, <1>5
<1>8. (ae \o b)[k] = e
  BY <1>4, <1>5
<1> QED BY <1>5, <1>6, <1>7, <1>8 DEF InsertAt, a, b, ae

\* Taking the k-th element out of an enumeration of S enumerates the rest.
LEMMA RemoveEnumeration ==
    ASSUME NEW S, IsFiniteSet(S), NEW s \in SetToSeqs(S), NEW k \in 1 .. Len(s)
    PROVE  RemoveAt(s, k) \in SetToSeqs(S \ {s[k]})
<1> DEFINE r == RemoveAt(s, k)
           T == S \ {s[k]}
<1>0. s \in Seq(S)
  BY Enumeration
<1>1. Len(s) \in Nat /\ \A i \in 1 .. Len(s) : s[i] \in S
  BY <1>0
<1>a. \A i, j \in 1 .. Len(s) : s[i] = s[j] => i = j
  BY Enumeration
<1>b. \A x \in S : \E i \in 1 .. Len(s) : s[i] = x
  BY Enumeration
<1>2. /\ r \in Seq(S) /\ Len(r) = Len(s) - 1
      /\ \A i \in 1 .. k - 1 : r[i] = s[i]
      /\ \A i \in k .. Len(s) - 1 : r[i] = s[i + 1]
  BY <1>0, RemoveAtProperties
<1> HIDE DEF r
\* The index in s of the i-th element of r.
<1>3. ASSUME NEW i \in 1 .. Len(r)
      PROVE  \E j \in 1 .. Len(s) : /\ r[i] = s[j] /\ j # k
                                    /\ i < k => j = i
                                    /\ i >= k => j = i + 1
  <2>1. CASE i < k
    <3>1. i \in 1 .. Len(s) /\ i \in 1 .. k - 1
      BY <2>1, <1>1, <1>2
    <3> QED BY <2>1, <3>1, <1>2
  <2>2. CASE i >= k
    <3>1. i + 1 \in 1 .. Len(s) /\ i \in k .. Len(s) - 1
      BY <2>2, <1>1, <1>2
    <3> QED BY <2>2, <3>1, <1>1, <1>2
  <2> QED BY <2>1, <2>2, <1>1, <1>2
<1>4. r \in Seq(T)
  <2>1. ASSUME NEW i \in 1 .. Len(r) PROVE r[i] \in T
    <3>1. PICK j \in 1 .. Len(s) : r[i] = s[j] /\ j # k
      BY <1>3
    <3> QED BY <3>1, <1>1, <1>a
  <2> QED BY <1>2, <2>1
<1>5. \A i, j \in 1 .. Len(r) : r[i] = r[j] => i = j
  <2> TAKE i, j \in 1 .. Len(r)
  <2>1. PICK a \in 1 .. Len(s) : r[i] = s[a] /\ a # k /\ (i < k => a = i) /\ (i >= k => a = i + 1)
    BY <1>3
  <2>2. PICK b \in 1 .. Len(s) : r[j] = s[b] /\ b # k /\ (j < k => b = j) /\ (j >= k => b = j + 1)
    BY <1>3
  <2>3. r[i] = r[j] => a = b
    BY <2>1, <2>2, <1>a
  <2>4. i \in Int /\ j \in Int /\ k \in Int
    BY <1>1, <1>2
  <2> QED BY <2>1, <2>2, <2>3, <2>4
<1>6. \A x \in T : \E i \in 1 .. Len(r) : r[i] = x
  <2> TAKE x \in T
  <2>1. PICK i \in 1 .. Len(s) : s[i] = x
    BY <1>b
  <2>2. CASE i < k
    <3>1. i \in 1 .. Len(r) /\ i \in 1 .. k - 1
      BY <2>1, <2>2, <1>1, <1>2
    <3> QED BY <3>1, <2>1, <1>2
  <2>3. CASE i > k
    <3>1. i - 1 \in 1 .. Len(r) /\ i - 1 \in k .. Len(s) - 1 /\ (i - 1) + 1 = i
      BY <2>3, <1>1, <1>2
    <3>2. r[i - 1] = x
      BY <3>1, <2>1, <1>2
    <3> QED BY <3>1, <3>2
  <2> QED BY <2>1, <2>2, <2>3
<1>7. IsFiniteSet(T)
  BY FS_RemoveElement
<1> QED BY <1>4, <1>5, <1>6, <1>7, EnumerationIntro DEF r

\* Putting a new element into an enumeration of S.
LEMMA InsertEnumeration ==
    ASSUME NEW S, IsFiniteSet(S), NEW s \in SetToSeqs(S), NEW e, e \notin S,
           NEW k \in 1 .. Len(s) + 1
    PROVE  InsertAt(s, k, e) \in SetToSeqs(S \cup {e})
<1> DEFINE r == InsertAt(s, k, e)
           T == S \cup {e}
<1>0. s \in Seq(S)
  BY Enumeration
<1>1. Len(s) \in Nat /\ \A i \in 1 .. Len(s) : s[i] \in S
  BY <1>0
<1>a. \A i, j \in 1 .. Len(s) : s[i] = s[j] => i = j
  BY Enumeration
<1>b. \A x \in S : \E i \in 1 .. Len(s) : s[i] = x
  BY Enumeration
<1>2. s \in Seq(T) /\ e \in T
  BY <1>0, SeqMonotonic
<1> HIDE DEF T
<1>3. /\ r \in Seq(T) /\ Len(r) = Len(s) + 1
      /\ \A i \in 1 .. k - 1 : r[i] = s[i]
      /\ r[k] = e
      /\ \A i \in k .. Len(s) : r[i + 1] = s[i]
  BY <1>2, InsertAtProperties
<1> HIDE DEF r
\* Where the i-th element of r comes from.
<1>4. ASSUME NEW i \in 1 .. Len(r), i # k
      PROVE  \E j \in 1 .. Len(s) : /\ r[i] = s[j]
                                    /\ i < k => j = i
                                    /\ i > k => j = i - 1
  <2>1. CASE i < k
    <3>1. i \in 1 .. Len(s) /\ i \in 1 .. k - 1
      BY <2>1, <1>1, <1>3
    <3> QED BY <2>1, <3>1, <1>3
  <2>2. CASE i > k
    <3>1. i - 1 \in 1 .. Len(s) /\ i - 1 \in k .. Len(s) /\ (i - 1) + 1 = i
      BY <2>2, <1>1, <1>3
    <3>2. r[i] = s[i - 1]
      BY <3>1, <1>3
    <3> QED BY <2>2, <3>1, <3>2
  <2> QED BY <2>1, <2>2, <1>4, <1>1, <1>3
<1>5. \A i, j \in 1 .. Len(r) : r[i] = r[j] => i = j
  <2> SUFFICES ASSUME NEW i \in 1 .. Len(r), NEW j \in 1 .. Len(r), r[i] = r[j]
               PROVE  i = j
    OBVIOUS
  <2>1. ASSUME NEW n \in 1 .. Len(r), n # k PROVE r[n] # e
    <3>1. PICK m \in 1 .. Len(s) : r[n] = s[m]
      BY <1>4, <2>1
    <3> QED BY <3>1, <1>1
  <2>2. CASE i = k \/ j = k
    BY <2>1, <2>2, <1>3
  <2>3. CASE i # k /\ j # k
    <3>1. PICK a \in 1 .. Len(s) : r[i] = s[a] /\ (i < k => a = i) /\ (i > k => a = i - 1)
      BY <1>4, <2>3
    <3>2. PICK b \in 1 .. Len(s) : r[j] = s[b] /\ (j < k => b = j) /\ (j > k => b = j - 1)
      BY <1>4, <2>3
    <3>3. a = b
      BY <3>1, <3>2, <1>a
    <3>4. i \in Int /\ j \in Int /\ k \in Int
      BY <1>1, <1>3
    <3> QED BY <3>1, <3>2, <3>3, <3>4, <2>3
  <2> QED BY <2>2, <2>3
<1>6. \A x \in T : \E i \in 1 .. Len(r) : r[i] = x
  <2> TAKE x \in T
  <2>1. CASE x = e
    <3>1. k \in 1 .. Len(r)
      BY <1>1, <1>3
    <3> QED BY <2>1, <3>1, <1>3
  <2>2. CASE x # e
    <3>1. PICK i \in 1 .. Len(s) : s[i] = x
      BY <2>2, <1>b DEF T
    <3>2. CASE i < k
      <4>1. i \in 1 .. Len(r) /\ i \in 1 .. k - 1
        BY <3>2, <1>1, <1>3
      <4> QED BY <4>1, <3>1, <1>3
    <3>3. CASE ~(i < k)
      <4>1. i + 1 \in 1 .. Len(r) /\ i \in k .. Len(s)
        BY <3>3, <1>1, <1>3
      <4>2. r[i + 1] = x
        BY <4>1, <3>1, <1>3
      <4> QED BY <4>1, <4>2
    <3> QED BY <3>2, <3>3
  <2> QED BY <2>1, <2>2
<1>7. IsFiniteSet(T)
  BY FS_AddElement DEF T
<1> QED BY <1>3, <1>5, <1>6, <1>7, EnumerationIntro DEF r, T

-----------------------------------------------------------------------------
(* The inductive invariant.                                                *)

Row == [fam : Families \cup {None}, order : Nat,
        status : {"none", "active", "retired"}]

SaveOp == [kind : {"save"}, fam : Families, id : Criteria \cup {NewID},
           pos : 0 .. MaxPosition]
DeleteOp == [kind : {"delete"}, fam : Families, id : Criteria]
ReorderOp == [kind : {"reorder"}, fam : Families, order : ReorderRequests]
AnswerOp == [kind : {"answer"}, home : Homes, id : Criteria, val : Answers]

\* The statements that run with the family row locked.
Locked == {"read", "row", "retire", "renumber", "write"}

\* A family's list in a table: its active criteria, each at its position.
ListsOf(table, f) ==
    {s \in SetToSeqs(ActiveIn(table, f)) :
        \A i \in DOMAIN s : table[s[i]].order = i - 1}

\* The table under the versions w.
Overlay(table, w) ==
    [c \in Criteria |-> IF c \in DOMAIN w THEN w[c] ELSE table[c]]

\* SaveHousingCriterion before its INSERT or UPDATE: s is the committed list,
\* without the criterion that moves.
Picked(table, o, s) ==
    \E l \in ListsOf(table, o.fam) :
        \/ o.id = NewID /\ o.pos <= Len(l) /\ s = l
        \/ \E k \in 1 .. Len(l) :
             l[k] = o.id /\ o.pos <= Len(l) - 1 /\ s = RemoveAt(l, k)

\* DeleteHousingCriterion after its UPDATE.
Retired(table, o, w) ==
    /\ o.id \in ActiveIn(table, o.fam)
    /\ DOMAIN w = {o.id}
    /\ w[o.id] = [table[o.id] EXCEPT !.status = "retired"]

\* writeChecklistOrder: s is the committed list with the operation done to it,
\* and only an insertion adds a row.
Planned(table, o, s, w) ==
    \E l \in ListsOf(table, o.fam) :
        \/ /\ o.kind = "save" /\ o.id = NewID /\ o.pos <= Len(l)
           /\ \E c \in Criteria :
                /\ s = InsertAt(l, o.pos + 1, c)
                /\ table[c].status = "none"
                /\ c \in DOMAIN w
                /\ \A d \in DOMAIN w \ {c} : table[d].status # "none"
        \/ /\ o.kind = "save" /\ o.pos < Len(l)
           /\ \E k \in 1 .. Len(l) :
                l[k] = o.id /\ s = InsertAt(RemoveAt(l, k), o.pos + 1, o.id)
           /\ \A d \in DOMAIN w : table[d].status # "none"
        \/ /\ o.kind = "delete"
           /\ \E k \in 1 .. Len(l) : l[k] = o.id /\ s = RemoveAt(l, k)
           /\ \A d \in DOMAIN w : table[d].status # "none"
        \/ /\ o.kind = "reorder"
           /\ s \in SetToSeqs(ActiveIn(table, o.fam))
           /\ \A d \in DOMAIN w : table[d].status # "none"

\* writeChecklistOrder: s lists the criteria that will be active, and the
\* positions before the loop index are written.
Numbered(table, o, s, n, w) ==
    /\ s \in SetToSeqs(ActiveIn(Overlay(table, w), o.fam))
    /\ n <= Len(s) + 1
    /\ \A i \in 1 .. n - 1 : Overlay(table, w)[s[i]].order = i - 1

\* A transaction at statement p of operation o with list s, loop index n and
\* versions w, over a committed table.
Sound(table, p, o, s, n, w) ==
    /\ \/ p = "idle" /\ o = NoOp
       \/ p = "lock" /\ o \in SaveOp \cup DeleteOp \cup ReorderOp
       \/ p = "read" /\ o \in SaveOp \cup ReorderOp
       \/ p = "row" /\ o \in SaveOp /\ Picked(table, o, s)
       \/ p = "retire" /\ o \in DeleteOp
       \/ p = "renumber" /\ o \in DeleteOp /\ Retired(table, o, w)
       \/ /\ p = "write" /\ o \in SaveOp \cup DeleteOp \cup ReorderOp
          /\ Planned(table, o, s, w) /\ Numbered(table, o, s, n, w)
       \/ p \in {"share", "put", "answered"} /\ o \in AnswerOp
    /\ p # "write" => n = 1
    /\ p \notin {"renumber", "write"} => DOMAIN w = {}
    /\ \A c \in DOMAIN w :
        /\ w[c].fam = o.fam /\ w[c].status # "none"
        /\ table[c].status = "none" \/ table[c].fam = o.fam

TypeOK ==
    /\ rows \in [Criteria -> Row]
    /\ homes \subseteq Homes
    /\ answers \in [Homes \X Criteria -> Answers \cup {NoAnswer}]
    /\ famLock \in [Families -> Txns \cup {None}]
    /\ pc \in [Txns -> {"idle", "lock", "share", "put", "answered"} \cup Locked]
    /\ op \in [Txns -> {NoOp} \cup SaveOp \cup DeleteOp \cup ReorderOp \cup AnswerOp]
    /\ ids \in [Txns -> Seq(Criteria)]
    /\ nxt \in [Txns -> Nat \ {0}]
    /\ writes = [t \in Txns |-> writes[t]]
    /\ \A t \in Txns : \E S \in SUBSET Criteria : writes[t] \in [S -> Row]

AllSound ==
    \A t \in Txns : Sound(rows, pc[t], op[t], ids[t], nxt[t], writes[t])

\* The lock on a family is held by the transaction working on it.
LockHeld ==
    \A f \in Families, t \in Txns :
        famLock[f] = t <=> pc[t] \in Locked /\ op[t].fam = f

\* A row has one uncommitted version.
OneWriter ==
    \A t, u \in Txns : t # u => DOMAIN writes[t] \cap DOMAIN writes[u] = {}

\* What is share-locked stays as it was when the lock was granted.
SharesHold ==
    \A t \in Txns : Sharing(t) =>
        /\ op[t].home \in homes
        /\ op[t].id \in ActiveIn(rows, HomeFamily[op[t].home])
        /\ \A u \in Txns : op[t].id \notin DOMAIN writes[u]

IInv == /\ TypeOK /\ AllSound /\ LockHeld /\ OneWriter /\ SharesHold
        /\ ContiguousPositions

-----------------------------------------------------------------------------
(* Sorted lists.                                                           *)

\* ORDER BY display_order, id is a strict order.
LEMMA BeforeAsymmetric ==
    ASSUME NEW table \in [Criteria -> Row], NEW c \in Criteria, NEW d \in Criteria,
           Before(table, c, d)
    PROVE  ~Before(table, d, c)
<1>1. table[c].order \in Nat /\ table[d].order \in Nat
  BY DEF Row
<1>2. c \in Nat /\ d \in Nat
  BY ChecklistAssumption
<1> QED BY <1>1, <1>2 DEF Before

\* In a sorted enumeration the elements before the i-th are the smaller ones.
LEMMA RankOfSorted ==
    ASSUME NEW table \in [Criteria -> Row], NEW S \in SUBSET Criteria,
           IsFiniteSet(S), NEW s \in SetToSeqs(S), Sorted(s, table),
           NEW i \in 1 .. Len(s)
    PROVE  Cardinality({x \in S : Before(table, x, s[i])}) = i - 1
<1> DEFINE B == {x \in S : Before(table, x, s[i])}
           g == [j \in 1 .. i - 1 |-> s[j]]
<1>1. s \in Seq(S) /\ DOMAIN s = 1 .. Len(s)
  BY Enumeration
<1>2. Len(s) \in Nat /\ \A j \in 1 .. Len(s) : s[j] \in S
  BY <1>1
<1>3. \A a, b \in 1 .. Len(s) : s[a] = s[b] => a = b
  BY Enumeration
<1>4. \A x \in S : \E j \in 1 .. Len(s) : s[j] = x
  BY Enumeration
<1>5. \A a, b \in 1 .. Len(s) : a < b => Before(table, s[a], s[b])
  BY <1>1 DEF Sorted
<1>6. \A j \in 1 .. i - 1 : j \in 1 .. Len(s) /\ j < i /\ s[j] \in B
  BY <1>2, <1>5
<1>7. ASSUME NEW x \in B PROVE \E j \in 1 .. i - 1 : s[j] = x
  <2>1. PICK j \in 1 .. Len(s) : s[j] = x
    BY <1>4
  <2>2. ~(i < j)
    BY <2>1, <1>2, <1>5, BeforeAsymmetric
  <2>3. j # i
    BY <2>1, <1>2, BeforeAsymmetric
  <2>4. j \in 1 .. i - 1
    BY <2>2, <2>3, <1>2
  <2> QED BY <2>1, <2>4
<1>8. g \in Bijection(1 .. i - 1, B)
  <2>1. g \in [1 .. i - 1 -> B]
    BY <1>6
  <2>2. \A a, b \in 1 .. i - 1 : g[a] = g[b] => a = b
    BY <1>3, <1>6
  <2>3. \A x \in B : \E j \in 1 .. i - 1 : g[j] = x
    BY <1>7
  <2> HIDE DEF g, B
  <2> QED BY <2>1, <2>2, <2>3 DEF Bijection, Injection, Surjection, IsInjective
<1>9. IsFiniteSet(1 .. i - 1) /\ Cardinality(1 .. i - 1) = i - 1
  <2>1. i \in Nat /\ i > 0
    BY <1>2
  <2>2. i - 1 \in Int /\ 1 \in Int
    BY <2>1
  <2>3. /\ IsFiniteSet(1 .. i - 1)
        /\ Cardinality(1 .. i - 1) = IF 1 > i - 1 THEN 0 ELSE (i - 1) - 1 + 1
    BY <2>2, FS_Interval
  <2> QED BY <2>1, <2>3
<1> HIDE DEF B
<1>10. Cardinality(B) = i - 1
  BY <1>8, <1>9, FS_Bijection DEF ExistsBijection
<1> QED BY <1>10 DEF B

\* ORDER BY display_order, id leaves one result.
LEMMA SortedUnique ==
    ASSUME NEW table \in [Criteria -> Row], NEW S \in SUBSET Criteria,
           NEW s \in SetToSeqs(S), Sorted(s, table),
           NEW l \in SetToSeqs(S), Sorted(l, table)
    PROVE  s = l
<1>0. IsFiniteSet(S)
  BY ChecklistAssumption, FS_Subset
<1>1. s \in Seq(S) /\ l \in Seq(S) /\ Len(s) = Len(l)
  BY <1>0, Enumeration
<1>2. ASSUME NEW i \in 1 .. Len(s) PROVE s[i] = l[i]
  <2>1. s[i] \in S
    BY <1>1
  <2>2. PICK j \in 1 .. Len(l) : l[j] = s[i]
    <3>1. \A x \in S : \E j \in 1 .. Len(l) : l[j] = x
      BY <1>0, Enumeration
    <3> QED BY <2>1, <3>1
  <2>3. Cardinality({x \in S : Before(table, x, s[i])}) = i - 1
    BY <1>0, RankOfSorted
  <2>4. Cardinality({x \in S : Before(table, x, l[j])}) = j - 1
    BY <1>0, RankOfSorted
  <2>5. i = j
    <3>1. i - 1 = j - 1
      BY <2>2, <2>3, <2>4
    <3>2. i \in Int /\ j \in Int
      BY <1>1
    <3> QED BY <3>1, <3>2
  <2> QED BY <2>2, <2>5
<1> QED BY <1>1, <1>2, SeqEqual

\* The active criteria are finitely many.
LEMMA ActiveFinite ==
    ASSUME NEW table, NEW f
    PROVE  ActiveIn(table, f) \in SUBSET Criteria /\ IsFiniteSet(ActiveIn(table, f))
<1>1. ActiveIn(table, f) \in SUBSET Criteria
  BY DEF ActiveIn
<1> QED BY <1>1, ChecklistAssumption, FS_Subset

\* Positions are contiguous exactly when the family has a list.
LEMMA ContiguousLists ==
    ASSUME NEW table, NEW f
    PROVE  Contiguous(table, f) <=> ListsOf(table, f) # {}
BY DEF Contiguous, ListsOf

\* A list is in display order.
LEMMA ListSorted ==
    ASSUME NEW table, NEW f, NEW l \in ListsOf(table, f)
    PROVE  Sorted(l, table)
<1>1. l \in SetToSeqs(ActiveIn(table, f)) /\ \A i \in DOMAIN l : table[l[i]].order = i - 1
  BY DEF ListsOf
<1>2. DOMAIN l = 1 .. Len(l) /\ l \in Seq(ActiveIn(table, f))
  BY <1>1, ActiveFinite, Enumeration
<1>3. ASSUME NEW i \in DOMAIN l, NEW j \in DOMAIN l, i < j
      PROVE  table[l[i]].order < table[l[j]].order
  <2>1. i \in Int /\ j \in Int
    BY <1>2
  <2> QED BY <2>1, <1>1, <1>3
<1> QED BY <1>3 DEF Sorted, Before

\* What checklistIDs returns when the positions are contiguous.
LEMMA ListingIsList ==
    ASSUME NEW table \in [Criteria -> Row], NEW f, NEW l \in ListsOf(table, f),
           NEW s \in SetToSeqs(ActiveIn(table, f)), Sorted(s, table)
    PROVE  s = l
<1>1. l \in SetToSeqs(ActiveIn(table, f))
  BY DEF ListsOf
<1> QED BY <1>1, ActiveFinite, ListSorted, SortedUnique

\* Taking an element out of a sorted enumeration leaves it sorted.
LEMMA RemoveSorted ==
    ASSUME NEW table, NEW S, IsFiniteSet(S),
           NEW s \in SetToSeqs(S), Sorted(s, table), NEW k \in 1 .. Len(s)
    PROVE  Sorted(RemoveAt(s, k), table)
<1> DEFINE r == RemoveAt(s, k)
<1>1. s \in Seq(S) /\ DOMAIN s = 1 .. Len(s)
  BY Enumeration
<1>2. Len(s) \in Nat
  BY <1>1
<1>3. /\ r \in Seq(S) /\ Len(r) = Len(s) - 1
      /\ \A i \in 1 .. k - 1 : r[i] = s[i]
      /\ \A i \in k .. Len(s) - 1 : r[i] = s[i + 1]
  BY <1>1, RemoveAtProperties
<1> HIDE DEF r
<1>4. DOMAIN r = 1 .. Len(r)
  BY <1>3
<1>5. ASSUME NEW i \in 1 .. Len(r)
      PROVE  \E a \in 1 .. Len(s) : /\ r[i] = s[a]
                                    /\ i < k => a = i
                                    /\ i >= k => a = i + 1
  <2>1. CASE i < k
    <3>1. i \in 1 .. Len(s) /\ i \in 1 .. k - 1
      BY <2>1, <1>2, <1>3
    <3> QED BY <2>1, <3>1, <1>3
  <2>2. CASE i >= k
    <3>1. i + 1 \in 1 .. Len(s) /\ i \in k .. Len(s) - 1
      BY <2>2, <1>2, <1>3
    <3> QED BY <2>2, <3>1, <1>2, <1>3
  <2> QED BY <2>1, <2>2, <1>2, <1>3
<1>6. ASSUME NEW i \in 1 .. Len(r), NEW j \in 1 .. Len(r), i < j
      PROVE  Before(table, r[i], r[j])
  <2>1. PICK a \in 1 .. Len(s) : r[i] = s[a] /\ (i < k => a = i) /\ (i >= k => a = i + 1)
    BY <1>5
  <2>2. PICK b \in 1 .. Len(s) : r[j] = s[b] /\ (j < k => b = j) /\ (j >= k => b = j + 1)
    BY <1>5
  <2>3. i \in Int /\ j \in Int /\ k \in Int
    BY <1>2, <1>3
  <2>4. a < b
    BY <2>1, <2>2, <2>3, <1>6
  <2> QED BY <2>1, <2>2, <2>4, <1>1 DEF Sorted
<1>7. Sorted(r, table)
  BY <1>4, <1>6 DEF Sorted
<1> QED BY <1>7 DEF r

-----------------------------------------------------------------------------
(* Tables that differ in another family only.                              *)

\* table2 differs from table in rows of family g at most.
DifferIn(table, table2, g) ==
    \A c \in Criteria :
        \/ table2[c] = table[c]
        \/ /\ table2[c].fam = g
           /\ table[c].status = "none" \/ table[c].fam = g

\* A change within one family leaves the lists of the others alone.
LEMMA OtherFamily ==
    ASSUME NEW table, NEW table2, NEW g, DifferIn(table, table2, g),
           NEW f, f # g
    PROVE  /\ ActiveIn(table2, f) = ActiveIn(table, f)
           /\ \A c \in ActiveIn(table, f) : table2[c] = table[c]
           /\ ListsOf(table2, f) = ListsOf(table, f)
<1>1. ActiveIn(table2, f) = ActiveIn(table, f)
  BY DEF DifferIn, ActiveIn
<1>2. \A c \in ActiveIn(table, f) : table2[c] = table[c]
  BY DEF DifferIn, ActiveIn
<1>3. ASSUME NEW s \in SetToSeqs(ActiveIn(table, f)), NEW i \in DOMAIN s
      PROVE  table2[s[i]] = table[s[i]]
  <2>1. s \in Seq(ActiveIn(table, f)) /\ DOMAIN s = 1 .. Len(s)
    BY ActiveFinite, Enumeration
  <2>2. s[i] \in ActiveIn(table, f)
    BY <2>1
  <2> QED BY <1>2, <2>2
<1>4. ListsOf(table2, f) = ListsOf(table, f)
  BY <1>1, <1>3 DEF ListsOf
<1> QED BY <1>1, <1>2, <1>4

\* A table under versions of its rows is a table.
LEMMA OverlayType ==
    ASSUME NEW table \in [Criteria -> Row], NEW w,
           \E S \in SUBSET Criteria : w \in [S -> Row]
    PROVE  Overlay(table, w) \in [Criteria -> Row]
BY DEF Overlay

\* A transaction does not notice what is committed in another family.
LEMMA SoundStable ==
    ASSUME NEW table, NEW table2, NEW g, DifferIn(table, table2, g),
           NEW p, NEW o, NEW s, NEW n \in Nat \ {0}, NEW w,
           Sound(table, p, o, s, n, w),
           p \in Locked => o.fam # g,
           \A c \in DOMAIN w : table2[c] = table[c]
    PROVE  Sound(table2, p, o, s, n, w)
<1> DEFINE f == o.fam
<1>1. ASSUME p \in Locked
      PROVE  /\ ActiveIn(table2, f) = ActiveIn(table, f)
             /\ \A c \in ActiveIn(table, f) : table2[c] = table[c]
             /\ ListsOf(table2, f) = ListsOf(table, f)
  BY <1>1, OtherFamily
<1>2. DifferIn(Overlay(table, w), Overlay(table2, w), g)
  BY DEF DifferIn, Overlay
<1>3. ASSUME p = "row", o \in SaveOp, Picked(table, o, s)
      PROVE  Picked(table2, o, s)
  BY <1>3, <1>1 DEF Picked, Locked
<1>4. ASSUME p = "renumber", o \in DeleteOp, Retired(table, o, w)
      PROVE  Retired(table2, o, w)
  BY <1>4, <1>1 DEF Retired, Locked
<1>5. ASSUME p = "write", Planned(table, o, s, w)
      PROVE  Planned(table2, o, s, w)
  <2>1. ListsOf(table2, o.fam) = ListsOf(table, o.fam)
        /\ ActiveIn(table2, o.fam) = ActiveIn(table, o.fam)
    BY <1>1, <1>5 DEF Locked
  <2>2. \A d \in DOMAIN w : table2[d].status = table[d].status
    OBVIOUS
  <2> QED BY <1>5, <2>1, <2>2 DEF Planned
<1>6. ASSUME p = "write", Numbered(table, o, s, n, w)
      PROVE  Numbered(table2, o, s, n, w)
  <2>1. /\ ActiveIn(Overlay(table2, w), f) = ActiveIn(Overlay(table, w), f)
        /\ \A c \in ActiveIn(Overlay(table, w), f) :
             Overlay(table2, w)[c] = Overlay(table, w)[c]
    <3>1. f # g
      BY <1>6 DEF Locked
    <3> QED BY <1>2, <3>1, OtherFamily
  <2>2. s \in Seq(ActiveIn(Overlay(table, w), f)) /\ n <= Len(s) + 1
    <3>1. s \in SetToSeqs(ActiveIn(Overlay(table, w), f))
      BY <1>6 DEF Numbered
    <3>2. s \in Seq(ActiveIn(Overlay(table, w), f))
      BY <3>1, ActiveFinite, Enumeration
    <3> QED BY <3>2, <1>6 DEF Numbered
  <2>3. \A i \in 1 .. n - 1 : s[i] \in ActiveIn(Overlay(table, w), f)
    BY <2>2
  <2> QED BY <1>6, <2>1, <2>3 DEF Numbered
<1>7. \A c \in DOMAIN w : /\ w[c].fam = o.fam /\ w[c].status # "none"
                          /\ table2[c].status = "none" \/ table2[c].fam = o.fam
  BY DEF Sound
<1> QED BY <1>3, <1>4, <1>5, <1>6, <1>7 DEF Sound

-----------------------------------------------------------------------------
(* The frame of every action.                                              *)

\* Only t's own state changes.
Moves(t) ==
    /\ pc' = [pc EXCEPT ![t] = pc'[t]]
    /\ op' = [op EXCEPT ![t] = op'[t]]
    /\ ids' = [ids EXCEPT ![t] = ids'[t]]
    /\ nxt' = [nxt EXCEPT ![t] = nxt'[t]]
    /\ writes' = [writes EXCEPT ![t] = writes'[t]]

\* What t holds after its step: a sound state, the family lock if it works on
\* the family, locks on its rows, and a home and criterion that do not change.
Holds(t) ==
    /\ Sound(rows, pc'[t], op'[t], ids'[t], nxt'[t], writes'[t])
    /\ ids'[t] \in Seq(Criteria) /\ nxt'[t] \in Nat \ {0}
    /\ \E S \in SUBSET Criteria : writes'[t] \in [S -> Row]
    /\ \A f \in Families : famLock'[f] = t <=> pc'[t] \in Locked /\ op'[t].fam = f
    /\ \A f \in Families, u \in Txns \ {t} : famLock'[f] = u <=> famLock[f] = u
    /\ \A c \in DOMAIN writes'[t] : c \in DOMAIN writes[t] \/ RowBlockers(t, c) = {}
    /\ op'[t].kind = "answer" /\ pc'[t] \in {"put", "answered"} =>
         /\ op'[t].home \in homes
         /\ op'[t].id \in ActiveIn(rows, HomeFamily[op'[t].home])
         /\ \A u \in Txns : op'[t].id \notin DOMAIN writes[u]

\* One transaction moves and nothing is committed to the criteria: it is
\* enough to look at that transaction and at the locks it takes.
LEMMA TxnStep ==
    ASSUME IInv, NEW t \in Txns, rows' = rows, homes' = homes,
           answers' \in [Homes \X Criteria -> Answers \cup {NoAnswer}],
           famLock' \in [Families -> Txns \cup {None}],
           Moves(t), Holds(t)
    PROVE  IInv'
<1> DEFINE p == pc'[t]
           o == op'[t]
           s == ids'[t]
           n == nxt'[t]
           w == writes'[t]
<1>1. /\ DOMAIN pc = Txns /\ DOMAIN op = Txns /\ DOMAIN ids = Txns
      /\ DOMAIN nxt = Txns /\ DOMAIN writes = Txns
  BY DEF IInv, TypeOK
<1>2. /\ pc'[t] = p /\ op'[t] = o /\ ids'[t] = s /\ nxt'[t] = n /\ writes'[t] = w
      /\ \A u \in Txns \ {t} :
           /\ pc'[u] = pc[u] /\ op'[u] = op[u] /\ ids'[u] = ids[u]
           /\ nxt'[u] = nxt[u] /\ writes'[u] = writes[u]
  BY <1>1 DEF Moves
<1>h. /\ Sound(rows, p, o, s, n, w)
      /\ s \in Seq(Criteria) /\ n \in Nat \ {0}
      /\ \E S \in SUBSET Criteria : w \in [S -> Row]
      /\ \A f \in Families : famLock'[f] = t <=> p \in Locked /\ o.fam = f
      /\ \A f \in Families, u \in Txns \ {t} : famLock'[f] = u <=> famLock[f] = u
      /\ \A c \in DOMAIN w : c \in DOMAIN writes[t] \/ RowBlockers(t, c) = {}
      /\ o.kind = "answer" /\ p \in {"put", "answered"} =>
           /\ o.home \in homes
           /\ o.id \in ActiveIn(rows, HomeFamily[o.home])
           /\ \A u \in Txns : o.id \notin DOMAIN writes[u]
  BY DEF Holds
<1>m. /\ pc' = [pc EXCEPT ![t] = p]
      /\ op' = [op EXCEPT ![t] = o]
      /\ ids' = [ids EXCEPT ![t] = s]
      /\ nxt' = [nxt EXCEPT ![t] = n]
      /\ writes' = [writes EXCEPT ![t] = w]
  BY DEF Moves
<1> HIDE DEF p, o, s, n, w
<1>3. TypeOK'
  <2>1. pc' \in [Txns -> {"idle", "lock", "share", "put", "answered"} \cup Locked]
    <3>1. p \in {"idle", "lock", "share", "put", "answered"} \cup Locked
      BY <1>h DEF Sound, Locked
    <3> QED BY <3>1, <1>m DEF IInv, TypeOK
  <2>2. op' \in [Txns -> {NoOp} \cup SaveOp \cup DeleteOp \cup ReorderOp \cup AnswerOp]
    <3>1. o \in {NoOp} \cup SaveOp \cup DeleteOp \cup ReorderOp \cup AnswerOp
      BY <1>h DEF Sound
    <3> QED BY <3>1, <1>m DEF IInv, TypeOK
  <2>3. ids' \in [Txns -> Seq(Criteria)] /\ nxt' \in [Txns -> Nat \ {0}]
    BY <1>h, <1>m DEF IInv, TypeOK
  <2>4. writes' = [u \in Txns |-> writes'[u]]
    BY <1>1, <1>m DEF IInv, TypeOK
  <2>5. \A u \in Txns : \E S \in SUBSET Criteria : writes'[u] \in [S -> Row]
    BY <1>2, <1>h DEF IInv, TypeOK
  <2> QED BY <2>1, <2>2, <2>3, <2>4, <2>5 DEF IInv, TypeOK
<1>4. AllSound'
  BY <1>2, <1>h DEF IInv, AllSound
<1>5. LockHeld'
  BY <1>2, <1>h DEF IInv, LockHeld
<1>6. OneWriter'
  <2>1. \A c \in DOMAIN w, u \in Txns \ {t} : c \notin DOMAIN writes[u]
    BY <1>h DEF IInv, OneWriter, RowBlockers
  <2>2. \A u, v \in Txns : u # v => DOMAIN writes[u] \cap DOMAIN writes[v] = {}
    BY DEF IInv, OneWriter
  <2> QED BY <2>1, <2>2, <1>2 DEF OneWriter
<1>7. SharesHold'
  <2> SUFFICES ASSUME NEW u \in Txns, Sharing(u)'
               PROVE  /\ op'[u].home \in homes
                      /\ op'[u].id \in ActiveIn(rows, HomeFamily[op'[u].home])
                      /\ \A v \in Txns : op'[u].id \notin DOMAIN writes'[v]
    BY DEF SharesHold
  <2>1. CASE u = t
    <3>1. o.kind = "answer" /\ p \in {"put", "answered"}
      BY <2>1, <1>2 DEF Sharing
    <3>2. DOMAIN w = {}
      BY <3>1, <1>h DEF Sound
    <3> QED BY <2>1, <3>1, <3>2, <1>2, <1>h
  <2>2. CASE u # t
    <3>1. Sharing(u)
      BY <2>2, <1>2 DEF Sharing
    <3>2. /\ op[u].home \in homes
          /\ op[u].id \in ActiveIn(rows, HomeFamily[op[u].home])
          /\ \A v \in Txns : op[u].id \notin DOMAIN writes[v]
      BY <3>1 DEF IInv, SharesHold
    <3>3. op[u].id \notin DOMAIN w
      BY <2>2, <3>1, <3>2, <1>h DEF RowBlockers
    <3> QED BY <2>2, <3>2, <3>3, <1>2
  <2> QED BY <2>1, <2>2
<1>8. ContiguousPositions'
  <2>1. \A f \in Families : Contiguous(rows, f)
    BY DEF IInv, ContiguousPositions
  <2>2. \A f \in Families : Contiguous(rows', f)
    BY <2>1
  <2> QED BY <2>2 DEF ContiguousPositions
<1> QED BY <1>3, <1>4, <1>5, <1>6, <1>7, <1>8 DEF IInv

\* A transaction that has ended.
LEMMA IdleSound ==
    ASSUME NEW table
    PROVE  /\ Sound(table, "idle", NoOp, <<>>, 1, NoWrites)
           /\ <<>> \in Seq(Criteria)
           /\ DOMAIN NoWrites = {}
           /\ \E S \in SUBSET Criteria : NoWrites \in [S -> Row]
<1>1. DOMAIN NoWrites = {} /\ NoWrites \in [{} -> Row]
  BY DEF NoWrites
<1>2. <<>> \in Seq(Criteria)
  OBVIOUS
<1>3. {} \in SUBSET Criteria
  OBVIOUS
<1>4. \E S \in SUBSET Criteria : NoWrites \in [S -> Row]
  BY <1>1, <1>3
<1>5. Sound(table, "idle", NoOp, <<>>, 1, NoWrites)
  BY <1>1, <1>2, <1>4 DEF Sound
<1> QED BY <1>1, <1>2, <1>4, <1>5

\* The locks after the end of a transaction.
LEMMA EndLocks ==
    ASSUME IInv, NEW t \in Txns, End(t)
    PROVE  /\ famLock' \in [Families -> Txns \cup {None}]
           /\ \A f \in Families : famLock'[f] # t
           /\ \A f \in Families, u \in Txns \ {t} : famLock'[f] = u <=> famLock[f] = u
<1>1. famLock \in [Families -> Txns \cup {None}] /\ None # t
  BY ChecklistAssumption DEF IInv, TypeOK
<1>2. famLock' = [f \in Families |-> IF famLock[f] = t THEN None ELSE famLock[f]]
  BY DEF End
<1>3. None \notin Txns
  BY ChecklistAssumption
<1>4. famLock' \in [Families -> Txns \cup {None}]
  BY <1>1, <1>2
<1>5. \A f \in Families : famLock'[f] # t
  BY <1>1, <1>2
<1>6. \A f \in Families, u \in Txns \ {t} : famLock'[f] = u <=> famLock[f] = u
  BY <1>2, <1>3
<1> QED BY <1>4, <1>5, <1>6

\* Rollback, refusals and the commit of an answer.
LEMMA EndInv ==
    ASSUME IInv, NEW t \in Txns, End(t), rows' = rows, homes' = homes,
           answers' \in [Homes \X Criteria -> Answers \cup {NoAnswer}]
    PROVE  IInv'
<1>1. /\ writes' = [writes EXCEPT ![t] = NoWrites]
      /\ pc' = [pc EXCEPT ![t] = "idle"]
      /\ op' = [op EXCEPT ![t] = NoOp]
      /\ ids' = [ids EXCEPT ![t] = <<>>]
      /\ nxt' = [nxt EXCEPT ![t] = 1]
  BY DEF End
<1>2. "idle" \notin Locked /\ 1 \in Nat \ {0} /\ NoOp.kind # "answer"
  BY DEF Locked, NoOp
<1>3. /\ pc'[t] = "idle" /\ op'[t] = NoOp /\ ids'[t] = <<>>
      /\ nxt'[t] = 1 /\ writes'[t] = NoWrites
  BY <1>1 DEF IInv, TypeOK
<1>4. Moves(t)
  BY <1>1, <1>3 DEF Moves
<1>5. Holds(t)
  BY <1>2, <1>3, EndLocks, IdleSound DEF Holds
<1> QED BY <1>4, <1>5, EndLocks, TxnStep

-----------------------------------------------------------------------------
(* The actions preserve the invariant.                                     *)

\* What the invariant says of one transaction.
LEMMA AboutTxn ==
    ASSUME IInv, NEW t \in Txns
    PROVE  /\ Sound(rows, pc[t], op[t], ids[t], nxt[t], writes[t])
           /\ ids[t] \in Seq(Criteria)
           /\ nxt[t] \in Nat \ {0}
           /\ \E S \in SUBSET Criteria : writes[t] \in [S -> Row]
           /\ DOMAIN writes[t] \subseteq Criteria
           /\ View(t) = Overlay(rows, writes[t])
           /\ View(t) \in [Criteria -> Row]
           /\ rows \in [Criteria -> Row]
<1>1. /\ ids[t] \in Seq(Criteria)
      /\ nxt[t] \in Nat \ {0}
      /\ \E S \in SUBSET Criteria : writes[t] \in [S -> Row]
      /\ rows \in [Criteria -> Row]
  BY DEF IInv, TypeOK
<1>2. Sound(rows, pc[t], op[t], ids[t], nxt[t], writes[t])
  BY DEF IInv, AllSound
<1>3. View(t) = Overlay(rows, writes[t])
  BY DEF View, Overlay
<1>4. DOMAIN writes[t] \subseteq Criteria
  BY <1>1
<1> QED BY <1>1, <1>2, <1>3, <1>4, OverlayType

\* A statement that takes no lock and writes no row.
LEMMA QuietStep ==
    ASSUME IInv, NEW t \in Txns,
           UNCHANGED <<rows, homes, answers, famLock, nxt, writes>>,
           pc' = [pc EXCEPT ![t] = pc'[t]],
           op' = [op EXCEPT ![t] = op'[t]],
           ids' = [ids EXCEPT ![t] = ids'[t]],
           ids'[t] \in Seq(Criteria),
           Sound(rows, pc'[t], op'[t], ids'[t], nxt[t], writes[t]),
           \A f \in Families : famLock[f] = t <=> pc'[t] \in Locked /\ op'[t].fam = f,
           op'[t].kind = "answer" /\ pc'[t] \in {"put", "answered"} =>
               /\ op'[t].home \in homes
               /\ op'[t].id \in ActiveIn(rows, HomeFamily[op'[t].home])
               /\ \A u \in Txns : op'[t].id \notin DOMAIN writes[u]
    PROVE  IInv'
<1>1. nxt = [nxt EXCEPT ![t] = nxt[t]] /\ writes = [writes EXCEPT ![t] = writes[t]]
  BY DEF IInv, TypeOK
<1>2. /\ answers' \in [Homes \X Criteria -> Answers \cup {NoAnswer}]
      /\ famLock' \in [Families -> Txns \cup {None}]
  BY DEF IInv, TypeOK
<1>3. Moves(t)
  BY <1>1 DEF Moves
<1>4. nxt'[t] \in Nat \ {0} /\ \E S \in SUBSET Criteria : writes'[t] \in [S -> Row]
  BY AboutTxn
<1>5. Holds(t)
  BY <1>4 DEF Holds
<1> QED BY <1>2, <1>3, <1>5, TxnStep

\* A transaction that begins holds nothing yet.
LEMMA BeginOpInv ==
    ASSUME IInv, NEW t \in Txns, NEW o, NEW first, BeginOp(t, o, first),
           \/ first = "lock" /\ o \in SaveOp \cup DeleteOp \cup ReorderOp
           \/ first = "share" /\ o \in AnswerOp
    PROVE  IInv'
<1>1. /\ pc[t] = "idle"
      /\ op' = [op EXCEPT ![t] = o]
      /\ pc' = [pc EXCEPT ![t] = first]
      /\ UNCHANGED <<rows, homes, answers, famLock, ids, nxt, writes>>
  BY DEF BeginOp
<1>2. ids' = [ids EXCEPT ![t] = ids'[t]] /\ ids'[t] \in Seq(Criteria) /\ ids'[t] = ids[t]
  BY <1>1 DEF IInv, TypeOK
<1>3. pc'[t] = first /\ op'[t] = o
  BY <1>1 DEF IInv, TypeOK
<1>4. Sound(rows, first, o, ids[t], nxt[t], writes[t])
  BY <1>1, AboutTxn DEF Sound
<1>5. \A f \in Families : famLock[f] = t <=> first \in Locked /\ o.fam = f
  BY <1>1 DEF IInv, LockHeld, Locked
<1>6. ~(first \in {"put", "answered"})
  OBVIOUS
<1>7. pc' = [pc EXCEPT ![t] = pc'[t]] /\ op' = [op EXCEPT ![t] = op'[t]]
  BY <1>1, <1>3
<1>8. Sound(rows, pc'[t], op'[t], ids'[t], nxt[t], writes[t])
  BY <1>2, <1>3, <1>4
<1>9. \A f \in Families : famLock[f] = t <=> pc'[t] \in Locked /\ op'[t].fam = f
  BY <1>3, <1>5
<1>10. UNCHANGED <<rows, homes, answers, famLock, nxt, writes>>
  BY <1>1
<1>11. ~(pc'[t] \in {"put", "answered"})
  BY <1>3, <1>6
<1> QED BY <1>2, <1>7, <1>8, <1>9, <1>10, <1>11, QuietStep

\* The four operations begin with the arguments the server let through.
LEMMA BeginInv ==
    ASSUME IInv, NEW t \in Txns, Begin(t)
    PROVE  IInv'
<1>1. CASE BeginSave(t)
  <2>1. PICK f \in Families, c \in Criteria \cup {NewID}, q \in 0 .. MaxPosition :
          BeginOp(t, [kind |-> "save", fam |-> f, id |-> c, pos |-> q], "lock")
    BY <1>1 DEF BeginSave
  <2>2. [kind |-> "save", fam |-> f, id |-> c, pos |-> q] \in SaveOp
    BY DEF SaveOp
  <2> QED BY <2>1, <2>2, BeginOpInv
<1>2. CASE BeginDelete(t)
  <2>1. PICK f \in Families, c \in Criteria :
          BeginOp(t, [kind |-> "delete", fam |-> f, id |-> c], "lock")
    BY <1>2 DEF BeginDelete
  <2>2. [kind |-> "delete", fam |-> f, id |-> c] \in DeleteOp
    BY DEF DeleteOp
  <2> QED BY <2>1, <2>2, BeginOpInv
<1>3. CASE BeginReorder(t)
  <2>1. PICK f \in Families, s \in ReorderRequests :
          BeginOp(t, [kind |-> "reorder", fam |-> f, order |-> s], "lock")
    BY <1>3 DEF BeginReorder
  <2>2. [kind |-> "reorder", fam |-> f, order |-> s] \in ReorderOp
    BY DEF ReorderOp
  <2> QED BY <2>1, <2>2, BeginOpInv
<1>4. CASE BeginAnswer(t)
  <2>1. PICK h \in Homes, c \in Criteria, v \in Answers :
          BeginOp(t, [kind |-> "answer", home |-> h, id |-> c, val |-> v], "share")
    BY <1>4 DEF BeginAnswer
  <2>2. [kind |-> "answer", home |-> h, id |-> c, val |-> v] \in AnswerOp
    BY DEF AnswerOp
  <2> QED BY <2>1, <2>2, BeginOpInv
<1> QED BY <1>1, <1>2, <1>3, <1>4 DEF Begin

\* SELECT ... FOR UPDATE makes the transaction the family's only worker.
LEMMA LockFamilyInv ==
    ASSUME IInv, NEW t \in Txns, LockFamily(t)
    PROVE  IInv'
<1> DEFINE p == IF op[t].kind = "delete" THEN "retire" ELSE "read"
<1>1. /\ pc[t] = "lock" /\ famLock[op[t].fam] = None
      /\ famLock' = [famLock EXCEPT ![op[t].fam] = t]
      /\ pc' = [pc EXCEPT ![t] = p]
      /\ UNCHANGED <<rows, homes, answers, op, ids, nxt, writes>>
  BY DEF LockFamily
<1>2. Sound(rows, "lock", op[t], ids[t], nxt[t], writes[t])
  BY <1>1, AboutTxn
<1>3. op[t] \in SaveOp \cup DeleteOp \cup ReorderOp
  BY <1>2 DEF Sound
<1>4. op[t].fam \in Families /\ op[t].kind # "answer"
  BY <1>3 DEF SaveOp, DeleteOp, ReorderOp
<1>5. p \in {"retire", "read"} /\ p \in Locked
  BY DEF Locked
<1>6. Sound(rows, p, op[t], ids[t], nxt[t], writes[t])
  <2>1. CASE op[t].kind = "delete"
    <3>1. op[t] \in DeleteOp
      BY <1>3, <2>1 DEF SaveOp, ReorderOp
    <3> QED BY <3>1, <2>1, <1>2 DEF Sound
  <2>2. CASE op[t].kind # "delete"
    <3>1. op[t] \in SaveOp \cup ReorderOp
      BY <1>3, <2>2 DEF DeleteOp
    <3> QED BY <3>1, <2>2, <1>2 DEF Sound
  <2> QED BY <2>1, <2>2
<1> HIDE DEF p
<1>7. /\ famLock' \in [Families -> Txns \cup {None}]
      /\ answers' \in [Homes \X Criteria -> Answers \cup {NoAnswer}]
      /\ pc'[t] = p /\ op'[t] = op[t] /\ ids'[t] = ids[t] /\ nxt'[t] = nxt[t]
      /\ writes'[t] = writes[t]
  BY <1>1 DEF IInv, TypeOK
<1>8. \A f \in Families : famLock[f] # t
  BY <1>1 DEF IInv, LockHeld, Locked
<1>9. famLock \in [Families -> Txns \cup {None}] /\ None \notin Txns
  BY ChecklistAssumption DEF IInv, TypeOK
<1>10. \A f \in Families : famLock'[f] = t <=> p \in Locked /\ op[t].fam = f
  BY <1>1, <1>4, <1>5, <1>8, <1>9
<1>11. \A f \in Families, u \in Txns \ {t} : famLock'[f] = u <=> famLock[f] = u
  BY <1>1, <1>4, <1>9
<1>12. /\ ids[t] \in Seq(Criteria) /\ nxt[t] \in Nat \ {0}
       /\ \E S \in SUBSET Criteria : writes[t] \in [S -> Row]
  BY AboutTxn
<1>13. Moves(t)
  BY <1>1, <1>7 DEF Moves, IInv, TypeOK
<1>14. Holds(t)
  BY <1>4, <1>6, <1>7, <1>10, <1>11, <1>12 DEF Holds
<1> QED BY <1>1, <1>7, <1>13, <1>14, TxnStep

\* Every family has a list.
LEMMA HasList ==
    ASSUME IInv, NEW f \in Families
    PROVE  ListsOf(rows, f) # {}
BY ContiguousLists DEF IInv, ContiguousPositions

\* The elements of a list.
LEMMA ListElements ==
    ASSUME NEW table, NEW f, NEW l \in ListsOf(table, f)
    PROVE  /\ l \in SetToSeqs(ActiveIn(table, f))
           /\ l \in Seq(Criteria)
           /\ Len(l) \in Nat
           /\ DOMAIN l = 1 .. Len(l)
           /\ \A i \in 1 .. Len(l) : l[i] \in ActiveIn(table, f)
<1>1. l \in SetToSeqs(ActiveIn(table, f))
  BY DEF ListsOf
<1>2. l \in Seq(ActiveIn(table, f)) /\ DOMAIN l = 1 .. Len(l)
  BY <1>1, ActiveFinite, Enumeration
<1>3. l \in Seq(Criteria)
  BY <1>2, ActiveFinite, SeqMonotonic
<1>4. Len(l) \in Nat /\ \A i \in 1 .. Len(l) : l[i] \in ActiveIn(table, f)
  BY <1>2
<1> QED BY <1>1, <1>2, <1>3, <1>4

\* A transaction that wrote nothing sees the committed rows.
LEMMA SeesCommitted ==
    ASSUME NEW table \in [Criteria -> Row], NEW w, DOMAIN w = {}
    PROVE  Overlay(table, w) = table
BY DEF Overlay

\* checklistIDs under the family lock, before the transaction wrote anything:
\* the committed list.
LEMMA ListingIsCommitted ==
    ASSUME IInv, NEW t \in Txns, pc[t] = "read", NEW s \in Listings(t)
    PROVE  /\ s \in ListsOf(rows, op[t].fam)
           /\ View(t) = rows
           /\ op[t].fam \in Families
           /\ DOMAIN writes[t] = {} /\ nxt[t] = 1
<1>1. Sound(rows, "read", op[t], ids[t], nxt[t], writes[t])
  BY AboutTxn
<1>2. DOMAIN writes[t] = {} /\ nxt[t] = 1 /\ op[t] \in SaveOp \cup ReorderOp
  BY <1>1 DEF Sound
<1>3. op[t].fam \in Families
  BY <1>2 DEF SaveOp, ReorderOp
<1>4. View(t) = rows /\ rows \in [Criteria -> Row]
  BY <1>2, AboutTxn, SeesCommitted
<1>5. s \in SetToSeqs(ActiveIn(rows, op[t].fam)) /\ Sorted(s, rows)
  BY <1>4 DEF Listings, ActiveFor
<1>6. PICK l \in ListsOf(rows, op[t].fam) : TRUE
  BY <1>3, HasList
<1>7. s = l
  BY <1>4, <1>5, <1>6, ListingIsList
<1> QED BY <1>2, <1>3, <1>4, <1>6, <1>7

\* SaveHousingCriterion reads the committed list under the lock: Picked.
LEMMA ReadForSaveInv ==
    ASSUME IInv, NEW t \in Txns, ReadForSave(t)
    PROVE  IInv'
<1>1. /\ pc[t] = "read" /\ op[t].kind = "save"
      /\ pc' = [pc EXCEPT ![t] = "row"]
      /\ UNCHANGED <<rows, homes, answers, famLock, op, nxt, writes>>
  BY DEF ReadForSave
<1>2. PICK l \in Listings(t) :
        \/ /\ op[t].id = NewID
           /\ op[t].pos <= Len(l)
           /\ ids' = [ids EXCEPT ![t] = l]
        \/ \E i \in DOMAIN l :
           /\ l[i] = op[t].id
           /\ op[t].pos <= Len(l) - 1
           /\ ids' = [ids EXCEPT ![t] = RemoveAt(l, i)]
  BY DEF ReadForSave
<1>3. l \in ListsOf(rows, op[t].fam) /\ DOMAIN writes[t] = {} /\ nxt[t] = 1
  BY <1>1, ListingIsCommitted
<1>4. l \in Seq(Criteria) /\ DOMAIN l = 1 .. Len(l)
  BY <1>3, ListElements
<1>5. op[t] \in SaveOp
  <2>1. Sound(rows, "read", op[t], ids[t], nxt[t], writes[t])
    BY <1>1, AboutTxn
  <2>2. op[t] \in SaveOp \cup ReorderOp
    BY <2>1 DEF Sound
  <2> QED BY <2>2, <1>1 DEF ReorderOp
<1>6. /\ pc'[t] = "row" /\ op'[t] = op[t] /\ op' = [op EXCEPT ![t] = op'[t]]
      /\ pc' = [pc EXCEPT ![t] = pc'[t]]
  BY <1>1 DEF IInv, TypeOK
<1>7. /\ ids'[t] \in Seq(Criteria) /\ ids' = [ids EXCEPT ![t] = ids'[t]]
      /\ Picked(rows, op[t], ids'[t])
  <2>0. DOMAIN ids = Txns
    BY DEF IInv, TypeOK
  <2>1. CASE op[t].id = NewID /\ op[t].pos <= Len(l) /\ ids' = [ids EXCEPT ![t] = l]
    <3>1. ids'[t] = l
      BY <2>0, <2>1
    <3> QED BY <2>1, <3>1, <1>3, <1>4 DEF Picked
  <2>2. ASSUME NEW i \in DOMAIN l, l[i] = op[t].id, op[t].pos <= Len(l) - 1,
               ids' = [ids EXCEPT ![t] = RemoveAt(l, i)]
        PROVE  /\ ids'[t] \in Seq(Criteria) /\ ids' = [ids EXCEPT ![t] = ids'[t]]
               /\ Picked(rows, op[t], ids'[t])
    <3>1. ids'[t] = RemoveAt(l, i)
      BY <2>0, <2>2
    <3>2. RemoveAt(l, i) \in Seq(Criteria)
      BY <1>4, <2>2, RemoveAtProperties
    <3> QED BY <2>2, <3>1, <3>2, <1>3, <1>4 DEF Picked
  <2> QED BY <1>2, <2>1, <2>2
<1>8. Sound(rows, pc'[t], op'[t], ids'[t], nxt[t], writes[t])
  BY <1>3, <1>5, <1>6, <1>7 DEF Sound
<1>9. \A f \in Families : famLock[f] = t <=> pc'[t] \in Locked /\ op'[t].fam = f
  BY <1>1, <1>6 DEF IInv, LockHeld, Locked
<1>10. UNCHANGED <<rows, homes, answers, famLock, nxt, writes>>
  BY <1>1
<1>11. ~(pc'[t] \in {"put", "answered"})
  BY <1>6
<1> QED BY <1>6, <1>7, <1>8, <1>9, <1>10, <1>11, QuietStep

\* ReorderHousingCriteria accepts a permutation of the committed list.
LEMMA ReadForReorderInv ==
    ASSUME IInv, NEW t \in Txns, ReadForReorder(t)
    PROVE  IInv'
<1> DEFINE A == ActiveIn(rows, op[t].fam)
<1>1. /\ pc[t] = "read" /\ op[t].kind = "reorder"
      /\ pc' = [pc EXCEPT ![t] = "write"]
      /\ UNCHANGED <<rows, homes, answers, famLock, op, nxt, writes>>
  BY DEF ReadForReorder
<1>2. PICK l \in Listings(t) : /\ IsPermutation(op[t].order, l)
                               /\ ids' = [ids EXCEPT ![t] = op[t].order]
  BY DEF ReadForReorder
<1>3. l \in ListsOf(rows, op[t].fam) /\ DOMAIN writes[t] = {} /\ nxt[t] = 1
  BY <1>1, ListingIsCommitted
<1>5. op[t] \in ReorderOp
  <2>1. Sound(rows, "read", op[t], ids[t], nxt[t], writes[t])
    BY <1>1, AboutTxn
  <2>2. op[t] \in SaveOp \cup ReorderOp
    BY <2>1 DEF Sound
  <2> QED BY <2>2, <1>1 DEF SaveOp
\* The request enumerates the list's criteria.
<1>6. op[t].order \in SetToSeqs(A) /\ op[t].order \in Seq(Criteria)
  <2>1. PICK S \in SUBSET Criteria : op[t].order \in SetToSeqs(S)
    BY <1>5 DEF ReorderOp, ReorderRequests
  <2>2. IsFiniteSet(S)
    BY ChecklistAssumption, FS_Subset
  <2>3. op[t].order \in Seq(S) /\ ToSet(op[t].order) = S
    BY <2>1, <2>2, Enumeration, EnumerationSet
  <2>4. l \in SetToSeqs(A)
    BY <1>3, ListElements
  <2>5. IsFiniteSet(A)
    BY ActiveFinite
  <2>6. ToSet(l) = A
    BY <2>4, <2>5, EnumerationSet
  <2>7. S = A
    BY <2>3, <2>6, <1>2 DEF IsPermutation
  <2> QED BY <2>1, <2>3, <2>7, SeqMonotonic
<1>7. /\ pc'[t] = "write" /\ op'[t] = op[t] /\ op' = [op EXCEPT ![t] = op'[t]]
      /\ pc' = [pc EXCEPT ![t] = pc'[t]]
      /\ ids'[t] = op[t].order /\ ids' = [ids EXCEPT ![t] = ids'[t]]
  BY <1>1, <1>2 DEF IInv, TypeOK
<1>8. Planned(rows, op[t], ids'[t], writes[t])
  BY <1>1, <1>3, <1>6, <1>7 DEF Planned
<1>9. Numbered(rows, op[t], ids'[t], 1, writes[t])
  <2>1. Overlay(rows, writes[t]) = rows
    BY <1>3, AboutTxn, SeesCommitted
  <2>2. Len(ids'[t]) \in Nat
    BY <1>6, <1>7
  <2> QED BY <2>1, <2>2, <1>6, <1>7 DEF Numbered
<1>10. Sound(rows, pc'[t], op'[t], ids'[t], nxt[t], writes[t])
  BY <1>3, <1>5, <1>7, <1>8, <1>9 DEF Sound
<1>11. \A f \in Families : famLock[f] = t <=> pc'[t] \in Locked /\ op'[t].fam = f
  BY <1>1, <1>7 DEF IInv, LockHeld, Locked
<1>12. UNCHANGED <<rows, homes, answers, famLock, nxt, writes>>
  BY <1>1
<1>13. ~(pc'[t] \in {"put", "answered"}) /\ ids'[t] \in Seq(Criteria)
  BY <1>6, <1>7
<1> QED BY <1>7, <1>10, <1>11, <1>12, <1>13, QuietStep

\* What DeleteHousingCriterion sees after its own UPDATE: the committed criteria
\* without the one it retired, in the same order.
LEMMA AfterRetire ==
    ASSUME IInv, NEW t \in Txns, pc[t] = "renumber"
    PROVE  /\ op[t].fam \in Families
           /\ op[t].id \in ActiveIn(rows, op[t].fam)
           /\ \A d \in Criteria : View(t)[d].order = rows[d].order
           /\ ActiveIn(View(t), op[t].fam) = ActiveIn(rows, op[t].fam) \ {op[t].id}
<1> DEFINE f == op[t].fam
           c == op[t].id
<1>1. op[t] \in DeleteOp /\ Retired(rows, op[t], writes[t])
  <2>1. Sound(rows, "renumber", op[t], ids[t], nxt[t], writes[t])
    BY AboutTxn
  <2> QED BY <2>1 DEF Sound
<1>2. f \in Families /\ c \in Criteria /\ c \in ActiveIn(rows, f)
  BY <1>1 DEF DeleteOp, Retired
<1>3. rows \in [Criteria -> Row] /\ View(t) = Overlay(rows, writes[t])
  BY AboutTxn
<1>4. \A d \in Criteria : View(t)[d] = IF d = c THEN [rows[c] EXCEPT !.status = "retired"]
                                       ELSE rows[d]
  BY <1>1, <1>3 DEF Retired, Overlay
<1>5. \A d \in Criteria : /\ d # c => View(t)[d] = rows[d]
                          /\ View(t)[d].order = rows[d].order
  BY <1>4, <1>3 DEF Row
<1>6. View(t)[c].status = "retired"
  BY <1>2, <1>3, <1>4 DEF Row
<1> QED BY <1>2, <1>5, <1>6 DEF ActiveIn

\* DeleteHousingCriterion lists what is left after its own UPDATE: the committed
\* list without the criterion it retired.
LEMMA ReadAfterRetireInv ==
    ASSUME IInv, NEW t \in Txns, ReadAfterRetire(t)
    PROVE  IInv'
<1> DEFINE f == op[t].fam
           c == op[t].id
<1>1. /\ pc[t] = "renumber"
      /\ pc' = [pc EXCEPT ![t] = "write"]
      /\ UNCHANGED <<rows, homes, answers, famLock, op, nxt, writes>>
  BY DEF ReadAfterRetire
<1>2. PICK s \in Listings(t) : ids' = [ids EXCEPT ![t] = s]
  BY DEF ReadAfterRetire
<1>3. /\ op[t] \in DeleteOp /\ Retired(rows, op[t], writes[t]) /\ nxt[t] = 1
      /\ \A d \in DOMAIN writes[t] :
           /\ writes[t][d].fam = op[t].fam /\ writes[t][d].status # "none"
           /\ rows[d].status = "none" \/ rows[d].fam = op[t].fam
  <2>1. Sound(rows, "renumber", op[t], ids[t], nxt[t], writes[t])
    BY <1>1, AboutTxn
  <2> QED BY <2>1 DEF Sound
<1>4. f \in Families /\ c \in Criteria
  BY <1>3 DEF DeleteOp
<1>5. rows \in [Criteria -> Row] /\ View(t) \in [Criteria -> Row] /\ View(t) = Overlay(rows, writes[t])
  BY AboutTxn
<1>6. /\ c \in ActiveIn(rows, f)
      /\ \A d \in Criteria : View(t)[d].order = rows[d].order
      /\ ActiveIn(View(t), f) = ActiveIn(rows, f) \ {c}
  BY <1>1, AfterRetire
<1>7. PICK l \in ListsOf(rows, f) : TRUE
  BY <1>4, HasList
<1>8. /\ l \in SetToSeqs(ActiveIn(rows, f)) /\ l \in Seq(Criteria)
      /\ IsFiniteSet(ActiveIn(rows, f)) /\ ActiveIn(rows, f) \ {c} \in SUBSET Criteria
  BY <1>7, ListElements, ActiveFinite
<1>9. PICK k \in 1 .. Len(l) : l[k] = c
  <2>1. \A x \in ActiveIn(rows, f) : \E k \in 1 .. Len(l) : l[k] = x
    BY <1>8, Enumeration
  <2> QED BY <2>1, <1>6
<1>10. RemoveAt(l, k) \in SetToSeqs(ActiveIn(rows, f) \ {c}) /\ Sorted(RemoveAt(l, k), rows)
  BY <1>7, <1>8, <1>9, RemoveEnumeration, RemoveSorted, ListSorted
<1>11. s \in SetToSeqs(ActiveIn(rows, f) \ {c}) /\ Sorted(s, View(t))
  BY <1>6 DEF Listings, ActiveFor
<1>12. s \in Seq(Criteria) /\ DOMAIN s = 1 .. Len(s)
  <2>1. IsFiniteSet(ActiveIn(rows, f) \ {c})
    BY <1>8, FS_RemoveElement
  <2>2. s \in Seq(ActiveIn(rows, f) \ {c}) /\ DOMAIN s = 1 .. Len(s)
    BY <2>1, <1>11, Enumeration
  <2> QED BY <2>2, <1>8, SeqMonotonic
<1>13. Sorted(s, rows)
  <2>1. \A i \in DOMAIN s : s[i] \in Criteria
    BY <1>12
  <2> QED BY <2>1, <1>6, <1>11 DEF Sorted, Before
<1>14. s = RemoveAt(l, k)
  BY <1>5, <1>8, <1>10, <1>11, <1>13, SortedUnique
<1>15. /\ pc'[t] = "write" /\ op'[t] = op[t] /\ op' = [op EXCEPT ![t] = op'[t]]
       /\ pc' = [pc EXCEPT ![t] = pc'[t]]
       /\ ids'[t] = s /\ ids' = [ids EXCEPT ![t] = ids'[t]]
  BY <1>1, <1>2 DEF IInv, TypeOK
<1>16. Planned(rows, op[t], s, writes[t])
  <2>1. op[t].kind = "delete"
    BY <1>3 DEF DeleteOp
  <2>2. DOMAIN writes[t] = {c} /\ rows[c].status # "none"
    BY <1>3, <1>6 DEF Retired, ActiveIn
  <2> QED BY <2>1, <2>2, <1>7, <1>9, <1>14 DEF Planned
<1>17. Numbered(rows, op[t], s, 1, writes[t])
  <2>1. Len(s) \in Nat
    BY <1>12
  <2> QED BY <2>1, <1>5, <1>6, <1>11 DEF Numbered
<1>18. Sound(rows, pc'[t], op'[t], ids'[t], nxt[t], writes[t])
  BY <1>3, <1>15, <1>16, <1>17 DEF Sound
<1>19. \A g \in Families : famLock[g] = t <=> pc'[t] \in Locked /\ op'[t].fam = g
  BY <1>1, <1>15 DEF IInv, LockHeld, Locked
<1>20. UNCHANGED <<rows, homes, answers, famLock, nxt, writes>>
  BY <1>1
<1>21. ~(pc'[t] \in {"put", "answered"}) /\ ids'[t] \in Seq(Criteria)
  BY <1>12, <1>15
<1> QED BY <1>15, <1>18, <1>19, <1>20, <1>21, QuietStep

\* One more version of a row.
LEMMA WriteAdds ==
    ASSUME IInv, NEW t \in Txns, NEW c \in Criteria, NEW row \in Row, Write(t, c, row)
    PROVE  /\ writes' = [writes EXCEPT ![t] = writes'[t]]
           /\ \E S \in SUBSET Criteria : writes'[t] \in [S -> Row]
           /\ DOMAIN writes'[t] = DOMAIN writes[t] \cup {c}
           /\ writes'[t][c] = row
           /\ \A d \in DOMAIN writes[t] \ {c} : writes'[t][d] = writes[t][d]
           /\ Overlay(rows, writes'[t])[c] = row
           /\ \A d \in Criteria \ {c} : Overlay(rows, writes'[t])[d] = View(t)[d]
<1> DEFINE w == [d \in DOMAIN writes[t] \cup {c} |-> IF d = c THEN row ELSE writes[t][d]]
<1>1. PICK S \in SUBSET Criteria : writes[t] \in [S -> Row]
  BY AboutTxn
<1>2. writes' = [writes EXCEPT ![t] = w]
  BY DEF Write
<1>3. writes'[t] = w
  BY <1>2 DEF IInv, TypeOK
<1>4. w \in [S \cup {c} -> Row] /\ S \cup {c} \in SUBSET Criteria
  BY <1>1
<1>5. /\ DOMAIN w = DOMAIN writes[t] \cup {c} /\ w[c] = row
      /\ \A d \in DOMAIN writes[t] \ {c} : w[d] = writes[t][d]
  BY <1>1
<1>6. Overlay(rows, w)[c] = row
  BY <1>5 DEF Overlay
<1>7. \A d \in Criteria \ {c} : Overlay(rows, w)[d] = View(t)[d]
  BY <1>5 DEF Overlay, View
<1> QED BY <1>2, <1>3, <1>4, <1>5, <1>6, <1>7

\* A statement that writes row c, none of whose locks is another's.
LEMMA WriteStep ==
    ASSUME IInv, NEW t \in Txns, NEW c \in Criteria, NEW row \in Row, Write(t, c, row),
           UNCHANGED <<rows, homes, answers, famLock, op>>,
           pc' = [pc EXCEPT ![t] = pc'[t]],
           ids' = [ids EXCEPT ![t] = ids'[t]],
           nxt' = [nxt EXCEPT ![t] = nxt'[t]],
           ids'[t] \in Seq(Criteria), nxt'[t] \in Nat \ {0},
           pc[t] \in Locked, pc'[t] \in Locked,
           RowBlockers(t, c) = {},
           Sound(rows, pc'[t], op[t], ids'[t], nxt'[t], writes'[t])
    PROVE  IInv'
<1>1. /\ writes' = [writes EXCEPT ![t] = writes'[t]]
      /\ \E S \in SUBSET Criteria : writes'[t] \in [S -> Row]
      /\ DOMAIN writes'[t] = DOMAIN writes[t] \cup {c}
  BY WriteAdds
<1>2. op = [op EXCEPT ![t] = op[t]]
  BY DEF IInv, TypeOK
<1>3. /\ answers' \in [Homes \X Criteria -> Answers \cup {NoAnswer}]
      /\ famLock' \in [Families -> Txns \cup {None}]
  BY DEF IInv, TypeOK
<1>4. Moves(t)
  BY <1>1, <1>2 DEF Moves
<1>5. \A f \in Families : famLock'[f] = t <=> pc'[t] \in Locked /\ op'[t].fam = f
  BY DEF IInv, LockHeld
<1>6. \A f \in Families, u \in Txns \ {t} : famLock'[f] = u <=> famLock[f] = u
  OBVIOUS
<1>7. \A d \in DOMAIN writes'[t] : d \in DOMAIN writes[t] \/ RowBlockers(t, d) = {}
  BY <1>1
<1>8. ~(pc'[t] \in {"put", "answered"})
  BY DEF Locked
<1>9. Holds(t)
  BY <1>1, <1>5, <1>6, <1>7, <1>8 DEF Holds
<1> QED BY <1>3, <1>4, <1>9, TxnStep

\* The UPDATE that sets deleted_at: Retired.
LEMMA RetireInv ==
    ASSUME IInv, NEW t \in Txns, Retire(t)
    PROVE  IInv'
<1> DEFINE c == op[t].id
           row == [View(t)[c] EXCEPT !.status = "retired"]
<1>1. /\ pc[t] = "retire" /\ c \in ActiveIn(View(t), op[t].fam)
      /\ RowBlockers(t, c) = {} /\ Write(t, c, row)
      /\ pc' = [pc EXCEPT ![t] = "renumber"]
      /\ UNCHANGED <<rows, homes, answers, famLock, op, ids, nxt>>
  BY DEF Retire, ActiveFor
<1>2. op[t] \in DeleteOp /\ DOMAIN writes[t] = {} /\ nxt[t] = 1
  <2>1. Sound(rows, "retire", op[t], ids[t], nxt[t], writes[t])
    BY <1>1, AboutTxn
  <2> QED BY <2>1 DEF Sound
<1>3. View(t) = rows /\ rows \in [Criteria -> Row] /\ c \in Criteria
  BY <1>2, AboutTxn, SeesCommitted DEF DeleteOp
<1>4. /\ row \in Row /\ row.fam = rows[c].fam /\ row.status = "retired"
      /\ row = [rows[c] EXCEPT !.status = "retired"]
  BY <1>3 DEF Row
<1>5. c \in ActiveIn(rows, op[t].fam) /\ rows[c].fam = op[t].fam
  BY <1>1, <1>3 DEF ActiveIn
<1> HIDE DEF row
<1>6. DOMAIN writes'[t] = {c} /\ writes'[t][c] = row
  BY <1>1, <1>2, <1>3, <1>4, WriteAdds
<1>7. /\ pc'[t] = "renumber" /\ pc' = [pc EXCEPT ![t] = pc'[t]]
      /\ ids'[t] = ids[t] /\ ids' = [ids EXCEPT ![t] = ids'[t]] /\ ids'[t] \in Seq(Criteria)
      /\ nxt'[t] = nxt[t] /\ nxt' = [nxt EXCEPT ![t] = nxt'[t]] /\ nxt'[t] \in Nat \ {0}
  BY <1>1 DEF IInv, TypeOK
<1>8. Retired(rows, op[t], writes'[t])
  BY <1>4, <1>5, <1>6 DEF Retired
<1>9. Sound(rows, pc'[t], op[t], ids'[t], nxt'[t], writes'[t])
  BY <1>2, <1>4, <1>5, <1>6, <1>7, <1>8 DEF Sound
<1>10. pc[t] \in Locked /\ pc'[t] \in Locked
  BY <1>1, <1>7 DEF Locked
<1> QED BY <1>1, <1>3, <1>4, <1>7, <1>9, <1>10, WriteStep

\* A row the transaction may insert is locked by nobody.
LEMMA UnusedUnlocked ==
    ASSUME IInv, NEW t \in Txns, NEW c \in Unused
    PROVE  RowBlockers(t, c) = {}
<1>1. rows[c].status = "none" /\ \A u \in Txns : c \notin DOMAIN writes[u]
  BY DEF Unused
<1>2. \A u \in Txns : Sharing(u) => op[u].id # c
  BY <1>1 DEF IInv, SharesHold, ActiveIn
<1> QED BY <1>1, <1>2 DEF RowBlockers

\* INSERT of a new criterion: the list gains it at the position asked for.
LEMMA InsertRowInv ==
    ASSUME IInv, NEW t \in Txns, pc[t] = "row", op[t].id = NewID, NEW c \in Unused,
           Write(t, c, [fam |-> op[t].fam, order |-> op[t].pos, status |-> "active"]),
           ids' = [ids EXCEPT ![t] = InsertAt(ids[t], op[t].pos + 1, c)],
           pc' = [pc EXCEPT ![t] = "write"],
           UNCHANGED <<rows, homes, answers, famLock, op, nxt>>
    PROVE  IInv'
<1> DEFINE row == [fam |-> op[t].fam, order |-> op[t].pos, status |-> "active"]
           f == op[t].fam
           A == ActiveIn(rows, f)
<1>1. op[t] \in SaveOp /\ Picked(rows, op[t], ids[t]) /\ DOMAIN writes[t] = {} /\ nxt[t] = 1
  <2>1. Sound(rows, "row", op[t], ids[t], nxt[t], writes[t])
    BY AboutTxn
  <2> QED BY <2>1 DEF Sound
<1>2. op[t].pos \in Nat /\ op[t].fam \in Families /\ op[t].kind = "save"
  BY <1>1, ChecklistAssumption DEF SaveOp
<1>3. c \in Criteria /\ rows[c].status = "none" /\ c # NewID
  BY ChecklistAssumption DEF Unused, NewID
<1>4. PICK l \in ListsOf(rows, f) : op[t].pos <= Len(l) /\ ids[t] = l
  <2>1. PICK l \in ListsOf(rows, f) :
          \/ op[t].id = NewID /\ op[t].pos <= Len(l) /\ ids[t] = l
          \/ \E k \in 1 .. Len(l) :
               l[k] = op[t].id /\ op[t].pos <= Len(l) - 1 /\ ids[t] = RemoveAt(l, k)
    BY <1>1 DEF Picked
  <2>2. \A k \in 1 .. Len(l) : l[k] # NewID
    <3>1. \A k \in 1 .. Len(l) : l[k] \in ActiveIn(rows, f)
      BY <2>1, ListElements
    <3> QED BY <3>1, ChecklistAssumption DEF ActiveIn, NewID
  <2> QED BY <2>1, <2>2
<1>5. /\ l \in SetToSeqs(A) /\ IsFiniteSet(A) /\ Len(l) \in Nat
      /\ l \in Seq(Criteria)
  BY <1>4, ListElements, ActiveFinite
<1>6. row \in Row /\ row.status = "active" /\ row.fam = f
  BY <1>2 DEF Row
<1> HIDE DEF row
<1>7. Write(t, c, row)
  BY DEF row
<1>8. /\ DOMAIN writes'[t] = {c} /\ writes'[t][c] = row
      /\ Overlay(rows, writes'[t])[c] = row
      /\ \A d \in Criteria \ {c} : Overlay(rows, writes'[t])[d] = rows[d]
  <2>1. View(t) = rows
    BY <1>1, AboutTxn, SeesCommitted
  <2> QED BY <2>1, <1>1, <1>3, <1>6, <1>7, WriteAdds
<1>9. ActiveIn(Overlay(rows, writes'[t]), f) = A \cup {c} /\ c \notin A
  BY <1>3, <1>6, <1>8 DEF ActiveIn
<1>10. op[t].pos + 1 \in 1 .. Len(l) + 1
  BY <1>2, <1>4, <1>5
<1>11. InsertAt(l, op[t].pos + 1, c) \in SetToSeqs(A \cup {c})
  BY <1>5, <1>9, <1>10, InsertEnumeration
<1>12. InsertAt(l, op[t].pos + 1, c) \in Seq(Criteria)
  BY <1>3, <1>5, <1>10, InsertAtProperties
<1>13. /\ pc'[t] = "write" /\ pc' = [pc EXCEPT ![t] = pc'[t]]
       /\ ids'[t] = InsertAt(l, op[t].pos + 1, c) /\ ids' = [ids EXCEPT ![t] = ids'[t]]
       /\ nxt'[t] = 1 /\ nxt' = [nxt EXCEPT ![t] = nxt'[t]] /\ nxt'[t] \in Nat \ {0}
  BY <1>1, <1>4 DEF IInv, TypeOK
<1>14. Planned(rows, op[t], ids'[t], writes'[t])
  BY <1>2, <1>3, <1>4, <1>8, <1>13 DEF Planned
<1>15. Numbered(rows, op[t], ids'[t], 1, writes'[t])
  <2>1. Len(ids'[t]) \in Nat
    BY <1>12, <1>13
  <2> QED BY <2>1, <1>9, <1>11, <1>13 DEF Numbered
<1>16. Sound(rows, pc'[t], op[t], ids'[t], nxt'[t], writes'[t])
  BY <1>1, <1>3, <1>6, <1>8, <1>13, <1>14, <1>15 DEF Sound
<1>17. pc[t] \in Locked /\ pc'[t] \in Locked
  BY <1>13 DEF Locked
<1>18. RowBlockers(t, c) = {}
  BY UnusedUnlocked
<1> QED BY <1>3, <1>6, <1>7, <1>12, <1>13, <1>16, <1>17, <1>18, WriteStep

\* UPDATE of a criterion: the list has it at the position asked for.
LEMMA UpdateRowInv ==
    ASSUME IInv, NEW t \in Txns, pc[t] = "row", NEW c \in Criteria, op[t].id = c,
           RowBlockers(t, c) = {}, Write(t, c, View(t)[c]),
           ids' = [ids EXCEPT ![t] = InsertAt(ids[t], op[t].pos + 1, c)],
           pc' = [pc EXCEPT ![t] = "write"],
           UNCHANGED <<rows, homes, answers, famLock, op, nxt>>
    PROVE  IInv'
<1> DEFINE f == op[t].fam
           A == ActiveIn(rows, f)
<1>1. op[t] \in SaveOp /\ Picked(rows, op[t], ids[t]) /\ DOMAIN writes[t] = {} /\ nxt[t] = 1
  <2>1. Sound(rows, "row", op[t], ids[t], nxt[t], writes[t])
    BY AboutTxn
  <2> QED BY <2>1 DEF Sound
<1>2. op[t].pos \in Nat /\ op[t].fam \in Families /\ op[t].kind = "save" /\ c # NewID
  BY <1>1, ChecklistAssumption DEF SaveOp, NewID
<1>l. PICK l \in ListsOf(rows, f) : \E k \in 1 .. Len(l) :
        l[k] = c /\ op[t].pos <= Len(l) - 1 /\ ids[t] = RemoveAt(l, k)
  BY <1>1, <1>2 DEF Picked
<1>3. PICK k \in 1 .. Len(l) :
        l[k] = c /\ op[t].pos <= Len(l) - 1 /\ ids[t] = RemoveAt(l, k)
  BY <1>l
<1>4. /\ l \in SetToSeqs(A) /\ IsFiniteSet(A) /\ Len(l) \in Nat
      /\ l \in Seq(Criteria) /\ c \in A
  BY <1>3, ListElements, ActiveFinite
<1>5. View(t) = rows /\ rows \in [Criteria -> Row]
  BY <1>1, AboutTxn, SeesCommitted
<1>6. rows[c] \in Row /\ rows[c].fam = f /\ rows[c].status = "active"
  BY <1>4, <1>5 DEF ActiveIn
<1>7. Write(t, c, rows[c])
  BY <1>5
<1>8. /\ DOMAIN writes'[t] = {c} /\ writes'[t][c] = rows[c]
      /\ \A d \in Criteria : Overlay(rows, writes'[t])[d] = rows[d]
  BY <1>1, <1>5, <1>6, <1>7, WriteAdds
<1>9. ActiveIn(Overlay(rows, writes'[t]), f) = A
  BY <1>8 DEF ActiveIn
<1>10. RemoveAt(l, k) \in SetToSeqs(A \ {c}) /\ IsFiniteSet(A \ {c})
  BY <1>3, <1>4, RemoveEnumeration, FS_RemoveElement
<1>11. RemoveAt(l, k) \in Seq(Criteria) /\ Len(RemoveAt(l, k)) = Len(l) - 1
  BY <1>4, RemoveAtProperties
<1>12. op[t].pos + 1 \in 1 .. Len(RemoveAt(l, k)) + 1 /\ op[t].pos < Len(l)
  BY <1>2, <1>3, <1>4, <1>11
<1>13. InsertAt(RemoveAt(l, k), op[t].pos + 1, c) \in SetToSeqs(A)
  <2>1. InsertAt(RemoveAt(l, k), op[t].pos + 1, c) \in SetToSeqs((A \ {c}) \cup {c})
    BY <1>10, <1>12, InsertEnumeration
  <2>2. (A \ {c}) \cup {c} = A
    BY <1>4
  <2> QED BY <2>1, <2>2
<1>14. InsertAt(RemoveAt(l, k), op[t].pos + 1, c) \in Seq(Criteria)
  BY <1>11, <1>12, InsertAtProperties
<1>15. /\ pc'[t] = "write" /\ pc' = [pc EXCEPT ![t] = pc'[t]]
       /\ ids'[t] = InsertAt(RemoveAt(l, k), op[t].pos + 1, c)
       /\ ids' = [ids EXCEPT ![t] = ids'[t]]
       /\ nxt'[t] = 1 /\ nxt' = [nxt EXCEPT ![t] = nxt'[t]] /\ nxt'[t] \in Nat \ {0}
  BY <1>1, <1>3 DEF IInv, TypeOK
<1>16. Planned(rows, op[t], ids'[t], writes'[t])
  <2>1. \A d \in DOMAIN writes'[t] : rows[d].status # "none"
    BY <1>6, <1>8
  <2>2. \E j \in 1 .. Len(l) :
          l[j] = op[t].id /\ ids'[t] = InsertAt(RemoveAt(l, j), op[t].pos + 1, op[t].id)
    BY <1>3, <1>15
  <2> QED BY <2>1, <2>2, <1>2, <1>12 DEF Planned
<1>17. Numbered(rows, op[t], ids'[t], 1, writes'[t])
  <2>1. Len(ids'[t]) \in Nat
    BY <1>14, <1>15
  <2> QED BY <2>1, <1>9, <1>13, <1>15 DEF Numbered
<1>18. Sound(rows, pc'[t], op[t], ids'[t], nxt'[t], writes'[t])
  BY <1>1, <1>6, <1>8, <1>15, <1>16, <1>17 DEF Sound
<1>19. pc[t] \in Locked /\ pc'[t] \in Locked
  BY <1>15 DEF Locked
<1>20. ids'[t] \in Seq(Criteria)
  BY <1>14, <1>15
<1>21. /\ pc' = [pc EXCEPT ![t] = pc'[t]] /\ ids' = [ids EXCEPT ![t] = ids'[t]]
       /\ nxt' = [nxt EXCEPT ![t] = nxt'[t]] /\ nxt'[t] \in Nat \ {0}
  BY <1>15
<1>22. rows[c] \in Row
  BY <1>6
<1> QED BY <1>7, <1>18, <1>19, <1>20, <1>21, <1>22, WriteStep

\* Both branches of SaveHousingCriterion lead to writeChecklistOrder.
LEMMA SaveRowInv ==
    ASSUME IInv, NEW t \in Txns, SaveRow(t)
    PROVE  IInv'
<1>1. /\ pc[t] = "row"
      /\ pc' = [pc EXCEPT ![t] = "write"]
      /\ UNCHANGED <<rows, homes, answers, famLock, op, nxt>>
  BY DEF SaveRow
<1>2. PICK c \in Criteria :
        /\ \/ /\ op[t].id = NewID
              /\ c \in Unused
              /\ Write(t, c, [fam |-> op[t].fam, order |-> op[t].pos, status |-> "active"])
           \/ /\ op[t].id = c
              /\ RowBlockers(t, c) = {}
              /\ Write(t, c, View(t)[c])
        /\ ids' = [ids EXCEPT ![t] = InsertAt(ids[t], op[t].pos + 1, c)]
  BY DEF SaveRow
<1>3. CASE op[t].id = NewID /\ c \in Unused
           /\ Write(t, c, [fam |-> op[t].fam, order |-> op[t].pos, status |-> "active"])
  BY <1>1, <1>2, <1>3, InsertRowInv
<1>4. CASE op[t].id = c /\ RowBlockers(t, c) = {} /\ Write(t, c, View(t)[c])
  BY <1>1, <1>2, <1>4, UpdateRowInv
<1> QED BY <1>2, <1>3, <1>4

\* One UPDATE of writeChecklistOrder numbers one more criterion of the list
\* and disturbs none numbered before.
LEMMA WriteOrderInv ==
    ASSUME IInv, NEW t \in Txns, WriteOrder(t)
    PROVE  IInv'
<1> DEFINE s == ids[t]
           n == nxt[t]
           c == s[n]
           f == op[t].fam
           row == [View(t)[c] EXCEPT !.order = n - 1]
           V == View(t)
           W == Overlay(rows, writes'[t])
<1>1. /\ pc[t] = "write" /\ n <= Len(s)
      /\ RowBlockers(t, c) = {} /\ Write(t, c, row)
      /\ nxt' = [nxt EXCEPT ![t] = n + 1]
      /\ UNCHANGED <<rows, homes, answers, famLock, pc, op, ids>>
  BY DEF WriteOrder
<1>2. /\ Planned(rows, op[t], s, writes[t]) /\ Numbered(rows, op[t], s, n, writes[t])
      /\ op[t] \in SaveOp \cup DeleteOp \cup ReorderOp
      /\ \A d \in DOMAIN writes[t] :
           /\ writes[t][d].fam = op[t].fam /\ writes[t][d].status # "none"
           /\ rows[d].status = "none" \/ rows[d].fam = op[t].fam
  <2>1. Sound(rows, "write", op[t], ids[t], nxt[t], writes[t])
    BY <1>1, AboutTxn
  <2> QED BY <2>1 DEF Sound
<1>3. /\ s \in Seq(Criteria) /\ n \in Nat \ {0}
      /\ V \in [Criteria -> Row] /\ V = Overlay(rows, writes[t])
      /\ rows \in [Criteria -> Row] /\ DOMAIN writes[t] \subseteq Criteria
  BY AboutTxn
<1>4. /\ s \in SetToSeqs(ActiveIn(V, f))
      /\ \A i \in 1 .. n - 1 : V[s[i]].order = i - 1
  BY <1>2, <1>3 DEF Numbered
<1>5. s \in Seq(ActiveIn(V, f)) /\ \A i, j \in 1 .. Len(s) : s[i] = s[j] => i = j
  BY <1>4, ActiveFinite, Enumeration
<1>6. Len(s) \in Nat /\ n \in 1 .. Len(s)
  BY <1>1, <1>3
<1>7. \A i \in 1 .. Len(s) : s[i] \in ActiveIn(V, f)
  BY <1>5
<1>8. c \in Criteria /\ V[c].fam = f /\ V[c].status = "active"
  BY <1>6, <1>7 DEF ActiveIn
<1>9. row \in Row /\ row.fam = f /\ row.status = "active" /\ row.order = n - 1
  <2>1. V[c] \in Row /\ n - 1 \in Nat
    BY <1>3, <1>6, <1>8
  <2> QED BY <2>1, <1>8 DEF Row
<1>10. c \in DOMAIN writes[t] \/ (rows[c].fam = f /\ rows[c].status = "active")
  BY <1>3, <1>8 DEF Overlay
<1> HIDE DEF row, c, V, W
<1>11. /\ DOMAIN writes'[t] = DOMAIN writes[t] \cup {c} /\ writes'[t][c] = row
       /\ \A d \in DOMAIN writes[t] \ {c} : writes'[t][d] = writes[t][d]
       /\ W[c] = row /\ \A d \in Criteria \ {c} : W[d] = V[d]
  BY <1>1, <1>8, <1>9, WriteAdds DEF W, V
<1>12. ActiveIn(W, f) = ActiveIn(V, f)
  BY <1>8, <1>9, <1>11 DEF ActiveIn
<1>13. ASSUME NEW i \in 1 .. n PROVE W[s[i]].order = i - 1
  <2>1. CASE i = n
    BY <2>1, <1>9, <1>11 DEF c
  <2>2. CASE i # n
    <3>1. i \in 1 .. Len(s) /\ i \in 1 .. n - 1
      BY <2>2, <1>6
    <3>2. s[i] # c /\ s[i] \in Criteria
      BY <2>2, <3>1, <1>5, <1>6, <1>7 DEF c, ActiveIn
    <3> QED BY <3>1, <3>2, <1>4, <1>11
  <2> QED BY <2>1, <2>2
<1>14. Numbered(rows, op[t], s, n + 1, writes'[t])
  <2>1. n + 1 <= Len(s) + 1 /\ (n + 1) - 1 = n
    BY <1>6
  <2> QED BY <2>1, <1>4, <1>12, <1>13 DEF Numbered, W
<1>15. Planned(rows, op[t], s, writes'[t])
  <2>1. \A d \in DOMAIN writes'[t] \ DOMAIN writes[t] : rows[d].status # "none"
    BY <1>10, <1>11
  <2>2. DOMAIN writes[t] \subseteq DOMAIN writes'[t]
    BY <1>11
  <2> QED BY <2>1, <2>2, <1>2 DEF Planned
<1>16. \A d \in DOMAIN writes'[t] :
         /\ writes'[t][d].fam = f /\ writes'[t][d].status # "none"
         /\ rows[d].status = "none" \/ rows[d].fam = f
  BY <1>2, <1>9, <1>10, <1>11
<1>17. /\ pc'[t] = "write" /\ pc' = [pc EXCEPT ![t] = pc'[t]]
       /\ ids'[t] = s /\ ids' = [ids EXCEPT ![t] = ids'[t]] /\ ids'[t] \in Seq(Criteria)
       /\ nxt'[t] = n + 1 /\ nxt' = [nxt EXCEPT ![t] = nxt'[t]] /\ nxt'[t] \in Nat \ {0}
  BY <1>1 DEF IInv, TypeOK
<1>18. Sound(rows, pc'[t], op[t], ids'[t], nxt'[t], writes'[t])
  BY <1>2, <1>14, <1>15, <1>16, <1>17 DEF Sound
<1>19. pc[t] \in Locked /\ pc'[t] \in Locked
  BY <1>1, <1>17 DEF Locked
<1>20. UNCHANGED <<rows, homes, answers, famLock, op>>
  BY <1>1
<1> QED BY <1>1, <1>8, <1>9, <1>17, <1>18, <1>19, <1>20, WriteStep

\* What a commit of a template transaction does to the criteria.
LEMMA CommitEffect ==
    ASSUME IInv, NEW t \in Txns, Commit(t)
    PROVE  /\ rows' \in [Criteria -> Row]
           /\ op[t].fam \in Families
           /\ Planned(rows, op[t], ids[t], writes[t])
           /\ ids[t] \in ListsOf(rows', op[t].fam)
           /\ DifferIn(rows, rows', op[t].fam)
           /\ \A c \in Criteria \ DOMAIN writes[t] : rows'[c] = rows[c]
           /\ \A c \in DOMAIN writes[t] : rows'[c].status # "none"
<1> DEFINE f == op[t].fam
<1>1. pc[t] = "write" /\ nxt[t] > Len(ids[t]) /\ rows' = View(t)
  BY DEF Commit
<1>2. /\ Planned(rows, op[t], ids[t], writes[t])
      /\ Numbered(rows, op[t], ids[t], nxt[t], writes[t])
      /\ op[t] \in SaveOp \cup DeleteOp \cup ReorderOp
      /\ \A d \in DOMAIN writes[t] :
           /\ writes[t][d].fam = op[t].fam /\ writes[t][d].status # "none"
           /\ rows[d].status = "none" \/ rows[d].fam = op[t].fam
  <2>1. Sound(rows, "write", op[t], ids[t], nxt[t], writes[t])
    BY <1>1, AboutTxn
  <2> QED BY <2>1 DEF Sound
<1>3. /\ ids[t] \in Seq(Criteria) /\ nxt[t] \in Nat \ {0}
      /\ rows' \in [Criteria -> Row] /\ rows' = Overlay(rows, writes[t])
      /\ DOMAIN writes[t] \subseteq Criteria
  BY <1>1, AboutTxn
<1>4. f \in Families
  BY <1>2 DEF SaveOp, DeleteOp, ReorderOp
<1>5. \A c \in Criteria \ DOMAIN writes[t] : rows'[c] = rows[c]
  BY <1>3 DEF Overlay
<1>6. \A c \in DOMAIN writes[t] : rows'[c] = writes[t][c]
  BY <1>3 DEF Overlay
<1>7. DifferIn(rows, rows', f)
  BY <1>2, <1>5, <1>6 DEF DifferIn
<1>8. ids[t] \in ListsOf(rows', f)
  <2>1. /\ ids[t] \in SetToSeqs(ActiveIn(rows', f)) /\ nxt[t] <= Len(ids[t]) + 1
        /\ \A i \in 1 .. nxt[t] - 1 : rows'[ids[t][i]].order = i - 1
    BY <1>2, <1>3 DEF Numbered
  <2>2. nxt[t] - 1 = Len(ids[t]) /\ DOMAIN ids[t] = 1 .. Len(ids[t])
    BY <2>1, <1>1, <1>3
  <2> QED BY <2>1, <2>2 DEF ListsOf
<1> QED BY <1>2, <1>3, <1>4, <1>5, <1>6, <1>7, <1>8

\* A commit renumbers its own family, and no other transaction notices.
LEMMA CommitInv ==
    ASSUME IInv, NEW t \in Txns, Commit(t)
    PROVE  IInv'
<1> DEFINE f == op[t].fam
<1>1. /\ pc[t] = "write" /\ End(t) /\ UNCHANGED <<homes, answers>>
  BY DEF Commit
<1>2. /\ rows' \in [Criteria -> Row] /\ f \in Families
      /\ ids[t] \in ListsOf(rows', f)
      /\ DifferIn(rows, rows', f)
      /\ \A c \in Criteria \ DOMAIN writes[t] : rows'[c] = rows[c]
  BY CommitEffect
<1>3. /\ writes' = [writes EXCEPT ![t] = NoWrites]
      /\ pc' = [pc EXCEPT ![t] = "idle"]
      /\ op' = [op EXCEPT ![t] = NoOp]
      /\ ids' = [ids EXCEPT ![t] = <<>>]
      /\ nxt' = [nxt EXCEPT ![t] = 1]
  BY <1>1 DEF End
<1>4. /\ pc'[t] = "idle" /\ op'[t] = NoOp /\ ids'[t] = <<>>
      /\ nxt'[t] = 1 /\ writes'[t] = NoWrites
      /\ \A u \in Txns \ {t} :
           /\ pc'[u] = pc[u] /\ op'[u] = op[u] /\ ids'[u] = ids[u]
           /\ nxt'[u] = nxt[u] /\ writes'[u] = writes[u]
  BY <1>3 DEF IInv, TypeOK
<1>5. /\ famLock' \in [Families -> Txns \cup {None}]
      /\ \A g \in Families : famLock'[g] # t
      /\ \A g \in Families, u \in Txns \ {t} : famLock'[g] = u <=> famLock[g] = u
  BY <1>1, EndLocks
<1>6. /\ Sound(rows', "idle", NoOp, <<>>, 1, NoWrites)
      /\ <<>> \in Seq(Criteria)
      /\ DOMAIN NoWrites = {}
      /\ \E S \in SUBSET Criteria : NoWrites \in [S -> Row]
  BY IdleSound
<1>7. TypeOK'
  <2>1. pc' \in [Txns -> {"idle", "lock", "share", "put", "answered"} \cup Locked]
    BY <1>3 DEF IInv, TypeOK
  <2>2. op' \in [Txns -> {NoOp} \cup SaveOp \cup DeleteOp \cup ReorderOp \cup AnswerOp]
    BY <1>3 DEF IInv, TypeOK
  <2>3. ids' \in [Txns -> Seq(Criteria)] /\ nxt' \in [Txns -> Nat \ {0}]
    BY <1>3, <1>6 DEF IInv, TypeOK
  <2>4. writes' = [u \in Txns |-> writes'[u]]
    BY <1>3 DEF IInv, TypeOK
  <2>5. \A u \in Txns : \E S \in SUBSET Criteria : writes'[u] \in [S -> Row]
    BY <1>4, <1>6 DEF IInv, TypeOK
  <2> QED BY <2>1, <2>2, <2>3, <2>4, <2>5, <1>1, <1>2, <1>5 DEF IInv, TypeOK
<1>8. \A u \in Txns \ {t} : \A c \in DOMAIN writes[u] : rows'[c] = rows[c]
  BY <1>2, AboutTxn DEF IInv, OneWriter
<1>9. \A u \in Txns \ {t} : pc[u] \in Locked => op[u].fam # f
  BY <1>1, <1>2 DEF IInv, LockHeld, Locked
<1>10. AllSound'
  <2>1. ASSUME NEW u \in Txns, u # t
        PROVE  Sound(rows', pc[u], op[u], ids[u], nxt[u], writes[u])
    <3>1. /\ Sound(rows, pc[u], op[u], ids[u], nxt[u], writes[u])
          /\ nxt[u] \in Nat \ {0}
      BY AboutTxn
    <3>2. pc[u] \in Locked => op[u].fam # f
      BY <1>9, <2>1
    <3>3. \A c \in DOMAIN writes[u] : rows'[c] = rows[c]
      BY <1>8, <2>1
    <3> QED BY <3>1, <3>2, <3>3, <1>2, SoundStable
  <2> QED BY <2>1, <1>4, <1>6 DEF AllSound
<1>11. LockHeld'
  <2>1. "idle" \notin Locked
    BY DEF Locked
  <2> QED BY <2>1, <1>4, <1>5 DEF IInv, LockHeld
<1>12. OneWriter'
  BY <1>4, <1>6 DEF IInv, OneWriter
<1>13. SharesHold'
  <2> SUFFICES ASSUME NEW u \in Txns, Sharing(u)'
               PROVE  /\ op'[u].home \in homes'
                      /\ op'[u].id \in ActiveIn(rows', HomeFamily[op'[u].home])
                      /\ \A v \in Txns : op'[u].id \notin DOMAIN writes'[v]
    BY DEF SharesHold
  <2>1. u # t
    BY <1>4 DEF Sharing
  <2>2. Sharing(u)
    BY <2>1, <1>4 DEF Sharing
  <2>3. /\ op[u].home \in homes
        /\ op[u].id \in ActiveIn(rows, HomeFamily[op[u].home])
        /\ \A v \in Txns : op[u].id \notin DOMAIN writes[v]
    BY <2>2 DEF IInv, SharesHold
  <2>4. rows'[op[u].id] = rows[op[u].id]
    BY <2>3, <1>2 DEF ActiveIn
  <2>5. op[u].id \in ActiveIn(rows', HomeFamily[op[u].home])
    BY <2>3, <2>4 DEF ActiveIn
  <2> QED BY <2>1, <2>3, <2>5, <1>1, <1>4, <1>6
<1>14. ContiguousPositions'
  <2>1. ASSUME NEW g \in Families PROVE Contiguous(rows', g)
    <3>1. CASE g = f
      BY <3>1, <1>2, ContiguousLists
    <3>2. CASE g # f
      <4>1. ListsOf(rows', g) = ListsOf(rows, g)
        BY <3>2, <1>2, OtherFamily
      <4> QED BY <4>1, HasList, ContiguousLists
    <3> QED BY <3>1, <3>2
  <2> QED BY <2>1 DEF ContiguousPositions
<1> QED BY <1>7, <1>10, <1>11, <1>12, <1>13, <1>14 DEF IInv

\* The join of SaveHousingAnswer returned a row: it is locked from now on.
LEMMA ShareLockInv ==
    ASSUME IInv, NEW t \in Txns, ShareLock(t)
    PROVE  IInv'
<1>1. /\ pc[t] = "share" /\ Answerable(t)
      /\ \A u \in Txns : op[t].id \notin DOMAIN writes[u]
      /\ pc' = [pc EXCEPT ![t] = "put"]
      /\ UNCHANGED <<rows, homes, answers, famLock, op, ids, nxt, writes>>
  BY DEF ShareLock
<1>2. Sound(rows, "share", op[t], ids[t], nxt[t], writes[t])
  BY <1>1, AboutTxn
<1>3. /\ pc'[t] = "put" /\ op'[t] = op[t] /\ op' = [op EXCEPT ![t] = op'[t]]
      /\ ids'[t] = ids[t] /\ ids' = [ids EXCEPT ![t] = ids'[t]]
      /\ ids'[t] \in Seq(Criteria) /\ pc' = [pc EXCEPT ![t] = pc'[t]]
  BY <1>1 DEF IInv, TypeOK
<1>4. Sound(rows, "put", op[t], ids[t], nxt[t], writes[t])
  BY <1>2 DEF Sound
<1>5. \A f \in Families : famLock[f] = t <=> pc'[t] \in Locked /\ op'[t].fam = f
  BY <1>1, <1>3 DEF IInv, LockHeld, Locked
<1>6. /\ op[t].home \in homes
      /\ op[t].id \in ActiveIn(rows, HomeFamily[op[t].home])
  BY <1>1 DEF Answerable
<1>7. Sound(rows, pc'[t], op'[t], ids'[t], nxt[t], writes[t])
  BY <1>3, <1>4
<1>8. UNCHANGED <<rows, homes, answers, famLock, nxt, writes>>
  BY <1>1
<1> QED BY <1>1, <1>3, <1>5, <1>6, <1>7, <1>8, QuietStep

\* An uncommitted answer keeps the share locks.
LEMMA PutAnswerInv ==
    ASSUME IInv, NEW t \in Txns, PutAnswer(t)
    PROVE  IInv'
<1>1. /\ pc[t] = "put"
      /\ pc' = [pc EXCEPT ![t] = "answered"]
      /\ UNCHANGED <<rows, homes, answers, famLock, op, ids, nxt, writes>>
  BY DEF PutAnswer
<1>2. Sound(rows, "put", op[t], ids[t], nxt[t], writes[t])
  BY <1>1, AboutTxn
<1>3. /\ pc'[t] = "answered" /\ op'[t] = op[t] /\ op' = [op EXCEPT ![t] = op'[t]]
      /\ ids'[t] = ids[t] /\ ids' = [ids EXCEPT ![t] = ids'[t]]
      /\ ids'[t] \in Seq(Criteria) /\ pc' = [pc EXCEPT ![t] = pc'[t]]
  BY <1>1 DEF IInv, TypeOK
<1>4. Sound(rows, "answered", op[t], ids[t], nxt[t], writes[t])
  BY <1>2 DEF Sound
<1>5. \A f \in Families : famLock[f] = t <=> pc'[t] \in Locked /\ op'[t].fam = f
  BY <1>1, <1>3 DEF IInv, LockHeld, Locked
<1>6. op[t] \in AnswerOp
  BY <1>2 DEF Sound
<1>7. Sharing(t)
  BY <1>1, <1>6 DEF Sharing, AnswerOp
<1>8. /\ op[t].home \in homes
      /\ op[t].id \in ActiveIn(rows, HomeFamily[op[t].home])
      /\ \A u \in Txns : op[t].id \notin DOMAIN writes[u]
  BY <1>7 DEF IInv, SharesHold
<1>9. Sound(rows, pc'[t], op'[t], ids'[t], nxt[t], writes[t])
  BY <1>3, <1>4
<1>10. UNCHANGED <<rows, homes, answers, famLock, nxt, writes>>
  BY <1>1
<1> QED BY <1>3, <1>5, <1>8, <1>9, <1>10, QuietStep

\* What the commit of an answer finds: the home and the criterion are still
\* those the share locks were granted on.
LEMMA CommitAnswerEffect ==
    ASSUME IInv, NEW t \in Txns, CommitAnswer(t)
    PROVE  /\ op[t] \in AnswerOp
           /\ op[t].home \in homes
           /\ op[t].id \in ActiveIn(rows, HomeFamily[op[t].home])
           /\ answers' = [answers EXCEPT ![<<op[t].home, op[t].id>>] = op[t].val]
           /\ UNCHANGED <<rows, homes>>
<1>1. /\ pc[t] = "answered" /\ UNCHANGED <<rows, homes>>
      /\ answers' = [answers EXCEPT ![<<op[t].home, op[t].id>>] = op[t].val]
  BY DEF CommitAnswer
<1>2. Sound(rows, "answered", op[t], ids[t], nxt[t], writes[t])
  BY <1>1, AboutTxn
<1>3. op[t] \in AnswerOp
  BY <1>2 DEF Sound
<1>4. Sharing(t)
  BY <1>1, <1>3 DEF Sharing, AnswerOp
<1> QED BY <1>1, <1>3, <1>4 DEF IInv, SharesHold

\* The commit of an answer changes the answers only.
LEMMA CommitAnswerInv ==
    ASSUME IInv, NEW t \in Txns, CommitAnswer(t)
    PROVE  IInv'
<1>1. /\ op[t] \in AnswerOp
      /\ answers' = [answers EXCEPT ![<<op[t].home, op[t].id>>] = op[t].val]
      /\ UNCHANGED <<rows, homes>>
  BY CommitAnswerEffect
<1>2. End(t)
  BY DEF CommitAnswer
<1>3. op[t].val \in Answers
  BY <1>1 DEF AnswerOp
<1>4. answers' \in [Homes \X Criteria -> Answers \cup {NoAnswer}]
  BY <1>1, <1>3 DEF IInv, TypeOK
<1> QED BY <1>1, <1>2, <1>4, EndInv

\* The rows of the answers of a deleted home are gone, and no transaction
\* holds a share lock on it.
LEMMA DeleteHomeInv ==
    ASSUME IInv, NEW h \in Homes, DeleteHome(h)
    PROVE  IInv'
<1>1. /\ \A t \in Txns : ~(Sharing(t) /\ op[t].home = h)
      /\ homes' = homes \ {h}
      /\ answers' = [hc \in Homes \X Criteria |->
                       IF hc[1] = h THEN NoAnswer ELSE answers[hc]]
      /\ UNCHANGED <<rows, famLock, pc, op, ids, nxt, writes>>
  BY DEF DeleteHome
<1>2. answers' \in [Homes \X Criteria -> Answers \cup {NoAnswer}]
  BY <1>1 DEF IInv, TypeOK
<1>3. TypeOK'
  BY <1>1, <1>2 DEF IInv, TypeOK
<1>4. AllSound' /\ LockHeld' /\ OneWriter'
  BY <1>1 DEF IInv, AllSound, LockHeld, OneWriter
<1>5. SharesHold'
  <2>1. \A t \in Txns : Sharing(t)' <=> Sharing(t)
    BY <1>1 DEF Sharing
  <2> QED BY <1>1, <2>1 DEF IInv, SharesHold
<1>6. ContiguousPositions'
  <2>1. \A f \in Families : Contiguous(rows, f)
    BY DEF IInv, ContiguousPositions
  <2>2. \A f \in Families : Contiguous(rows', f)
    BY <1>1, <2>1
  <2> QED BY <2>2 DEF ContiguousPositions
<1> QED BY <1>3, <1>4, <1>5, <1>6 DEF IInv

\* A refused or failed operation leaves the tables as they were.
LEMMA RefusalInv ==
    ASSUME IInv, NEW t \in Txns,
           \/ Rollback(t) \/ RefuseSave(t) \/ RefuseRetire(t)
           \/ RefuseReorder(t) \/ RefuseAnswer(t)
    PROVE  IInv' /\ UNCHANGED <<rows, homes, answers>>
<1>1. End(t) /\ UNCHANGED <<rows, homes, answers>>
  BY DEF Rollback, RefuseSave, RefuseRetire, RefuseReorder, RefuseAnswer
<1>2. answers' \in [Homes \X Criteria -> Answers \cup {NoAnswer}]
  BY <1>1 DEF IInv, TypeOK
<1> QED BY <1>1, <1>2, EndInv

-----------------------------------------------------------------------------
(* The invariant holds.                                                    *)

\* Nobody has a criterion at first: every family's list is empty.
LEMMA InitInv ==
    ASSUME Init
    PROVE  IInv
<1>1. /\ rows = [c \in Criteria |-> NoRow]
      /\ homes = Homes
      /\ answers = [hc \in Homes \X Criteria |-> NoAnswer]
      /\ famLock = [f \in Families |-> None]
      /\ pc = [t \in Txns |-> "idle"]
      /\ op = [t \in Txns |-> NoOp]
      /\ ids = [t \in Txns |-> <<>>]
      /\ nxt = [t \in Txns |-> 1]
      /\ writes = [t \in Txns |-> NoWrites]
  BY DEF Init
<1>2. /\ Sound(rows, "idle", NoOp, <<>>, 1, NoWrites)
      /\ <<>> \in Seq(Criteria)
      /\ DOMAIN NoWrites = {}
      /\ \E S \in SUBSET Criteria : NoWrites \in [S -> Row]
  BY IdleSound
<1>3. NoRow \in Row /\ NoRow.status = "none"
  BY DEF NoRow, Row
<1>4. TypeOK
  <2>1. rows \in [Criteria -> Row]
    BY <1>1, <1>3
  <2>2. homes \subseteq Homes /\ answers \in [Homes \X Criteria -> Answers \cup {NoAnswer}]
    BY <1>1
  <2>3. /\ famLock \in [Families -> Txns \cup {None}]
        /\ pc \in [Txns -> {"idle", "lock", "share", "put", "answered"} \cup Locked]
        /\ op \in [Txns -> {NoOp} \cup SaveOp \cup DeleteOp \cup ReorderOp \cup AnswerOp]
    BY <1>1
  <2>4. ids \in [Txns -> Seq(Criteria)] /\ nxt \in [Txns -> Nat \ {0}]
    BY <1>1, <1>2
  <2>5. /\ writes = [t \in Txns |-> writes[t]]
        /\ \A t \in Txns : \E S \in SUBSET Criteria : writes[t] \in [S -> Row]
    BY <1>1, <1>2
  <2> QED BY <2>1, <2>2, <2>3, <2>4, <2>5 DEF TypeOK
<1>5. AllSound
  BY <1>1, <1>2 DEF AllSound
<1>6. LockHeld
  BY <1>1, ChecklistAssumption DEF LockHeld, Locked
<1>7. OneWriter
  BY <1>1, <1>2 DEF OneWriter
<1>8. SharesHold
  BY <1>1 DEF SharesHold, Sharing
<1>9. ContiguousPositions
  <2>1. ASSUME NEW f \in Families PROVE <<>> \in ListsOf(rows, f)
    <3>1. ActiveIn(rows, f) = {}
      BY <1>1, <1>3 DEF ActiveIn
    <3>2. <<>> \in Seq({}) /\ Len(<<>>) = 0 /\ DOMAIN <<>> = {}
      OBVIOUS
    <3>3. IsFiniteSet({}) /\ 1 .. Len(<<>>) = {}
      BY <3>2, FS_EmptySet
    <3>4. \A i, j \in 1 .. Len(<<>>) : <<>>[i] = <<>>[j] => i = j
      BY <3>3
    <3>5. <<>> \in SetToSeqs({})
      BY <3>2, <3>3, <3>4, EnumerationIntro
    <3> QED BY <3>1, <3>2, <3>5 DEF ListsOf
  <2> QED BY <2>1, ContiguousLists DEF ContiguousPositions
<1> QED BY <1>4, <1>5, <1>6, <1>7, <1>8, <1>9 DEF IInv

\* No step breaks the invariant.
LEMMA NextInv ==
    ASSUME IInv, [Next]_vars
    PROVE  IInv'
<1>1. ASSUME NEW t \in Txns, Begin(t) PROVE IInv'
  BY <1>1, BeginInv
<1>2. ASSUME NEW t \in Txns, Step(t) PROVE IInv'
  <2>1. CASE LockFamily(t)
    BY <2>1, LockFamilyInv
  <2>2. CASE ReadForSave(t)
    BY <2>2, ReadForSaveInv
  <2>3. CASE SaveRow(t)
    BY <2>3, SaveRowInv
  <2>4. CASE Retire(t)
    BY <2>4, RetireInv
  <2>5. CASE ReadAfterRetire(t)
    BY <2>5, ReadAfterRetireInv
  <2>6. CASE ReadForReorder(t)
    BY <2>6, ReadForReorderInv
  <2>7. CASE WriteOrder(t)
    BY <2>7, WriteOrderInv
  <2>8. CASE Commit(t)
    BY <2>8, CommitInv
  <2>9. CASE ShareLock(t)
    BY <2>9, ShareLockInv
  <2>10. CASE PutAnswer(t)
    BY <2>10, PutAnswerInv
  <2>11. CASE CommitAnswer(t)
    BY <2>11, CommitAnswerInv
  <2>12. CASE RefuseSave(t) \/ RefuseRetire(t) \/ RefuseReorder(t) \/ RefuseAnswer(t)
    BY <2>12, RefusalInv
  <2> QED BY <1>2, <2>1, <2>2, <2>3, <2>4, <2>5, <2>6, <2>7, <2>8, <2>9, <2>10,
             <2>11, <2>12 DEF Step
<1>3. ASSUME NEW t \in Txns, Rollback(t) PROVE IInv'
  BY <1>3, RefusalInv
<1>4. ASSUME NEW h \in Homes, DeleteHome(h) PROVE IInv'
  BY <1>4, DeleteHomeInv
<1>5. CASE UNCHANGED vars
  <2>1. /\ UNCHANGED <<rows, homes, answers, famLock>>
        /\ UNCHANGED <<pc, op, ids, nxt, writes>>
    BY <1>5 DEF vars
  <2>2. TypeOK'
    BY <2>1 DEF IInv, TypeOK
  <2>3. AllSound' /\ LockHeld' /\ OneWriter'
    BY <2>1 DEF IInv, AllSound, LockHeld, OneWriter
  <2>4. SharesHold'
    BY <2>1 DEF IInv, SharesHold, Sharing
  <2>5. \A f \in Families : Contiguous(rows, f)
    BY DEF IInv, ContiguousPositions
  <2>6. \A f \in Families : Contiguous(rows', f)
    BY <2>1, <2>5
  <2>7. ContiguousPositions'
    BY <2>6 DEF ContiguousPositions
  <2> QED BY <2>2, <2>3, <2>4, <2>7 DEF IInv
<1> QED BY <1>1, <1>2, <1>3, <1>4, <1>5 DEF Next

\* Every reachable state of the checklist's transactions satisfies IInv.
THEOREM Inductive == Spec => []IInv
<1>1. Init => IInv
  BY InitInv
<1>2. IInv /\ [Next]_vars => IInv'
  BY NextInv
<1> QED BY <1>1, <1>2, PTL DEF Spec

\* housing_checklist.go:36-37, "positions stay contiguous even when two family
\* members add, move, or retire criteria concurrently": for any number of
\* families, criteria and transactions, whatever statements interleave and
\* whichever transactions fail.
THEOREM PositionsStayContiguous == Spec => []ContiguousPositions
<1>1. IInv => ContiguousPositions
  BY DEF IInv
<1> QED BY <1>1, Inductive, PTL

\* The variables keep their types: in particular the versions a transaction
\* holds are rows of the table, and a family lock names a transaction.
THEOREM TypeCorrect == Spec => []TypeOK
<1>1. IInv => TypeOK
  BY DEF IInv
<1> QED BY <1>1, Inductive, PTL

-----------------------------------------------------------------------------
(* Answers.                                                                *)

\* The statements that change neither the criteria, nor the homes, nor the
\* answers: all but the two commits and the deletion of a home.
LEMMA OnlyCommitsChange ==
    ASSUME IInv, [Next]_vars
    PROVE  \/ UNCHANGED <<rows, homes, answers>>
           \/ \E t \in Txns : Commit(t) \/ CommitAnswer(t)
           \/ \E h \in Homes : DeleteHome(h)
<1>1. ASSUME NEW t \in Txns, Begin(t) PROVE UNCHANGED <<rows, homes, answers>>
  BY <1>1 DEF Begin, BeginSave, BeginDelete, BeginReorder, BeginAnswer, BeginOp
<1>2. ASSUME NEW t \in Txns, Step(t), ~Commit(t), ~CommitAnswer(t)
      PROVE  UNCHANGED <<rows, homes, answers>>
  BY <1>2 DEF Step, LockFamily, ReadForSave, RefuseSave, SaveRow, Retire,
              RefuseRetire, ReadAfterRetire, ReadForReorder, RefuseReorder,
              WriteOrder, ShareLock, RefuseAnswer, PutAnswer
<1>3. ASSUME NEW t \in Txns, Rollback(t) PROVE UNCHANGED <<rows, homes, answers>>
  BY <1>3 DEF Rollback
<1>4. CASE UNCHANGED vars
  BY <1>4 DEF vars
<1> QED BY <1>1, <1>2, <1>3, <1>4 DEF Next

\* No step puts an answer on a criterion that is not active in the home's family.
LEMMA AnswersStep ==
    ASSUME IInv, [Next]_vars, NEW h \in Homes, NEW c \in Criteria,
           answers'[h, c] # answers[h, c], answers'[h, c] # NoAnswer
    PROVE  c \in ActiveIn(rows, HomeFamily[h])
<1>1. CASE UNCHANGED <<rows, homes, answers>>
  BY <1>1
<1>2. ASSUME NEW t \in Txns, Commit(t) PROVE FALSE
  BY <1>2 DEF Commit
<1>3. ASSUME NEW t \in Txns, CommitAnswer(t)
      PROVE  c \in ActiveIn(rows, HomeFamily[h])
  <2>1. /\ op[t].id \in ActiveIn(rows, HomeFamily[op[t].home])
        /\ answers' = [answers EXCEPT ![<<op[t].home, op[t].id>>] = op[t].val]
    BY <1>3, CommitAnswerEffect
  <2>2. answers \in [Homes \X Criteria -> Answers \cup {NoAnswer}]
    BY DEF IInv, TypeOK
  <2>3. <<h, c>> \in Homes \X Criteria
    OBVIOUS
  <2>4. <<h, c>> = <<op[t].home, op[t].id>>
    BY <2>1, <2>2, <2>3
  <2>5. h = op[t].home /\ c = op[t].id
    BY <2>4
  <2> QED BY <2>1, <2>5
<1>4. ASSUME NEW k \in Homes, DeleteHome(k) PROVE FALSE
  <2>1. answers' = [hc \in Homes \X Criteria |->
                      IF hc[1] = k THEN NoAnswer ELSE answers[hc]]
    BY <1>4 DEF DeleteHome
  <2>2. <<h, c>> \in Homes \X Criteria
    OBVIOUS
  <2> QED BY <2>1, <2>2
<1> QED BY <1>1, <1>2, <1>3, <1>4, OnlyCommitsChange

\* housing_checklist.go:222, "retirement cannot race it": no answer is ever
\* committed for a criterion that is retired or another family's.
THEOREM NoAnswerOnRetired == Spec => AnswersOnlyActive
<1> DEFINE A == \A h \in Homes, c \in Criteria :
                  (answers'[h, c] # answers[h, c] /\ answers'[h, c] # NoAnswer)
                    => c \in ActiveIn(rows, HomeFamily[h])
<1>1. IInv /\ [Next]_vars => [A]_vars
  BY AnswersStep
<1>2. Spec => [][A]_vars
  BY <1>1, Inductive, PTL DEF Spec
<1> QED BY <1>2 DEF AnswersOnlyActive

-----------------------------------------------------------------------------
(* Deadlock freedom.                                                       *)

\* A transaction with uncommitted versions works on its family.
LEMMA WritersWork ==
    ASSUME IInv, NEW t \in Txns, DOMAIN writes[t] # {}
    PROVE  pc[t] \in {"renumber", "write"} /\ pc[t] \in Locked
<1>1. Sound(rows, pc[t], op[t], ids[t], nxt[t], writes[t])
  BY AboutTxn
<1>2. pc[t] \in {"renumber", "write"}
  BY <1>1 DEF Sound
<1> QED BY <1>2 DEF Locked

\* In writeChecklistOrder a transaction meets only share locks: the rows of its
\* list are written by nobody else.
LEMMA WriterMeetsNoWriter ==
    ASSUME IInv, NEW t \in Txns, pc[t] = "write", nxt[t] <= Len(ids[t]),
           NEW u \in Txns \ {t}
    PROVE  ids[t][nxt[t]] \notin DOMAIN writes[u]
<1> DEFINE c == ids[t][nxt[t]]
           f == op[t].fam
<1>1. SUFFICES ASSUME c \in DOMAIN writes[u] PROVE FALSE
  OBVIOUS
<1>2. /\ Numbered(rows, op[t], ids[t], nxt[t], writes[t])
      /\ op[t] \in SaveOp \cup DeleteOp \cup ReorderOp
  <2>1. Sound(rows, "write", op[t], ids[t], nxt[t], writes[t])
    BY AboutTxn
  <2> QED BY <2>1 DEF Sound
<1>3. f \in Families
  BY <1>2 DEF SaveOp, DeleteOp, ReorderOp
<1>4. c \in ActiveIn(Overlay(rows, writes[t]), f)
  <2>1. ids[t] \in SetToSeqs(ActiveIn(Overlay(rows, writes[t]), f))
    BY <1>2 DEF Numbered
  <2>2. ids[t] \in Seq(ActiveIn(Overlay(rows, writes[t]), f))
    BY <2>1, ActiveFinite, Enumeration
  <2>3. nxt[t] \in 1 .. Len(ids[t])
    BY <2>2, AboutTxn
  <2> QED BY <2>2, <2>3
<1>5. c \notin DOMAIN writes[t]
  BY <1>1 DEF IInv, OneWriter
<1>6. rows[c].fam = f /\ rows[c].status = "active"
  BY <1>4, <1>5 DEF ActiveIn, Overlay
<1>7. op[u].fam = f
  <2>1. Sound(rows, pc[u], op[u], ids[u], nxt[u], writes[u])
    BY AboutTxn
  <2> QED BY <2>1, <1>1, <1>6 DEF Sound
<1>8. pc[u] \in Locked /\ pc[t] \in Locked
  BY <1>1, WritersWork DEF Locked
<1>9. famLock[f] = u /\ famLock[f] = t
  BY <1>3, <1>7, <1>8 DEF IInv, LockHeld
<1> QED BY <1>9

\* In any set of transactions one waits for none of the others.  The order in
\* which to look: statements that never wait; then the INSERT of an answer,
\* which waits for an answer about to commit; then the numbering of a list,
\* which waits for share locks; then the first UPDATE of a row; then the family
\* lock and the share lock, which wait for those working on a family.
LEMMA SomeoneRuns ==
    ASSUME IInv, NEW S \in SUBSET Txns, S # {}
    PROVE  \E t \in S : WaitsFor(t) \cap S = {}
<1>1. SUFFICES ASSUME \A t \in S : WaitsFor(t) \cap S # {}
               PROVE  FALSE
  OBVIOUS
<1>2. \A t \in S : pc[t] \in {"idle", "lock", "share", "put", "answered"} \cup Locked
  BY DEF IInv, TypeOK
<1>3. \A t \in S : pc[t] \notin {"idle", "read", "renumber", "answered"}
  BY <1>1 DEF WaitsFor
<1>4. \A t \in S : pc[t] # "put"
  BY <1>1, <1>3 DEF WaitsFor, SameAnswer
<1>5. \A t \in S : ~Sharing(t)
  BY <1>3, <1>4 DEF Sharing
<1>6. ASSUME NEW t \in S, pc[t] = "write" PROVE FALSE
  <2>1. PICK u \in S : u \in WaitsFor(t)
    BY <1>1
  <2>2. /\ u \in Txns \ {t} /\ nxt[t] <= Len(ids[t])
        /\ u \in RowBlockers(t, ids[t][nxt[t]])
    BY <2>1, <1>6 DEF WaitsFor
  <2>3. ids[t][nxt[t]] \notin DOMAIN writes[u]
    BY <2>2, <1>6, WriterMeetsNoWriter
  <2> QED BY <2>2, <2>3, <1>5 DEF RowBlockers
<1>7. \A t \in S : DOMAIN writes[t] = {}
  BY <1>3, <1>6, WritersWork
<1>8. \A t \in S, u \in S : \A c : u \notin RowBlockers(t, c)
  BY <1>5, <1>7 DEF RowBlockers
<1>9. \A t \in S : pc[t] \notin {"row", "retire"}
  BY <1>1, <1>8 DEF WaitsFor
<1>10. \A t \in S : pc[t] \in {"lock", "share"}
  BY <1>2, <1>3, <1>4, <1>6, <1>9 DEF Locked
<1>11. ASSUME NEW t \in S, pc[t] = "lock" PROVE FALSE
  <2>1. PICK u \in S : famLock[op[t].fam] = u
    BY <1>1, <1>11 DEF WaitsFor
  <2>2. op[t].fam \in Families
    <3>1. Sound(rows, "lock", op[t], ids[t], nxt[t], writes[t])
      BY <1>11, AboutTxn
    <3>2. op[t] \in SaveOp \cup DeleteOp \cup ReorderOp
      BY <3>1 DEF Sound
    <3> QED BY <3>2 DEF SaveOp, DeleteOp, ReorderOp
  <2>3. pc[u] \in Locked
    BY <2>1, <2>2 DEF IInv, LockHeld
  <2> QED BY <2>3, <1>10 DEF Locked
<1>12. ASSUME NEW t \in S, pc[t] = "share" PROVE FALSE
  BY <1>1, <1>7, <1>12 DEF WaitsFor
<1> QED BY <1>10, <1>11, <1>12

\* housing_checklist.go:38-52, 71-78, 210-232: family lock, row locks in list
\* order and share locks never form a cycle of waiting transactions.
THEOREM NoDeadlock == Spec => []NoWaitCycle
<1>1. IInv => NoWaitCycle
  BY SomeoneRuns DEF NoWaitCycle
<1> QED BY <1>1, Inductive, PTL

-----------------------------------------------------------------------------
(* Progress.  The two facts about single steps behind Quiesces: every      *)
(* transaction has a bounded number of statements left, and while one is   *)
(* unfinished some transaction can execute its next statement.             *)

\* Statements transaction t still executes at most, with its end as the last.
\* A list has at most as many elements as there are criteria.
Remaining(t) ==
    LET n == Cardinality(Criteria) IN
    CASE pc[t] = "idle" -> 0
      [] pc[t] = "answered" -> 1
      [] pc[t] = "put" -> 2
      [] pc[t] = "share" -> 3
      [] pc[t] = "write" -> Len(ids[t]) + 2 - nxt[t]
      [] pc[t] \in {"row", "renumber"} -> n + 2
      [] pc[t] \in {"read", "retire"} -> n + 3
      [] pc[t] = "lock" -> n + 4

\* The loop of writeChecklistOrder is inside its list, the list no longer than
\* the criteria, and the loop starts at the first element.
LoopBounds ==
    /\ Cardinality(Criteria) \in Nat /\ nxt \in [Txns -> Nat \ {0}]
    /\ pc \in [Txns -> {"idle", "lock", "share", "put", "answered"} \cup Locked]
    /\ \A t \in Txns :
        /\ pc[t] = "write" => /\ Len(ids[t]) \in 0 .. Cardinality(Criteria)
                              /\ nxt[t] \in 1 .. Len(ids[t]) + 1
        /\ pc[t] # "write" => nxt[t] = 1

\* The bounds of the loop follow from what the list of a transaction is.
LEMMA LoopInside == IInv => LoopBounds
<1> SUFFICES ASSUME IInv PROVE LoopBounds
  OBVIOUS
<1>1. Cardinality(Criteria) \in Nat
  BY ChecklistAssumption, FS_CardinalityType
<1>2. ASSUME NEW t \in Txns, pc[t] = "write"
      PROVE  Len(ids[t]) \in 0 .. Cardinality(Criteria) /\ nxt[t] \in 1 .. Len(ids[t]) + 1
  <2> DEFINE A == ActiveIn(Overlay(rows, writes[t]), op[t].fam)
  <2>1. ids[t] \in SetToSeqs(A) /\ nxt[t] <= Len(ids[t]) + 1 /\ nxt[t] \in Nat \ {0}
    <3>1. Sound(rows, "write", op[t], ids[t], nxt[t], writes[t]) /\ nxt[t] \in Nat \ {0}
      BY <1>2, AboutTxn
    <3> QED BY <3>1 DEF Sound, Numbered
  <2>2. A \in SUBSET Criteria /\ IsFiniteSet(A)
    BY ActiveFinite
  <2>3. Cardinality(A) \in Nat /\ Cardinality(A) <= Cardinality(Criteria)
    BY <2>2, ChecklistAssumption, FS_Subset, FS_CardinalityType
  <2> HIDE DEF A
  <2>4. Len(ids[t]) = Cardinality(A)
    BY <2>1, <2>2, Enumeration
  <2> QED BY <1>1, <2>1, <2>3, <2>4
<1>3. ASSUME NEW t \in Txns, pc[t] # "write" PROVE nxt[t] = 1
  <2>1. Sound(rows, pc[t], op[t], ids[t], nxt[t], writes[t])
    BY AboutTxn
  <2> QED BY <1>3, <2>1 DEF Sound
<1> QED BY <1>1, <1>2, <1>3 DEF LoopBounds, IInv, TypeOK

\* The number of statements left is bounded, and zero only between operations.
LEMMA RemainingBounded ==
    ASSUME LoopBounds, NEW t \in Txns
    PROVE  /\ Remaining(t) \in 0 .. Cardinality(Criteria) + 4
           /\ Remaining(t) = 0 <=> pc[t] = "idle"
<1>1. Remaining(t) \in 0 .. Cardinality(Criteria) + 4
  BY DEF LoopBounds, Remaining, Locked
<1>2. Remaining(t) = 0 <=> pc[t] = "idle"
  BY DEF LoopBounds, Remaining, Locked
<1> QED BY <1>1, <1>2

\* A transaction that ends has none left.
LEMMA EndRemains ==
    ASSUME LoopBounds, LoopBounds', NEW t \in Txns, pc[t] # "idle", End(t)
    PROVE  Remaining(t)' < Remaining(t)
<1>1. pc'[t] = "idle"
  BY DEF End, LoopBounds
<1>2. Remaining(t)' = 0
  BY <1>1 DEF Remaining
<1>3. Remaining(t) \in Nat /\ Remaining(t) # 0
  BY RemainingBounded DEF LoopBounds
<1> QED BY <1>2, <1>3

\* Each statement of a transaction brings it closer to its end.
LEMMA StepRemains ==
    ASSUME LoopBounds, LoopBounds', NEW t \in Txns, Step(t)
    PROVE  Remaining(t)' < Remaining(t)
<1>1. CASE RefuseSave(t) \/ RefuseRetire(t) \/ RefuseReorder(t) \/ RefuseAnswer(t)
           \/ Commit(t) \/ CommitAnswer(t)
  <2>1. pc[t] # "idle" /\ End(t)
    BY <1>1 DEF RefuseSave, RefuseRetire, RefuseReorder, RefuseAnswer, Commit, CommitAnswer
  <2> QED BY <2>1, EndRemains
<1>2. CASE LockFamily(t)
  <2>1. pc[t] = "lock" /\ pc'[t] \in {"retire", "read"}
    BY <1>2 DEF LockFamily, LoopBounds
  <2> QED BY <2>1 DEF Remaining, LoopBounds
<1>3. CASE ReadForSave(t) \/ Retire(t)
  <2>1. pc[t] \in {"read", "retire"} /\ pc'[t] \in {"row", "renumber"}
    BY <1>3 DEF ReadForSave, Retire, LoopBounds
  <2> QED BY <2>1 DEF Remaining, LoopBounds
<1>4. CASE SaveRow(t) \/ ReadAfterRetire(t) \/ ReadForReorder(t)
  <2>1. pc[t] \in {"row", "renumber", "read"} /\ pc'[t] = "write" /\ nxt' = nxt
    BY <1>4 DEF SaveRow, ReadAfterRetire, ReadForReorder, LoopBounds
  <2>2. nxt'[t] = 1 /\ Len(ids'[t]) \in 0 .. Cardinality(Criteria)
    BY <2>1 DEF LoopBounds
  <2>3. Remaining(t)' = Len(ids'[t]) + 1
    BY <2>1, <2>2 DEF Remaining
  <2>4. Remaining(t) >= Cardinality(Criteria) + 2
    BY <2>1 DEF Remaining, LoopBounds
  <2>5. Remaining(t) \in Nat /\ Cardinality(Criteria) \in Nat
    BY RemainingBounded DEF LoopBounds
  <2> QED BY <2>2, <2>3, <2>4, <2>5
<1>5. CASE WriteOrder(t)
  <2>1. pc[t] = "write" /\ pc' = pc /\ ids' = ids /\ nxt' = [nxt EXCEPT ![t] = @ + 1]
    BY <1>5 DEF WriteOrder
  <2>2. nxt[t] \in Nat /\ Len(ids[t]) \in Nat /\ nxt'[t] \in Nat /\ nxt'[t] = nxt[t] + 1
    BY <2>1 DEF LoopBounds
  <2> QED BY <2>1, <2>2 DEF Remaining
<1>6. CASE ShareLock(t) \/ PutAnswer(t)
  <2>1. \/ pc[t] = "share" /\ pc'[t] = "put"
        \/ pc[t] = "put" /\ pc'[t] = "answered"
    BY <1>6 DEF ShareLock, PutAnswer, LoopBounds
  <2> QED BY <2>1 DEF Remaining
<1> QED BY <1>1, <1>2, <1>3, <1>4, <1>5, <1>6 DEF Step

\* What a transaction does leaves the program state of the others alone.
LEMMA OthersKept ==
    ASSUME NEW t \in Txns, NEW u \in Txns \ {t}, Begin(u) \/ Step(u) \/ Rollback(u),
           pc = [v \in Txns |-> pc[v]], nxt = [v \in Txns |-> nxt[v]],
           ids = [v \in Txns |-> ids[v]]
    PROVE  pc'[t] = pc[t] /\ nxt'[t] = nxt[t] /\ ids'[t] = ids[t]
<1>1. CASE End(u)
  BY <1>1 DEF End
<1>2. CASE Begin(u)
  BY <1>2 DEF Begin, BeginSave, BeginDelete, BeginReorder, BeginAnswer, BeginOp
<1>3. CASE LockFamily(u) \/ Retire(u) \/ ShareLock(u) \/ PutAnswer(u)
  BY <1>3 DEF LockFamily, Retire, ShareLock, PutAnswer
<1>4. CASE ReadForSave(u) \/ ReadAfterRetire(u) \/ ReadForReorder(u)
  BY <1>4 DEF ReadForSave, ReadAfterRetire, ReadForReorder
<1>5. CASE SaveRow(u)
  BY <1>5 DEF SaveRow
<1>6. CASE WriteOrder(u)
  BY <1>6 DEF WriteOrder
<1> QED
  BY <1>1, <1>2, <1>3, <1>4, <1>5, <1>6
  DEF Step, Rollback, RefuseSave, RefuseRetire, RefuseReorder, RefuseAnswer, Commit, CommitAnswer

\* A transaction has at most as many statements left as there are criteria, plus
\* four; each statement it executes takes one off at least, as does a failure,
\* and only the beginning of its next operation adds to them: nothing another
\* transaction does ever makes it start over.
StatementsRunDown ==
    \A t \in Txns :
        /\ Remaining(t) \in 0 .. Cardinality(Criteria) + 4
        /\ Remaining(t) = 0 <=> pc[t] = "idle"
        /\ Step(t) \/ Rollback(t) => Remaining(t)' < Remaining(t)
        /\ Remaining(t)' > Remaining(t) => Begin(t)

\* housing_checklist.go:38-61, 71-78: no operation on the checklist retries or
\* loops on what it finds, so none can run for ever however the others
\* interleave.
THEOREM OperationsAreFinite == Spec => [][StatementsRunDown]_vars
<1>1. ASSUME NEW t \in Txns, NEW u \in Txns \ {t}, LoopBounds,
             Begin(u) \/ Step(u) \/ Rollback(u), ids = [v \in Txns |-> ids[v]]
      PROVE  Remaining(t)' = Remaining(t)
  <2>1. pc'[t] = pc[t] /\ nxt'[t] = nxt[t] /\ ids'[t] = ids[t]
    BY <1>1, OthersKept DEF LoopBounds
  <2> QED BY <2>1 DEF Remaining
<1>2. ASSUME LoopBounds, LoopBounds', ids = [v \in Txns |-> ids[v]], [Next]_vars, NEW t \in Txns
      PROVE  /\ Remaining(t) \in 0 .. Cardinality(Criteria) + 4
             /\ Remaining(t) = 0 <=> pc[t] = "idle"
             /\ Step(t) \/ Rollback(t) => Remaining(t)' < Remaining(t)
             /\ Remaining(t)' > Remaining(t) => Begin(t)
  <2>1. /\ Remaining(t) \in 0 .. Cardinality(Criteria) + 4 /\ Cardinality(Criteria) \in Nat
        /\ Remaining(t) = 0 <=> pc[t] = "idle"
    BY <1>2, RemainingBounded DEF LoopBounds
  <2>2. Remaining(t)' \in Nat
    BY <1>2 DEF LoopBounds, Remaining, Locked
  <2>4. Step(t) => Remaining(t)' < Remaining(t)
    BY <1>2, StepRemains
  <2>5. Rollback(t) => Remaining(t)' < Remaining(t)
    BY <1>2, EndRemains DEF Rollback
  <2>6. ASSUME Remaining(t)' > Remaining(t) PROVE Begin(t)
    <3>1. \E u \in Txns : Begin(u) \/ Step(u) \/ Rollback(u)
      <4>1. CASE UNCHANGED <<pc, ids, nxt>>
        <5>1. pc' = pc /\ ids' = ids /\ nxt' = nxt
          BY <4>1
        <5>2. Remaining(t)' = Remaining(t)
          BY <5>1 DEF Remaining
        <5> QED BY <2>1, <2>6, <5>2
      <4> QED BY <1>2, <4>1 DEF Next, DeleteHome, vars
    <3>2. PICK u \in Txns : Begin(u) \/ Step(u) \/ Rollback(u)
      BY <3>1
    <3>3. u = t
      BY <1>1, <1>2, <2>1, <2>6, <3>2
    <3> QED BY <2>1, <2>2, <2>4, <2>5, <2>6, <3>2, <3>3
  <2> QED BY <2>1, <2>4, <2>5, <2>6
<1> DEFINE I == LoopBounds /\ ids = [v \in Txns |-> ids[v]]
<1>3. IInv => I
  BY LoopInside DEF IInv, TypeOK
<1>4. I /\ I' /\ [Next]_vars => [StatementsRunDown]_vars
  BY <1>2 DEF StatementsRunDown
<1> QED BY <1>3, <1>4, Inductive, PTL DEF Spec

\* checklistIDs always returns a list, before and after the transaction's own
\* UPDATE.
LEMMA ListingExists ==
    ASSUME IInv, NEW t \in Txns, pc[t] \in {"read", "renumber"}
    PROVE  Listings(t) # {}
<1> DEFINE f == op[t].fam
<1>1. CASE pc[t] = "read"
  <2>1. op[t] \in SaveOp \cup ReorderOp /\ DOMAIN writes[t] = {}
    <3>1. Sound(rows, "read", op[t], ids[t], nxt[t], writes[t])
      BY <1>1, AboutTxn
    <3> QED BY <3>1 DEF Sound
  <2>2. f \in Families /\ View(t) = rows
    BY <2>1, AboutTxn, SeesCommitted DEF SaveOp, ReorderOp
  <2>3. PICK l \in ListsOf(rows, f) : TRUE
    BY <2>2, HasList
  <2>4. l \in SetToSeqs(ActiveIn(rows, f)) /\ Sorted(l, rows)
    BY <2>3, ListElements, ListSorted
  <2> QED BY <2>2, <2>4 DEF Listings, ActiveFor
<1>2. CASE pc[t] = "renumber"
  <2>1. /\ f \in Families /\ op[t].id \in ActiveIn(rows, f)
        /\ \A d \in Criteria : View(t)[d].order = rows[d].order
        /\ ActiveIn(View(t), f) = ActiveIn(rows, f) \ {op[t].id}
    BY <1>2, AfterRetire
  <2>2. PICK l \in ListsOf(rows, f) : TRUE
    BY <2>1, HasList
  <2>3. l \in SetToSeqs(ActiveIn(rows, f)) /\ IsFiniteSet(ActiveIn(rows, f))
    BY <2>2, ListElements, ActiveFinite
  <2>4. PICK k \in 1 .. Len(l) : l[k] = op[t].id
    <3>1. \A x \in ActiveIn(rows, f) : \E k \in 1 .. Len(l) : l[k] = x
      BY <2>3, Enumeration
    <3> QED BY <2>1, <3>1
  <2> DEFINE s == RemoveAt(l, k)
  <2>5. s \in SetToSeqs(ActiveIn(View(t), f)) /\ Sorted(s, rows)
    BY <2>1, <2>2, <2>3, <2>4, RemoveEnumeration, RemoveSorted, ListSorted
  <2> HIDE DEF s
  <2>6. \A i \in DOMAIN s : s[i] \in Criteria
    <3>1. s \in Seq(ActiveIn(View(t), f)) /\ ActiveIn(View(t), f) \in SUBSET Criteria
          /\ DOMAIN s = 1 .. Len(s)
      BY <2>5, ActiveFinite, Enumeration
    <3> QED BY <3>1
  <2>7. Sorted(s, View(t))
    BY <2>1, <2>5, <2>6 DEF Sorted, Before
  <2> QED BY <2>5, <2>7 DEF Listings, ActiveFor
<1> QED BY <1>1, <1>2

\* The condition of t's next statement, whatever it will find: its locks are
\* free, and what it selects exists.
MayStep(t) ==
    \/ pc[t] = "lock" /\ famLock[op[t].fam] = None
    \/ pc[t] \in {"read", "renumber"} /\ Listings(t) # {}
    \/ /\ pc[t] = "row"
       /\ IF op[t].id = NewID THEN Unused # {} ELSE RowBlockers(t, op[t].id) = {}
    \/ /\ pc[t] = "retire"
       /\ op[t].id \in ActiveFor(t) => RowBlockers(t, op[t].id) = {}
    \/ /\ pc[t] = "write"
       /\ nxt[t] <= Len(ids[t]) => RowBlockers(t, ids[t][nxt[t]]) = {}
    \/ /\ pc[t] = "share"
       /\ Answerable(t) => \A u \in Txns : op[t].id \notin DOMAIN writes[u]
    \/ pc[t] = "put" /\ SameAnswer(t) = {}
    \/ pc[t] = "answered"

\* There is an id for every insertion that began.
PoolSuffices == Cardinality(Inserting) <= Cardinality(Unused)

\* Three ways a step changes the insertions under way and the ids left for them.
LEMMA PoolKept ==
    ASSUME IsFiniteSet(Txns), PoolSuffices,
           \/ Inserting' \subseteq Inserting /\ Unused \subseteq Unused'
           \/ /\ Cardinality(Inserting) < Cardinality(Unused) /\ Unused \subseteq Unused'
              /\ \E t \in Txns : Inserting' \subseteq Inserting \cup {t}
           \/ /\ \E t \in Inserting : Inserting' \subseteq Inserting \ {t}
              /\ \E c \in Unused : Unused \ {c} \subseteq Unused'
    PROVE  PoolSuffices'
<1>1. /\ IsFiniteSet(Inserting) /\ IsFiniteSet(Unused) /\ IsFiniteSet(Unused')
      /\ IsFiniteSet(Inserting')
  <2>1. Inserting \in SUBSET Txns /\ Inserting' \in SUBSET Txns
    BY DEF Inserting
  <2>2. Unused \in SUBSET Criteria /\ Unused' \in SUBSET Criteria
    BY DEF Unused
  <2> QED BY <2>1, <2>2, ChecklistAssumption, FS_Subset
<1>2. /\ Cardinality(Inserting) \in Nat /\ Cardinality(Unused) \in Nat
      /\ Cardinality(Inserting') \in Nat /\ Cardinality(Unused') \in Nat
  BY <1>1, FS_CardinalityType
<1>3. CASE Inserting' \subseteq Inserting /\ Unused \subseteq Unused'
  <2>1. /\ Cardinality(Inserting') <= Cardinality(Inserting)
        /\ Cardinality(Unused) <= Cardinality(Unused')
    BY <1>1, <1>3, FS_Subset
  <2> QED BY <1>2, <2>1 DEF PoolSuffices
<1>4. ASSUME NEW t \in Txns, Inserting' \subseteq Inserting \cup {t}, Unused \subseteq Unused',
             Cardinality(Inserting) < Cardinality(Unused)
      PROVE  PoolSuffices'
  <2>1. /\ IsFiniteSet(Inserting \cup {t})
        /\ Cardinality(Inserting \cup {t}) <= Cardinality(Inserting) + 1
        /\ Cardinality(Inserting \cup {t}) \in Nat
    <3>1. /\ IsFiniteSet(Inserting \cup {t})
          /\ Cardinality(Inserting \cup {t}) =
               IF t \in Inserting THEN Cardinality(Inserting) ELSE Cardinality(Inserting) + 1
      BY <1>1, FS_AddElement
    <3> QED BY <1>2, <3>1
  <2>2. /\ Cardinality(Inserting') <= Cardinality(Inserting \cup {t})
        /\ Cardinality(Unused) <= Cardinality(Unused')
    BY <1>1, <1>4, <2>1, FS_Subset
  <2> QED BY <1>2, <1>4, <2>1, <2>2 DEF PoolSuffices
<1>5. ASSUME NEW t \in Inserting, Inserting' \subseteq Inserting \ {t},
             NEW c \in Unused, Unused \ {c} \subseteq Unused'
      PROVE  PoolSuffices'
  <2>1. /\ IsFiniteSet(Inserting \ {t}) /\ IsFiniteSet(Unused \ {c})
        /\ Cardinality(Inserting \ {t}) = Cardinality(Inserting) - 1
        /\ Cardinality(Unused \ {c}) = Cardinality(Unused) - 1
    BY <1>1, FS_RemoveElement
  <2>2. /\ Cardinality(Inserting') <= Cardinality(Inserting \ {t})
        /\ Cardinality(Unused \ {c}) <= Cardinality(Unused')
    BY <1>1, <1>5, <2>1, FS_Subset
  <2> QED BY <1>2, <2>1, <2>2 DEF PoolSuffices
<1> QED BY <1>3, <1>4, <1>5

\* A version of a row that is in use takes no id from the pool.
LEMMA WriteKeepsPool ==
    ASSUME IInv, NEW t \in Txns, NEW c \in Criteria, NEW row, Write(t, c, row), rows' = rows
    PROVE  /\ Unused \ {c} \subseteq Unused'
           /\ c \notin Unused => Unused \subseteq Unused'
<1>1. writes = [u \in Txns |-> writes[u]]
  BY DEF IInv, TypeOK
<1>2. /\ DOMAIN writes'[t] = DOMAIN writes[t] \cup {c}
      /\ \A u \in Txns \ {t} : writes'[u] = writes[u]
  BY <1>1 DEF Write
<1>3. \A u \in Txns : DOMAIN writes'[u] \subseteq DOMAIN writes[u] \cup {c}
  BY <1>2
<1> QED BY <1>3 DEF Unused

\* The criterion that a numbering transaction writes next is in use.
LEMMA NumbersUsed ==
    ASSUME IInv, NEW t \in Txns, pc[t] = "write", nxt[t] <= Len(ids[t])
    PROVE  ids[t][nxt[t]] \in Criteria /\ ids[t][nxt[t]] \notin Unused
<1> DEFINE A == ActiveIn(Overlay(rows, writes[t]), op[t].fam)
           c == ids[t][nxt[t]]
<1>1. ids[t] \in SetToSeqs(A) /\ nxt[t] \in Nat \ {0}
  <2>1. Sound(rows, "write", op[t], ids[t], nxt[t], writes[t]) /\ nxt[t] \in Nat \ {0}
    BY AboutTxn
  <2> QED BY <2>1 DEF Sound, Numbered
<1>2. IsFiniteSet(A) /\ A \in SUBSET Criteria
  BY ActiveFinite
<1>3. c \in A
  <2> HIDE DEF A
  <2>1. ids[t] \in Seq(A)
    BY <1>1, <1>2, Enumeration
  <2>2. nxt[t] \in 1 .. Len(ids[t])
    BY <1>1, <2>1
  <2> QED BY <2>1, <2>2
<1>4. c \in Criteria
  BY <1>2, <1>3
<1>5. c \in DOMAIN writes[t] \/ rows[c].status = "active"
  BY <1>3 DEF ActiveIn, Overlay
<1> QED BY <1>4, <1>5 DEF Unused

\* The criterion that a save or a deletion names is in use.
LEMMA NamesUsed ==
    ASSUME IInv, NEW t \in Txns,
           \/ pc[t] = "row" /\ op[t].id # NewID
           \/ pc[t] = "retire" /\ op[t].id \in ActiveFor(t)
    PROVE  op[t].id \in Criteria /\ op[t].id \notin Unused
<1>1. Sound(rows, pc[t], op[t], ids[t], nxt[t], writes[t]) /\ rows \in [Criteria -> Row]
  BY AboutTxn
<1>2. CASE pc[t] = "row" /\ op[t].id # NewID
  <2>1. op[t] \in SaveOp /\ Picked(rows, op[t], ids[t])
    BY <1>1, <1>2 DEF Sound
  <2>2. PICK l \in ListsOf(rows, op[t].fam) : \E k \in 1 .. Len(l) : l[k] = op[t].id
    BY <1>2, <2>1 DEF Picked
  <2>3. op[t].id \in ActiveIn(rows, op[t].fam)
    BY <2>2, ListElements
  <2> QED BY <2>3 DEF ActiveIn, Unused
<1>3. CASE pc[t] = "retire" /\ op[t].id \in ActiveFor(t)
  <2>1. DOMAIN writes[t] = {}
    BY <1>1, <1>3 DEF Sound
  <2>2. View(t) = rows
    BY <2>1, AboutTxn, SeesCommitted
  <2> QED BY <1>3, <2>2 DEF ActiveFor, ActiveIn, Unused
<1> QED BY <1>2, <1>3

\* A transaction that ends gives back the ids it did not commit.
LEMMA EndKeepsPool ==
    ASSUME IInv, NEW t \in Txns, End(t), rows' = rows \/ rows' = View(t)
    PROVE  Inserting' \subseteq Inserting /\ Unused \subseteq Unused'
<1>1. /\ pc = [u \in Txns |-> pc[u]] /\ op = [u \in Txns |-> op[u]]
      /\ writes = [u \in Txns |-> writes[u]]
  BY DEF IInv, TypeOK
<1>2. /\ pc'[t] = "idle"
      /\ \A u \in Txns \ {t} : pc'[u] = pc[u] /\ op'[u] = op[u]
  BY <1>1 DEF End
<1>3. Inserting' \subseteq Inserting
  BY <1>2 DEF Inserting
<1>4. \A u \in Txns : DOMAIN writes'[u] \subseteq DOMAIN writes[u]
  BY <1>1 DEF End, NoWrites
<1>5. \A c \in Unused : rows'[c] = rows[c]
  BY DEF Unused, View
<1> QED BY <1>3, <1>4, <1>5 DEF Unused

\* Every step leaves an id for every insertion under way.
LEMMA PoolStep ==
    ASSUME IsFiniteSet(Txns), IInv, PoolSuffices, [Next]_vars
    PROVE  PoolSuffices'
<1>t. pc = [u \in Txns |-> pc[u]] /\ op = [u \in Txns |-> op[u]]
  BY DEF IInv, TypeOK
<1>0. ASSUME UNCHANGED <<rows, writes>> PROVE Unused \subseteq Unused'
  BY <1>0 DEF Unused
<1>1. ASSUME NEW t \in Txns, pc' = [pc EXCEPT ![t] = pc'[t]], op' = op,
             pc'[t] \in {"lock", "read", "row"} => pc[t] \in {"lock", "read", "row"}
      PROVE  Inserting' \subseteq Inserting
  BY <1>t, <1>1 DEF Inserting
<1>2. ASSUME NEW t \in Txns, End(t), rows' = rows \/ rows' = View(t) PROVE PoolSuffices'
  BY <1>2, EndKeepsPool, PoolKept
<1>3. ASSUME NEW t \in Txns,
             \/ LockFamily(t) \/ ReadForSave(t) \/ ReadAfterRetire(t) \/ ReadForReorder(t)
             \/ ShareLock(t) \/ PutAnswer(t)
      PROVE  PoolSuffices'
  <2>1. /\ pc' = [pc EXCEPT ![t] = pc'[t]] /\ op' = op /\ UNCHANGED <<rows, writes>>
        /\ pc'[t] \in {"lock", "read", "row"} => pc[t] \in {"lock", "read", "row"}
    BY <1>t, <1>3 DEF LockFamily, ReadForSave, ReadAfterRetire, ReadForReorder, ShareLock, PutAnswer
  <2> QED BY <1>0, <1>1, <2>1, PoolKept
<1>4. ASSUME NEW t \in Txns, BeginSave(t) PROVE PoolSuffices'
  <2>1. PICK f \in Families, c \in Criteria \cup {NewID}, p \in 0 .. MaxPosition :
          /\ c = NewID => Cardinality(Inserting) < Cardinality(Unused)
          /\ BeginOp(t, [kind |-> "save", fam |-> f, id |-> c, pos |-> p], "lock")
    BY <1>4 DEF BeginSave
  <2>2. /\ pc'[t] = "lock" /\ op'[t].id = c /\ UNCHANGED <<rows, writes>>
        /\ \A u \in Txns \ {t} : pc'[u] = pc[u] /\ op'[u] = op[u]
    BY <1>t, <2>1 DEF BeginOp
  <2>3. Inserting' \subseteq Inserting \cup {t}
    BY <2>2 DEF Inserting
  <2>4. c # NewID => Inserting' \subseteq Inserting
    BY <2>2 DEF Inserting
  <2> QED BY <1>0, <2>1, <2>2, <2>3, <2>4, PoolKept
<1>5. ASSUME NEW t \in Txns, BeginDelete(t) \/ BeginReorder(t) \/ BeginAnswer(t)
      PROVE  PoolSuffices'
  <2>1. /\ op'[t].kind # "save" /\ UNCHANGED <<rows, writes>>
        /\ \A u \in Txns \ {t} : pc'[u] = pc[u] /\ op'[u] = op[u]
    BY <1>t, <1>5 DEF BeginDelete, BeginReorder, BeginAnswer, BeginOp
  <2>2. Inserting' \subseteq Inserting
    BY <2>1 DEF Inserting
  <2> QED BY <1>0, <2>1, <2>2, PoolKept
<1>6. ASSUME NEW t \in Txns, SaveRow(t) PROVE PoolSuffices'
  <2>1. /\ pc[t] = "row" /\ pc' = [pc EXCEPT ![t] = "write"] /\ UNCHANGED <<rows, op>>
    BY <1>6 DEF SaveRow
  <2>2. PICK c \in Criteria :
          \/ /\ op[t].id = NewID /\ c \in Unused
             /\ Write(t, c, [fam |-> op[t].fam, order |-> op[t].pos, status |-> "active"])
          \/ op[t].id = c /\ Write(t, c, View(t)[c])
    BY <1>6 DEF SaveRow
  <2>3. Inserting' \subseteq Inserting \ {t}
    BY <1>t, <2>1 DEF Inserting
  <2>4. Unused \ {c} \subseteq Unused' /\ (c \notin Unused => Unused \subseteq Unused')
    BY <2>1, <2>2, WriteKeepsPool
  <2>5. CASE op[t].id = NewID /\ c \in Unused
    <3>1. op[t].kind = "save"
      <4>1. Sound(rows, "row", op[t], ids[t], nxt[t], writes[t])
        BY <2>1, AboutTxn
      <4> QED BY <4>1 DEF Sound, SaveOp
    <3>2. t \in Inserting
      BY <2>1, <2>5, <3>1 DEF Inserting
    <3> QED BY <2>3, <2>4, <2>5, <3>2, PoolKept
  <2>6. CASE op[t].id = c
    <3>1. c \notin Unused
      BY <2>1, <2>6, ChecklistAssumption, NamesUsed DEF NewID
    <3> QED BY <2>3, <2>4, <3>1, PoolKept
  <2> QED BY <2>2, <2>5, <2>6
<1>7. ASSUME NEW t \in Txns, NEW c \in Criteria, c \notin Unused, NEW row, Write(t, c, row),
             UNCHANGED <<rows, op>>, pc' = [pc EXCEPT ![t] = pc'[t]],
             pc'[t] \notin {"lock", "read", "row"}
      PROVE  PoolSuffices'
  <2>1. Inserting' \subseteq Inserting
    BY <1>1, <1>7
  <2>2. Unused \subseteq Unused'
    BY <1>7, WriteKeepsPool
  <2> QED BY <2>1, <2>2, PoolKept
<1>8. ASSUME NEW t \in Txns, Retire(t) PROVE PoolSuffices'
  <2>1. /\ pc' = [pc EXCEPT ![t] = pc'[t]] /\ pc'[t] = "renumber" /\ UNCHANGED <<rows, op>>
        /\ pc[t] = "retire" /\ op[t].id \in ActiveFor(t)
    BY <1>t, <1>8 DEF Retire
  <2>2. op[t].id \in Criteria /\ op[t].id \notin Unused
    BY <2>1, NamesUsed
  <2>3. Write(t, op[t].id, [View(t)[op[t].id] EXCEPT !.status = "retired"])
    BY <1>8 DEF Retire
  <2> QED BY <1>7, <2>1, <2>2, <2>3
<1>9. ASSUME NEW t \in Txns, WriteOrder(t) PROVE PoolSuffices'
  <2> DEFINE c == ids[t][nxt[t]]
  <2>1. /\ pc' = [pc EXCEPT ![t] = pc'[t]] /\ pc'[t] = "write" /\ UNCHANGED <<rows, op>>
        /\ pc[t] = "write" /\ nxt[t] <= Len(ids[t])
    BY <1>t, <1>9 DEF WriteOrder
  <2>2. c \in Criteria /\ c \notin Unused
    BY <2>1, NumbersUsed
  <2>3. Write(t, c, [View(t)[c] EXCEPT !.order = nxt[t] - 1])
    BY <1>9 DEF WriteOrder
  <2> HIDE DEF c
  <2> QED BY <1>7, <2>1, <2>2, <2>3
<1>10. ASSUME NEW t \in Txns,
              \/ RefuseSave(t) \/ RefuseRetire(t) \/ RefuseReorder(t) \/ RefuseAnswer(t)
              \/ Commit(t) \/ CommitAnswer(t) \/ Rollback(t)
       PROVE  PoolSuffices'
  BY <1>2, <1>10 DEF RefuseSave, RefuseRetire, RefuseReorder, RefuseAnswer, Commit, CommitAnswer,
                     Rollback
<1>11. ASSUME UNCHANGED <<rows, writes, pc, op>> PROVE PoolSuffices'
  <2>1. Inserting' \subseteq Inserting /\ Unused \subseteq Unused'
    BY <1>11 DEF Inserting, Unused
  <2> QED BY <2>1, PoolKept
<1>12. ASSUME NEW h \in Homes, DeleteHome(h) PROVE PoolSuffices'
  BY <1>11, <1>12 DEF DeleteHome
<1>13. CASE UNCHANGED vars
  BY <1>11, <1>13 DEF vars
<1> QED
  BY <1>3, <1>4, <1>5, <1>6, <1>8, <1>9, <1>10, <1>12, <1>13 DEF Next, Begin, Step

\* A transaction that waits for no other has a statement it can execute.
LEMMA UnblockedSteps ==
    ASSUME IsFiniteSet(Txns), IInv, PoolSuffices, NEW t \in Txns, pc[t] # "idle", WaitsFor(t) = {}
    PROVE  MayStep(t)
<1>1. /\ pc[t] \in {"lock", "share", "put", "answered"} \cup Locked
      /\ Sound(rows, pc[t], op[t], ids[t], nxt[t], writes[t])
  BY AboutTxn DEF IInv, TypeOK
<1>2. \A c : RowBlockers(t, c) \subseteq Txns \ {t}
  BY DEF RowBlockers
<1>3. CASE pc[t] = "lock"
  <2>1. op[t] \in SaveOp \cup DeleteOp \cup ReorderOp
    BY <1>1, <1>3 DEF Sound
  <2>2. op[t].fam \in Families
    BY <2>1 DEF SaveOp, DeleteOp, ReorderOp
  <2>3. famLock[op[t].fam] \in Txns \cup {None} /\ famLock[op[t].fam] # t
    <3>1. famLock[op[t].fam] \in Txns \cup {None}
      BY <2>2 DEF IInv, TypeOK
    <3>2. pc[t] \notin Locked
      BY <1>3 DEF Locked
    <3>3. famLock[op[t].fam] # t
      BY <2>2, <3>2 DEF IInv, LockHeld
    <3> QED BY <3>1, <3>3
  <2>4. famLock[op[t].fam] = None
    BY <1>3, <2>3 DEF WaitsFor
  <2> QED BY <1>3, <2>4 DEF MayStep
<1>4. CASE pc[t] \in {"read", "renumber"}
  BY <1>4, ListingExists DEF MayStep
<1>5. CASE pc[t] = "row"
  <2>1. CASE op[t].id = NewID
    <3>1. op[t] \in SaveOp
      BY <1>1, <1>5 DEF Sound
    <3>2. t \in Inserting
      BY <1>5, <2>1, <3>1 DEF Inserting, SaveOp
    <3>3. Inserting \in SUBSET Txns /\ Unused \in SUBSET Criteria
      BY DEF Inserting, Unused
    <3>4. IsFiniteSet(Inserting) /\ IsFiniteSet(Unused)
      BY <3>3, ChecklistAssumption, FS_Subset
    <3>5. /\ Cardinality(Inserting) \in Nat /\ Cardinality(Inserting) # 0
          /\ Cardinality(Unused) \in Nat
      BY <3>2, <3>4, FS_CardinalityType, FS_EmptySet
    <3>6. Unused # {}
      BY <3>5, FS_EmptySet DEF PoolSuffices
    <3> QED BY <1>5, <2>1, <3>6 DEF MayStep
  <2>2. CASE op[t].id # NewID
    <3>1. RowBlockers(t, op[t].id) = {}
      BY <1>2, <1>5, <2>2 DEF WaitsFor
    <3> QED BY <1>5, <2>2, <3>1 DEF MayStep
  <2> QED BY <2>1, <2>2
<1>6. CASE pc[t] = "retire"
  <2>1. RowBlockers(t, op[t].id) = {}
    BY <1>2, <1>6 DEF WaitsFor
  <2> QED BY <1>6, <2>1 DEF MayStep
<1>7. CASE pc[t] = "write"
  <2>1. nxt[t] <= Len(ids[t]) => RowBlockers(t, ids[t][nxt[t]]) = {}
    BY <1>2, <1>7 DEF WaitsFor
  <2> QED BY <1>7, <2>1 DEF MayStep
<1>8. CASE pc[t] = "share"
  <2>1. DOMAIN writes[t] = {}
    BY <1>1, <1>8 DEF Sound
  <2>2. \A u \in Txns : op[t].id \notin DOMAIN writes[u]
    <3> SUFFICES ASSUME NEW u \in Txns, op[t].id \in DOMAIN writes[u] PROVE FALSE
      OBVIOUS
    <3>1. u \in Txns \ {t}
      BY <2>1
    <3> QED BY <1>8, <3>1 DEF WaitsFor
  <2> QED BY <1>8, <2>2 DEF MayStep
<1>9. CASE pc[t] = "put"
  <2>1. SameAnswer(t) = {}
    BY <1>9 DEF WaitsFor, SameAnswer
  <2> QED BY <1>9, <2>1 DEF MayStep
<1>10. CASE pc[t] = "answered"
  BY <1>10 DEF MayStep
<1> QED BY <1>1, <1>3, <1>4, <1>5, <1>6, <1>7, <1>8, <1>9, <1>10 DEF Locked

\* Nobody waits for a session between two operations.
LEMMA IdleHoldsNothing ==
    ASSUME IInv, NEW t \in Txns, pc[t] # "idle", NEW u \in Txns, pc[u] = "idle"
    PROVE  u \notin WaitsFor(t)
<1>1. DOMAIN writes[u] = {} /\ ~Sharing(u)
  BY WritersWork DEF Sharing
<1>2. \A c : u \notin RowBlockers(t, c)
  BY <1>1 DEF RowBlockers
<1>3. CASE pc[t] = "lock"
  <2>1. op[t] \in SaveOp \cup DeleteOp \cup ReorderOp
    <3>1. Sound(rows, "lock", op[t], ids[t], nxt[t], writes[t])
      BY <1>3, AboutTxn
    <3> QED BY <3>1 DEF Sound
  <2>2. op[t].fam \in Families
    BY <2>1 DEF SaveOp, DeleteOp, ReorderOp
  <2>3. famLock[op[t].fam] # u
    BY <2>2 DEF IInv, LockHeld, Locked
  <2> QED BY <1>3, <2>3 DEF WaitsFor
<1> QED BY <1>1, <1>2, <1>3 DEF WaitsFor, SameAnswer

\* Whatever waits, waits for another transaction, and while any operation is
\* unfinished one of those under way can execute its next statement.
SomeoneCanGoOn ==
    /\ \A t \in Txns : pc[t] # "idle" /\ WaitsFor(t) = {} => MayStep(t)
    /\ (\E t \in Txns : pc[t] # "idle") => \E t \in Txns : pc[t] # "idle" /\ MayStep(t)

\* housing_checklist.go:38-52, 71-78, 210-232: with any finite number of
\* sessions the operations on the checklist never come to a standstill.  This is
\* more than the absence of waiting cycles: it also says that a statement that
\* meets no lock can run.
THEOREM NeverStuck ==
    ASSUME IsFiniteSet(Txns)
    PROVE  Spec => []SomeoneCanGoOn
<1>1. Init => PoolSuffices
  <2> SUFFICES ASSUME Init PROVE PoolSuffices
    OBVIOUS
  <2>1. Inserting = {}
    BY DEF Init, Inserting, NoOp
  <2>2. Unused \in SUBSET Criteria
    BY DEF Unused
  <2>3. Cardinality(Unused) \in Nat
    BY <2>2, ChecklistAssumption, FS_Subset, FS_CardinalityType
  <2>4. Cardinality({}) = 0
    BY FS_EmptySet
  <2> QED BY <2>1, <2>3, <2>4 DEF PoolSuffices
<1>2. IInv /\ PoolSuffices /\ [Next]_vars => PoolSuffices'
  BY PoolStep
<1>3. ASSUME IInv, PoolSuffices PROVE SomeoneCanGoOn
  <2>1. \A t \in Txns : pc[t] # "idle" /\ WaitsFor(t) = {} => MayStep(t)
    BY <1>3, UnblockedSteps
  <2>2. ASSUME NEW v \in Txns, pc[v] # "idle"
        PROVE  \E t \in Txns : pc[t] # "idle" /\ MayStep(t)
    <3> DEFINE S == {t \in Txns : pc[t] # "idle"}
    <3>1. S \in SUBSET Txns /\ S # {}
      BY <2>2
    <3>2. PICK t \in S : WaitsFor(t) \cap S = {}
      BY <1>3, <3>1, SomeoneRuns
    <3>3. WaitsFor(t) \subseteq Txns
      BY DEF WaitsFor
    <3>4. WaitsFor(t) = {}
      BY <1>3, <3>2, <3>3, IdleHoldsNothing
    <3> QED BY <2>1, <3>2, <3>4
  <2> QED BY <2>1, <2>2 DEF SomeoneCanGoOn
<1> QED BY <1>1, <1>2, <1>3, Inductive, PTL DEF Spec

-----------------------------------------------------------------------------
(* Refinement of the abstract checklist.                                   *)

\* The refinement mapping: the list and the criteria spent in a table.
ListIn(table, f) == CHOOSE s \in SetToSeqs(ActiveIn(table, f)) : Sorted(s, table)
SpentIn(table) == {c \in Criteria : table[c].status # "none"}

\* The operators on sequences that the abstract module uses are those of the
\* detailed one.
LEMMA SameOperators ==
    /\ \A s, i, e : Abs!InsertAt(s, i, e) = InsertAt(s, i, e)
    /\ \A s, i : Abs!RemoveAt(s, i) = RemoveAt(s, i)
    /\ \A s : Abs!ToSet(s) = ToSet(s)
    /\ \A s, e : Abs!Contains(s, e) <=> Contains(s, e)
    /\ \A S : Abs!SetToSeqs(S) = SetToSeqs(S)
<1>1. \A s, i, e : Abs!InsertAt(s, i, e) = InsertAt(s, i, e)
  BY DEF Abs!InsertAt, InsertAt
<1>2. \A s, i : Abs!RemoveAt(s, i) = RemoveAt(s, i)
  BY DEF Abs!RemoveAt, RemoveAt
<1>3. \A s : Abs!ToSet(s) = ToSet(s)
  BY DEF Abs!ToSet, ToSet
<1>4. \A s, e : Abs!Contains(s, e) <=> Contains(s, e)
  BY DEF Abs!Contains, Contains
<1>5. \A S : Abs!SetToSeqs(S) = SetToSeqs(S)
  <2>1. \A S : Abs!Cardinality(S) = Cardinality(S)
    BY DEF Abs!Cardinality, Cardinality
  <2> QED BY <2>1 DEF Abs!SetToSeqs, SetToSeqs
<1> QED BY <1>1, <1>2, <1>3, <1>4, <1>5

\* With contiguous positions the sorted list is the one the positions number.
LEMMA ChosenList ==
    ASSUME NEW table \in [Criteria -> Row], NEW f, NEW l \in ListsOf(table, f)
    PROVE  ListIn(table, f) = l
<1>1. l \in SetToSeqs(ActiveIn(table, f)) /\ Sorted(l, table)
  BY ListSorted DEF ListsOf
<1>2. ListIn(table, f) \in SetToSeqs(ActiveIn(table, f)) /\ Sorted(ListIn(table, f), table)
  BY <1>1 DEF ListIn
<1> QED BY <1>2, ListingIsList

\* The initial state maps to the initial state.
LEMMA InitMaps ==
    ASSUME Init
    PROVE  Abs!AInit
<1>1. rows = [c \in Criteria |-> NoRow] /\ IInv
  BY InitInv DEF Init
<1>2. ASSUME NEW f \in Families PROVE ListIn(rows, f) = <<>>
  <2>1. PICK l \in ListsOf(rows, f) : TRUE
    BY <1>1, HasList
  <2>2. ActiveIn(rows, f) = {}
    BY <1>1 DEF ActiveIn, NoRow
  <2>3. Len(l) \in Nat /\ l \in Seq(Criteria) /\ \A i \in 1 .. Len(l) : l[i] \in {}
    BY <2>2, ListElements
  <2>4. Len(l) = 0
    BY <2>3
  <2>5. l = <<>>
    BY <2>3, <2>4
  <2>6. rows \in [Criteria -> Row]
    BY <1>1 DEF IInv, TypeOK
  <2> QED BY <2>1, <2>5, <2>6, ChosenList
<1>3. SpentIn(rows) = {}
  BY <1>1 DEF SpentIn, NoRow
<1>4. [f \in Families |-> ListIn(rows, f)] = [f \in Families |-> <<>>]
  BY <1>2
<1> QED BY <1>3, <1>4 DEF Init, Abs!AInit, ListIn, SpentIn

\* What a commit does to the lists: the family's list becomes ids, the others
\* stay as they are.
LEMMA CommitLists ==
    ASSUME IInv, NEW t \in Txns, Commit(t)
    PROVE  [f \in Families |-> ListIn(rows', f)] =
             [[f \in Families |-> ListIn(rows, f)] EXCEPT ![op[t].fam] = ids[t]]
<1>1. /\ rows' \in [Criteria -> Row] /\ op[t].fam \in Families
      /\ ids[t] \in ListsOf(rows', op[t].fam)
      /\ DifferIn(rows, rows', op[t].fam)
  BY CommitEffect
<1>2. rows \in [Criteria -> Row]
  BY DEF IInv, TypeOK
<1>3. ListIn(rows', op[t].fam) = ids[t]
  BY <1>1, ChosenList
<1>4. ASSUME NEW g \in Families, g # op[t].fam
      PROVE  ListIn(rows', g) = ListIn(rows, g)
  <2>1. PICK l \in ListsOf(rows, g) : TRUE
    BY HasList
  <2>2. l \in ListsOf(rows', g)
    BY <2>1, <1>1, <1>4, OtherFamily
  <2>3. ListIn(rows', g) = l
    BY <2>2, <1>1, ChosenList
  <2>4. ListIn(rows, g) = l
    BY <2>1, <1>2, ChosenList
  <2> QED BY <2>3, <2>4
<1> QED BY <1>1, <1>3, <1>4

\* Each commit of a template transaction is one abstract operation.
LEMMA CommitMaps ==
    ASSUME IInv, NEW t \in Txns, Commit(t)
    PROVE  Abs!ANext
<1> DEFINE o == op[t]
           f == op[t].fam
           L(table) == [g \in Families |-> ListIn(table, g)]
<1>1. /\ rows' \in [Criteria -> Row] /\ f \in Families
      /\ Planned(rows, o, ids[t], writes[t])
      /\ \A c \in Criteria \ DOMAIN writes[t] : rows'[c] = rows[c]
      /\ \A c \in DOMAIN writes[t] : rows'[c].status # "none"
  BY CommitEffect
<1>2. L(rows') = [L(rows) EXCEPT ![f] = ids[t]]
  BY CommitLists
<1>3. rows \in [Criteria -> Row] /\ DOMAIN writes[t] \subseteq Criteria
  BY AboutTxn
<1>4. UNCHANGED <<homes, answers>>
  BY DEF Commit
<1>5. PICK l \in ListsOf(rows, f) :
        \/ /\ o.kind = "save" /\ o.id = NewID /\ o.pos <= Len(l)
           /\ \E c \in Criteria :
                /\ ids[t] = InsertAt(l, o.pos + 1, c)
                /\ rows[c].status = "none"
                /\ c \in DOMAIN writes[t]
                /\ \A d \in DOMAIN writes[t] \ {c} : rows[d].status # "none"
        \/ /\ o.kind = "save" /\ o.pos < Len(l)
           /\ \E k \in 1 .. Len(l) :
                l[k] = o.id /\ ids[t] = InsertAt(RemoveAt(l, k), o.pos + 1, o.id)
           /\ \A d \in DOMAIN writes[t] : rows[d].status # "none"
        \/ /\ o.kind = "delete"
           /\ \E k \in 1 .. Len(l) : l[k] = o.id /\ ids[t] = RemoveAt(l, k)
           /\ \A d \in DOMAIN writes[t] : rows[d].status # "none"
        \/ /\ o.kind = "reorder"
           /\ ids[t] \in SetToSeqs(ActiveIn(rows, o.fam))
           /\ \A d \in DOMAIN writes[t] : rows[d].status # "none"
  BY <1>1 DEF Planned
<1>6. L(rows)[f] = l /\ ListIn(rows, f) = l
  BY <1>1, <1>3, <1>5, ChosenList
<1>7. /\ l \in SetToSeqs(ActiveIn(rows, f)) /\ Len(l) \in Nat /\ DOMAIN l = 1 .. Len(l)
      /\ \A i \in 1 .. Len(l) : l[i] \in Criteria
  <2>1. /\ l \in SetToSeqs(ActiveIn(rows, f)) /\ Len(l) \in Nat /\ DOMAIN l = 1 .. Len(l)
        /\ \A i \in 1 .. Len(l) : l[i] \in ActiveIn(rows, f)
    BY <1>5, ListElements
  <2> QED BY <2>1 DEF ActiveIn
<1>8. o.kind = "save" => o.pos \in Nat
  <2>1. Sound(rows, pc[t], op[t], ids[t], nxt[t], writes[t])
    BY AboutTxn
  <2>2. o \in SaveOp \cup DeleteOp \cup ReorderOp
    BY <2>1 DEF Commit, Sound
  <2>3. o.kind = "save" => o \in SaveOp
    BY <2>2 DEF DeleteOp, ReorderOp
  <2> QED BY <2>3 DEF SaveOp
<1>9. (\A d \in DOMAIN writes[t] : rows[d].status # "none") => SpentIn(rows') = SpentIn(rows)
  BY <1>1 DEF SpentIn
<1>10. ASSUME NEW c \in Criteria, o.kind = "save", o.pos <= Len(l),
              ids[t] = InsertAt(l, o.pos + 1, c), rows[c].status = "none",
              c \in DOMAIN writes[t],
              \A d \in DOMAIN writes[t] \ {c} : rows[d].status # "none"
       PROVE  Abs!ANext
  <2>1. SpentIn(rows') = SpentIn(rows) \cup {c} /\ c \notin SpentIn(rows)
    BY <1>1, <1>10 DEF SpentIn
  <2>2. PICK q \in 0 .. Len(l) : q = o.pos
    BY <1>7, <1>8, <1>10
  <2>3. L(rows') = [L(rows) EXCEPT ![f] = InsertAt(l, q + 1, c)] /\ q <= Len(l)
    BY <1>2, <1>10, <2>2
  <2>4. Abs!AInsert(f, c, q)
    BY <1>1, <1>4, <1>6, <2>1, <2>3, SameOperators DEF Abs!AInsert, ListIn, SpentIn
  <2> QED BY <1>1, <1>6, <2>4 DEF Abs!ANext, ListIn
<1>11. ASSUME NEW k \in 1 .. Len(l), o.kind = "save", o.pos < Len(l), l[k] = o.id,
              ids[t] = InsertAt(RemoveAt(l, k), o.pos + 1, o.id),
              \A d \in DOMAIN writes[t] : rows[d].status # "none"
       PROVE  Abs!ANext
  <2>1. o.pos \in 0 .. Len(l) /\ o.id \in Criteria
    BY <1>7, <1>8, <1>11
  <2>2. L(rows') = [L(rows) EXCEPT ![f] = InsertAt(RemoveAt(l, k), o.pos + 1, o.id)]
    BY <1>2, <1>11
  <2>3. SpentIn(rows') = SpentIn(rows)
    BY <1>9, <1>11
  <2>4. Abs!AMove(f, o.id, o.pos)
    BY <1>1, <1>4, <1>6, <1>7, <1>11, <2>2, <2>3, SameOperators DEF Abs!AMove, ListIn, SpentIn
  <2> QED BY <1>1, <1>6, <2>1, <2>4 DEF Abs!ANext, ListIn
<1>12. ASSUME NEW k \in 1 .. Len(l), l[k] = o.id, ids[t] = RemoveAt(l, k),
              \A d \in DOMAIN writes[t] : rows[d].status # "none"
       PROVE  Abs!ANext
  <2>1. o.id \in Criteria
    BY <1>7, <1>12
  <2>2. L(rows') = [L(rows) EXCEPT ![f] = RemoveAt(l, k)]
    BY <1>2, <1>12
  <2>3. SpentIn(rows') = SpentIn(rows)
    BY <1>9, <1>12
  <2>4. Abs!ARetire(f, o.id)
    BY <1>1, <1>4, <1>6, <1>7, <1>12, <2>2, <2>3, SameOperators DEF Abs!ARetire, ListIn, SpentIn
  <2> QED BY <1>1, <2>1, <2>4 DEF Abs!ANext
<1>13. ASSUME ids[t] \in SetToSeqs(ActiveIn(rows, f)),
              \A d \in DOMAIN writes[t] : rows[d].status # "none"
       PROVE  Abs!ANext
  <2>1. ToSet(l) = ActiveIn(rows, f)
    BY <1>7, ActiveFinite, EnumerationSet
  <2>2. SpentIn(rows') = SpentIn(rows)
    BY <1>9, <1>13
  <2>3. ids[t] \in SetToSeqs(ToSet(L(rows)[f]))
    BY <1>6, <1>13, <2>1
  <2>4. Abs!AReorder(f)
    BY <1>2, <1>4, <2>2, <2>3, SameOperators DEF Abs!AReorder, ListIn, SpentIn
  <2> QED BY <1>1, <2>4 DEF Abs!ANext
<1> QED BY <1>5, <1>10, <1>11, <1>12, <1>13

\* The commit of an answer is the abstract answer.
LEMMA CommitAnswerMaps ==
    ASSUME IInv, NEW t \in Txns, CommitAnswer(t)
    PROVE  Abs!ANext
<1> DEFINE h == op[t].home
           c == op[t].id
           f == HomeFamily[op[t].home]
<1>1. /\ op[t] \in AnswerOp /\ h \in homes /\ c \in ActiveIn(rows, f)
      /\ answers' = [answers EXCEPT ![<<h, c>>] = op[t].val]
      /\ UNCHANGED <<rows, homes>>
  BY CommitAnswerEffect
<1>2. h \in Homes /\ c \in Criteria /\ op[t].val \in Answers
  BY <1>1 DEF AnswerOp
<1>3. f \in Families
  BY <1>2, ChecklistAssumption
<1>4. PICK l \in ListsOf(rows, f) : TRUE
  BY <1>3, HasList
<1>5. rows \in [Criteria -> Row]
  BY AboutTxn
<1>6. ListIn(rows, f) = l
  BY <1>4, <1>5, ChosenList
<1>7. \E i \in 1 .. Len(l) : l[i] = c
  BY <1>1, <1>4, ActiveFinite, ListElements, Enumeration
<1>8. Contains(ListIn(rows, f), c)
  BY <1>6, <1>7 DEF Contains
<1>9. Abs!AAnswer(h, c, op[t].val)
  BY <1>1, <1>3, <1>8, SameOperators DEF Abs!AAnswer, ListIn
<1> QED BY <1>2, <1>9 DEF Abs!ANext

\* Every step maps to a step of the abstract checklist or to a stutter.
LEMMA NextMaps ==
    ASSUME IInv, [Next]_vars
    PROVE  [Abs!ANext]_(Abs!avars)
<1>1. CASE UNCHANGED <<rows, homes, answers>>
  BY <1>1 DEF Abs!avars
<1>2. ASSUME NEW h \in Homes, DeleteHome(h) PROVE Abs!ANext
  <2>1. Abs!ADeleteHome(h)
    BY <1>2 DEF DeleteHome, Abs!ADeleteHome
  <2> QED BY <2>1 DEF Abs!ANext
<1> QED BY <1>1, <1>2, CommitMaps, CommitAnswerMaps, OnlyCommitsChange

\* The transactions implement the abstract checklist, for any number of
\* families, criteria, homes and transactions: whatever interleaves, the
\* committed state changes by atomic operations on whole lists.
THEOREM Refinement == Spec => ImplementsAbs
<1>1. Init => Abs!AInit
  BY InitMaps
<1>2. IInv /\ [Next]_vars => [Abs!ANext]_(Abs!avars)
  BY NextMaps
<1>3. Spec => Abs!ASpec
  BY <1>1, <1>2, Inductive, PTL DEF Spec, Abs!ASpec
<1> QED BY <1>3 DEF ImplementsAbs

-----------------------------------------------------------------------------
(***************************************************************************)
(* The readers of the checklist (module Evaluation), over the lists that   *)
(* Checklist implements.  Criteria and answers are read at two moments;    *)
(* the invariant says that a criterion which is on the list now and was    *)
(* not read has been touched since.                                        *)
(***************************************************************************)

On(s) == {s[i] : i \in DOMAIN s}

\* On is the community modules' ToSet.
LEMMA ToSetIsOn == \A s : ToSet(s) = On(s)
  BY DEF ToSet, On

\* What inserting, removing and permuting put on a list.
LEMMA InsertOn ==
    ASSUME NEW S, NEW s \in Seq(S), NEW e \in S, NEW k \in 1 .. Len(s) + 1
    PROVE  InsertAt(s, k, e) \in Seq(S) /\ On(InsertAt(s, k, e)) \subseteq On(s) \cup {e}
<1> DEFINE n == InsertAt(s, k, e)
<1>1. /\ n \in Seq(S) /\ Len(n) = Len(s) + 1 /\ n[k] = e
      /\ \A i \in 1 .. k - 1 : n[i] = s[i]
      /\ \A i \in k .. Len(s) : n[i + 1] = s[i]
  BY InsertAtProperties
<1> HIDE DEF n
<1>2. Len(s) \in Nat /\ DOMAIN s = 1 .. Len(s) /\ DOMAIN n = 1 .. Len(s) + 1
  BY <1>1
<1>3. ASSUME NEW j \in DOMAIN n PROVE n[j] \in On(s) \cup {e}
  <2>1. CASE j < k
    BY <1>1, <1>2, <2>1, j \in 1 .. k - 1, j \in DOMAIN s DEF On
  <2>2. CASE j = k
    BY <1>1, <2>2
  <2>3. CASE j > k
    <3>1. j - 1 \in k .. Len(s) /\ j - 1 \in DOMAIN s /\ (j - 1) + 1 = j
      BY <1>2, <2>3
    <3> QED BY <1>1, <3>1 DEF On
  <2> QED BY <1>2, <2>1, <2>2, <2>3
<1> QED BY <1>1, <1>3 DEF On, n

\* Removing an element leaves the others.
LEMMA RemoveOn ==
    ASSUME NEW S, NEW s \in Seq(S), NEW k \in 1 .. Len(s)
    PROVE  RemoveAt(s, k) \in Seq(S) /\ On(RemoveAt(s, k)) \subseteq On(s)
<1> DEFINE n == RemoveAt(s, k)
<1>1. /\ n \in Seq(S) /\ Len(n) = Len(s) - 1
      /\ \A i \in 1 .. k - 1 : n[i] = s[i]
      /\ \A i \in k .. Len(s) - 1 : n[i] = s[i + 1]
  BY RemoveAtProperties
<1> HIDE DEF n
<1>2. Len(s) \in Nat /\ DOMAIN s = 1 .. Len(s) /\ DOMAIN n = 1 .. Len(s) - 1
  BY <1>1
<1>3. ASSUME NEW j \in DOMAIN n PROVE n[j] \in On(s)
  <2>1. CASE j < k
    BY <1>1, <1>2, <2>1, j \in 1 .. k - 1, j \in DOMAIN s DEF On
  <2>2. CASE j >= k
    BY <1>1, <1>2, <2>2, j \in k .. Len(s) - 1, j + 1 \in DOMAIN s DEF On
  <2> QED BY <1>2, <2>1, <2>2
<1> QED BY <1>1, <1>3 DEF On, n

\* A permutation lists the same elements.
LEMMA PermuteOn ==
    ASSUME NEW S, NEW s \in Seq(S), NEW n \in SetToSeqs(On(s))
    PROVE  n \in Seq(S) /\ On(n) \subseteq On(s)
<1>1. Len(s) \in Nat /\ DOMAIN s = 1 .. Len(s) /\ On(s) \subseteq S
  BY DEF On
<1>2. IsFiniteSet(On(s))
  <2>1. IsFiniteSet(1 .. Len(s))
    BY <1>1, FS_Interval
  <2>2. s \in Surjection(1 .. Len(s), On(s))
    BY <1>1 DEF On, Surjection
  <2> QED BY <2>1, <2>2, FS_Surjection
<1>3. n \in Seq(On(s)) /\ DOMAIN n = 1 .. Len(n)
  BY <1>2, Enumeration
<1>4. \A i \in DOMAIN n : n[i] \in On(s)
  BY <1>3
<1>5. n \in Seq(S)
  BY <1>1, <1>3
<1> QED BY <1>4, <1>5 DEF On

\* Handlers before and after they have read the criteria.
AtCriteria(q) == q = [pc |-> "criteria", fam |-> q.fam, listed |-> q.listed, touched |-> q.touched]
AtAnswers(q) == q = [pc |-> "answers", fam |-> q.fam, listed |-> q.listed, touched |-> q.touched,
                     criteria |-> q.criteria]

\* What a reader shows of the lists ls: whoever is on them is touched or read.
Covered(q, ls) ==
    \A h \in q.listed, c \in On(ls[q.fam]) :
        <<h, c>> \notin q.touched => \E i \in DOMAIN q.criteria : q.criteria[i].id = c

SoundRead(q, ls) ==
    \/ q.pc \in {"idle", "done"}
    \/ AtCriteria(q) /\ q.fam \in Families /\ q.listed \subseteq Homes
    \/ AtAnswers(q) /\ q.fam \in Families /\ q.listed \subseteq Homes /\ Covered(q, ls)

ReadInv ==
    /\ list \in [Families -> Seq(Criteria)]
    /\ homes \subseteq Homes
    /\ reqs = [r \in Reqs |-> reqs[r]]
    /\ \A r \in Reqs : SoundRead(reqs[r], list)

\* The update of a reader's history leaves the rest of it alone.
LEMMA TouchRecord ==
    ASSUME NEW q, NEW t
    PROVE  /\ AtCriteria(q) =>
                 [q EXCEPT !.touched = t] =
                    [pc |-> "criteria", fam |-> q.fam, listed |-> q.listed, touched |-> t]
           /\ AtAnswers(q) =>
                 [q EXCEPT !.touched = t] =
                    [pc |-> "answers", fam |-> q.fam, listed |-> q.listed, touched |-> t,
                     criteria |-> q.criteria]
<1>1. ASSUME NEW f, NEW l, NEW u
      PROVE  [[pc |-> "criteria", fam |-> f, listed |-> l, touched |-> u] EXCEPT !.touched = t] =
                [pc |-> "criteria", fam |-> f, listed |-> l, touched |-> t]
  OBVIOUS
<1>2. ASSUME NEW f, NEW l, NEW u, NEW k
      PROVE  [[pc |-> "answers", fam |-> f, listed |-> l, touched |-> u, criteria |-> k]
                    EXCEPT !.touched = t] =
                [pc |-> "answers", fam |-> f, listed |-> l, touched |-> t, criteria |-> k]
  OBVIOUS
<1>3. ASSUME AtCriteria(q)
      PROVE  [q EXCEPT !.touched = t] =
                    [pc |-> "criteria", fam |-> q.fam, listed |-> q.listed, touched |-> t]
  <2>1. q = [pc |-> "criteria", fam |-> q.fam, listed |-> q.listed, touched |-> q.touched]
    BY <1>3, Zenon DEF AtCriteria
  <2> QED BY <1>1, <2>1, Zenon
<1>4. ASSUME AtAnswers(q)
      PROVE  [q EXCEPT !.touched = t] =
                    [pc |-> "answers", fam |-> q.fam, listed |-> q.listed, touched |-> t,
                     criteria |-> q.criteria]
  <2>1. q = [pc |-> "answers", fam |-> q.fam, listed |-> q.listed, touched |-> q.touched,
             criteria |-> q.criteria]
    BY <1>4, Zenon DEF AtAnswers
  <2> DEFINE f == q.fam
             l == q.listed
             u == q.touched
             k == q.criteria
  <2>2. q = [pc |-> "answers", fam |-> f, listed |-> l, touched |-> u, criteria |-> k]
    BY <2>1
  <2> HIDE DEF f, l, u, k
  <2>3. [q EXCEPT !.touched = t] =
            [pc |-> "answers", fam |-> f, listed |-> l, touched |-> t, criteria |-> k]
    BY <2>2
  <2> QED BY <2>3 DEF f, l, u, k
<1> QED BY <1>3, <1>4

\* Whoever reads while cells are written learns of those it asked for.
LEMMA TouchKeeps ==
    ASSUME ReadInv, NEW cells, Touch(cells), list' \in [Families -> Seq(Criteria)],
           homes' \subseteq homes,
           \A f \in Families : \A c \in On(list'[f]) \ On(list[f]) : \A h \in Homes : <<h, c>> \in cells
    PROVE  ReadInv'
<1>1. ASSUME NEW r \in Reqs PROVE SoundRead(reqs'[r], list')
  <2> DEFINE q == reqs[r]
             t == q.touched \cup {cell \in cells : cell[1] \in q.listed}
             n == [q EXCEPT !.touched = t]
  <2>1. reqs'[r] = IF q.pc \in {"idle", "done"} THEN q ELSE n
    BY DEF Touch
  <2>0. SoundRead(q, list)
    BY DEF ReadInv
  <2>2. CASE q.pc \in {"idle", "done"}
    BY <2>1, <2>2 DEF SoundRead
  <2>3. CASE q.pc \notin {"idle", "done"} /\ AtCriteria(q)
    <3>1. n = [pc |-> "criteria", fam |-> q.fam, listed |-> q.listed, touched |-> t]
      BY <2>3, TouchRecord
    <3>2. q.fam \in Families /\ q.listed \subseteq Homes
      BY <2>0, <2>3 DEF SoundRead
    <3>3. reqs'[r] = n
      BY <2>1, <2>3
    <3> HIDE DEF t, n, q
    <3>4. AtCriteria(n) /\ n.fam \in Families /\ n.listed \subseteq Homes
      BY <3>1, <3>2 DEF AtCriteria
    <3> QED BY <3>3, <3>4 DEF SoundRead
  <2>4. CASE q.pc \notin {"idle", "done"} /\ ~AtCriteria(q)
    <3>0. AtAnswers(q) /\ q.fam \in Families /\ q.listed \subseteq Homes /\ Covered(q, list)
      BY <2>0, <2>4 DEF SoundRead
    <3>1. n = [pc |-> "answers", fam |-> q.fam, listed |-> q.listed, touched |-> t,
               criteria |-> q.criteria]
      BY <3>0, TouchRecord
    <3>2. reqs'[r] = n
      BY <2>1, <2>4
    <3>3. ASSUME NEW h \in q.listed, NEW c \in On(list'[q.fam]), <<h, c>> \notin t
          PROVE  \E i \in DOMAIN q.criteria : q.criteria[i].id = c
      <4>1. <<h, c>> \notin cells /\ <<h, c>> \notin q.touched
        BY <3>3
      <4>2. c \in On(list[q.fam])
        BY <3>0, <3>3, <4>1
      <4> QED BY <3>0, <4>1, <4>2 DEF Covered
    <3> HIDE DEF t, n, q
    <3>4. /\ AtAnswers(n) /\ n.fam = q.fam /\ n.listed = q.listed /\ n.touched = t
          /\ n.criteria = q.criteria
      BY <3>1 DEF AtAnswers
    <3>5. Covered(n, list')
      BY <3>3, <3>4 DEF Covered
    <3> QED BY <3>0, <3>2, <3>4, <3>5 DEF SoundRead
  <2> QED BY <2>2, <2>3, <2>4
<1>2. reqs' = [r \in Reqs |-> reqs'[r]]
  BY DEF Touch
<1> QED BY <1>1, <1>2 DEF ReadInv

\* One lemma per writer: only a criterion whose cells are touched comes on a
\* list.
LEMMA SaveHousingCriterionReads ==
    ASSUME ReadInv, NEW f \in Families, NEW c \in Criteria, NEW p \in 0 .. Len(list[f]), NEW w,
           SaveHousingCriterion(f, c, p, w)
    PROVE  ReadInv'
<1> DEFINE cells == Homes \X {c}
<1>1. list \in [Families -> Seq(Criteria)] /\ list[f] \in Seq(Criteria) /\ Len(list[f]) \in Nat
  BY DEF ReadInv
<1>2. \E n \in Seq(Criteria) : On(n) \subseteq On(list[f]) \cup {c} /\ list' = [list EXCEPT ![f] = n]
  <2>1. CASE AInsert(f, c, p)
    <3>1. list' = [list EXCEPT ![f] = InsertAt(list[f], p + 1, c)]
      BY <2>1, ToSetIsOn DEF AInsert
    <3>2. p + 1 \in 1 .. Len(list[f]) + 1
      BY <1>1
    <3> QED BY <1>1, <3>1, <3>2, InsertOn
  <2>2. CASE AMove(f, c, p)
    <3>1. PICK i \in DOMAIN list[f] :
            list' = [list EXCEPT ![f] = InsertAt(RemoveAt(list[f], i), p + 1, c)]
      BY <2>2, ToSetIsOn DEF AMove
    <3> DEFINE m == RemoveAt(list[f], i)
    <3>2. i \in 1 .. Len(list[f]) /\ p < Len(list[f])
      BY <1>1, <2>2 DEF AMove
    <3>3. m \in Seq(Criteria) /\ On(m) \subseteq On(list[f]) /\ Len(m) = Len(list[f]) - 1
      BY <1>1, <3>2, RemoveOn, RemoveAtProperties
    <3> HIDE DEF m
    <3>4. p + 1 \in 1 .. Len(m) + 1
      BY <1>1, <3>2, <3>3
    <3>5. InsertAt(m, p + 1, c) \in Seq(Criteria) /\ On(InsertAt(m, p + 1, c)) \subseteq On(m) \cup {c}
      BY <3>3, <3>4, InsertOn
    <3>6. list' = [list EXCEPT ![f] = InsertAt(m, p + 1, c)]
      BY <3>1 DEF m
    <3>7. On(InsertAt(m, p + 1, c)) \subseteq On(list[f]) \cup {c}
      BY <3>3, <3>5
    <3> QED BY <3>5, <3>6, <3>7
  <2> QED BY <2>1, <2>2 DEF SaveHousingCriterion
<1>3. PICK n \in Seq(Criteria) : On(n) \subseteq On(list[f]) \cup {c} /\ list' = [list EXCEPT ![f] = n]
  BY <1>2
<1>4. list' \in [Families -> Seq(Criteria)]
  BY <1>1, <1>3
<1>5. ASSUME NEW g \in Families, NEW d \in On(list'[g]) \ On(list[g]), NEW h \in Homes
      PROVE  <<h, d>> \in cells
  <2>1. g = f /\ d = c
    BY <1>1, <1>3, <1>5
  <2> QED BY <2>1
<1>6. homes' \subseteq homes /\ Touch(cells)
  BY DEF SaveHousingCriterion, AInsert, AMove
<1> HIDE DEF cells
<1> QED BY <1>4, <1>5, <1>6, TouchKeeps

\* Retiring a criterion disturbs the readers of its answers.
LEMMA DeleteHousingCriterionReads ==
    ASSUME ReadInv, NEW f \in Families, NEW c \in Criteria, DeleteHousingCriterion(f, c)
    PROVE  ReadInv'
<1> DEFINE cells == Homes \X {c}
<1>1. list \in [Families -> Seq(Criteria)] /\ list[f] \in Seq(Criteria)
  BY DEF ReadInv
<1>2. PICK i \in DOMAIN list[f] : list' = [list EXCEPT ![f] = RemoveAt(list[f], i)]
  BY ToSetIsOn DEF DeleteHousingCriterion, ARetire
<1>3. RemoveAt(list[f], i) \in Seq(Criteria) /\ On(RemoveAt(list[f], i)) \subseteq On(list[f])
  BY <1>1, <1>2, RemoveOn
<1>4. list' \in [Families -> Seq(Criteria)] /\ \A g \in Families : On(list'[g]) \subseteq On(list[g])
  BY <1>1, <1>2, <1>3
<1>5. homes' \subseteq homes /\ Touch(cells)
  BY DEF DeleteHousingCriterion, ARetire
<1> HIDE DEF cells
<1> QED BY <1>4, <1>5, TouchKeeps

\* Reordering adds no criterion to a list.
LEMMA ReorderHousingCriteriaReads ==
    ASSUME ReadInv, NEW f \in Families, ReorderHousingCriteria(f)
    PROVE  ReadInv'
<1>1. list \in [Families -> Seq(Criteria)] /\ list[f] \in Seq(Criteria)
  BY DEF ReadInv
<1>2. PICK s \in SetToSeqs(On(list[f])) : list' = [list EXCEPT ![f] = s]
  BY ToSetIsOn DEF ReorderHousingCriteria, AReorder
<1>3. s \in Seq(Criteria) /\ On(s) \subseteq On(list[f])
  BY <1>1, <1>2, PermuteOn
<1>4. list' \in [Families -> Seq(Criteria)] /\ \A g \in Families : On(list'[g]) \subseteq On(list[g])
  BY <1>1, <1>2, <1>3
<1>5. homes' \subseteq homes /\ Touch({})
  BY DEF ReorderHousingCriteria, AReorder
<1> QED BY <1>4, <1>5, TouchKeeps

\* Answers and homes come and go without a change of the lists.
LEMMA SaveHousingAnswerReads ==
    ASSUME ReadInv, NEW h \in Homes, NEW c \in Criteria, NEW a, SaveHousingAnswer(h, c, a)
    PROVE  ReadInv'
<1>1. list' = list /\ homes' = homes /\ Touch({<<h, c>>})
  BY DEF SaveHousingAnswer, AAnswer
<1>2. list' \in [Families -> Seq(Criteria)]
  BY <1>1 DEF ReadInv
<1> QED BY <1>1, <1>2, TouchKeeps

\* Deleting a home disturbs the readers of its answers.
LEMMA DeleteHousingOptionReads ==
    ASSUME ReadInv, NEW h \in Homes, DeleteHousingOption(h)
    PROVE  ReadInv'
<1> DEFINE cells == {h} \X Criteria
<1>1. list' = list /\ homes' \subseteq homes /\ Touch(cells)
  BY DEF DeleteHousingOption, ADeleteHome
<1>2. list' \in [Families -> Seq(Criteria)]
  BY <1>1 DEF ReadInv
<1> HIDE DEF cells
<1> QED BY <1>1, <1>2, TouchKeeps

\* A step of one reader.
LEMMA ReaderStep ==
    ASSUME ReadInv, NEW r \in Reqs, NEW n, reqs' = [reqs EXCEPT ![r] = n],
           UNCHANGED <<list, homes>>, SoundRead(n, list)
    PROVE  ReadInv'
<1>1. reqs' = [x \in Reqs |-> IF x = r THEN n ELSE reqs[x]]
  BY DEF ReadInv
<1>2. ASSUME NEW x \in Reqs PROVE SoundRead(reqs'[x], list)
  BY <1>1 DEF ReadInv
<1>3. reqs' = [x \in Reqs |-> reqs'[x]]
  BY <1>1
<1> QED BY <1>2, <1>3 DEF ReadInv

\* A reader that has listed the homes has yet to read the criteria.
LEMMA ReadingReads ==
    ASSUME ReadInv, NEW r \in Reqs, NEW f \in Families, NEW listed \in SUBSET Homes,
           reqs' = [reqs EXCEPT ![r] = Reading(f, listed)], UNCHANGED <<list, homes>>
    PROVE  ReadInv'
<1>1. SoundRead(Reading(f, listed), list)
  BY DEF SoundRead, AtCriteria, Reading
<1> QED BY <1>1, ReaderStep

\* What is read now covers what is on the list now.
LEMMA ListHousingCriteriaReads ==
    ASSUME ReadInv, NEW r \in Reqs, ListHousingCriteria(r)
    PROVE  ReadInv'
<1> DEFINE q == reqs[r]
           k == CriteriaRead(q.fam)
           n == [pc |-> "answers", fam |-> q.fam, listed |-> q.listed, touched |-> q.touched,
                 criteria |-> k]
<1>1. q.fam \in Families /\ q.listed \subseteq Homes
  BY DEF ListHousingCriteria, ReadInv, SoundRead
<1>2. ASSUME NEW c \in On(list[q.fam])
      PROVE  \E i \in DOMAIN k : k[i].id = c
  <2>1. PICK i \in DOMAIN list[q.fam] : list[q.fam][i] = c
    BY <1>2 DEF On
  <2> QED BY <2>1 DEF CriteriaRead
<1>3. reqs' = [reqs EXCEPT ![r] = n] /\ UNCHANGED <<list, homes>>
  BY DEF ListHousingCriteria
<1> HIDE DEF k, q
<1>4. /\ AtAnswers(n) /\ n.fam = q.fam /\ n.listed = q.listed /\ n.touched = q.touched
      /\ n.criteria = k
  BY DEF AtAnswers
<1> HIDE DEF n
<1>5. SoundRead(n, list)
  BY <1>1, <1>2, <1>4 DEF SoundRead, Covered
<1> QED BY <1>3, <1>5, ReaderStep

\* The last statement of a reader, and sending its reply.
LEMMA EndReads ==
    ASSUME ReadInv, NEW r \in Reqs, ListHousingAnswers(r) \/ Finish(r)
    PROVE  ReadInv'
<1>1. CASE Finish(r)
  <2>1. reqs' = [reqs EXCEPT ![r] = Idle] /\ UNCHANGED <<list, homes>>
    BY <1>1 DEF Finish
  <2>2. SoundRead(Idle, list)
    BY DEF Idle, SoundRead
  <2> QED BY <2>1, <2>2, ReaderStep
<1>2. CASE ListHousingAnswers(r)
  <2> DEFINE k == reqs[r].criteria
             active == {k[i].id : i \in DOMAIN k}
             read == [h \in reqs[r].listed |-> AnswersRead(reqs[r].fam, h)]
             given == [h \in reqs[r].listed |->
                         [c \in DOMAIN read[h] \cap active |-> read[h][c]]]
             summary == [h \in reqs[r].listed |-> SummarizeHousingEvaluation(k, given[h])]
  <2>1. /\ reqs' = [reqs EXCEPT ![r] = [pc |-> "done", given |-> given, summary |-> summary]]
        /\ UNCHANGED <<list, homes>>
    BY <1>2 DEF ListHousingAnswers
  <2> HIDE DEF given, summary
  <2>2. SoundRead([pc |-> "done", given |-> given, summary |-> summary], list)
    BY DEF SoundRead
  <2> QED BY <2>1, <2>2, ReaderStep
<1> QED BY <1>1, <1>2

\* No reader is under way at first.
LEMMA ReadInit ==
    ASSUME EvaluationInit
    PROVE  ReadInv
<1>1. reqs = [r \in Reqs |-> Idle] /\ homes = Homes /\ list = [f \in Families |-> <<>>]
  BY DEF EvaluationInit, AInit
<1>2. Idle.pc = "idle"
  BY DEF Idle
<1>3. \A r \in Reqs : SoundRead(reqs[r], list)
  BY <1>1, <1>2 DEF SoundRead
<1>4. list \in [Families -> Seq(Criteria)]
  BY <1>1
<1> QED BY <1>1, <1>3, <1>4 DEF ReadInv

\* Every step keeps what holds of the readers.
LEMMA ReadNext ==
    ASSUME ReadInv, [EvaluationNext]_evaluationVars
    PROVE  ReadInv'
<1>1. CASE UNCHANGED evaluationVars
  <2>1. list' = list /\ homes' = homes /\ reqs' = reqs
    BY <1>1 DEF evaluationVars
  <2> QED BY <2>1 DEF ReadInv
<1>2. ASSUME NEW f \in Families, NEW c \in Criteria, NEW p \in 0 .. Len(list[f]), NEW w \in WeightForms,
             SaveHousingCriterion(f, c, p, w)
      PROVE  ReadInv'
  BY <1>2, SaveHousingCriterionReads
<1>3. ASSUME NEW f \in Families, NEW c \in Criteria, DeleteHousingCriterion(f, c) PROVE ReadInv'
  BY <1>3, DeleteHousingCriterionReads
<1>4. ASSUME NEW f \in Families, ReorderHousingCriteria(f) PROVE ReadInv'
  BY <1>4, ReorderHousingCriteriaReads
<1>5. ASSUME NEW h \in Homes, NEW c \in Criteria, NEW a \in Answers, SaveHousingAnswer(h, c, a)
      PROVE  ReadInv'
  BY <1>5, SaveHousingAnswerReads
<1>6. ASSUME NEW h \in Homes, DeleteHousingOption(h) PROVE ReadInv'
  BY <1>6, DeleteHousingOptionReads
<1>7. ASSUME NEW r \in Reqs, NEW h \in Homes, GetHousingEvaluation(r, h) PROVE ReadInv'
  <2>1. HomeFamily[h] \in Families /\ {h} \in SUBSET Homes
    BY EvaluationAssumption
  <2>2. reqs' = [reqs EXCEPT ![r] = Reading(HomeFamily[h], {h})] /\ UNCHANGED <<list, homes>>
    BY <1>7 DEF GetHousingEvaluation
  <2> QED BY <2>1, <2>2, ReadingReads
<1>8. ASSUME NEW r \in Reqs, NEW f \in Families, ListHousingOptions(r, f) PROVE ReadInv'
  <2> DEFINE listed == {h \in homes : HomeFamily[h] = f}
  <2>1. listed \in SUBSET Homes
    BY DEF ReadInv
  <2>2. reqs' = [reqs EXCEPT ![r] = Reading(f, listed)] /\ UNCHANGED <<list, homes>>
    BY <1>8 DEF ListHousingOptions
  <2> HIDE DEF listed
  <2> QED BY <2>1, <2>2, ReadingReads
<1>9. ASSUME NEW r \in Reqs, ListHousingCriteria(r) PROVE ReadInv'
  BY <1>9, ListHousingCriteriaReads
<1>10. ASSUME NEW r \in Reqs, ListHousingAnswers(r) \/ Finish(r) PROVE ReadInv'
  BY <1>10, EndReads
<1> QED BY <1>1, <1>2, <1>3, <1>4, <1>5, <1>6, <1>7, <1>8, <1>9, <1>10 DEF EvaluationNext

\* Only ListHousingAnswers(r) completes the request of r.
LEMMA OnlyAnswersComplete ==
    ASSUME ReadInv, [EvaluationNext]_evaluationVars, NEW r \in Reqs,
           reqs[r].pc = "answers", reqs'[r].pc = "done"
    PROVE  ListHousingAnswers(r)
<1>1. ASSUME NEW cells, Touch(cells) PROVE FALSE
  <2> DEFINE t == reqs[r].touched \cup {cell \in cells : cell[1] \in reqs[r].listed}
  <2>1. reqs'[r] = [reqs[r] EXCEPT !.touched = t]
    BY <1>1 DEF Touch
  <2>2. AtAnswers(reqs[r])
    BY DEF ReadInv, SoundRead, AtCriteria
  <2> HIDE DEF t
  <2>3. reqs'[r] = [pc |-> "answers", fam |-> reqs[r].fam, listed |-> reqs[r].listed,
                     touched |-> t, criteria |-> reqs[r].criteria]
    BY <2>1, <2>2, TouchRecord
  <2> QED BY <2>3
<1>2. ASSUME NEW x \in Reqs, NEW n, reqs' = [reqs EXCEPT ![x] = n],
             n.pc # "done" \/ x # r
      PROVE  FALSE
  <2>1. reqs'[r] = IF x = r THEN n ELSE reqs[r]
    BY <1>2 DEF ReadInv
  <2> QED BY <1>2, <2>1
<1>3. ASSUME UNCHANGED evaluationVars PROVE FALSE
  BY <1>3 DEF evaluationVars
<1>4. ASSUME NEW f \in Families, NEW c \in Criteria, NEW p, NEW w,
             SaveHousingCriterion(f, c, p, w) \/ DeleteHousingCriterion(f, c)
      PROVE  FALSE
  <2>1. Touch(Homes \X {c})
    BY <1>4 DEF SaveHousingCriterion, DeleteHousingCriterion
  <2> QED BY <1>1, <2>1
<1>5. ASSUME NEW f \in Families, ReorderHousingCriteria(f) PROVE FALSE
  <2>1. Touch({})
    BY <1>5 DEF ReorderHousingCriteria
  <2> QED BY <1>1, <2>1
<1>6. ASSUME NEW h \in Homes, NEW c \in Criteria, NEW a, SaveHousingAnswer(h, c, a) PROVE FALSE
  <2>1. Touch({<<h, c>>})
    BY <1>6 DEF SaveHousingAnswer
  <2> QED BY <1>1, <2>1
<1>7. ASSUME NEW h \in Homes, DeleteHousingOption(h) PROVE FALSE
  <2>1. Touch({h} \X Criteria)
    BY <1>7 DEF DeleteHousingOption
  <2> QED BY <1>1, <2>1
<1>8. ASSUME NEW x \in Reqs, NEW h, GetHousingEvaluation(x, h) PROVE FALSE
  <2>1. reqs' = [reqs EXCEPT ![x] = Reading(HomeFamily[h], {h})]
    BY <1>8 DEF GetHousingEvaluation
  <2>2. Reading(HomeFamily[h], {h}).pc # "done"
    BY DEF Reading
  <2> QED BY <1>2, <2>1, <2>2
<1>9. ASSUME NEW x \in Reqs, NEW f, ListHousingOptions(x, f) PROVE FALSE
  <2> DEFINE n == Reading(f, {h \in homes : HomeFamily[h] = f})
  <2>1. reqs' = [reqs EXCEPT ![x] = n]
    BY <1>9 DEF ListHousingOptions
  <2>2. n.pc # "done"
    BY DEF Reading
  <2> HIDE DEF n
  <2> QED BY <1>2, <2>1, <2>2
<1>10. ASSUME NEW x \in Reqs, ListHousingCriteria(x) PROVE FALSE
  <2> DEFINE k == CriteriaRead(reqs[x].fam)
             n == [pc |-> "answers", fam |-> reqs[x].fam, listed |-> reqs[x].listed,
                   touched |-> reqs[x].touched, criteria |-> k]
  <2>1. reqs' = [reqs EXCEPT ![x] = n]
    BY <1>10 DEF ListHousingCriteria
  <2> HIDE DEF k
  <2>2. n.pc # "done"
    OBVIOUS
  <2> HIDE DEF n
  <2> QED BY <1>2, <2>1, <2>2
<1>11. ASSUME NEW x \in Reqs, Finish(x) PROVE FALSE
  <2>1. reqs' = [reqs EXCEPT ![x] = Idle]
    BY <1>11 DEF Finish
  <2>2. Idle.pc # "done"
    BY DEF Idle
  <2> QED BY <1>2, <2>1, <2>2
<1>12. ASSUME NEW x \in Reqs, ListHousingAnswers(x) PROVE ListHousingAnswers(r)
  <2>1. \E n : reqs' = [reqs EXCEPT ![x] = n]
    BY <1>12, Zenon DEF ListHousingAnswers
  <2>2. x = r
    BY <1>2, <2>1
  <2> QED BY <1>12, <2>2
<1> QED BY <1>3, <1>4, <1>5, <1>6, <1>7, <1>8, <1>9, <1>10, <1>11, <1>12 DEF EvaluationNext

\* Whoever is about to read the answers has covered the list.
LEMMA BeforeAnswers ==
    ASSUME ReadInv, NEW r \in Reqs, reqs[r].pc = "answers"
    PROVE  Covered(reqs[r], list)
<1>1. ~AtCriteria(reqs[r])
  BY DEF AtCriteria
<1> QED BY <1>1 DEF ReadInv, SoundRead

\* The reply of ListHousingAnswers has every untouched answer.
LEMMA ReplyShowsUntouched ==
    ASSUME ReadInv, NEW r \in Reqs, ListHousingAnswers(r),
           NEW h \in reqs[r].listed, NEW c \in On(list[reqs[r].fam]),
           <<h, c>> \notin reqs[r].touched, answers[h, c] # NoAnswer
    PROVE  c \in DOMAIN reqs'[r].given[h] /\ reqs'[r].given[h][c] = answers[h, c]
<1> DEFINE k == reqs[r].criteria
           active == {k[i].id : i \in DOMAIN k}
           read == [x \in reqs[r].listed |-> AnswersRead(reqs[r].fam, x)]
           given == [x \in reqs[r].listed |-> [d \in DOMAIN read[x] \cap active |-> read[x][d]]]
           summary == [x \in reqs[r].listed |-> SummarizeHousingEvaluation(k, given[x])]
           n == [pc |-> "done", given |-> given, summary |-> summary]
<1>1. reqs' = [reqs EXCEPT ![r] = n]
  BY DEF ListHousingAnswers
<1>2. Covered(reqs[r], list)
  <2>1. reqs[r].pc = "answers"
    BY DEF ListHousingAnswers
  <2> QED BY <2>1, BeforeAnswers
<1>3. c \in active
  BY <1>2 DEF Covered
<1>4. c \in DOMAIN read[h] /\ read[h][c] = answers[h, c]
  BY ToSetIsOn DEF AnswersRead
<1> HIDE DEF active, read
<1>5. c \in DOMAIN given[h] /\ given[h][c] = answers[h, c]
  BY <1>3, <1>4
<1> HIDE DEF given, summary
<1>6. n.given = given
  OBVIOUS
<1> HIDE DEF n
<1>7. reqs'[r] = n
  BY <1>1 DEF ReadInv
<1> QED BY <1>5, <1>6, <1>7

\* An answer nobody touched while a request was running is in its reply
\* (UntouchedAnswersShown), although criteria and answers are read at
\* different moments.
THEOREM UntouchedAreShown ==
    EvaluationSpec => UntouchedAnswersShown
<1> DEFINE Shown(r) ==
       reqs[r].pc = "answers" /\ reqs'[r].pc = "done" =>
          \A h \in reqs[r].listed, c \in ToSet(list[reqs[r].fam]) :
              <<h, c>> \notin reqs[r].touched /\ answers[h, c] # NoAnswer =>
                  /\ c \in DOMAIN reqs'[r].given[h]
                  /\ reqs'[r].given[h][c] = answers[h, c]
<1>1. ASSUME ReadInv, [EvaluationNext]_evaluationVars PROVE \A r \in Reqs : Shown(r)
  BY <1>1, OnlyAnswersComplete, ReplyShowsUntouched, ToSetIsOn
<1>2. EvaluationInit => ReadInv
  BY ReadInit
<1>3. ReadInv /\ [EvaluationNext]_evaluationVars => ReadInv'
  BY ReadNext
<1>4. ReadInv /\ [EvaluationNext]_evaluationVars => [\A r \in Reqs : Shown(r)]_evaluationVars
  BY <1>1
<1> QED BY <1>2, <1>3, <1>4, PTL DEF EvaluationSpec, UntouchedAnswersShown

-----------------------------------------------------------------------------
(* Summaries.                                                              *)

\* What SummaryIsSound says of a summary.
SoundSummary(s) ==
    /\ s.completed <= s.rated
    /\ s.rated + s.notApplicable <= s.total
    /\ (s.score = None) <=> (s.rated = 0)
    /\ s.score # None => s.score[2] <= s.score[1] /\ s.score[1] <= 5 * s.score[2]

Weights == {NoWeight} \cup 1 .. 1000

\* The two sums of a score, as sums over the rated criteria.
LEMMA ScoreSums ==
    ASSUME NEW S, IsFiniteSet(S), NEW criteria, NEW given,
           \A i \in S : given[criteria[i].id].rating \in 1 .. 5 /\ criteria[i].weight \in Weights
    PROVE  /\ RatingSum(criteria, given, S) \in Int
           /\ WeightSum(criteria, S) \in Int
           /\ WeightSum(criteria, S) <= RatingSum(criteria, given, S)
           /\ RatingSum(criteria, given, S) <= 5 * WeightSum(criteria, S)
<1> DEFINE Of(i) == Factor(criteria[i])
           Term(i) == given[criteria[i].id].rating * Of(i)
           v == [i \in S |-> Of(i)]
           w == [i \in S |-> Term(i)]
           a == CHOOSE g : g = [s \in SUBSET S |->
                  IF s = {} THEN 0 ELSE Term(Choice(s)) + g[s \ {Choice(s)}]]
           b == CHOOSE g : g = [s \in SUBSET S |->
                  IF s = {} THEN 0 ELSE Of(Choice(s)) + g[s \ {Choice(s)}]]
<1>1. RatingSum(criteria, given, S) = a[S] /\ WeightSum(criteria, S) = b[S]
  BY DEF RatingSum, WeightSum, MapThenSumSet, MapThenFoldSet, Choice
<1>2. Picks(Pick(S), S)
  BY PickPicks
<1>6. ASSUME NEW i \in S
      PROVE  /\ Of(i) \in Int /\ Term(i) \in Int
             /\ Of(i) <= Term(i) /\ Term(i) <= 5 * Of(i)
  <2> DEFINE q == given[criteria[i].id].rating
             f == Of(i)
  <2>1. q \in 1 .. 5
    OBVIOUS
  <2>2. f \in Int /\ f >= 1
    <3> DEFINE x == criteria[i].weight
    <3>1. x \in Weights /\ f = IF x = NoWeight THEN 1 ELSE x
      BY DEF Factor
    <3> HIDE DEF x, f
    <3> QED BY <3>1 DEF Weights
  <2> HIDE DEF q, f
  <2>3. q * f \in Int /\ f <= q * f /\ q * f <= 5 * f
    <3>1. CASE q = 1 BY <2>2, <3>1
    <3>2. CASE q = 2 BY <2>2, <3>2
    <3>3. CASE q = 3 BY <2>2, <3>3
    <3>4. CASE q = 4 BY <2>2, <3>4
    <3>5. CASE q = 5 BY <2>2, <3>5
    <3>6. q = 1 \/ q = 2 \/ q = 3 \/ q = 4 \/ q = 5
      BY <2>1
    <3> QED BY <3>1, <3>2, <3>3, <3>4, <3>5, <3>6
  <2> QED BY <2>2, <2>3 DEF q, f
<1> HIDE DEF Of, Term
<1>3. ASSUME NEW s \in SUBSET S, s # {}
      PROVE  /\ Pick(S)[s] = Choice(s)
             /\ v[Pick(S)[s]] = Of(Choice(s))
             /\ w[Pick(S)[s]] = Term(Choice(s))
  <2>1. Pick(S)[s] = Choice(s) /\ Choice(s) \in S
    BY <1>2, <1>3 DEF Pick, Picks
  <2> QED BY <2>1
<1>4. Sums(a, S, w, Pick(S))
  <2> HIDE DEF w
  <2>1. PICK g : Sums(g, S, w, Pick(S))
    BY <1>2, SumsExist
  <2>2. g = [s \in SUBSET S |-> IF s = {} THEN 0 ELSE Term(Choice(s)) + g[s \ {Choice(s)}]]
    BY <1>3, <2>1 DEF Sums
  <2>3. a = [s \in SUBSET S |-> IF s = {} THEN 0 ELSE Term(Choice(s)) + a[s \ {Choice(s)}]]
    BY <2>2, Zenon
  <2> HIDE DEF a
  <2> QED BY <1>3, <2>3 DEF Sums
<1>5. Sums(b, S, v, Pick(S))
  <2> HIDE DEF v
  <2>1. PICK g : Sums(g, S, v, Pick(S))
    BY <1>2, SumsExist
  <2>2. g = [s \in SUBSET S |-> IF s = {} THEN 0 ELSE Of(Choice(s)) + g[s \ {Choice(s)}]]
    BY <1>3, <2>1 DEF Sums
  <2>3. b = [s \in SUBSET S |-> IF s = {} THEN 0 ELSE Of(Choice(s)) + b[s \ {Choice(s)}]]
    BY <2>2, Zenon
  <2> HIDE DEF b
  <2> QED BY <1>3, <2>3 DEF Sums
<1>7. v \in [S -> Int] /\ w \in [S -> Int]
  BY <1>6
<1>8. \A i \in S : v[i] <= w[i] /\ w[i] <= 5 * v[i]
  BY <1>6
<1> HIDE DEF a, b, v, w
<1>9. a[S] \in Int /\ b[S] \in Int /\ b[S] <= a[S]
  <2> DEFINE one == 1
  <2>1. one \in Int /\ \A i \in S : v[i] <= one * w[i]
    <3>1. \A i \in S : w[i] \in Int /\ v[i] \in Int
      BY <1>7
    <3> QED BY <1>8, <3>1
  <2> HIDE DEF one
  <2>2. a[S] \in Int /\ b[S] \in Int /\ b[S] <= one * a[S]
    BY <1>2, <1>4, <1>5, <1>7, <2>1, SumsCompare
  <2> QED BY <2>2 DEF one
<1>10. a[S] <= 5 * b[S]
  BY <1>2, <1>4, <1>5, <1>7, <1>8, SumsCompare
<1> QED BY <1>1, <1>9, <1>10

\* A summary of any criteria and valid answers is sound.
LEMMA SummarizeSound ==
    ASSUME NEW criteria \in Seq([id : Criteria, weight : Weights]),
           NEW given, \A c \in DOMAIN given : ValidateHousingAnswer(given[c])
    PROVE  SoundSummary(SummarizeHousingEvaluation(criteria, given))
<1>0. ASSUME NEW i \in DOMAIN criteria PROVE criteria[i].weight \in Weights
  <2> DEFINE R == [id : Criteria, weight : Weights]
  <2>1. criteria \in Seq(R)
    OBVIOUS
  <2> HIDE DEF R
  <2>2. criteria[i] \in R
    BY <2>1
  <2> QED BY <2>2 DEF R
<1> DEFINE D == DOMAIN criteria
           Of(i) == criteria[i].id
           In(state) == {i \in D : Of(i) \in DOMAIN given /\ given[Of(i)].state = state}
           rated == {i \in D : Of(i) \in DOMAIN given /\ given[Of(i)].rating # NoRating}
                       \ In("not_applicable")
           A == RatingSum(criteria, given, rated)
           B == WeightSum(criteria, rated)
           s == SummarizeHousingEvaluation(criteria, given)
           weighted == \E i \in D : criteria[i].weight # NoWeight
<1>1. s = [total |-> Len(criteria), completed |-> Cardinality(In("complete")),
           notApplicable |-> Cardinality(In("not_applicable")),
           rated |-> Cardinality(rated), weighted |-> weighted,
           score |-> IF rated = {} THEN None ELSE <<A, B>>]
  BY DEF SummarizeHousingEvaluation
<1>3. /\ Len(criteria) \in Nat /\ D = 1 .. Len(criteria)
      /\ IsFiniteSet(D) /\ Cardinality(D) = Len(criteria)
  <2>1. Len(criteria) \in Nat /\ D = 1 .. Len(criteria)
    OBVIOUS
  <2> HIDE DEF D
  <2>2. IsFiniteSet(D) /\ Cardinality(D) = Len(criteria)
    BY <2>1, FS_Interval
  <2> QED BY <2>1, <2>2
<1>4. In("complete") \subseteq rated
  BY DEF ValidateHousingAnswer
<1>5. /\ In("not_applicable") \subseteq D /\ rated \subseteq D
      /\ rated \cap In("not_applicable") = {}
  OBVIOUS
<1>6. A \in Int /\ B \in Int /\ B <= A /\ A <= 5 * B
  <2>1. \A i \in rated : given[criteria[i].id].rating \in 1 .. 5
    BY DEF ValidateHousingAnswer
  <2>2. \A i \in rated : criteria[i].weight \in Weights
    BY <1>0
  <2>3. IsFiniteSet(rated)
    BY <1>3, <1>5, FS_Subset
  <2> HIDE DEF rated
  <2> QED BY <2>1, <2>2, <2>3, ScoreSums
<1> HIDE DEF D, In, rated, A, B, weighted
<1>7. IsFiniteSet(rated) /\ IsFiniteSet(In("not_applicable"))
  BY <1>3, <1>5, FS_Subset
<1>8. Cardinality(In("complete")) <= Cardinality(rated)
  BY <1>4, <1>7, FS_Subset
<1>9. Cardinality(rated) + Cardinality(In("not_applicable")) <= Len(criteria)
  <2>1. Cardinality(rated \cup In("not_applicable")) =
            Cardinality(rated) + Cardinality(In("not_applicable")) - Cardinality({})
    BY <1>5, <1>7, FS_Union
  <2>2. Cardinality(rated \cup In("not_applicable")) <= Cardinality(D)
    BY <1>3, <1>5, FS_Subset
  <2>3. Cardinality({}) = 0
    BY FS_EmptySet
  <2>4. Cardinality(rated) \in Nat /\ Cardinality(In("not_applicable")) \in Nat
    BY <1>7, FS_CardinalityType
  <2> QED BY <1>3, <2>1, <2>2, <2>3, <2>4
<1>10. rated = {} <=> Cardinality(rated) = 0
  BY <1>7, FS_EmptySet
<1>11. <<A, B>> # None
  BY <1>6, EvaluationAssumption
<1> HIDE DEF s
<1>12. /\ s.total = Len(criteria) /\ s.completed = Cardinality(In("complete"))
       /\ s.notApplicable = Cardinality(In("not_applicable")) /\ s.rated = Cardinality(rated)
       /\ s.score = IF rated = {} THEN None ELSE <<A, B>>
  BY <1>1
<1>13. SoundSummary(s)
  BY <1>6, <1>8, <1>9, <1>10, <1>11, <1>12 DEF SoundSummary
<1> QED BY <1>13 DEF s

\* The columns the handlers read from hold what the writers have validated.
ColumnInv ==
    /\ weight \in [Criteria -> Weights]
    /\ answers = [hc \in Homes \X Criteria |-> answers[hc]]
    /\ \A hc \in Homes \X Criteria :
          answers[hc] # NoAnswer => ValidateHousingAnswer(answers[hc])

\* What a handler has read, and what it replies with.
SoundReply(q) ==
    /\ q.pc = "answers" => q.criteria \in Seq([id : Criteria, weight : Weights])
    /\ q.pc = "done" => \A h \in DOMAIN q.summary : SoundSummary(q.summary[h])

ReplyInv == \A r \in Reqs : SoundReply(reqs[r])

\* The writers keep the columns valid.
LEMMA ColumnNext ==
    ASSUME ColumnInv, [EvaluationNext]_evaluationVars
    PROVE  ColumnInv'
<1>1. ASSUME UNCHANGED <<weight, answers>> PROVE ColumnInv'
  BY <1>1 DEF ColumnInv, ValidateHousingAnswer
<1>2. ASSUME NEW f, NEW c \in Criteria, NEW p, NEW w, SaveHousingCriterion(f, c, p, w)
      PROVE  ColumnInv'
  <2>1. w \in Weights /\ weight' = [weight EXCEPT ![c] = w] /\ answers' = answers
    BY <1>2 DEF SaveHousingCriterion, ValidateHousingCriterion, AInsert, AMove,
                Weights
  <2> QED BY <2>1 DEF ColumnInv, ValidateHousingAnswer
<1>3. ASSUME NEW h \in Homes, NEW c \in Criteria, NEW a, SaveHousingAnswer(h, c, a)
      PROVE  ColumnInv'
  <2>1. /\ ValidateHousingAnswer(a) /\ weight' = weight
        /\ answers' = [answers EXCEPT ![<<h, c>>] = a]
    BY <1>3 DEF SaveHousingAnswer, AAnswer
  <2>2. /\ answers' = [hc \in Homes \X Criteria |-> answers'[hc]]
        /\ \A hc \in Homes \X Criteria : answers'[hc] = IF hc = <<h, c>> THEN a ELSE answers[hc]
    BY <2>1 DEF ColumnInv
  <2>3. \A hc \in Homes \X Criteria :
          answers'[hc] # NoAnswer => ValidateHousingAnswer(answers'[hc])
    BY <2>1, <2>2 DEF ColumnInv
  <2> QED BY <2>1, <2>2, <2>3 DEF ColumnInv, ValidateHousingAnswer
<1>4. ASSUME NEW h \in Homes, DeleteHousingOption(h) PROVE ColumnInv'
  <2>1. /\ weight' = weight
        /\ answers' = [hc \in Homes \X Criteria |-> IF hc[1] = h THEN NoAnswer ELSE answers[hc]]
    BY <1>4 DEF DeleteHousingOption, ADeleteHome
  <2>2. /\ answers' = [hc \in Homes \X Criteria |-> answers'[hc]]
        /\ \A hc \in Homes \X Criteria : answers'[hc] \in {NoAnswer, answers[hc]}
    BY <2>1
  <2>3. \A hc \in Homes \X Criteria :
          answers'[hc] # NoAnswer => ValidateHousingAnswer(answers'[hc])
    BY <2>2 DEF ColumnInv
  <2> QED BY <2>1, <2>2, <2>3 DEF ColumnInv, ValidateHousingAnswer
<1>5. ASSUME NEW f, NEW c, DeleteHousingCriterion(f, c) PROVE UNCHANGED <<weight, answers>>
  BY <1>5 DEF DeleteHousingCriterion, ARetire
<1>6. ASSUME NEW f, ReorderHousingCriteria(f) PROVE UNCHANGED <<weight, answers>>
  BY <1>6 DEF ReorderHousingCriteria, AReorder
<1>7. ASSUME NEW r, \/ \E h : GetHousingEvaluation(r, h)
                    \/ \E f : ListHousingOptions(r, f)
                    \/ ListHousingCriteria(r) \/ ListHousingAnswers(r) \/ Finish(r)
      PROVE  UNCHANGED <<weight, answers>>
  BY <1>7, Zenon DEF GetHousingEvaluation, ListHousingOptions, ListHousingCriteria,
                     ListHousingAnswers, Finish
<1>8. CASE UNCHANGED evaluationVars
  BY <1>1, <1>8 DEF evaluationVars
<1> QED BY <1>1, <1>2, <1>3, <1>4, <1>5, <1>6, <1>7, <1>8 DEF EvaluationNext

\* What handlers have read survives the writers.
LEMMA TouchReplies ==
    ASSUME ReadInv, ReplyInv, NEW cells, Touch(cells)
    PROVE  ReplyInv'
<1>1. ASSUME NEW r \in Reqs PROVE SoundReply(reqs'[r])
  <2> DEFINE q == reqs[r]
             t == q.touched \cup {cell \in cells : cell[1] \in q.listed}
             n == [q EXCEPT !.touched = t]
  <2>1. reqs'[r] = IF q.pc \in {"idle", "done"} THEN q ELSE n
    BY DEF Touch
  <2>2. SoundReply(q) /\ SoundRead(q, list)
    BY DEF ReadInv, ReplyInv
  <2>3. CASE q.pc \in {"idle", "done"}
    BY <2>1, <2>2, <2>3
  <2>4. CASE q.pc \notin {"idle", "done"} /\ AtCriteria(q)
    <3>1. n = [pc |-> "criteria", fam |-> q.fam, listed |-> q.listed, touched |-> t]
      BY <2>4, TouchRecord
    <3>2. reqs'[r] = n
      BY <2>1, <2>4
    <3> HIDE DEF t, n, q
    <3> QED BY <3>1, <3>2 DEF SoundReply
  <2>5. CASE q.pc \notin {"idle", "done"} /\ ~AtCriteria(q)
    <3>1. AtAnswers(q)
      BY <2>2, <2>5 DEF SoundRead
    <3>2. n = [pc |-> "answers", fam |-> q.fam, listed |-> q.listed, touched |-> t,
               criteria |-> q.criteria]
      BY <3>1, TouchRecord
    <3>3. reqs'[r] = n
      BY <2>1, <2>5
    <3>4. q.pc = "answers"
      BY <3>1 DEF AtAnswers
    <3> HIDE DEF t, n, q
    <3> QED BY <2>2, <3>2, <3>3, <3>4 DEF SoundReply
  <2> QED BY <2>3, <2>4, <2>5
<1> QED BY <1>1 DEF ReplyInv

\* A step of one reader.
LEMMA ReplyStep ==
    ASSUME ReadInv, ReplyInv, NEW r \in Reqs, NEW n, reqs' = [reqs EXCEPT ![r] = n], SoundReply(n)
    PROVE  ReplyInv'
<1>1. reqs' = [x \in Reqs |-> IF x = r THEN n ELSE reqs[x]]
  BY DEF ReadInv
<1> QED BY <1>1 DEF ReplyInv

\* What is read of valid columns is valid, and its summary sound.
LEMMA ListHousingCriteriaReplies ==
    ASSUME ReadInv, ReplyInv, ColumnInv, NEW r \in Reqs, ListHousingCriteria(r)
    PROVE  ReplyInv'
<1> DEFINE q == reqs[r]
           k == CriteriaRead(q.fam)
           n == [pc |-> "answers", fam |-> q.fam, listed |-> q.listed, touched |-> q.touched,
                 criteria |-> k]
           R == [id : Criteria, weight : Weights]
<1>1. list[q.fam] \in Seq(Criteria)
  BY DEF ListHousingCriteria, ReadInv, SoundRead
<1>2. k \in Seq(R)
  <2> DEFINE s == list[q.fam]
  <2>1. \A i \in 1 .. Len(s) : s[i] \in Criteria /\ weight[s[i]] \in Weights
    BY <1>1 DEF ColumnInv
  <2>2. Len(s) \in Nat /\ k = [i \in 1 .. Len(s) |-> [id |-> s[i], weight |-> weight[s[i]]]]
    BY <1>1 DEF CriteriaRead
  <2> HIDE DEF s, k
  <2>3. \A i \in 1 .. Len(s) : [id |-> s[i], weight |-> weight[s[i]]] \in R
    BY <2>1
  <2> HIDE DEF R
  <2> QED BY <2>2, <2>3
<1>3. reqs' = [reqs EXCEPT ![r] = n]
  BY DEF ListHousingCriteria
<1> HIDE DEF k, q
<1>4. n.pc = "answers" /\ n.criteria = k
  OBVIOUS
<1> HIDE DEF n
<1>5. SoundReply(n)
  BY <1>2, <1>4 DEF SoundReply
<1> QED BY <1>3, <1>5, ReplyStep

\* The summaries of a reader are sound as they are computed.
LEMMA ListHousingAnswersReplies ==
    ASSUME ReadInv, ReplyInv, ColumnInv, NEW r \in Reqs,
           ListHousingAnswers(r)
    PROVE  ReplyInv'
<1> DEFINE k == reqs[r].criteria
           fam == reqs[r].fam
           listed == reqs[r].listed
           active == {k[i].id : i \in DOMAIN k}
           read == [h \in listed |-> AnswersRead(fam, h)]
           given == [h \in listed |-> [c \in DOMAIN read[h] \cap active |-> read[h][c]]]
           summary == [h \in listed |-> SummarizeHousingEvaluation(k, given[h])]
           n == [pc |-> "done", given |-> given, summary |-> summary]
<1>1. reqs' = [reqs EXCEPT ![r] = n] /\ reqs[r].pc = "answers"
  BY DEF ListHousingAnswers
<1>2. /\ fam \in Families /\ listed \subseteq Homes /\ list[fam] \in Seq(Criteria)
      /\ k \in Seq([id : Criteria, weight : Weights])
  BY <1>1 DEF ReadInv, SoundRead, ReplyInv, SoundReply
<1>3. ASSUME NEW h \in listed, NEW c \in DOMAIN given[h]
      PROVE  ValidateHousingAnswer(given[h][c])
  <2>1. /\ c \in On(list[fam]) /\ answers[h, c] # NoAnswer /\ given[h][c] = answers[h, c]
    <3>1. c \in DOMAIN read[h] /\ given[h][c] = read[h][c]
      BY <1>3
    <3>2. read[h] = AnswersRead(fam, h)
      OBVIOUS
    <3> HIDE DEF read
    <3> QED BY <3>1, <3>2, ToSetIsOn DEF AnswersRead
  <2> HIDE DEF given, listed
  <2>2. c \in On(list[fam]) /\ h \in Homes
    BY <1>2, <1>3, <2>1
  <2>3. c \in Criteria
    <3> DEFINE s == list[fam]
    <3>1. s \in Seq(Criteria) /\ c \in On(s)
      BY <1>2, <2>2
    <3> HIDE DEF s
    <3> QED BY <3>1 DEF On
  <2> QED BY <2>1, <2>2, <2>3 DEF ColumnInv
<1> HIDE DEF given, k, listed
<1>4. \A h \in DOMAIN summary : SoundSummary(summary[h])
  BY <1>2, <1>3, SummarizeSound
<1> HIDE DEF summary
<1>5. SoundReply(n)
  BY <1>4 DEF SoundReply
<1> QED BY <1>1, <1>5, ReplyStep

\* Replies stay sound in every step.
LEMMA ReplyNext ==
    ASSUME ReadInv, ReplyInv, ColumnInv, [EvaluationNext]_evaluationVars
    PROVE  ReplyInv'
<1>1. CASE UNCHANGED evaluationVars
  BY <1>1 DEF evaluationVars, ReplyInv
<1>2. ASSUME NEW f, NEW c, NEW p, NEW w,
             SaveHousingCriterion(f, c, p, w) \/ DeleteHousingCriterion(f, c)
      PROVE  ReplyInv'
  <2>1. Touch(Homes \X {c})
    BY <1>2 DEF SaveHousingCriterion, DeleteHousingCriterion
  <2> QED BY <2>1, TouchReplies
<1>3. ASSUME NEW f, ReorderHousingCriteria(f) PROVE ReplyInv'
  <2>1. Touch({})
    BY <1>3 DEF ReorderHousingCriteria
  <2> QED BY <2>1, TouchReplies
<1>4. ASSUME NEW h, NEW c, NEW a, SaveHousingAnswer(h, c, a) PROVE ReplyInv'
  <2>1. Touch({<<h, c>>})
    BY <1>4 DEF SaveHousingAnswer
  <2> QED BY <2>1, TouchReplies
<1>5. ASSUME NEW h, DeleteHousingOption(h) PROVE ReplyInv'
  <2>1. Touch({h} \X Criteria)
    BY <1>5 DEF DeleteHousingOption
  <2> QED BY <2>1, TouchReplies
<1>6. ASSUME NEW r \in Reqs, NEW f, NEW listed, reqs' = [reqs EXCEPT ![r] = Reading(f, listed)]
      PROVE  ReplyInv'
  <2>1. SoundReply(Reading(f, listed))
    BY DEF Reading, SoundReply
  <2> QED BY <1>6, <2>1, ReplyStep
<1>7. ASSUME NEW r \in Reqs, \/ \E h \in Homes : GetHousingEvaluation(r, h)
                             \/ \E f \in Families : ListHousingOptions(r, f)
      PROVE  ReplyInv'
  BY <1>6, <1>7 DEF GetHousingEvaluation, ListHousingOptions
<1>8. ASSUME NEW r \in Reqs, ListHousingCriteria(r) PROVE ReplyInv'
  BY <1>8, ListHousingCriteriaReplies
<1>9. ASSUME NEW r \in Reqs, ListHousingAnswers(r) PROVE ReplyInv'
  BY <1>9, ListHousingAnswersReplies
<1>10. ASSUME NEW r \in Reqs, Finish(r) PROVE ReplyInv'
  <2>1. reqs' = [reqs EXCEPT ![r] = Idle] /\ SoundReply(Idle)
    BY <1>10 DEF Finish, Idle, SoundReply
  <2> QED BY <2>1, ReplyStep
<1> QED BY <1>1, <1>2, <1>3, <1>4, <1>5, <1>7, <1>8, <1>9, <1>10 DEF EvaluationNext

\* No column holds a weight or an answer before the first writer, and nobody
\* has read anything.
LEMMA ReplyInit ==
    ASSUME EvaluationInit
    PROVE  ColumnInv /\ ReplyInv
<1>1. /\ reqs = [r \in Reqs |-> Idle] /\ weight = [c \in Criteria |-> NoWeight]
      /\ answers = [hc \in Homes \X Criteria |-> NoAnswer]
  BY DEF EvaluationInit, AInit
<1>2. SoundReply(Idle)
  BY DEF Idle, SoundReply
<1>3. ReplyInv
  BY <1>1, <1>2 DEF ReplyInv
<1>4. ColumnInv
  BY <1>1 DEF ColumnInv, Weights
<1> QED BY <1>3, <1>4

\* Whatever mixture of criteria, weights and answers the two statements have
\* read, the summaries of the reply are sound (SummaryIsSound): scores lie
\* between 1 and 5, exist when something was rated, and the counts fit.
THEOREM SummariesAreSound ==
    EvaluationSpec => []SummaryIsSound
<1> DEFINE All == ReadInv /\ ColumnInv /\ ReplyInv
<1>1. EvaluationInit => All
  BY ReadInit, ReplyInit
<1>2. All /\ [EvaluationNext]_evaluationVars => All'
  BY ReadNext, ColumnNext, ReplyNext
<1>3. All => SummaryIsSound
  BY DEF ReplyInv, SoundReply, SoundSummary, SummaryIsSound, Replies
<1> HIDE DEF All
<1> QED BY <1>1, <1>2, <1>3, PTL DEF EvaluationSpec

=============================================================================
