---------------------------- MODULE MailboxFacts ----------------------------
(***************************************************************************)
(* What the operators of TimeStampedMailbox do to the set of messages in a *)
(* mailbox: which stay, which move, which are lost, and that none is       *)
(* doubled.  Proofs about the machines that own a mailbox rest on these.   *)
(***************************************************************************)
EXTENDS TimeStampedMailbox, FiniteSetTheorems, SequenceTheorems,
        WellFoundedInduction, TLAPS

-----------------------------------------------------------------------------
(* Ranges of sequences, and sequences without repetition.                  *)

\* Append adds one element; no repetition arises if the element is new.
LEMMA AppendFacts ==
  ASSUME NEW S, NEW s \in Seq(S), NEW e \in S
  PROVE  /\ Append(s, e) \in Seq(S)
         /\ Range(Append(s, e)) = Range(s) \cup {e}
         /\ IsInjective(s) /\ e \notin Range(s) => IsInjective(Append(s, e))
<1> DEFINE a == Append(s, e)
<1>1. /\ a \in Seq(S)
      /\ Len(a) = Len(s) + 1
      /\ \A i \in 1 .. Len(s) : a[i] = s[i]
      /\ a[Len(s) + 1] = e
      /\ Len(s) \in Nat
  BY AppendProperties, LenProperties
<1>2. Range(a) = {a[i] : i \in 1 .. Len(a)} /\ Range(s) = {s[i] : i \in 1 .. Len(s)}
  BY <1>1, RangeEquality
<1>3. DOMAIN a = 1 .. Len(a) /\ DOMAIN s = 1 .. Len(s)
  BY <1>1, LenProperties
<1> HIDE DEF a
<1>4. Range(a) = Range(s) \cup {e}
  BY <1>1, <1>2
<1>5. IsInjective(s) /\ e \notin Range(s) => IsInjective(a)
  BY <1>1, <1>2, <1>3 DEF IsInjective
<1>6. QED
  BY <1>1, <1>4, <1>5 DEF a

\* Tail removes the head, and with it every occurrence if there is one only.
LEMMA TailFacts ==
  ASSUME NEW S, NEW s \in Seq(S), s # <<>>
  PROVE  /\ Head(s) \in Range(s)
         /\ Tail(s) \in Seq(S)
         /\ Range(s) = Range(Tail(s)) \cup {Head(s)}
         /\ IsInjective(s) => IsInjective(Tail(s)) /\ Head(s) \notin Range(Tail(s))
<1> DEFINE r == Tail(s)
<1>1. /\ r \in Seq(S)
      /\ Len(r) = Len(s) - 1
      /\ \A i \in 1 .. Len(r) : r[i] = s[i + 1]
      /\ Len(s) \in Nat \ {0}
  BY HeadTailProperties, EmptySeq
<1>2. Head(s) = s[1]
  OBVIOUS
<1>3. Range(r) = {r[i] : i \in 1 .. Len(r)} /\ Range(s) = {s[i] : i \in 1 .. Len(s)}
  BY <1>1, RangeEquality
<1>4. DOMAIN r = 1 .. Len(r) /\ DOMAIN s = 1 .. Len(s)
  BY <1>1, LenProperties
<1> HIDE DEF r
<1>5. Range(s) = Range(r) \cup {Head(s)}
  <2>1. ASSUME NEW i \in 1 .. Len(s) PROVE s[i] = s[1] \/ (s[i] = r[i - 1] /\ i - 1 \in 1 .. Len(r))
    BY <1>1
  <2>2. QED
    BY <1>1, <1>2, <1>3, <2>1
<1>6. IsInjective(s) => IsInjective(r) /\ Head(s) \notin Range(r)
  BY <1>1, <1>2, <1>3, <1>4 DEF IsInjective
<1>7. QED
  BY <1>1, <1>5, <1>6 DEF r

\* Concatenation of sequences that share nothing repeats nothing.
LEMMA ConcatFacts ==
  ASSUME NEW S, NEW s \in Seq(S), NEW u \in Seq(S)
  PROVE  /\ s \o u \in Seq(S)
         /\ Range(s \o u) = Range(s) \cup Range(u)
         /\ IsInjective(s) /\ IsInjective(u) /\ Range(s) \cap Range(u) = {}
              => IsInjective(s \o u)
<1> DEFINE c == s \o u
<1>1. /\ c \in Seq(S)
      /\ Len(c) = Len(s) + Len(u)
      /\ \A i \in 1 .. Len(s) + Len(u) :
           c[i] = IF i <= Len(s) THEN s[i] ELSE u[i - Len(s)]
      /\ Len(s) \in Nat /\ Len(u) \in Nat
      /\ DOMAIN s = 1 .. Len(s) /\ DOMAIN u = 1 .. Len(u)
  BY ConcatProperties, LenProperties
<1>2. DOMAIN c = 1 .. Len(s) + Len(u)
  BY <1>1, LenProperties
<1>3. Range(c) = Range(s) \cup Range(u)
  BY RangeConcatenation
<1>4. Range(s) = {s[i] : i \in 1 .. Len(s)} /\ Range(u) = {u[i] : i \in 1 .. Len(u)}
  BY RangeEquality
<1> HIDE DEF c
<1>5. ASSUME IsInjective(s), IsInjective(u), Range(s) \cap Range(u) = {},
             NEW i \in DOMAIN c, NEW j \in DOMAIN c, c[i] = c[j]
      PROVE  i = j
  <2>1. CASE i <= Len(s) /\ j <= Len(s)
    BY <1>1, <1>2, <1>5, <2>1 DEF IsInjective
  <2>2. CASE i > Len(s) /\ j > Len(s)
    <3>1. i - Len(s) \in DOMAIN u /\ j - Len(s) \in DOMAIN u /\ u[i - Len(s)] = u[j - Len(s)]
      BY <1>1, <1>2, <1>5, <2>2
    <3>2. QED
      BY <1>1, <1>2, <1>5, <3>1 DEF IsInjective
  <2>3. CASE i <= Len(s) /\ j > Len(s)
    <3>1. s[i] \in Range(s) /\ u[j - Len(s)] \in Range(u)
      BY <1>1, <1>2, <1>4, <2>3
    <3>2. QED
      BY <1>1, <1>2, <1>5, <2>3, <3>1
  <2>4. CASE i > Len(s) /\ j <= Len(s)
    <3>1. s[j] \in Range(s) /\ u[i - Len(s)] \in Range(u)
      BY <1>1, <1>2, <1>4, <2>4
    <3>2. QED
      BY <1>1, <1>2, <1>5, <2>4, <3>1
  <2>5. QED
    BY <1>1, <1>2, <2>1, <2>2, <2>3, <2>4
<1>6. QED
  BY <1>1, <1>3, <1>5 DEF c, IsInjective

-----------------------------------------------------------------------------
(* SubseqAt.                                                               *)

\* The rank numbers the members of a finite set of naturals from 1 on.
LEMMA RankFacts ==
  ASSUME NEW K \in SUBSET Nat, IsFiniteSet(K)
  PROVE  /\ Cardinality(K) \in Nat
         /\ \A i \in K : Rank(K, i) \in 1 .. Cardinality(K)
         /\ \A i, j \in K : Rank(K, i) = Rank(K, j) => i = j
         /\ \A n \in 1 .. Cardinality(K) : \E i \in K : Rank(K, i) = n
<1> DEFINE upto(i) == {j \in K : j <= i}
<1>1. Cardinality(K) \in Nat
  BY FS_CardinalityType
<1>2. ASSUME NEW i \in K
      PROVE  IsFiniteSet(upto(i)) /\ Rank(K, i) \in 1 .. Cardinality(K)
  <2>1. /\ IsFiniteSet(upto(i))
        /\ Cardinality(upto(i)) <= Cardinality(K)
        /\ Cardinality(upto(i)) \in Nat
    BY FS_Subset, FS_CardinalityType, upto(i) \in SUBSET K, IsFiniteSet(upto(i))
  <2>2. Cardinality(upto(i)) # 0
    <3>1. i \in upto(i)
      OBVIOUS
    <3>2. QED
      BY <2>1, <3>1, FS_EmptySet
  <2>3. QED
    BY <1>1, <2>1, <2>2 DEF Rank
<1>3. ASSUME NEW i \in K, NEW j \in K, i < j
      PROVE  Rank(K, i) # Rank(K, j)
  <2>1. \A k \in K : k \in Int
    OBVIOUS
  <2>2. upto(i) \subseteq upto(j)
    <3>1. \A k \in K : k <= i => k <= j
      BY <1>3, <2>1
    <3>2. QED
      BY <3>1
  <2>3. j \in upto(j) /\ j \notin upto(i)
    BY <1>3, <2>1
  <2>4. QED
    BY <1>2, <2>2, <2>3, FS_Subset DEF Rank
<1>4. ASSUME NEW i \in K, NEW j \in K, Rank(K, i) = Rank(K, j)
      PROVE  i = j
  BY <1>3, <1>4
<1>5. ASSUME NEW n \in 1 .. Cardinality(K)
      PROVE  \E i \in K : Rank(K, i) = n
  <2> DEFINE f == [i \in K |-> Rank(K, i)]
             N == 1 .. Cardinality(K)
  <2>1. f \in Injection(K, N)
    BY <1>2, <1>4 DEF Injection, IsInjective
  <2>2. IsFiniteSet(N) /\ Cardinality(N) = Cardinality(K)
    BY <1>1, FS_Interval
  <2>3. f \in Surjection(K, N)
    BY <2>1, <2>2, FS_Injection
  <2>4. QED
    BY <2>3 DEF Surjection
<1>6. QED
  BY <1>1, <1>2, <1>4, <1>5

\* SubseqAt keeps exactly the elements at the positions it is given.
LEMMA SubseqAtFacts ==
  ASSUME NEW S, NEW s \in Seq(S), NEW K \in SUBSET DOMAIN s
  PROVE  /\ SubseqAt(s, K) \in Seq(S)
         /\ Range(SubseqAt(s, K)) = {s[i] : i \in K}
         /\ IsInjective(s) => IsInjective(SubseqAt(s, K))
<1> DEFINE pos(n) == CHOOSE i \in K : Rank(K, i) = n
           N == 1 .. Cardinality(K)
           r == SubseqAt(s, K)
<1>1. DOMAIN s = 1 .. Len(s) /\ Len(s) \in Nat /\ s \in [1 .. Len(s) -> S]
  BY LenProperties
<1>2. K \in SUBSET Nat /\ IsFiniteSet(K)
  <2>1. IsFiniteSet(1 .. Len(s))
    BY <1>1, FS_Interval
  <2>2. QED
    BY <1>1, <2>1, FS_Subset
<1>3. /\ Cardinality(K) \in Nat
      /\ \A i \in K : Rank(K, i) \in N
      /\ \A i, j \in K : Rank(K, i) = Rank(K, j) => i = j
      /\ \A n \in N : \E i \in K : Rank(K, i) = n
  BY <1>2, RankFacts
<1>4. ASSUME NEW n \in N PROVE pos(n) \in K /\ Rank(K, pos(n)) = n
  BY <1>3
<1>5. ASSUME NEW i \in K PROVE pos(Rank(K, i)) = i
  BY <1>3, <1>4
<1>6. r = [n \in N |-> s[pos(n)]]
  BY DEF SubseqAt
<1> HIDE DEF pos, r
<1>7. r \in [N -> S]
  BY <1>1, <1>4, <1>6
<1>8. r \in Seq(S)
  BY <1>3, <1>7, SeqDef
<1>9. Range(r) = {s[i] : i \in K}
  <2>1. ASSUME NEW n \in N PROVE r[n] \in {s[i] : i \in K}
    BY <1>4, <1>6
  <2>2. ASSUME NEW i \in K PROVE \E n \in N : r[n] = s[i]
    <3>1. r[Rank(K, i)] = s[i] /\ Rank(K, i) \in N
      BY <1>3, <1>5, <1>6
    <3>2. QED
      BY <3>1
  <2>3. DOMAIN r = N
    BY <1>6
  <2>4. QED
    BY <2>1, <2>2, <2>3 DEF Range
<1>10. ASSUME IsInjective(s), NEW a \in N, NEW b \in N, r[a] = r[b]
       PROVE  a = b
  <2>1. s[pos(a)] = s[pos(b)] /\ pos(a) \in DOMAIN s /\ pos(b) \in DOMAIN s
    BY <1>4, <1>6, <1>10
  <2>2. pos(a) = pos(b)
    BY <1>10, <2>1 DEF IsInjective
  <2>3. QED
    BY <1>4, <2>2
<1>11. IsInjective(s) => IsInjective(r)
  <2>1. DOMAIN r = N
    BY <1>6
  <2>2. QED
    BY <1>10, <2>1 DEF IsInjective
<1>12. QED
  BY <1>8, <1>9, <1>11 DEF r

\* At no position there is nothing.
LEMMA SubseqAtNone ==
  ASSUME NEW s
  PROVE  SubseqAt(s, {}) = <<>>
BY FS_EmptySet DEF SubseqAt

\* One more position, behind the others, adds the element that is there.
LEMMA SubseqAtNext ==
  ASSUME NEW S, NEW s \in Seq(S), NEW k \in DOMAIN s, NEW K \in SUBSET (1 .. k - 1)
  PROVE  SubseqAt(s, K \cup {k}) = Append(SubseqAt(s, K), s[k])
<1> DEFINE K1 == K \cup {k}
           c == Cardinality(K)
           pos(n) == CHOOSE i \in K : Rank(K, i) = n
           pos1(n) == CHOOSE i \in K1 : Rank(K1, i) = n
<1>1. DOMAIN s = 1 .. Len(s) /\ Len(s) \in Nat /\ k \in Nat /\ k \in 1 .. Len(s)
  BY LenProperties
<1>2. k \notin K /\ K \in SUBSET Nat /\ K1 \in SUBSET Nat /\ IsFiniteSet(K) /\ IsFiniteSet(K1)
  <2>1. IsFiniteSet(1 .. k - 1)
    BY <1>1, FS_Interval
  <2>2. IsFiniteSet(K)
    BY <2>1, FS_Subset
  <2>3. IsFiniteSet(K \cup {k})
    BY <2>2, FS_AddElement
  <2>4. k \notin K
    BY <1>1
  <2>5. K \in SUBSET Nat
    BY <1>1
  <2>6. QED
    BY <1>1, <2>2, <2>3, <2>4, <2>5
<1>3. c \in Nat /\ Cardinality(K1) = c + 1
  BY <1>2, FS_AddElement, FS_CardinalityType
<1>4. ASSUME NEW i \in K PROVE Rank(K1, i) = Rank(K, i)
  <2>1. {j \in K1 : j <= i} = {j \in K : j <= i}
    BY <1>1
  <2>2. QED
    BY <2>1 DEF Rank
<1>5. Rank(K1, k) = c + 1
  <2>1. \A j \in K1 : j <= k
    BY <1>1
  <2>2. {j \in K1 : j <= k} = K1
    BY <2>1
  <2>3. QED
    BY <1>3, <2>2 DEF Rank
<1>6. /\ \A n \in 1 .. c : \E i \in K : Rank(K, i) = n
      /\ \A i, j \in K1 : Rank(K1, i) = Rank(K1, j) => i = j
  BY <1>2, RankFacts
<1> HIDE DEF K1
<1>7. ASSUME NEW n \in 1 .. c PROVE pos1(n) = pos(n)
  <2>1. pos(n) \in K /\ Rank(K, pos(n)) = n
    BY <1>6
  <2>2. pos(n) \in K1 /\ Rank(K1, pos(n)) = n
    BY <1>4, <2>1 DEF K1
  <2>3. pos1(n) \in K1 /\ Rank(K1, pos1(n)) = n
    BY <2>2
  <2>4. QED
    BY <1>6, <2>2, <2>3
<1>8. pos1(c + 1) = k
  <2>1. k \in K1
    BY DEF K1
  <2>2. pos1(c + 1) \in K1 /\ Rank(K1, pos1(c + 1)) = c + 1
    BY <1>5, <2>1
  <2>3. QED
    BY <1>5, <1>6, <2>1, <2>2
<1> DEFINE r == [n \in 1 .. c |-> s[pos(n)]]
<1>9. SubseqAt(s, K) = r
  BY DEF SubseqAt
<1>10. SubseqAt(s, K1) = [n \in 1 .. c + 1 |-> s[pos1(n)]]
  BY <1>3 DEF SubseqAt
<1> HIDE DEF pos, pos1
<1>11. r \in Seq(S) /\ Len(r) = c
  BY <1>9, SubseqAtFacts, <1>1, <1>3, LenProperties, K \in SUBSET DOMAIN s
<1>12. /\ Append(r, s[k]) \in Seq(S)
       /\ Len(Append(r, s[k])) = c + 1
       /\ \A n \in 1 .. c : Append(r, s[k])[n] = s[pos(n)]
       /\ Append(r, s[k])[c + 1] = s[k]
  <2>1. s[k] \in S
    BY <1>1, ElementOfSeq
  <2>2. \A n \in 1 .. c : r[n] = s[pos(n)]
    OBVIOUS
  <2> HIDE DEF r
  <2>3. QED
    BY <1>11, <2>1, <2>2, AppendProperties
<1>13. Append(r, s[k]) = [n \in 1 .. c + 1 |-> IF n = c + 1 THEN s[k] ELSE s[pos(n)]]
  <2> DEFINE a == Append(r, s[k])
  <2>1. a \in [1 .. c + 1 -> S]
    BY <1>12, LenProperties
  <2>2. \A n \in 1 .. c + 1 : a[n] = IF n = c + 1 THEN s[k] ELSE s[pos(n)]
    BY <1>3, <1>12
  <2> HIDE DEF a
  <2>3. a = [n \in 1 .. c + 1 |-> IF n = c + 1 THEN s[k] ELSE s[pos(n)]]
    BY <2>1, <2>2
  <2>4. QED
    BY <2>3 DEF a
<1>14. \A n \in 1 .. c + 1 : s[pos1(n)] = IF n = c + 1 THEN s[k] ELSE s[pos(n)]
  BY <1>3, <1>7, <1>8
<1>15. SubseqAt(s, K1) = Append(r, s[k])
  BY <1>10, <1>13, <1>14
<1>16. QED
  BY <1>9, <1>15 DEF K1
-----------------------------------------------------------------------------
(* The methods of the mailbox.                                             *)

\* locked_put(): dropped, let through, or deferred, as the frame IDs compare.
LEMMA LockedPutFacts ==
  ASSUME NEW S, NEW mb \in Mailbox(S), NEW m \in S, m.frameID \in Int
  PROVE  LET nb == LockedPut(mb, m)
         IN  /\ nb \in Mailbox(S)
             /\ nb.currentFrameID = mb.currentFrameID
             /\ Range(nb.messages) =
                  IF m.frameID = mb.currentFrameID
                    THEN Range(mb.messages) \cup {m} ELSE Range(mb.messages)
             /\ Range(nb.futureFrameMessages) =
                  IF m.frameID > mb.currentFrameID
                    THEN Range(mb.futureFrameMessages) \cup {m}
                    ELSE Range(mb.futureFrameMessages)
             /\ (/\ NoDuplicates(mb)
                 /\ m \notin Range(mb.messages) \cup Range(mb.futureFrameMessages))
                  => NoDuplicates(nb)
<1> DEFINE nb == LockedPut(mb, m)
<1>1. /\ mb.messages \in Seq(S) /\ mb.futureFrameMessages \in Seq(S)
      /\ mb.currentFrameID \in Int
  BY DEF Mailbox
<1>2. /\ Append(mb.messages, m) \in Seq(S)
      /\ Append(mb.futureFrameMessages, m) \in Seq(S)
  BY <1>1, AppendFacts
<1>3. CASE m.frameID < mb.currentFrameID
  <2>1. nb = mb /\ m.frameID # mb.currentFrameID /\ ~ (m.frameID > mb.currentFrameID)
    BY <1>1, <1>3 DEF LockedPut
  <2> HIDE DEF nb
  <2>2. QED
    BY <2>1 DEF nb
<1>4. CASE m.frameID = mb.currentFrameID
  <2>1. nb = [mb EXCEPT !.messages = Append(@, m)] /\ ~ (m.frameID > mb.currentFrameID)
    BY <1>1, <1>4 DEF LockedPut
  <2> HIDE DEF nb
  <2>2. /\ nb \in Mailbox(S)
        /\ nb.currentFrameID = mb.currentFrameID
        /\ nb.messages = Append(mb.messages, m)
        /\ nb.futureFrameMessages = mb.futureFrameMessages
    BY <1>1, <1>2, <2>1 DEF Mailbox
  <2>3. Range(nb.messages) = Range(mb.messages) \cup {m}
    BY <1>1, <2>2, AppendFacts
  <2>4. ASSUME NoDuplicates(mb),
               m \notin Range(mb.messages) \cup Range(mb.futureFrameMessages)
        PROVE  NoDuplicates(nb)
    <3>1. IsInjective(nb.messages)
      BY <1>1, <2>2, <2>4, AppendFacts DEF NoDuplicates
    <3>2. QED
      BY <2>2, <2>3, <2>4, <3>1 DEF NoDuplicates
  <2>5. QED
    BY <1>4, <2>1, <2>2, <2>3, <2>4 DEF nb
<1>5. CASE m.frameID > mb.currentFrameID
  <2>1. /\ nb = [mb EXCEPT !.futureFrameMessages = Append(@, m)]
        /\ m.frameID # mb.currentFrameID
    BY <1>1, <1>5 DEF LockedPut
  <2> HIDE DEF nb
  <2>2. /\ nb \in Mailbox(S)
        /\ nb.currentFrameID = mb.currentFrameID
        /\ nb.messages = mb.messages
        /\ nb.futureFrameMessages = Append(mb.futureFrameMessages, m)
    BY <1>1, <1>2, <2>1 DEF Mailbox
  <2>3. Range(nb.futureFrameMessages) = Range(mb.futureFrameMessages) \cup {m}
    BY <1>1, <2>2, AppendFacts
  <2>4. ASSUME NoDuplicates(mb),
               m \notin Range(mb.messages) \cup Range(mb.futureFrameMessages)
        PROVE  NoDuplicates(nb)
    <3>1. IsInjective(nb.futureFrameMessages)
      BY <1>1, <2>2, <2>4, AppendFacts DEF NoDuplicates
    <3>2. QED
      BY <2>2, <2>3, <2>4, <3>1 DEF NoDuplicates
  <2>5. QED
    BY <1>5, <2>1, <2>2, <2>3, <2>4 DEF nb
<1>6. QED
  BY <1>1, <1>3, <1>4, <1>5

\* get(): the first message leaves the mailbox, and is nowhere in it after.
LEMMA PopFrontFacts ==
  ASSUME NEW S, NEW mb \in Mailbox(S), CanGet(mb)
  PROVE  LET nb == PopFront(mb)
         IN  /\ nb \in Mailbox(S)
             /\ nb.currentFrameID = mb.currentFrameID
             /\ Front(mb) \in Range(mb.messages)
             /\ Range(mb.messages) = Range(nb.messages) \cup {Front(mb)}
             /\ nb.futureFrameMessages = mb.futureFrameMessages
             /\ NoDuplicates(mb) => /\ NoDuplicates(nb)
                                    /\ Front(mb) \notin Range(nb.messages)
<1> DEFINE nb == PopFront(mb)
<1>1. mb.messages \in Seq(S) /\ mb.messages # <<>>
  BY DEF Mailbox, CanGet
<1>2. /\ nb.currentFrameID = mb.currentFrameID
      /\ nb.messages = Tail(mb.messages)
      /\ nb.futureFrameMessages = mb.futureFrameMessages
      /\ nb \in Mailbox(S)
  BY <1>1, TailFacts DEF PopFront, Mailbox
<1>3. QED
  BY <1>1, <1>2, TailFacts DEF Front, NoDuplicates

\* startNewFrame(): deferred messages of the frame are let through, those of
\* later frames stay deferred, those of earlier frames go.
LEMMA StartNewFrameFacts ==
  ASSUME NEW S, NEW mb \in Mailbox(S), NEW f \in Int
  PROVE  LET nb == StartNewFrame(mb, f)
             deferred == Range(mb.futureFrameMessages)
         IN  /\ nb \in Mailbox(S)
             /\ nb.currentFrameID = f
             /\ Range(nb.messages) =
                  Range(mb.messages) \cup {m \in deferred : m.frameID = f}
             /\ Range(nb.futureFrameMessages) = {m \in deferred : m.frameID > f}
             /\ NoDuplicates(mb) => NoDuplicates(nb)
<1> DEFINE nb == StartNewFrame(mb, f)
           s == mb.futureFrameMessages
           due == {i \in DOMAIN s : s[i].frameID = f}
           early == {i \in DOMAIN s : s[i].frameID > f}
<1>1. mb.messages \in Seq(S) /\ s \in Seq(S)
  BY DEF Mailbox
<1>2. /\ nb.currentFrameID = f
      /\ nb.messages = mb.messages \o SubseqAt(s, due)
      /\ nb.futureFrameMessages = SubseqAt(s, early)
      /\ nb = [currentFrameID |-> nb.currentFrameID, messages |-> nb.messages,
               futureFrameMessages |-> nb.futureFrameMessages]
  BY DEF StartNewFrame
<1> HIDE DEF nb
<1>3. due \in SUBSET DOMAIN s /\ early \in SUBSET DOMAIN s
  OBVIOUS
<1>4. /\ SubseqAt(s, due) \in Seq(S)
      /\ Range(SubseqAt(s, due)) = {s[i] : i \in due}
      /\ IsInjective(s) => IsInjective(SubseqAt(s, due))
  BY <1>1, <1>3, SubseqAtFacts
<1>5. /\ SubseqAt(s, early) \in Seq(S)
      /\ Range(SubseqAt(s, early)) = {s[i] : i \in early}
      /\ IsInjective(s) => IsInjective(SubseqAt(s, early))
  BY <1>1, <1>3, SubseqAtFacts
<1>6. /\ {s[i] : i \in due} = {m \in Range(s) : m.frameID = f}
      /\ {s[i] : i \in early} = {m \in Range(s) : m.frameID > f}
  BY DEF Range
<1>7. /\ nb.messages \in Seq(S)
      /\ Range(nb.messages) = Range(mb.messages) \cup {m \in Range(s) : m.frameID = f}
      /\ NoDuplicates(mb) => IsInjective(nb.messages)
  <2> DEFINE d == SubseqAt(s, due)
  <2>1. d \in Seq(S) /\ Range(d) = {m \in Range(s) : m.frameID = f}
    BY <1>4, <1>6
  <2>2. NoDuplicates(mb) => IsInjective(mb.messages) /\ IsInjective(d)
    BY <1>4 DEF NoDuplicates
  <2>3. NoDuplicates(mb) => Range(mb.messages) \cap Range(d) = {}
    BY <2>1 DEF NoDuplicates
  <2>4. nb.messages = mb.messages \o d
    BY <1>2
  <2> HIDE DEF d
  <2>5. QED
    BY <1>1, <2>1, <2>2, <2>3, <2>4, ConcatFacts
<1>8. nb \in Mailbox(S)
  BY <1>2, <1>5, <1>7 DEF Mailbox
<1>9. \A m \in Range(s) : ~ (m.frameID = f /\ m.frameID > f)
  BY SMT
<1>10. ASSUME NoDuplicates(mb) PROVE NoDuplicates(nb)
  <2>1. Range(nb.futureFrameMessages) = {m \in Range(s) : m.frameID > f}
    BY <1>2, <1>5, <1>6
  <2>2. Range(nb.messages) \cap Range(nb.futureFrameMessages) = {}
    BY <1>7, <1>9, <1>10, <2>1 DEF NoDuplicates
  <2>3. IsInjective(nb.messages) /\ IsInjective(nb.futureFrameMessages)
    BY <1>2, <1>5, <1>7, <1>10 DEF NoDuplicates
  <2>4. QED
    BY <2>2, <2>3 DEF NoDuplicates
<1>11. QED
  BY <1>2, <1>5, <1>6, <1>7, <1>8, <1>10 DEF nb

-----------------------------------------------------------------------------
(* startNewFrame() as the loop it is.                                      *)

\* A property that some number has is one that a least number has.
LEMMA LeastNumber ==
  ASSUME NEW N \in SUBSET Nat, N # {}
  PROVE  \E n \in N : \A k \in Nat : k < n => k \notin N
<1> DEFINE R == OpToRel(<, Nat)
<1>1. PICK n \in N : \A k \in N : <<k, n>> \notin R
  <2>1. IsWellFoundedOn(R, Nat)
    BY NatLessThanWellFounded
  <2> HIDE DEF R
  <2>2. QED
    BY <2>1, WFMin
<1>2. \A k \in N : ~ (k < n)
  BY <1>1 DEF OpToRel
<1>3. QED
  BY <1>2

\* A mailbox that forgot what was deferred.
LEMMA ForgetfulMailbox ==
  ASSUME NEW S, NEW mb \in Mailbox(S), NEW f
  PROVE  [mb EXCEPT !.currentFrameID = f, !.futureFrameMessages = <<>>]
           = [currentFrameID |-> f, messages |-> mb.messages, futureFrameMessages |-> <<>>]
<1> DEFINE nb == [mb EXCEPT !.currentFrameID = f, !.futureFrameMessages = <<>>]
<1>1. /\ nb \in [currentFrameID: {f}, messages: Seq(S), futureFrameMessages: {<<>>}]
      /\ nb.messages = mb.messages
  BY DEF Mailbox
<1> HIDE DEF nb
<1>2. nb = [currentFrameID |-> f, messages |-> mb.messages, futureFrameMessages |-> <<>>]
  BY <1>1
<1>3. QED
  BY <1>2 DEF nb

\* Appending to the second part of a sequence is appending to the whole.
LEMMA ConcatAppend ==
  ASSUME NEW S, NEW s \in Seq(S), NEW u \in Seq(S), NEW e \in S
  PROVE  s \o Append(u, e) = Append(s \o u, e)
<1>1. <<e>> \in Seq(S) /\ s \o u \in Seq(S)
  BY ConcatProperties
<1>2. Append(u, e) = u \o <<e>> /\ Append(s \o u, e) = (s \o u) \o <<e>>
  BY <1>1, AppendIsConcat
<1>3. (s \o u) \o <<e>> = s \o (u \o <<e>>)
  BY <1>1, ConcatAssociative
<1>4. QED
  BY <1>2, <1>3

\* What is put after k rounds is what stands at the first k positions; so the
\* loop that puts every deferred message again does what StartNewFrame says.
LEMMA LoopFacts ==
  ASSUME NEW S, NEW mb \in Mailbox(S), NEW f \in Int, \A m \in S : m.frameID \in Int
  PROVE  StartNewFrameLoop(mb, f) = StartNewFrame(mb, f)
<1> DEFINE s == mb.futureFrameMessages
           n == Len(s)
           start == [mb EXCEPT !.currentFrameID = f, !.futureFrameMessages = <<>>]
           round[k \in 0 .. Len(s)] ==
             IF k = 0 THEN start ELSE LockedPut(round[k - 1], s[k])
           due(k) == {i \in 1 .. k : s[i].frameID = f}
           early(k) == {i \in 1 .. k : s[i].frameID > f}
           put(k) == [currentFrameID |-> f,
                      messages |-> mb.messages \o SubseqAt(s, due(k)),
                      futureFrameMessages |-> SubseqAt(s, early(k))]
<1>1. /\ mb.messages \in Seq(S) /\ s \in Seq(S)
      /\ DOMAIN s = 1 .. n /\ n \in Nat
      /\ \A i \in 1 .. n : s[i] \in S /\ s[i].frameID \in Int
  BY LenProperties, ElementOfSeq DEF Mailbox
<1>2. put(0) = start
  <2>1. due(0) = {} /\ early(0) = {}
    OBVIOUS
  <2>2. mb.messages \o <<>> = mb.messages
    BY <1>1, ConcatEmptySeq
  <2>3. put(0) = [currentFrameID |-> f, messages |-> mb.messages, futureFrameMessages |-> <<>>]
    BY <2>1, <2>2, SubseqAtNone
  <2>4. start = [currentFrameID |-> f, messages |-> mb.messages, futureFrameMessages |-> <<>>]
    BY ForgetfulMailbox
  <2>5. QED
    BY <2>3, <2>4
<1>3. ASSUME NEW k \in 1 .. n
      PROVE  put(k) = LockedPut(put(k - 1), s[k])
  <2>1. k \in DOMAIN s /\ s[k] \in S /\ s[k].frameID \in Int
    BY <1>1
  <2>2. due(k - 1) \in SUBSET (1 .. k - 1) /\ early(k - 1) \in SUBSET (1 .. k - 1)
    OBVIOUS
  <2>3. 1 .. k = (1 .. k - 1) \cup {k}
    OBVIOUS
  <2> HIDE DEF s, n
  <2>4. CASE s[k].frameID < f
    <3>1. due(k) = due(k - 1) /\ early(k) = early(k - 1)
      BY <2>1, <2>3, <2>4
    <3>2. LockedPut(put(k - 1), s[k]) = put(k - 1)
      BY <2>1, <2>4 DEF LockedPut
    <3>3. QED
      BY <3>1, <3>2
  <2>5. CASE s[k].frameID = f
    <3>1. due(k) = due(k - 1) \cup {k} /\ early(k) = early(k - 1)
      BY <2>1, <2>3, <2>5
    <3>2. /\ SubseqAt(s, due(k)) = Append(SubseqAt(s, due(k - 1)), s[k])
          /\ SubseqAt(s, due(k - 1)) \in Seq(S)
      BY <1>1, <2>1, <2>2, <2>3, <3>1, SubseqAtNext, SubseqAtFacts,
         due(k - 1) \in SUBSET DOMAIN s
    <3> HIDE DEF due, early
    <3> DEFINE a == SubseqAt(s, due(k - 1))
    <3>3. mb.messages \o Append(a, s[k]) = Append(mb.messages \o a, s[k])
      <4>1. mb.messages \in Seq(S) /\ a \in Seq(S) /\ s[k] \in S
        BY <1>1, <2>1, <3>2
      <4>2. \A u, v \in Seq(S) : \A e \in S : u \o Append(v, e) = Append(u \o v, e)
        BY ConcatAppend
      <4> HIDE DEF a
      <4>3. QED
        BY ONLY <4>1, <4>2
    <3>4. LockedPut(put(k - 1), s[k]) =
            [put(k - 1) EXCEPT !.messages = Append(@, s[k])]
      BY <2>1, <2>5 DEF LockedPut
    <3>5. QED
      BY <3>1, <3>2, <3>3, <3>4
  <2>6. CASE s[k].frameID > f
    <3>1. due(k) = due(k - 1) /\ early(k) = early(k - 1) \cup {k}
      BY <2>1, <2>3, <2>6
    <3>2. SubseqAt(s, early(k)) = Append(SubseqAt(s, early(k - 1)), s[k])
      BY <1>1, <2>1, <2>2, <3>1, SubseqAtNext
    <3> HIDE DEF due, early
    <3>3. LockedPut(put(k - 1), s[k]) =
            [put(k - 1) EXCEPT !.futureFrameMessages = Append(@, s[k])]
      BY <2>1, <2>6 DEF LockedPut
    <3>4. QED
      BY <3>1, <3>2, <3>3
  <2>7. QED
    BY <2>1, <2>4, <2>5, <2>6
<1> HIDE DEF put, start
<1>4. round = [k \in 0 .. n |-> IF k = 0 THEN start ELSE LockedPut(round[k - 1], s[k])]
  <2> DEFINE isRound(g) ==
        g = [k \in 0 .. n |-> IF k = 0 THEN start ELSE LockedPut(g[k - 1], s[k])]
      p == [k \in 0 .. n |-> put(k)]
  <2>1. isRound(p)
    <3>1. \A k \in 0 .. n : p[k] = put(k)
      OBVIOUS
    <3>2. ASSUME NEW k \in 0 .. n
          PROVE  put(k) = IF k = 0 THEN start ELSE LockedPut(p[k - 1], s[k])
      <4>1. CASE k = 0
        BY <1>2, <4>1
      <4>2. CASE k # 0
        <5>1. k \in 1 .. n /\ k - 1 \in 0 .. n
          BY <1>1, <4>2
        <5>2. p[k - 1] = put(k - 1)
          BY <3>1, <5>1
        <5>3. QED
          BY <1>3, <4>2, <5>1, <5>2
      <4>3. QED
        BY <4>1, <4>2
    <3>3. QED
      BY <3>2
  <2>2. round = CHOOSE g : isRound(g)
    BY DEF round
  <2> HIDE DEF p, round, isRound
  <2>3. isRound(round)
    BY <2>1, <2>2
  <2>4. QED
    BY <2>3 DEF isRound
<1> HIDE DEF round
<1>5. \A k \in 0 .. n : round[k] = put(k)
  <2> DEFINE N == {k \in 0 .. n : round[k] # put(k)}
  <2> SUFFICES ASSUME N # {} PROVE FALSE
    OBVIOUS
  <2>1. N \in SUBSET Nat
    OBVIOUS
  <2>2. PICK k \in N : \A j \in Nat : j < k => j \notin N
    BY <2>1, LeastNumber
  <2>3. k \in 0 .. n /\ round[k] # put(k)
    OBVIOUS
  <2>4. k # 0
    BY <1>2, <1>4, <2>3
  <2>5. k \in 1 .. n /\ k - 1 \in 0 .. n /\ k - 1 \in Nat /\ k - 1 < k
    BY <1>1, <2>3, <2>4
  <2>6. round[k - 1] = put(k - 1)
    BY <2>2, <2>5
  <2>7. round[k] = LockedPut(round[k - 1], s[k])
    BY <1>4, <2>3, <2>4
  <2>8. QED
    BY <1>3, <2>3, <2>5, <2>6, <2>7
<1>6. round[n] = put(n)
  BY <1>1, <1>5
<1>7. put(n) = StartNewFrame(mb, f)
  BY <1>1 DEF put, StartNewFrame
<1>8. StartNewFrameLoop(mb, f) = round[n]
  BY DEF StartNewFrameLoop, round, start
<1>9. QED
  BY <1>6, <1>7, <1>8
=============================================================================
