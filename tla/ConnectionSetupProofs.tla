----------------------- MODULE ConnectionSetupProofs -----------------------
(***************************************************************************)
(* Proofs about ConnectionSetup, for every number of ranks and clients:    *)
(* the inductive invariant; from it that nobody is let through before all  *)
(* have come and that no frame begins too early; and the refinement of     *)
(* SoftBarrier.                                                            *)
(***************************************************************************)
EXTENDS ConnectionSetup, MailboxFacts

USE NumRanksAssumption, ClientsAssumption, TokensAssumption

-----------------------------------------------------------------------------
(* Counting messages in a queue.                                           *)

\* An occurrence count is a number.
LEMMA OccurrencesType ==
  ASSUME NEW S, NEW q \in Seq(S), NEW c
  PROVE  /\ IsFiniteSet({i \in 1 .. Len(q) : q[i] = c})
         /\ Occurrences(q, c) \in Nat
<1>1. Len(q) \in Nat
  BY LenProperties
<1>2. IsFiniteSet(1 .. Len(q))
  BY <1>1, FS_Interval
<1>3. IsFiniteSet({i \in 1 .. Len(q) : q[i] = c})
  BY <1>2, FS_Subset
<1>4. QED
  BY <1>3, FS_CardinalityType DEF Occurrences

\* Taking the head from a queue takes one message, for whom it is.
LEMMA OccurrencesTail ==
  ASSUME NEW S, NEW q \in Seq(S), q # <<>>, NEW c
  PROVE  Occurrences(q, c) = Occurrences(Tail(q), c) + (IF Head(q) = c THEN 1 ELSE 0)
<1> DEFINE r == Tail(q)
           A == {i \in 1 .. Len(q) : q[i] = c}
           B == {i \in 1 .. Len(r) : r[i] = c}
           C == {i \in A : i > 1}
<1>1. /\ r \in Seq(S)
      /\ Len(r) = Len(q) - 1
      /\ \A i \in 1 .. Len(r) : r[i] = q[i + 1]
      /\ Len(q) \in Nat \ {0}
      /\ Head(q) = q[1]
  BY HeadTailProperties, EmptySeq
<1> HIDE DEF r
<1>2. IsFiniteSet(A) /\ IsFiniteSet(B) /\ IsFiniteSet(C)
  <2>1. IsFiniteSet(A) /\ IsFiniteSet(B)
    BY <1>1, OccurrencesType
  <2>2. QED
    BY <2>1, FS_Subset
<1>3. Cardinality(B) = Cardinality(C)
  <2> DEFINE f == [i \in B |-> i + 1]
  <2>1. f \in [B -> C]
    BY <1>1
  <2>2. \A i, j \in B : f[i] = f[j] => i = j
    BY <1>1
  <2>3. \A k \in C : \E i \in B : f[i] = k
    <3>1. ASSUME NEW k \in C PROVE k - 1 \in B /\ f[k - 1] = k
      BY <1>1
    <3>2. QED
      BY <3>1
  <2>4. f \in Bijection(B, C)
    BY <2>1, <2>2, <2>3 DEF Bijection, Injection, Surjection, IsInjective
  <2>5. ExistsBijection(B, C)
    BY <2>4 DEF ExistsBijection
  <2> HIDE DEF B, C
  <2>6. QED
    BY <1>2, <2>5, FS_Bijection
<1>4. CASE Head(q) = c
  <2>1. A = C \cup {1} /\ 1 \notin C
    BY <1>1, <1>4
  <2>2. Cardinality(A) = Cardinality(C) + 1
    BY <1>2, <2>1, FS_AddElement
  <2>3. QED
    BY <1>3, <1>4, <2>2 DEF Occurrences, r
<1>5. CASE Head(q) # c
  <2>1. A = C
    BY <1>1, <1>5
  <2>2. Cardinality(C) \in Nat
    BY <1>2, FS_CardinalityType
  <2>3. Occurrences(q, c) = Cardinality(A) /\ Occurrences(r, c) = Cardinality(B)
    BY DEF Occurrences
  <2> HIDE DEF A, B, C
  <2>4. QED
    BY <1>3, <1>5, <2>1, <2>2, <2>3 DEF r
<1>6. QED
  BY <1>4, <1>5

\* One copy for every remote: a queue gets at most one more message for
\* anyone if nobody is a remote twice.
LEMMA OccurrencesConcat ==
  ASSUME NEW S, NEW q \in Seq(S), NEW u \in Seq(S), IsInjective(u), NEW c
  PROVE  Occurrences(q \o u, c) <= Occurrences(q, c) + 1
<1> DEFINE w == q \o u
           A == {i \in 1 .. Len(q) : q[i] = c}
           B == {i \in 1 .. Len(w) : w[i] = c}
           C == {i \in 1 .. Len(w) : i > Len(q) /\ u[i - Len(q)] = c}
<1>1. /\ w \in Seq(S)
      /\ Len(w) = Len(q) + Len(u)
      /\ \A i \in 1 .. Len(q) + Len(u) :
           w[i] = IF i <= Len(q) THEN q[i] ELSE u[i - Len(q)]
      /\ Len(q) \in Nat /\ Len(u) \in Nat
      /\ DOMAIN u = 1 .. Len(u)
  BY ConcatProperties, LenProperties
<1> HIDE DEF w
<1>2. IsFiniteSet(A) /\ Cardinality(A) \in Nat
  BY OccurrencesType, FS_CardinalityType
<1>3. B = A \cup C
  BY <1>1
<1>4. ASSUME NEW i \in C, NEW j \in C PROVE i = j
  <2>1. i - Len(q) \in DOMAIN u /\ j - Len(q) \in DOMAIN u /\ u[i - Len(q)] = u[j - Len(q)]
    BY <1>1
  <2>2. i - Len(q) = j - Len(q)
    BY <2>1 DEF IsInjective
  <2>3. i \in Nat /\ j \in Nat
    BY <1>1
  <2>4. QED
    BY <1>1, <2>2, <2>3
<1>4a. A \cap C = {}
  BY <1>1
<1> HIDE DEF A, B, C
<1>5. Cardinality(B) <= Cardinality(A) + 1
  <2>1. CASE C = {}
    BY <1>2, <1>3, <2>1
  <2>2. CASE C # {}
    <3>0. PICK k \in C : TRUE
      BY <2>2
    <3>1. C = {k}
      BY <1>4, <3>0
    <3>2. k \notin A /\ B = A \cup {k}
      BY <1>3, <1>4a, <3>1
    <3>3. Cardinality(B) = Cardinality(A) + 1
      BY <1>2, <3>2, FS_AddElement
    <3>4. QED
      BY <1>2, <3>3
  <2>3. QED
    BY <2>1, <2>2
<1>6. QED
  BY <1>5 DEF Occurrences, w, A, B

-----------------------------------------------------------------------------
(* The ranks that serve clients.                                           *)

\* Clients connect to ranks 0 .. NumServices - 1.
LEMMA ServicesFacts ==
  ASSUME useHeadNode \in BOOLEAN
  PROVE  /\ NumServices \in 1 .. NumRanks
         /\ Services = 0 .. NumServices - 1
         /\ 0 \in Services /\ Services \subseteq Ranks
<1>1. CASE useHeadNode
  <2>1. NumServices = 1 /\ Services = {0}
    BY <1>1, FS_Singleton DEF Services, NumServices
  <2>2. QED
    BY <2>1 DEF Ranks
<1>2. CASE ~ useHeadNode
  <2>1. NumServices = NumRanks /\ Services = Ranks
    BY <1>2, FS_Interval DEF Services, NumServices, Ranks
  <2>2. QED
    BY <2>1 DEF Ranks
<1>3. QED
  BY <1>1, <1>2

\* A rank that has as many remotes as it expects has every client.
LEMMA AllAreRemotes ==
  ASSUME TypeOK, NEW s \in Ranks, Complete(s)
  PROVE  Range(remotes[s]) = Clients
<1> DEFINE q == remotes[s]
<1>1. q \in Seq(Clients) /\ IsInjective(q) /\ Len(q) \in {-1, numPeers}
  BY DEF TypeOK, Complete
<1>2. Len(q) \in Nat /\ q \in [1 .. Len(q) -> Clients] /\ DOMAIN q = 1 .. Len(q)
  BY <1>1, LenProperties
<1>3. Len(q) = Cardinality(Clients)
  BY <1>1, <1>2 DEF numPeers
<1>4. IsFiniteSet(1 .. Len(q)) /\ Cardinality(1 .. Len(q)) = Len(q)
  BY <1>2, FS_Interval
<1> HIDE DEF q
<1>5. q \in Injection(1 .. Len(q), Clients)
  BY <1>1, <1>2 DEF Injection, IsInjective
<1>6. q \in Surjection(1 .. Len(q), Clients)
  BY <1>3, <1>4, <1>5, FS_Injection
<1>7. QED
  BY <1>2, <1>6 DEF Surjection, Range, q

-----------------------------------------------------------------------------
(* The invariant holds in the beginning, and whoever moves keeps it.       *)

\* What the sums of Account are made of.
LEMMA AccountTypes ==
  ASSUME TypeOK, NEW c \in Clients, NEW s \in Ranks
  PROVE  /\ Occurrences(outbox[s], c) \in Nat /\ inbox[c][s] \in Nat
         /\ Taken(c, s) \in Nat /\ Sent(s) \in Nat
         /\ Sent(s) <= 1 + (IF s = 0 THEN tokens ELSE 0)
         /\ tokens \in Nat /\ tokens <= MaxFramesInFlight
<1>1. Occurrences(outbox[s], c) \in Nat
  BY OccurrencesType DEF TypeOK
<1>2. /\ inbox[c][s] \in Nat /\ tokens \in Nat /\ tokens <= MaxFramesInFlight
      /\ client[c].greeted \in Nat /\ client[c].begun \in Nat
  BY DEF TypeOK
<1>3. QED
  BY <1>1, <1>2 DEF Taken, Sent

LEMMA ClientTypes ==
  ASSUME TypeOK, NEW c \in Clients \cup Strangers
  PROVE  /\ client[c] = [connected |-> client[c].connected, greeted |-> client[c].greeted,
                          begun |-> client[c].begun]
         /\ client[c].connected \in Nat /\ client[c].greeted \in Nat
         /\ client[c].begun \in Nat
BY DEF TypeOK

LEMMA InitInvariant == Init => IInv
<1> SUFFICES ASSUME Init PROVE IInv
  OBVIOUS
<1>1. 0 \in Ranks
  BY DEF Ranks
<1>2. <<>> \in Seq(Clients) /\ <<>> \in Seq(Clients \cup Strangers)
      /\ IsInjective(<<>>) /\ Range(<<>>) = {} /\ Len(<<>>) = 0
  BY DEF IsInjective, Range
<1>3. TypeOK
  BY <1>2 DEF Init, TypeOK, Waiting
<1>4. NumServices \in Nat
  BY ServicesFacts DEF Init
<1>5. \A s \in Ranks : ComeOnce(s) /\ AllHaveCome(s)
  BY <1>2 DEF Init, ComeOnce, AllHaveCome, Complete, PastHandshake
<1>6. InStep
  BY <1>1 DEF Init, InStep, PastHandshake
<1>7. ASSUME NEW c \in Clients, NEW s \in Ranks PROVE Account(c, s)
  <2>1. {i \in 1 .. Len(outbox[s]) : outbox[s][i] = c} = {}
    BY DEF Init
  <2>2. Occurrences(outbox[s], c) = 0
    BY <2>1, FS_EmptySet DEF Occurrences
  <2>3. Taken(c, s) = 0 /\ Sent(s) = 0 /\ inbox[c][s] = 0
    BY DEF Init, Taken, Sent, PastHandshake, Ranks
  <2>4. QED
    BY <2>2, <2>3 DEF Account
<1>8. QED
  BY <1>3, <1>4, <1>5, <1>6, <1>7 DEF IInv, Init

\* A rank goes on in its constructor and tells nobody.
LEMMA RankGoesOn ==
  ASSUME IInv, NEW r \in Ranks,
         NEW at \in {"create", "barrier", "greet"} \cup Waiting \cup PastHandshake,
         rank' = [rank EXCEPT ![r] = at],
         UNCHANGED <<useHeadNode, tokens, outbox, socketVars, clientVars>>,
         rank[r] \in PastHandshake => at \in PastHandshake,
         r \in Services /\ at \in {"greet"} \cup PastHandshake => Complete(r),
         at \in PastHandshake \ {"lastBarrier"} => \A q \in Ranks : rank[q] \in PastHandshake,
         r = 0 /\ tokens > 0 => at \in PastHandshake \ {"lastBarrier"},
         r = 0 /\ at = "tokens" => tokens < MaxFramesInFlight
  PROVE  IInv'
<1>1. /\ UNCHANGED <<useHeadNode, tokens, outbox, accepter, backlog, remotes, expected,
                     client, inbox>>
      /\ NumServices' = NumServices /\ Services' = Services
      /\ \A s \in Ranks : Complete(s)' <=> Complete(s)
  BY DEF socketVars, clientVars, Services, NumServices, Complete
<1>2. rank'[r] = at /\ \A s \in Ranks \ {r} : rank'[s] = rank[s]
  BY DEF IInv, TypeOK
<1>3. TypeOK'
  BY <1>1 DEF IInv, TypeOK
<1>4. ASSUME NEW s \in Ranks PROVE ComeOnce(s)' /\ AllHaveCome(s)'
  BY <1>1, <1>2 DEF IInv, ComeOnce, AllHaveCome
<1>5. InStep'
  BY <1>1, <1>2 DEF IInv, InStep
<1>6. ASSUME NEW c \in Clients, NEW s \in Ranks PROVE Account(c, s)'
  <2>1. Taken(c, s)' = Taken(c, s) /\ inbox'[c][s] = inbox[c][s]
        /\ Occurrences(outbox[s], c)' = Occurrences(outbox[s], c)
    BY <1>1 DEF Taken, Occurrences
  <2>2. Sent(s)' >= Sent(s) /\ Sent(s)' \in Nat
    BY <1>1, <1>2 DEF Sent, IInv, TypeOK
  <2>3. Account(c, s)
    BY DEF IInv
  <2>4. QED
    BY <2>1, <2>2, <2>3, AccountTypes DEF IInv, Account
<1>7. QED
  BY <1>1, <1>3, <1>4, <1>5, <1>6 DEF IInv

\* The steps of the constructor that only move the rank.
LEMMA ConstructorStep ==
  ASSUME IInv, NEW r \in Ranks,
         \/ EnterBarrier(r) \/ LeaveBarrier(r) \/ CheckRemotes(r) \/ FallAsleep(r)
         \/ WakeUp(r) \/ LeaveLastBarrier(r) \/ StartAccepting(r)
  PROVE  IInv'
<1>1. 0 \in Ranks /\ rank \in [Ranks -> {"create", "barrier", "greet"} \cup Waiting \cup PastHandshake]
  BY ServicesFacts DEF IInv, TypeOK
<1>2. r = 0 /\ tokens > 0 => rank[r] \in PastHandshake \ {"lastBarrier"}
  BY DEF IInv, InStep
<1>3. CASE EnterBarrier(r)
  BY <1>2, <1>3, RankGoesOn DEF EnterBarrier, PastHandshake
<1>4. CASE LeaveBarrier(r)
  <2>1. CASE r \in Services
    BY <1>2, <1>4, <2>1, RankGoesOn DEF LeaveBarrier, PastHandshake, Waiting
  <2>2. CASE r \notin Services
    BY <1>2, <1>4, <2>2, RankGoesOn DEF LeaveBarrier, PastHandshake
  <2>3. QED
    BY <2>1, <2>2
<1>5. CASE CheckRemotes(r)
  <2>1. CASE Complete(r)
    BY <1>2, <1>5, <2>1, RankGoesOn DEF CheckRemotes, PastHandshake
  <2>2. CASE ~ Complete(r)
    BY <1>2, <1>5, <2>2, RankGoesOn DEF CheckRemotes, PastHandshake, Waiting
  <2>3. QED
    BY <2>1, <2>2
<1>6. CASE FallAsleep(r)
  BY <1>2, <1>6, RankGoesOn DEF FallAsleep, PastHandshake, Waiting
<1>7. CASE WakeUp(r)
  BY <1>2, <1>7, RankGoesOn DEF WakeUp, PastHandshake, Waiting
<1>8. CASE LeaveLastBarrier(r)
  <2>1. r \in Services => Complete(r)
    BY <1>8 DEF LeaveLastBarrier, IInv, AllHaveCome, PastHandshake
  <2>2. CASE r = 0
    <3>1. ~ tokens > 0 /\ tokens \in Nat
      BY <1>2, <1>8, <2>2 DEF LeaveLastBarrier, IInv, TypeOK
    <3>2. rank' = [rank EXCEPT ![r] = "tokens"] /\ tokens < MaxFramesInFlight
      BY <1>8, <2>2, <3>1 DEF LeaveLastBarrier
    <3>3. /\ UNCHANGED <<useHeadNode, tokens, outbox, socketVars, clientVars>>
          /\ \A q \in Ranks : rank[q] \in PastHandshake
      BY <1>8 DEF LeaveLastBarrier
    <3>4. "tokens" \in PastHandshake \ {"lastBarrier"}
      BY DEF PastHandshake
    <3>5. QED
      BY <2>1, <3>1, <3>2, <3>3, <3>4, RankGoesOn
  <2>3. CASE r # 0
    BY <1>8, <2>1, <2>3, RankGoesOn DEF LeaveLastBarrier, PastHandshake
  <2>4. QED
    BY <2>2, <2>3
<1>9. CASE StartAccepting(r)
  <2>1. r \in Services => Complete(r)
    BY <1>9 DEF StartAccepting, IInv, AllHaveCome, PastHandshake
  <2>2. \A q \in Ranks : rank[q] \in PastHandshake
    BY <1>9 DEF StartAccepting, IInv, InStep, PastHandshake
  <2>3. QED
    BY <1>9, <2>1, <2>2, RankGoesOn DEF StartAccepting, PastHandshake
<1>10. QED
  BY <1>3, <1>4, <1>5, <1>6, <1>7, <1>8, <1>9

\* A rank sends one message to each of its clients, and the account of what it
\* has sent goes up by this one.
LEMMA BroadcastStep ==
  ASSUME IInv, NEW r \in Ranks, Broadcast(r), Sent(r)' = Sent(r) + 1,
         \A s \in Ranks \ {r} : Sent(s)' = Sent(s),
         UNCHANGED <<client, inbox>>
  PROVE  /\ outbox' \in [Ranks -> Seq(Clients)]
         /\ \A c \in Clients, s \in Ranks : Account(c, s)'
<1>1. /\ outbox'[r] = outbox[r] \o remotes[r]
      /\ \A s \in Ranks \ {r} : outbox'[s] = outbox[s]
      /\ outbox[r] \in Seq(Clients) /\ remotes[r] \in Seq(Clients) /\ IsInjective(remotes[r])
  BY DEF Broadcast, IInv, TypeOK
<1>2. outbox' \in [Ranks -> Seq(Clients)]
  <2>1. outbox[r] \o remotes[r] \in Seq(Clients)
    BY <1>1, ConcatProperties
  <2>2. QED
    BY <2>1 DEF Broadcast, IInv, TypeOK
<1>3. ASSUME NEW c \in Clients, NEW s \in Ranks PROVE Account(c, s)'
  <2>1. /\ Taken(c, s)' = Taken(c, s) /\ inbox'[c][s] = inbox[c][s]
        /\ Account(c, s)
    BY DEF Taken, IInv
  <2>2. Occurrences(outbox[s], c)' \in Nat
    BY <1>2, OccurrencesType
  <2>3. CASE s = r
    <3>1. Occurrences(outbox[s], c)' <= Occurrences(outbox[s], c) + 1
      BY <1>1, <2>3, OccurrencesConcat
    <3>2. QED
      BY <2>1, <2>2, <2>3, <3>1, AccountTypes DEF IInv, Account
  <2>4. CASE s # r
    <3>1. Occurrences(outbox[s], c)' = Occurrences(outbox[s], c)
      BY <1>1, <2>4
    <3>2. QED
      BY <2>1, <2>4, <3>1 DEF Account
  <2>5. QED
    BY <2>3, <2>4
<1>4. QED
  BY <1>2, <1>3

LEMMA GreetStep ==
  ASSUME IInv, NEW s \in Ranks, Greet(s)
  PROVE  IInv'
<1>1. /\ UNCHANGED <<useHeadNode, tokens, accepter, backlog, remotes, expected, client, inbox>>
      /\ NumServices' = NumServices /\ Services' = Services
      /\ \A r \in Ranks : Complete(r)' <=> Complete(r)
  BY DEF Greet, socketVars, clientVars, Services, NumServices, Complete
<1>2. /\ rank[s] = "greet" /\ rank'[s] = "lastBarrier"
      /\ \A r \in Ranks \ {s} : rank'[r] = rank[r]
  BY DEF Greet, IInv, TypeOK
<1>3. /\ outbox' \in [Ranks -> Seq(Clients)]
      /\ \A c \in Clients, r \in Ranks : Account(c, r)'
  <2>1. Sent(s)' = Sent(s) + 1
    BY <1>1, <1>2 DEF Sent, PastHandshake, IInv, TypeOK
  <2>2. \A r \in Ranks \ {s} : Sent(r)' = Sent(r)
    BY <1>1, <1>2 DEF Sent
  <2>3. QED
    BY <1>1, <2>1, <2>2, BroadcastStep DEF Greet
<1>4. TypeOK'
  <2>1. rank' \in [Ranks -> {"create", "barrier", "greet"} \cup Waiting \cup PastHandshake]
    BY DEF Greet, IInv, TypeOK, PastHandshake
  <2>2. QED
    BY <1>1, <1>3, <2>1 DEF IInv, TypeOK
<1>5. ASSUME NEW r \in Ranks PROVE ComeOnce(r)' /\ AllHaveCome(r)'
  BY <1>1, <1>2 DEF IInv, ComeOnce, AllHaveCome
<1>6. InStep'
  <2>1. rank[s] \notin PastHandshake /\ rank'[s] \in PastHandshake
    BY <1>2 DEF PastHandshake
  <2>2. \A r \in Ranks : rank[r] \notin PastHandshake \ {"lastBarrier"}
    BY <2>1 DEF IInv, InStep
  <2>3. rank'[s] \notin PastHandshake \ {"lastBarrier"} /\ rank'[s] # "tokens"
    BY <1>2
  <2>4. \A r \in Ranks : rank'[r] \notin PastHandshake \ {"lastBarrier"}
    BY <1>2, <2>2, <2>3
  <2>5. 0 \in Ranks /\ "tokens" \in PastHandshake \ {"lastBarrier"}
    BY ServicesFacts DEF IInv, TypeOK, PastHandshake
  <2>6. ~ tokens > 0
    BY <2>2, <2>5 DEF IInv, InStep
  <2>7. QED
    BY <1>1, <2>4, <2>5, <2>6 DEF InStep
<1>7. QED
  BY <1>1, <1>3, <1>4, <1>5, <1>6 DEF IInv

LEMMA SendTokenStep ==
  ASSUME IInv, SendToken
  PROVE  IInv'
<1>1. /\ UNCHANGED <<useHeadNode, accepter, backlog, remotes, expected, client, inbox>>
      /\ NumServices' = NumServices /\ Services' = Services
      /\ \A r \in Ranks : Complete(r)' <=> Complete(r)
  BY DEF SendToken, socketVars, clientVars, Services, NumServices, Complete
<1>2. /\ 0 \in Ranks /\ rank[0] = "tokens" /\ tokens' = tokens + 1
      /\ tokens \in Nat /\ tokens < MaxFramesInFlight
      /\ rank'[0] = IF tokens' < MaxFramesInFlight THEN "tokens" ELSE "accept"
      /\ \A r \in Ranks \ {0} : rank'[r] = rank[r]
  <2>1. 0 \in Ranks
    BY ServicesFacts DEF IInv, TypeOK
  <2>2. tokens \in Nat /\ tokens < MaxFramesInFlight
    BY DEF SendToken, IInv, TypeOK, InStep
  <2>3. QED
    BY <2>1, <2>2 DEF SendToken, IInv, TypeOK
<1>3. /\ outbox' \in [Ranks -> Seq(Clients)]
      /\ \A c \in Clients, r \in Ranks : Account(c, r)'
  <2>1. Sent(0)' = Sent(0) + 1
    BY <1>2 DEF Sent, PastHandshake
  <2>2. \A r \in Ranks \ {0} : Sent(r)' = Sent(r)
    BY <1>2 DEF Sent
  <2>3. QED
    BY <1>1, <1>2, <2>1, <2>2, BroadcastStep DEF SendToken
<1>4. TypeOK'
  <2>1. rank' \in [Ranks -> {"create", "barrier", "greet"} \cup Waiting \cup PastHandshake]
    BY <1>2 DEF SendToken, IInv, TypeOK, PastHandshake
  <2>2. tokens' \in 0 .. MaxFramesInFlight
    BY <1>2
  <2>3. QED
    BY <1>1, <1>3, <2>1, <2>2 DEF IInv, TypeOK
<1>5. ASSUME NEW r \in Ranks PROVE ComeOnce(r)' /\ AllHaveCome(r)'
  BY <1>1, <1>2 DEF IInv, ComeOnce, AllHaveCome, PastHandshake
<1>6. InStep'
  BY <1>1, <1>2 DEF IInv, InStep, PastHandshake
<1>7. QED
  BY <1>1, <1>3, <1>4, <1>5, <1>6 DEF IInv

-----------------------------------------------------------------------------
(* The threads of the socket group, and the clients.                       *)

LEMMA NotifyStep ==
  ASSUME IInv, NEW s \in Ranks, Notify(s)
  PROVE  IInv'
<1>1. /\ UNCHANGED <<useHeadNode, tokens, outbox, backlog, remotes, expected, client, inbox>>
      /\ NumServices' = NumServices /\ Services' = Services
      /\ \A r \in Ranks : Complete(r)' <=> Complete(r)
  BY DEF Notify, clientVars, Services, NumServices, Complete
<1>2. /\ accepter[s] = "notify" /\ accepter'[s] = "serve"
      /\ \A r \in Ranks \ {s} : accepter'[r] = accepter[r]
      /\ rank'[s] = IF rank[s] = "asleep" THEN "check" ELSE rank[s]
      /\ \A r \in Ranks \ {s} : rank'[r] = rank[r]
  BY DEF Notify, IInv, TypeOK
<1>3. /\ \A r \in Ranks : rank'[r] \in PastHandshake <=> rank[r] \in PastHandshake
      /\ \A r \in Ranks, at \in {"greet"} \cup PastHandshake : rank'[r] = at <=> rank[r] = at
  BY <1>2 DEF PastHandshake
<1>4. TypeOK'
  <2>1. /\ rank' \in [Ranks -> {"create", "barrier", "greet"} \cup Waiting \cup PastHandshake]
        /\ accepter' \in [Ranks -> {"accept", "notify", "serve"}]
    BY DEF Notify, IInv, TypeOK, Waiting
  <2>2. QED
    BY <1>1, <2>1 DEF IInv, TypeOK
<1>5. ASSUME NEW r \in Ranks PROVE ComeOnce(r)' /\ AllHaveCome(r)'
  BY <1>1, <1>2, <1>3 DEF IInv, ComeOnce, AllHaveCome
<1>6. InStep'
  <2>1. 0 \in Ranks /\ "tokens" \in PastHandshake
    BY ServicesFacts DEF IInv, TypeOK, PastHandshake
  <2>2. QED
    BY <1>1, <1>3, <2>1 DEF IInv, InStep
<1>7. ASSUME NEW c \in Clients, NEW r \in Ranks PROVE Account(c, r)'
  <2>1. Sent(r)' = Sent(r) /\ Taken(c, r)' = Taken(c, r) /\ Account(c, r)
    BY <1>1, <1>3 DEF Sent, Taken, IInv
  <2>2. QED
    BY <1>1, <2>1 DEF Account, Occurrences
<1>8. QED
  BY <1>1, <1>4, <1>5, <1>6, <1>7 DEF IInv

LEMMA AcceptStep ==
  ASSUME IInv, NEW s \in Ranks, Accept(s)
  PROVE  IInv'
<1> DEFINE c == Head(backlog[s])
<1>1. /\ UNCHANGED <<useHeadNode, rank, tokens, outbox, client, inbox>>
      /\ NumServices' = NumServices /\ Services' = Services
      /\ accepter[s] = "accept" /\ backlog[s] # <<>>
  BY DEF Accept, clientVars, Services, NumServices
<1>2. /\ backlog[s] \in Seq(Clients \cup Strangers) /\ backlog'[s] = Tail(backlog[s])
      /\ \A r \in Ranks \ {s} : backlog'[r] = backlog[r]
      /\ IsInjective(backlog[s])
  BY DEF Accept, IInv, TypeOK, ComeOnce
<1>3. /\ c \in Range(backlog[s])
      /\ Tail(backlog[s]) \in Seq(Clients \cup Strangers)
      /\ Range(backlog[s]) = Range(backlog'[s]) \cup {c}
      /\ IsInjective(backlog'[s]) /\ c \notin Range(backlog'[s])
  BY <1>1, <1>2, TailFacts
<1>4. c \in Clients \cup Strangers /\ s < client[c].connected
      /\ c \notin Range(remotes[s])
  <2>1. Range(backlog[s]) \subseteq Clients \cup Strangers
    BY <1>2, RangeEquality, LenProperties DEF Range
  <2>2. QED
    BY <1>3, <2>1 DEF IInv, ComeOnce
<1>5. backlog' \in [Ranks -> Seq(Clients \cup Strangers)]
  BY <1>3 DEF Accept, IInv, TypeOK
<1>6. ~ Complete(s) /\ (s \in Services => rank[s] \notin {"greet"} \cup PastHandshake)
  BY <1>1 DEF IInv, AllHaveCome
<1>7. InStep' /\ \A b \in Clients, r \in Ranks : Account(b, r)'
  BY <1>1 DEF IInv, InStep, Account, Occurrences, Sent, Taken
<1> HIDE DEF c
<1>8. CASE c \in Strangers
  <2>1. UNCHANGED <<remotes, expected, accepter>>
    BY <1>8 DEF Accept, c
  <2>2. TypeOK'
    BY <1>1, <1>5, <2>1 DEF IInv, TypeOK
  <2>3. ASSUME NEW r \in Ranks PROVE ComeOnce(r)' /\ AllHaveCome(r)'
    <3>1. AllHaveCome(r)'
      BY <1>1, <2>1 DEF IInv, AllHaveCome, Complete
    <3>2. CASE r = s
      BY <1>1, <1>3, <2>1, <3>1, <3>2 DEF IInv, ComeOnce
    <3>3. CASE r # s
      BY <1>1, <1>2, <2>1, <3>1, <3>3 DEF IInv, ComeOnce
    <3>4. QED
      BY <3>2, <3>3
  <2>4. QED
    BY <1>1, <1>7, <2>2, <2>3 DEF IInv
<1>9. CASE c \notin Strangers
  <2>1. /\ remotes[s] \in Seq(Clients) /\ IsInjective(remotes[s]) /\ c \in Clients
        /\ expected[s] \in {-1, numPeers} /\ numPeers \in Nat \ {0}
    BY <1>4, <1>9, FS_CardinalityType, FS_EmptySet DEF IInv, TypeOK, numPeers
  <2>2. /\ remotes' = [remotes EXCEPT ![s] = Append(@, c)]
        /\ expected' = [expected EXCEPT ![s] = IF @ = -1 THEN numPeers ELSE @]
        /\ accepter' = [accepter EXCEPT ![s] =
                          IF Len(remotes'[s]) = expected'[s] THEN "notify" ELSE @]
    BY <1>9 DEF Accept, c
  <2>3. /\ Append(remotes[s], c) \in Seq(Clients)
        /\ Range(Append(remotes[s], c)) = Range(remotes[s]) \cup {c}
        /\ IsInjective(Append(remotes[s], c))
    BY <1>4, <2>1, AppendFacts
  <2>4. /\ remotes'[s] = Append(remotes[s], c) /\ expected'[s] = numPeers
        /\ accepter'[s] = IF Complete(s)' THEN "notify" ELSE "accept"
        /\ \A r \in Ranks \ {s} : /\ remotes'[r] = remotes[r] /\ expected'[r] = expected[r]
                                   /\ accepter'[r] = accepter[r]
    BY <1>1, <2>1, <2>2 DEF IInv, TypeOK, Complete
  <2>5. TypeOK'
    <3>1. remotes' \in [Ranks -> Seq(Clients)] /\ \A r \in Ranks : IsInjective(remotes'[r])
      BY <2>2, <2>3, <2>4 DEF IInv, TypeOK
    <3>2. expected' \in [Ranks -> {-1, numPeers}]
      BY <2>2 DEF IInv, TypeOK
    <3>3. accepter' \in [Ranks -> {"accept", "notify", "serve"}]
      BY <2>2 DEF IInv, TypeOK
    <3>4. QED
      BY <1>1, <1>5, <3>1, <3>2, <3>3 DEF IInv, TypeOK
  <2>6. ASSUME NEW r \in Ranks PROVE ComeOnce(r)' /\ AllHaveCome(r)'
    <3>1. CASE r = s
      <4>1. AllHaveCome(s)'
        BY <1>1, <1>6, <2>4 DEF AllHaveCome
      <4>2. IsInjective(remotes'[s]) /\ Range(remotes'[s]) = Range(remotes[s]) \cup {c}
        BY <2>3, <2>4
      <4>3. ComeOnce(s)
        BY DEF IInv
      <4>4. ComeOnce(s)'
        BY <1>1, <1>3, <4>2, <4>3 DEF ComeOnce
      <4>5. QED
        BY <3>1, <4>1, <4>4
    <3>2. CASE r # s
      <4>1. Complete(r)' <=> Complete(r)
        BY <2>4, <3>2 DEF Complete
      <4>2. QED
        BY <1>1, <1>2, <2>4, <3>2, <4>1 DEF IInv, ComeOnce, AllHaveCome
    <3>3. QED
      BY <3>1, <3>2
  <2>7. QED
    BY <1>1, <1>7, <2>5, <2>6 DEF IInv
<1>10. QED
  BY <1>8, <1>9

LEMMA SendThreadStep ==
  ASSUME IInv, NEW s \in Ranks, SendThread(s)
  PROVE  IInv'
<1>1. /\ UNCHANGED <<useHeadNode, rank, tokens, accepter, backlog, remotes, expected, client>>
      /\ NumServices' = NumServices /\ Services' = Services
  BY DEF SendThread, socketVars, Services, NumServices
<1>2. PICK h : h = Head(outbox[s])
  OBVIOUS
<1>3. outbox[s] \in Seq(Clients) /\ outbox[s] # <<>> /\ outbox'[s] = Tail(outbox[s])
      /\ \A r \in Ranks \ {s} : outbox'[r] = outbox[r]
  BY DEF SendThread, IInv, TypeOK
<1>4. h \in Clients /\ Tail(outbox[s]) \in Seq(Clients)
  BY <1>2, <1>3, HeadTailProperties
<1>5. /\ inbox' = [inbox EXCEPT ![h][s] = @ + 1]
      /\ inbox'[h][s] = inbox[h][s] + 1
      /\ \A c \in Clients, r \in Ranks : c # h \/ r # s => inbox'[c][r] = inbox[c][r]
  BY <1>2, <1>4 DEF SendThread, IInv, TypeOK
<1>6. ASSUME NEW c \in Clients, NEW r \in Ranks PROVE Account(c, r)'
  <2>1. Sent(r)' = Sent(r) /\ Taken(c, r)' = Taken(c, r) /\ Account(c, r)
    BY <1>1 DEF Sent, Taken, IInv
  <2>2. CASE r = s
    <3>1. Occurrences(outbox[s], c)
            = Occurrences(outbox'[s], c) + (IF h = c THEN 1 ELSE 0)
      BY <1>2, <1>3, OccurrencesTail
    <3>2. Occurrences(outbox'[s], c) \in Nat
      BY <1>3, <1>4, OccurrencesType
    <3>3. inbox'[c][s] = inbox[c][s] + (IF h = c THEN 1 ELSE 0)
      BY <1>5, AccountTypes DEF IInv
    <3>4. QED
      BY <2>1, <2>2, <3>1, <3>2, <3>3, AccountTypes DEF IInv, Account
  <2>3. CASE r # s
    <3>1. Occurrences(outbox[r], c)' = Occurrences(outbox[r], c) /\ inbox'[c][r] = inbox[c][r]
      BY <1>3, <1>5, <2>3
    <3>2. QED
      BY <2>1, <3>1 DEF Account
  <2>4. QED
    BY <2>2, <2>3
<1>7. TypeOK'
  <2>1. outbox' \in [Ranks -> Seq(Clients)]
    BY <1>4 DEF SendThread, IInv, TypeOK
  <2>2. inbox[h][s] + 1 \in 0 .. MaxFramesInFlight + 1
    <3>1. Occurrences(outbox[s], h) >= 1
      <4>1. Occurrences(Tail(outbox[s]), h) \in Nat
        BY <1>4, OccurrencesType
      <4>2. QED
        BY <1>2, <1>3, <4>1, OccurrencesTail
    <3>2. Account(h, s)
      BY <1>4 DEF IInv
    <3>3. /\ Occurrences(outbox[s], h) \in Nat /\ inbox[h][s] \in Nat
          /\ Taken(h, s) \in Nat /\ Sent(s) \in Nat /\ Sent(s) <= 1 + MaxFramesInFlight
      <4>1. /\ Sent(s) <= 1 + (IF s = 0 THEN tokens ELSE 0)
            /\ tokens \in Nat /\ tokens <= MaxFramesInFlight
        BY <1>4, AccountTypes DEF IInv
      <4>2. QED
        BY <1>4, <4>1, AccountTypes DEF IInv
    <3>4. QED
      BY <3>1, <3>2, <3>3 DEF Account
  <2>3. inbox' \in [Clients -> [Ranks -> 0 .. MaxFramesInFlight + 1]]
    BY <1>4, <1>5, <2>2 DEF IInv, TypeOK
  <2>4. QED
    BY <1>1, <2>1, <2>3 DEF IInv, TypeOK
<1>8. InStep' /\ \A r \in Ranks : ComeOnce(r)' /\ AllHaveCome(r)'
  BY <1>1 DEF IInv, InStep, ComeOnce, AllHaveCome, Complete
<1>9. QED
  BY <1>1, <1>6, <1>7, <1>8 DEF IInv

LEMMA ConnectStep ==
  ASSUME IInv, NEW c \in Clients \cup Strangers, Connect(c)
  PROVE  IInv'
<1>1. /\ UNCHANGED <<useHeadNode, rank, tokens, accepter, remotes, expected, outbox, inbox>>
      /\ NumServices' = NumServices /\ Services' = Services
      /\ \A r \in Ranks : Complete(r)' <=> Complete(r)
  BY DEF Connect, Services, NumServices, Complete
<1>2. PICK s : s = client[c].connected
  OBVIOUS
<1>3. NumServices \in 1 .. NumRanks /\ s \in Ranks /\ s < NumServices /\ s \in Nat
  BY <1>2, ServicesFacts DEF Connect, IInv, TypeOK, Ranks
<1>4. /\ client'[c] = [connected |-> s + 1, greeted |-> client[c].greeted,
                       begun |-> client[c].begun]
      /\ \A b \in Clients \cup Strangers : b # c => client'[b] = client[b]
      /\ client' = [client EXCEPT ![c] = client'[c]]
  <2>1. client[c] = [connected |-> s, greeted |-> client[c].greeted, begun |-> client[c].begun]
    BY <1>2, ClientTypes DEF IInv
  <2>2. client' = [client EXCEPT ![c] = [@ EXCEPT !.connected = s + 1]]
    BY <1>2 DEF Connect
  <2>3. client' = [client EXCEPT ![c] = [connected |-> s + 1, greeted |-> client[c].greeted,
                                         begun |-> client[c].begun]]
    <3>1. [client[c] EXCEPT !.connected = s + 1]
            = [connected |-> s + 1, greeted |-> client[c].greeted, begun |-> client[c].begun]
      BY <2>1
    <3>2. QED
      BY <2>2, <3>1
  <2>4. client'[c] = [connected |-> s + 1, greeted |-> client[c].greeted,
                      begun |-> client[c].begun]
        /\ \A b \in Clients \cup Strangers : b # c => client'[b] = client[b]
    BY <2>3 DEF IInv, TypeOK
  <2>5. QED
    BY <2>3, <2>4
<1>5. \A b \in Clients \cup Strangers :
        /\ client'[b].connected \in Nat
        /\ client'[b].connected >= client[b].connected
        /\ client'[b].connected <= NumServices
        /\ client'[b].greeted = client[b].greeted
        /\ client'[b].begun = client[b].begun
  <2>1. ASSUME NEW b \in Clients \cup Strangers
        PROVE  client[b].connected \in Nat /\ client[b].connected <= NumServices
    BY ClientTypes DEF IInv
  <2>2. /\ client'[c].connected = s + 1 /\ client'[c].greeted = client[c].greeted
        /\ client'[c].begun = client[c].begun
    BY <1>4
  <2>3. QED
    BY <1>2, <1>3, <1>4, <2>1, <2>2
<1>6. /\ backlog[s] \in Seq(Clients \cup Strangers)
      /\ backlog'[s] = Append(backlog[s], c)
      /\ \A r \in Ranks \ {s} : backlog'[r] = backlog[r]
  BY <1>2, <1>3 DEF Connect, IInv, TypeOK
<1>7. /\ Append(backlog[s], c) \in Seq(Clients \cup Strangers)
      /\ Range(backlog'[s]) = Range(backlog[s]) \cup {c}
      /\ IsInjective(backlog[s]) /\ c \notin Range(backlog[s]) => IsInjective(backlog'[s])
  BY <1>6, AppendFacts
<1>8. TypeOK'
  <2>1. backlog' \in [Ranks -> Seq(Clients \cup Strangers)]
    BY <1>2, <1>7 DEF Connect, IInv, TypeOK
  <2>2. client'[c] \in [connected: 0 .. NumRanks, greeted: 0 .. NumRanks,
                        begun: 0 .. MaxFramesInFlight]
    BY <1>3, <1>4 DEF IInv, TypeOK
  <2>3. client' \in [Clients \cup Strangers ->
                       [connected: 0 .. NumRanks, greeted: 0 .. NumRanks,
                        begun: 0 .. MaxFramesInFlight]]
    BY <1>4, <2>2 DEF IInv, TypeOK
  <2>4. QED
    BY <1>1, <2>1, <2>3 DEF IInv, TypeOK
<1>9. ASSUME NEW r \in Ranks PROVE ComeOnce(r)' /\ AllHaveCome(r)'
  <2>1. AllHaveCome(r)'
    BY <1>1 DEF IInv, AllHaveCome
  <2>2. /\ ComeOnce(r) /\ r \in Int
        /\ Range(backlog[r]) \cup Range(remotes[r]) \subseteq Clients \cup Strangers
    <3>1. backlog[r] \in Seq(Clients \cup Strangers) /\ remotes[r] \in Seq(Clients)
      BY DEF IInv, TypeOK
    <3>2. Range(backlog[r]) \subseteq Clients \cup Strangers /\ Range(remotes[r]) \subseteq Clients
      BY <3>1, LenProperties DEF Range
    <3>3. QED
      BY <3>2 DEF IInv, Ranks
  <2>3. \A b \in Range(backlog[r]) \cup Range(remotes[r]) : r < client'[b].connected
    <3>1. \A b \in Clients \cup Strangers : client[b].connected \in Nat
      BY DEF IInv, TypeOK
    <3>2. QED
      BY <1>5, <2>2, <3>1 DEF ComeOnce
  <2>4. CASE r = s
    <3>1. c \notin Range(backlog[s]) \cup Range(remotes[s])
      BY <1>2, <1>3, <2>2, <2>4 DEF ComeOnce
    <3>2. s < client'[c].connected
      BY <1>3, <1>4
    <3>3. QED
      BY <1>1, <1>7, <2>1, <2>2, <2>3, <2>4, <3>1, <3>2 DEF ComeOnce
  <2>5. CASE r # s
    BY <1>1, <1>6, <2>1, <2>2, <2>3, <2>5 DEF ComeOnce
  <2>6. QED
    BY <2>4, <2>5
<1>10. ASSUME NEW b \in Clients, NEW r \in Ranks PROVE Account(b, r)'
  <2>1. Taken(b, r)' = Taken(b, r) /\ Sent(r)' = Sent(r) /\ Account(b, r)
    BY <1>1, <1>5 DEF Taken, Sent, IInv
  <2>2. QED
    BY <1>1, <2>1 DEF Account, Occurrences
<1>11. InStep'
  BY <1>1 DEF IInv, InStep
<1>12. QED
  BY <1>1, <1>5, <1>8, <1>9, <1>10, <1>11 DEF IInv

\* A client takes a message from its inbox, and notes it.
LEMMA TakingStep ==
  ASSUME IInv, NEW c \in Clients, NEW s \in Ranks, inbox[c][s] > 0,
         NEW greeted \in 0 .. NumServices, NEW begun \in Nat,
         UNCHANGED <<useHeadNode, rank, tokens, outbox, socketVars>>,
         inbox' = [inbox EXCEPT ![c][s] = @ - 1],
         client' = [client EXCEPT ![c] = [connected |-> client[c].connected,
                                          greeted |-> greeted, begun |-> begun]],
         begun > 0 => greeted = NumServices,
         Taken(c, s)' = Taken(c, s) + 1,
         \A r \in Ranks \ {s} : Taken(c, r)' = Taken(c, r)
  PROVE  IInv'
<1>1. /\ UNCHANGED <<useHeadNode, rank, tokens, accepter, backlog, remotes, expected, outbox>>
      /\ NumServices' = NumServices /\ Services' = Services
      /\ NumServices \in 1 .. NumRanks /\ 0 \in Ranks
  BY ServicesFacts DEF socketVars, Services, NumServices, IInv, TypeOK
<1>2. /\ client'[c].connected = client[c].connected
      /\ client'[c].greeted = greeted /\ client'[c].begun = begun
      /\ \A b \in Clients \cup Strangers : b # c => client'[b] = client[b]
  BY DEF IInv, TypeOK
<1>3. /\ inbox'[c][s] = inbox[c][s] - 1
      /\ \A b \in Clients, r \in Ranks : b # c \/ r # s => inbox'[b][r] = inbox[b][r]
  BY DEF IInv, TypeOK
<1>4. ASSUME NEW b \in Clients, NEW r \in Ranks
      PROVE  /\ Account(b, r)'
             /\ Taken(b, r)' + inbox'[b][r] = Taken(b, r) + inbox[b][r]
             /\ Sent(r)' = Sent(r)
  <2>1. /\ Sent(r)' = Sent(r) /\ Occurrences(outbox[r], b)' = Occurrences(outbox[r], b)
        /\ Account(b, r)
    BY <1>1 DEF Sent, Occurrences, IInv
  <2>2. Taken(b, r)' + inbox'[b][r] = Taken(b, r) + inbox[b][r] /\ Taken(b, r)' \in Nat
    <3>1. CASE b # c
      <4>1. Taken(b, r)' = Taken(b, r)
        BY <1>2, <3>1 DEF Taken
      <4>2. QED
        BY <1>3, <3>1, <4>1, AccountTypes DEF IInv
    <3>2. CASE b = c /\ r # s
      BY <1>3, <3>2, AccountTypes DEF IInv
    <3>3. CASE b = c /\ r = s
      BY <1>3, <3>3, AccountTypes DEF IInv
    <3>4. QED
      BY <3>1, <3>2, <3>3
  <2>3. inbox'[b][r] \in Int
    BY <1>3, AccountTypes DEF IInv
  <2>4. QED
    BY <2>1, <2>2, <2>3, AccountTypes DEF Account, IInv
<1>5. begun <= MaxFramesInFlight
  <2>1. CASE begun = 0
    BY <2>1
  <2>2. CASE begun > 0
    <3>1. Taken(c, 0)' = 1 + begun
      BY <1>1, <1>2, <2>2 DEF Taken
    <3>2. /\ Account(c, 0) /\ Sent(0) <= 1 + tokens /\ tokens <= MaxFramesInFlight
          /\ Taken(c, 0)' + inbox'[c][0] = Taken(c, 0) + inbox[c][0]
      BY <1>1, <1>4, AccountTypes DEF IInv
    <3>3. inbox'[c][0] >= 0 /\ inbox'[c][0] \in Int
      BY <1>1, <1>3, AccountTypes DEF IInv
    <3>4. QED
      BY <1>1, <3>1, <3>2, <3>3, AccountTypes DEF Account, IInv
  <2>3. QED
    BY <2>1, <2>2
<1>6. TypeOK'
  <2>1. inbox[c][s] - 1 \in 0 .. MaxFramesInFlight + 1
    BY DEF IInv, TypeOK
  <2>2. inbox' \in [Clients -> [Ranks -> 0 .. MaxFramesInFlight + 1]]
    BY <2>1 DEF IInv, TypeOK
  <2>3. [connected |-> client[c].connected, greeted |-> greeted, begun |-> begun]
          \in [connected: 0 .. NumRanks, greeted: 0 .. NumRanks, begun: 0 .. MaxFramesInFlight]
    BY <1>1, <1>5 DEF IInv, TypeOK
  <2>4. client' \in [Clients \cup Strangers ->
                       [connected: 0 .. NumRanks, greeted: 0 .. NumRanks,
                        begun: 0 .. MaxFramesInFlight]]
    BY <2>3 DEF IInv, TypeOK
  <2>5. QED
    BY <1>1, <2>2, <2>4 DEF IInv, TypeOK
<1>7. ASSUME NEW r \in Ranks PROVE ComeOnce(r)' /\ AllHaveCome(r)'
  <2>1. AllHaveCome(r)'
    BY <1>1 DEF IInv, AllHaveCome, Complete
  <2>2. Range(backlog[r]) \cup Range(remotes[r]) \subseteq Clients \cup Strangers
    <3>1. backlog[r] \in Seq(Clients \cup Strangers) /\ remotes[r] \in Seq(Clients)
      BY DEF IInv, TypeOK
    <3>2. Range(backlog[r]) \subseteq Clients \cup Strangers /\ Range(remotes[r]) \subseteq Clients
      BY <3>1, LenProperties DEF Range
    <3>3. QED
      BY <3>2
  <2>3. \A b \in Clients \cup Strangers : client'[b].connected = client[b].connected
    BY <1>2
  <2>4. ComeOnce(r)
    BY DEF IInv
  <2>5. QED
    BY <1>1, <2>1, <2>2, <2>3, <2>4 DEF ComeOnce
<1>8. InStep'
  BY <1>1 DEF IInv, InStep
<1>9. QED
  BY <1>1, <1>2, <1>4, <1>6, <1>7, <1>8 DEF IInv

LEMMA ClientStep ==
  ASSUME IInv, NEW c \in Clients, Client(c)
  PROVE  IInv'
<1>1. /\ NumServices \in 1 .. NumRanks /\ 0 \in Ranks /\ NumServices' = NumServices
      /\ \A r \in Ranks : r \in Nat
      /\ \A r \in 0 .. NumServices - 1 : r \in Ranks
  <2>1. UNCHANGED useHeadNode /\ useHeadNode \in BOOLEAN
    BY DEF Client, Welcome, BeginFrame, IInv, TypeOK
  <2>2. NumServices' = NumServices
    BY <2>1 DEF NumServices, Services
  <2>3. QED
    BY <2>1, <2>2, ServicesFacts DEF Ranks
<1>2. /\ client[c] = [connected |-> client[c].connected, greeted |-> client[c].greeted,
                      begun |-> client[c].begun]
      /\ client[c].greeted \in Nat /\ client[c].begun \in Nat
  BY ClientTypes DEF IInv
<1>3. client \in [Clients \cup Strangers -> [connected: 0 .. NumRanks,
                  greeted: 0 .. NumRanks, begun: 0 .. MaxFramesInFlight]]
  BY DEF IInv, TypeOK
<1>4. /\ client[c].greeted <= NumServices
      /\ client[c].begun > 0 => client[c].greeted = NumServices
  BY DEF IInv
<1>5. CASE Welcome(c)
  <2>1. PICK s : s = client[c].greeted
    OBVIOUS
  <2>2. /\ s \in Ranks /\ s < NumServices /\ inbox[c][s] > 0 /\ client[c].begun = 0
        /\ inbox' = [inbox EXCEPT ![c][s] = @ - 1]
        /\ UNCHANGED <<useHeadNode, rank, tokens, outbox, socketVars>>
    BY <1>1, <1>2, <1>4, <1>5, <2>1 DEF Welcome
  <2>3. client' = [client EXCEPT ![c] = [connected |-> client[c].connected,
                                          greeted |-> s + 1, begun |-> 0]]
    <3>1. client' = [client EXCEPT ![c] = [@ EXCEPT !.greeted = s + 1]]
      BY <1>5, <2>1 DEF Welcome
    <3>2. [client[c] EXCEPT !.greeted = s + 1]
            = [connected |-> client[c].connected, greeted |-> s + 1, begun |-> 0]
      BY <1>2, <2>2
    <3>3. QED
      BY <3>1, <3>2
  <2>4. client'[c].greeted = s + 1 /\ client'[c].begun = 0
    BY <1>3, <2>3
  <2>5. \A r \in Ranks : Taken(c, r)' = Taken(c, r) + (IF r = s THEN 1 ELSE 0)
    BY <1>1, <2>1, <2>2, <2>4 DEF Taken
  <2>6. s + 1 \in 0 .. NumServices
    BY <1>1, <2>2
  <2>7. Taken(c, s)' = Taken(c, s) + 1 /\ \A r \in Ranks \ {s} : Taken(c, r)' = Taken(c, r)
    BY <1>1, <2>2, <2>5, AccountTypes DEF IInv
  <2>8. 0 \in Nat /\ ~ 0 > 0
    OBVIOUS
  <2>9. QED
    BY ONLY IInv, c \in Clients, <2>2, <2>3, <2>6, <2>7, <2>8, TakingStep
<1>6. CASE BeginFrame(c)
  <2>1. PICK b : b = client[c].begun
    OBVIOUS
  <2>2. /\ client[c].greeted = NumServices /\ inbox[c][0] > 0 /\ b \in Nat
        /\ inbox' = [inbox EXCEPT ![c][0] = @ - 1]
        /\ UNCHANGED <<useHeadNode, rank, tokens, outbox, socketVars>>
    BY <1>2, <1>6, <2>1 DEF BeginFrame
  <2>3. client' = [client EXCEPT ![c] = [connected |-> client[c].connected,
                                          greeted |-> NumServices, begun |-> b + 1]]
    <3>1. client' = [client EXCEPT ![c] = [@ EXCEPT !.begun = b + 1]]
      BY <1>6, <2>1 DEF BeginFrame
    <3>2. [client[c] EXCEPT !.begun = b + 1]
            = [connected |-> client[c].connected, greeted |-> NumServices, begun |-> b + 1]
      BY <1>2, <2>2
    <3>3. QED
      BY <3>1, <3>2
  <2>4. client'[c].greeted = client[c].greeted /\ client'[c].begun = b + 1
    BY <1>3, <2>2, <2>3
  <2>5. \A r \in Ranks : Taken(c, r)' = Taken(c, r) + (IF r = 0 THEN 1 ELSE 0)
    BY <1>1, <2>1, <2>2, <2>4 DEF Taken
  <2>6. Taken(c, 0)' = Taken(c, 0) + 1 /\ \A r \in Ranks \ {0} : Taken(c, r)' = Taken(c, r)
    BY <1>1, <2>5, AccountTypes DEF IInv
  <2>7. NumServices \in 0 .. NumServices /\ b + 1 \in Nat
    BY <1>1, <2>2
  <2>8. QED
    BY ONLY IInv, c \in Clients, <1>1, <2>2, <2>3, <2>6, <2>7, TakingStep
<1>7. QED
  BY <1>5, <1>6 DEF Client

\* Whatever happens, the invariant stays.
LEMMA StepInvariant ==
  ASSUME IInv, [Next]_vars
  PROVE  IInv'
<1>1. ASSUME NEW r \in Ranks, Server(r) PROVE IInv'
  BY <1>1, ConstructorStep, GreetStep DEF Server
<1>2. ASSUME NEW r \in Ranks, WakeUp(r) PROVE IInv'
  BY <1>2, ConstructorStep
<1>3. ASSUME NEW r \in Ranks, Accepter(r) PROVE IInv'
  BY <1>3, AcceptStep, NotifyStep DEF Accepter
<1>4. ASSUME NEW r \in Ranks, SendThread(r) PROVE IInv'
  BY <1>4, SendThreadStep
<1>5. CASE SendToken
  BY <1>5, SendTokenStep
<1>6. ASSUME NEW c \in Clients \cup Strangers, Connect(c) PROVE IInv'
  BY <1>6, ConnectStep
<1>7. ASSUME NEW c \in Clients, Client(c) PROVE IInv'
  BY <1>7, ClientStep
<1>8. CASE UNCHANGED vars
  BY <1>8 DEF vars, IInv, TypeOK, ComeOnce, AllHaveCome, Complete, InStep, Account,
     Sent, Taken, Occurrences, NumServices, Services
<1>9. QED
  BY <1>1, <1>2, <1>3, <1>4, <1>5, <1>6, <1>7, <1>8 DEF Next

\* The inductive invariant holds in every reachable state, for any number of
\* ranks, clients, strangers and frames in flight.
THEOREM SetupInvariant == Spec => []IInv
<1>1. Init => IInv
  BY InitInvariant
<1>2. IInv /\ [Next]_vars => IInv'
  BY StepInvariant
<1>3. QED
  BY <1>1, <1>2, PTL DEF Spec

\* Every variable keeps its type: each client is a remote once, and no rank
\* ever has more messages for a client than hand-shake and tokens.
THEOREM SetupTypeOK == Spec => []TypeOK
<1>1. IInv => TypeOK
  BY DEF IInv
<1>2. QED
  BY <1>1, SetupInvariant, PTL

-----------------------------------------------------------------------------
(* Nobody is let through too early.                                        *)

\* A message that a client has, or took, shows that the rank which sent it has
\* all its clients.
LEMMA MessageShows ==
  ASSUME IInv, NEW c \in Clients, NEW s \in Services, Taken(c, s) + inbox[c][s] >= 1
  PROVE  Range(remotes[s]) = Clients
<1>1. s \in Ranks /\ s \in Nat /\ s < NumServices /\ 0 \in Ranks
  BY ServicesFacts DEF IInv, TypeOK, Ranks
<1>2. Sent(s) >= 1
  <2>1. Account(c, s)
    BY <1>1 DEF IInv
  <2>2. QED
    BY <1>1, <2>1, AccountTypes DEF Account, IInv
<1>3. rank[s] \in PastHandshake
  <2>1. CASE s = 0 /\ tokens > 0
    BY <1>1, <2>1 DEF IInv, InStep
  <2>2. CASE ~ (s = 0 /\ tokens > 0)
    <3>1. tokens \in Nat
      BY DEF IInv, TypeOK
    <3>2. QED
      BY <1>2, <2>2, <3>1 DEF Sent
  <2>3. QED
    BY <2>1, <2>2
<1>4. Complete(s)
  BY <1>1, <1>3 DEF IInv, AllHaveCome
<1>5. QED
  BY <1>1, <1>4, AllAreRemotes DEF IInv

\* "This will get stuck until all render nodes have connected to all service
\* nodes": who returns from dw2_connect() knows that all the others are there.
THEOREM TogetherAlways == Spec => []ConnectedTogether
<1>1. ASSUME IInv, NEW c \in Clients, client[c].greeted = NumServices, NEW s \in Services
      PROVE  Range(remotes[s]) = Clients
  <2>1. s \in Ranks /\ s < NumServices
    BY <1>1, ServicesFacts DEF IInv, TypeOK
  <2>2. client[c].begun \in Nat /\ TypeOK
    BY <1>1, ClientTypes DEF IInv
  <2>3. Taken(c, s) >= 1
    BY <1>1, <2>1, <2>2 DEF Taken
  <2>4. inbox[c][s] \in Nat /\ Taken(c, s) \in Nat
    BY <2>1, <2>2, AccountTypes
  <2>5. QED
    BY <1>1, <2>3, <2>4, MessageShows
<1>2. IInv => ConnectedTogether
  BY <1>1 DEF ConnectedTogether
<1>3. QED
  BY <1>2, SetupInvariant, PTL

\* No frame begins before every rank is past its hand-shake, nor without a
\* token of its own: the hand-shake is never taken for one.
THEOREM FramesInTime == Spec => []NoFrameTooEarly
<1>1. ASSUME IInv, NEW c \in Clients
      PROVE  /\ client[c].begun <= tokens
             /\ client[c].begun > 0 => \A r \in Ranks : rank[r] \in PastHandshake
  <2>1. /\ 0 \in Ranks /\ 0 < NumServices /\ client[c].begun \in Nat
        /\ NumServices \in Nat /\ tokens \in Nat
    <3>1. useHeadNode \in BOOLEAN /\ tokens \in Nat
      BY <1>1 DEF IInv, TypeOK
    <3>2. 0 \in Ranks /\ NumServices \in 1 .. NumRanks
      BY <3>1, ServicesFacts
    <3>3. client[c].begun \in Nat
      BY <1>1, ClientTypes DEF IInv
    <3>4. QED
      BY <3>1, <3>2, <3>3
  <2>2. client[c].begun <= tokens
    <3>1. CASE client[c].begun = 0
      BY <2>1, <3>1
    <3>2. CASE client[c].begun > 0
      <4>1. client[c].greeted = NumServices
        BY <1>1, <3>2 DEF IInv
      <4>2. Taken(c, 0) = 1 + client[c].begun
        BY <2>1, <4>1 DEF Taken
      <4>3. Account(c, 0) /\ Sent(0) <= 1 + tokens
        BY <1>1, <2>1, AccountTypes DEF IInv
      <4>4. QED
        BY <1>1, <2>1, <4>2, <4>3, AccountTypes DEF Account, IInv
    <3>3. QED
      BY <2>1, <3>1, <3>2
  <2>3. client[c].begun > 0 => tokens > 0
    BY <2>1, <2>2
  <2>4. tokens > 0 => \A r \in Ranks : rank[r] \in PastHandshake
    BY <1>1, <2>1 DEF IInv, InStep
  <2>5. QED
    BY <2>2, <2>3, <2>4
<1>2. IInv => NoFrameTooEarly
  BY <1>1 DEF NoFrameTooEarly, FramesAfterConstruction, NoFreeFrame
<1>3. QED
  BY <1>2, SetupInvariant, PTL

\* Once a rank has sent to its remotes they do not change, which is why the
\* accepter thread need not take the mutex that sendTo() does not take either.
THEOREM RemotesStayFixed == Spec => RemotesFixedOnceUsed
<1>1. ASSUME IInv, [Next]_vars, NEW s \in Ranks, rank[s] \in PastHandshake
      PROVE  remotes'[s] = remotes[s]
  <2>1. ~ Accept(s)
    <3>1. ASSUME Accept(s) PROVE FALSE
      <4>1. Head(backlog[s]) \in Range(backlog[s])
        BY <1>1, <3>1, TailFacts DEF Accept, IInv, TypeOK
      <4>2. PICK c \in Clients \cup Strangers : s < client[c].connected
        <5>1. Range(backlog[s]) \subseteq Clients \cup Strangers
          BY <1>1, LenProperties DEF IInv, TypeOK, Range
        <5>2. QED
          BY <1>1, <4>1, <5>1 DEF IInv, ComeOnce
      <4>3. s \in Services
        <5>1. client[c].connected <= NumServices /\ client[c].connected \in Nat
          BY <1>1, <4>2, ClientTypes DEF IInv
        <5>2. NumServices \in 1 .. NumRanks /\ Services = 0 .. NumServices - 1
          BY <1>1, ServicesFacts DEF IInv, TypeOK
        <5>3. QED
          BY <1>1, <4>2, <5>1, <5>2 DEF Ranks
      <4>4. QED
        BY <1>1, <3>1, <4>3 DEF IInv, AllHaveCome, Accept
    <3>2. QED
      BY <3>1
  <2>2. ASSUME NEW r \in Ranks, Accept(r) PROVE remotes'[s] = remotes[s]
    BY <1>1, <2>1, <2>2 DEF Accept, IInv, TypeOK
  <2>3. CASE UNCHANGED remotes
    BY <2>3
  <2>4. QED
    BY <1>1, <2>2, <2>3 DEF Next, vars, Server, EnterBarrier, LeaveBarrier, CheckRemotes,
       FallAsleep, WakeUp, Greet, LeaveLastBarrier, StartAccepting, SendToken, Accepter,
       Notify, SendThread, Connect, Client, Welcome, BeginFrame, socketVars
<1>2. IInv /\ [Next]_vars =>
        [\A s \in Ranks : rank[s] \in PastHandshake => remotes'[s] = remotes[s]]_vars
  BY <1>1
<1>3. QED
  BY <1>2, SetupInvariant, PTL DEF Spec, RemotesFixedOnceUsed

-----------------------------------------------------------------------------
(* dw2_connect() is a barrier for the clients.                             *)

\* The clients that are connected to the whole wall, and those let through.
Arrived == {c \in Clients : client[c].connected = NumServices}
Passed == {c \in Clients : client[c].greeted = NumServices}

\* The service and the renderer finding each other implements SoftBarrier.
THEOREM SetupImplementsSoftBarrier == Spec => ImplementsSoftBarrier
<1>1. Init => ConnectBarrier!Init
  <2>1. ASSUME Init PROVE NumServices # 0 /\ \A c \in Clients :
                             client[c].connected = 0 /\ client[c].greeted = 0
    BY <2>1, ServicesFacts DEF Init
  <2>2. QED
    BY <2>1 DEF ConnectBarrier!Init
<1>2. ASSUME IInv, [Next]_vars PROVE [ConnectBarrier!Next]_<<Arrived, Passed>>
  <2>0. NumServices' = NumServices /\ NumServices \in 1 .. NumRanks /\ Services = 0 .. NumServices - 1
    <3>1. UNCHANGED useHeadNode
      BY <1>2 DEF Next, vars, Server, EnterBarrier, LeaveBarrier, CheckRemotes,
         FallAsleep, WakeUp, Greet, LeaveLastBarrier, StartAccepting, SendToken, Accepter,
         Accept, Notify, SendThread, Connect, Client, Welcome, BeginFrame
    <3>2. QED
      BY <1>2, <3>1, ServicesFacts DEF IInv, TypeOK, NumServices, Services
  <2>1. CASE UNCHANGED client
    BY <2>0, <2>1 DEF Arrived, Passed
  <2>2. ASSUME NEW c \in Clients \cup Strangers, Connect(c)
        PROVE  [ConnectBarrier!Next]_<<Arrived, Passed>>
    <3>1. /\ client' = [client EXCEPT ![c].connected = @ + 1]
          /\ client[c].connected < NumServices
      BY <2>2 DEF Connect
    <3>2. /\ \A b \in Clients : client'[b].greeted = client[b].greeted
          /\ \A b \in Clients \ {c} : client'[b].connected = client[b].connected
      BY <1>2, <3>1 DEF IInv, TypeOK
    <3>3. Passed' = Passed /\ Arrived \ {c} = Arrived' \ {c} /\ c \notin Arrived
      BY <1>2, <2>0, <3>1, <3>2, ClientTypes DEF Passed, Arrived, IInv
    <3>4. CASE c \in Arrived'
      <4>1. c \in Clients /\ Arrived' = Arrived \cup {c}
        BY <3>3, <3>4 DEF Arrived
      <4>2. QED
        BY <3>3, <4>1 DEF ConnectBarrier!Next, ConnectBarrier!Arrive, Arrived, Passed
    <3>5. CASE c \notin Arrived'
      BY <3>3, <3>5
    <3>6. QED
      BY <3>4, <3>5
  <2>3. ASSUME NEW c \in Clients, Client(c)
        PROVE  [ConnectBarrier!Next]_<<Arrived, Passed>>
    <3>1. /\ \A b \in Clients : client'[b].connected = client[b].connected
          /\ \A b \in Clients \ {c} : client'[b].greeted = client[b].greeted
          /\ client'[c].greeted # client[c].greeted => client[c].greeted < NumServices
      <4>1. CASE Welcome(c)
        BY <1>2, <4>1 DEF Welcome, IInv, TypeOK
      <4>2. CASE BeginFrame(c)
        BY <1>2, <4>2 DEF BeginFrame, IInv, TypeOK
      <4>3. QED
        BY <2>3, <4>1, <4>2 DEF Client
    <3>2. Arrived' = Arrived /\ Passed' \ {c} = Passed \ {c}
      BY <2>0, <3>1 DEF Arrived, Passed
    <3>3. CASE c \in Passed' /\ c \notin Passed
      <4>1. Arrived = Clients
        <5>1. PICK s \in Services : s = NumServices - 1
          BY <2>0
        <5>2. client[c].greeted = s /\ inbox[c][s] > 0
          <6>1. client'[c].greeted = NumServices /\ client[c].greeted # NumServices
            BY <2>0, <3>3 DEF Passed
          <6>2. Welcome(c)
            BY <1>2, <2>3, <6>1 DEF Client, BeginFrame, IInv, TypeOK
          <6>3. client'[c].greeted = client[c].greeted + 1
            BY <1>2, <6>2 DEF Welcome, IInv, TypeOK
          <6>4. client[c].greeted \in Nat
            BY <1>2, ClientTypes DEF IInv
          <6>5. client[c].greeted = s
            BY <2>0, <5>1, <6>1, <6>3, <6>4
          <6>6. QED
            BY <6>2, <6>5 DEF Welcome
        <5>3. s \in Ranks /\ s \in Int
          BY <1>2, <2>0, <5>1, ServicesFacts DEF IInv, TypeOK
        <5>4. Range(remotes[s]) = Clients
          BY <1>2, <5>2, <5>3, AccountTypes, MessageShows DEF IInv
        <5>5. ASSUME NEW b \in Clients PROVE client[b].connected = NumServices
          <6>1. s < client[b].connected /\ client[b].connected <= NumServices
            BY <1>2, <5>3, <5>4 DEF IInv, ComeOnce
          <6>2. client[b].connected \in Nat
            BY <1>2, ClientTypes DEF IInv
          <6>3. QED
            BY <2>0, <5>1, <6>1, <6>2
        <5>6. QED
          BY <5>5 DEF Arrived
      <4>2. Passed' = Passed \cup {c}
        BY <3>2, <3>3
      <4>3. QED
        BY <3>2, <3>3, <4>1, <4>2 DEF ConnectBarrier!Next, ConnectBarrier!Pass, Arrived, Passed
    <3>4. CASE ~ (c \in Passed' /\ c \notin Passed)
      <4>1. Passed \subseteq Passed'
        BY <2>0, <3>1 DEF Passed
      <4>2. Passed' = Passed
        BY <3>2, <3>4, <4>1
      <4>3. QED
        BY <3>2, <4>2
    <3>5. QED
      BY <3>3, <3>4
  <2>4. QED
    BY <1>2, <2>1, <2>2, <2>3 DEF Next, vars, Server, EnterBarrier, LeaveBarrier, CheckRemotes,
       FallAsleep, WakeUp, Greet, LeaveLastBarrier, StartAccepting, SendToken, Accepter,
       Accept, Notify, SendThread, clientVars
<1>3. IInv /\ [Next]_vars => [ConnectBarrier!Next]_ConnectBarrier!vars
  BY <1>2 DEF ConnectBarrier!vars, Arrived, Passed
<1>4. QED
  BY <1>1, <1>3, SetupInvariant, PTL DEF Spec, ImplementsSoftBarrier, ConnectBarrier!Spec
=============================================================================
