--------------------------- MODULE CrowdVoteProofs ---------------------------
(***************************************************************************)
(* Proofs about the crowd's vote, for any number of threads and initials   *)
(* and any cap: how far the cap can be exceeded, and what the numbers that *)
(* voters are told can be.                                                 *)
(***************************************************************************)
EXTENDS CrowdVote, FiniteSetTheorems, TLAPS

----------------------------------------------------------------------------
(* The inductive invariant. *)

\* The inductive invariant behind the properties.  The room left was seen by each thread
\* that is about to store a new voter: together with the voters held they are
\* never more than the cap and the other threads.  A thread that sums up has come
\* to as many voters as it has approvals, or more, and no voter is ever lost.
Coming == {t \in Threads : step[t] = "hasRoom" /\ ballot[t].who \notin Held}

CapInv == Cardinality(Held) + Cardinality(Coming) <= CROWD_CAP + Cardinality(Threads) - 1

ThreadOK(t) ==
  /\ step[t] \in {"admitted", "hasRoom"} => ballot[t] \in Ballots
  /\ step[t] \in {"admitted", "hasRoom", "stored"} => tally[t] = NoTally
  /\ step[t] # "idle" => answer[t] = "none"
  /\ step[t] # "summing" => seen[t] = {}
  /\ seen[t] \subseteq Held
  /\ step[t] = "summing" => tally[t].approve <= Cardinality(seen[t])
  /\ tally[t].approve <= Cardinality(Held)
  /\ step[t] = "subtracted" => tally[t].approve + tally[t].reject <= Cardinality(Held)
  /\ answer[t] = "ok" => /\ tally[t].approve + tally[t].reject <= tally[t].count
                         /\ tally[t].count <= Cardinality(Held)

CrowdInv == CapInv /\ \A t \in Threads : ThreadOK(t)

----------------------------------------------------------------------------
(* Counting. *)

\* The voters held are finitely many, and no more than there are initials.
LEMMA HeldIsFinite ==
  /\ IsFiniteSet(Held)
  /\ Cardinality(Held) \in Sizes
  /\ Cardinality(Initials) \in Nat
<1>1. Held \in SUBSET Initials
  BY DEF Held
<1>2. IsFiniteSet(Held) /\ Cardinality(Held) <= Cardinality(Initials)
  BY <1>1, FS_Subset, CrowdAssumption
<1>3. Cardinality(Held) \in Nat /\ Cardinality(Initials) \in Nat
  BY <1>2, FS_CardinalityType, CrowdAssumption
<1>4. QED
  BY <1>2, <1>3 DEF Sizes

\* The same of the next state.
LEMMA HeldIsFiniteNext ==
  /\ IsFiniteSet(Held')
  /\ Cardinality(Held') \in Sizes
<1>1. Held' \in SUBSET Initials
  BY DEF Held
<1>2. IsFiniteSet(Held') /\ Cardinality(Held') <= Cardinality(Initials)
  BY <1>1, FS_Subset, CrowdAssumption
<1>3. Cardinality(Held') \in Nat
  BY <1>2, FS_CardinalityType
<1>4. QED
  BY <1>2, <1>3, HeldIsFinite DEF Sizes

\* Arithmetic on sizes.
LEMMA SizesAreNumbers ==
  /\ 0 \in Sizes /\ Sizes \subseteq Nat
  /\ \A m, n \in Sizes : (n < m => n + 1 \in Sizes) /\ (n <= m => m - n \in Sizes)
BY HeldIsFinite DEF Sizes

\* The three numbers of a tally.
LEMMA TallyType ==
  /\ NoTally \in [approve: Sizes, reject: Sizes, count: Sizes]
  /\ NoTally.approve = 0
  /\ TypeOK => \A t \in Threads :
       tally[t].approve \in Sizes /\ tally[t].reject \in Sizes /\ tally[t].count \in Sizes
BY SizesAreNumbers DEF NoTally, TypeOK

\* The same of the next state.
LEMMA TallyTypeNext ==
  ASSUME TypeOK'
  PROVE  \A t \in Threads :
       tally'[t].approve \in Sizes /\ tally'[t].reject \in Sizes /\ tally'[t].count \in Sizes
BY DEF TypeOK

\* A voter that a thread has not come to leaves room for one more.
LEMMA OneMoreVoter ==
  ASSUME NEW S \in SUBSET Held, NEW i \in Held \ S
  PROVE  /\ Cardinality(S) \in Nat /\ Cardinality(S) < Cardinality(Held)
         /\ Cardinality(S \cup {i}) = Cardinality(S) + 1
<1>1. S \cup {i} \in SUBSET Held /\ IsFiniteSet(S)
  BY HeldIsFinite, FS_Subset
<1>2. /\ Cardinality(S \cup {i}) = Cardinality(S) + 1
      /\ Cardinality(S \cup {i}) <= Cardinality(Held)
      /\ Cardinality(S) \in Nat
  BY <1>1, HeldIsFinite, FS_AddElement, FS_Subset, FS_CardinalityType
<1>3. Cardinality(Held) \in Nat
  BY HeldIsFinite, FS_CardinalityType
<1>4. QED
  BY <1>2, <1>3

\* Storing a vote adds its voter to those held, if it was not there.
LEMMA StoreHolds ==
  ASSUME TypeOK, NEW t \in Threads, ballot[t] \in Ballots, Store(t)
  PROVE  /\ Held' = Held \cup {ballot[t].who}
         /\ CROWD' \in [Initials -> Choices \cup {NoVote}]
<1>1. ballot[t].who \in Initials /\ ballot[t].choice \in Choices
  BY DEF Ballots
<1>2. ballot[t].choice # NoVote
  BY <1>1, CrowdAssumption DEF Choices
<1>3. CROWD' = [CROWD EXCEPT ![ballot[t].who] = ballot[t].choice]
  BY DEF Store
<1>4. QED
  BY <1>1, <1>2, <1>3 DEF Held, TypeOK

\* No vote that is held is ever taken back: the voters held only become more.
LEMMA HeldGrows ==
  ASSUME TypeOK, CrowdInv, [Next]_vars
  PROVE  Held \subseteq Held' /\ Cardinality(Held) <= Cardinality(Held')
<1>1. Held \subseteq Held'
  <2>1. ASSUME NEW t \in Threads, Store(t)
        PROVE  Held \subseteq Held'
    BY <2>1, StoreHolds DEF CrowdInv, ThreadOK, Store, Go
  <2>2. CASE CROWD' = CROWD
    BY <2>2 DEF Held
  <2>3. (\E t \in Threads : Store(t)) \/ CROWD' = CROWD
    BY DEF Next, vars, crowd, Freeze, ThreadStep, Poll, Admit, Request, RefuseFrozen,
           PassCap, RefuseFull, BeginSum, AddVote, SumFails, EndSum, Subtract, Answer
  <2>4. QED
    BY <2>1, <2>2, <2>3
<1>2. QED
  BY <1>1, HeldIsFiniteNext, FS_Subset

----------------------------------------------------------------------------
(* Type correctness. *)

\* No step of a thread breaks a type: what a thread subtracts is not negative,
\* because it has counted no more approvals than there are voters held.
LEMMA TypeStep == TypeOK /\ CrowdInv /\ [Next]_vars => TypeOK'
<1> SUFFICES ASSUME TypeOK, CrowdInv, [Next]_vars
             PROVE  TypeOK'
  OBVIOUS
<1>s. \A t \in Threads : tally[t].approve \in Sizes /\ Cardinality(Held) \in Sizes
  BY HeldIsFinite, TallyType
<1>z. 0 \in Sizes /\ NoTally \in [approve: Sizes, reject: Sizes, count: Sizes]
  BY SizesAreNumbers, TallyType
<1>a. ASSUME NEW t \in Threads, NEW i \in Initials, AddVote(t, i)
      PROVE  tally[t].approve + 1 \in Sizes
  <2>1. /\ seen[t] \subseteq Held /\ i \in Held \ seen[t]
        /\ tally[t].approve <= Cardinality(seen[t])
    BY <1>a DEF AddVote, CrowdInv, ThreadOK
  <2>2. Cardinality(seen[t]) \in Nat /\ Cardinality(seen[t]) < Cardinality(Held)
    BY <2>1, OneMoreVoter
  <2>3. tally[t].approve \in Nat /\ Cardinality(Held) \in Nat
    BY <1>s, SizesAreNumbers
  <2>4. tally[t].approve < Cardinality(Held)
    BY <2>1, <2>2, <2>3
  <2>5. QED
    BY <1>s, <2>4, SizesAreNumbers
<1>b. ASSUME NEW t \in Threads
      PROVE  Cardinality(Held) - tally[t].approve \in Sizes
  BY <1>s, SizesAreNumbers DEF CrowdInv, ThreadOK
<1>c. ASSUME NEW t \in Threads
      PROVE  tally[t].approve + 0 = tally[t].approve
  <2>1. tally[t].approve \in Nat
    BY <1>s, SizesAreNumbers
  <2>2. QED
    BY <2>1
<1> USE DEF TypeOK, Go
<1>1. ASSUME NEW t \in Threads, NEW b \in Ballots, Admit(t, b)
      PROVE  TypeOK'
  <2>1. ballot' \in [Threads -> Ballots \cup {NoVote}]
    BY <1>1 DEF Admit, Request
  <2>2. QED
    BY <1>1, <2>1, <1>z DEF Admit, Request, crowd
<1>2. ASSUME NEW t \in Threads, Poll(t)
      PROVE  TypeOK'
  BY <1>2, <1>z DEF Poll, Request, crowd
<1>3. ASSUME NEW t \in Threads, RefuseFrozen(t) \/ PassCap(t) \/ RefuseFull(t)
      PROVE  TypeOK'
  <2>1. CASE RefuseFrozen(t)
    BY <2>1, <1>z DEF RefuseFrozen, Reply, crowd
  <2>2. CASE PassCap(t)
    BY <2>2 DEF PassCap, crowd, sums
  <2>3. CASE RefuseFull(t)
    BY <2>3 DEF RefuseFull, Reply, crowd, sums
  <2>4. QED
    BY <1>3, <2>1, <2>2, <2>3
<1>4. ASSUME NEW t \in Threads, Store(t)
      PROVE  TypeOK'
  <2>1. CROWD' \in [Initials -> Choices \cup {NoVote}]
    BY <1>4, StoreHolds DEF Store, CrowdInv, ThreadOK
  <2>2. QED
    BY <1>4, <2>1 DEF Store, sums
<1>5. ASSUME NEW t \in Threads, BeginSum(t)
      PROVE  TypeOK'
  BY <1>5, HeldIsFinite DEF BeginSum, crowd
<1>6. ASSUME NEW t \in Threads, NEW i \in Initials, AddVote(t, i)
      PROVE  TypeOK'
  <2>1. tally[t].approve + 1 \in Sizes
    BY <1>6, <1>a
  <2>2. tally[t].approve + 0 \in Sizes
    BY <1>s, <1>c
  <2>3. PICK n \in {0, 1} : tally' = [tally EXCEPT ![t].approve = @ + n]
    BY <1>6 DEF AddVote
  <2>4. tally' \in [Threads -> [approve: Sizes, reject: Sizes, count: Sizes]]
    BY <2>1, <2>2, <2>3
  <2>5. QED
    BY <1>6, <2>4 DEF AddVote, crowd
<1>7. ASSUME NEW t \in Threads, SumFails(t)
      PROVE  TypeOK'
  BY <1>7, <1>z DEF SumFails, Reply, Forget, crowd
<1>8. ASSUME NEW t \in Threads, EndSum(t)
      PROVE  TypeOK'
  BY <1>8, <1>z DEF EndSum, Forget, crowd
<1>9. ASSUME NEW t \in Threads, Subtract(t)
      PROVE  TypeOK'
  BY <1>9, <1>b DEF Subtract, crowd
<1>10. ASSUME NEW t \in Threads, Answer(t)
       PROVE  TypeOK'
  BY <1>10, HeldIsFinite DEF Answer, Reply, crowd
<1>11. CASE Freeze
  BY <1>11 DEF Freeze, sums
<1>12. CASE UNCHANGED vars
  BY <1>12 DEF vars, crowd, sums
<1>13. QED
  BY <1>1, <1>2, <1>3, <1>4, <1>5, <1>6, <1>7, <1>8, <1>9, <1>10, <1>11, <1>12
     DEF Next, ThreadStep

----------------------------------------------------------------------------
(* The inductive invariant. *)

\* A step that leaves a thread alone keeps what is said of it, since the voters
\* held only become more.
LEMMA UntouchedThread ==
  ASSUME TypeOK, TypeOK', NEW t \in Threads, ThreadOK(t),
         Held \subseteq Held', Cardinality(Held) <= Cardinality(Held'),
         UNCHANGED <<step[t], ballot[t], seen[t], tally[t], answer[t]>>
  PROVE  ThreadOK(t)'
<1>1. /\ Cardinality(Held) \in Nat /\ Cardinality(Held') \in Nat
      /\ tally[t].approve \in Nat /\ tally[t].reject \in Nat /\ tally[t].count \in Nat
  BY HeldIsFinite, HeldIsFiniteNext, SizesAreNumbers, TallyType
<1>2. \A n \in Nat : n <= Cardinality(Held) => n <= Cardinality(Held')
  BY <1>1
<1>3. tally[t].approve + tally[t].reject \in Nat
  BY <1>1
<1>4. QED
  BY <1>1, <1>2, <1>3 DEF ThreadOK

\* The sum of a thread stays within the voters it has come to, the three numbers
\* it answers with stay within the voters held, and only then are they read.
LEMMA ThreadStepKeeps ==
  ASSUME TypeOK, TypeOK', CrowdInv, Held \subseteq Held',
         Cardinality(Held) <= Cardinality(Held'),
         NEW t \in Threads, [Next]_vars,
         ~UNCHANGED <<step[t], ballot[t], seen[t], tally[t], answer[t]>>
  PROVE  ThreadOK(t)'
<1>n. /\ Cardinality(Held) \in Nat /\ Cardinality(Held') \in Nat
      /\ tally[t].approve \in Nat /\ tally[t].reject \in Nat /\ tally[t].count \in Nat
      /\ tally'[t].approve \in Nat /\ tally'[t].reject \in Nat /\ tally'[t].count \in Nat
  BY HeldIsFinite, HeldIsFiniteNext, SizesAreNumbers, TallyType, TallyTypeNext
<1>z. NoTally.approve = 0
  BY TallyType
<1>e. Cardinality({}) = 0
  BY FS_EmptySet
<1>t. ThreadOK(t)
  BY DEF CrowdInv
<1>d. /\ DOMAIN step = Threads /\ DOMAIN ballot = Threads /\ DOMAIN seen = Threads
      /\ DOMAIN tally = Threads /\ DOMAIN answer = Threads
  BY DEF TypeOK
<1>0. ThreadStep(t) \/ Poll(t) \/ \E b \in Ballots : Admit(t, b)
  <2>1. ASSUME NEW u \in Threads \ {t},
               ThreadStep(u) \/ Poll(u) \/ \E b \in Ballots : Admit(u, b)
        PROVE  FALSE
    BY <2>1, <1>d DEF ThreadStep, Poll, Admit, Request, RefuseFrozen, PassCap, RefuseFull,
           Store, BeginSum, AddVote, SumFails, EndSum, Subtract, Answer, Reply, Go, Forget, sums
  <2>2. ~Freeze /\ ~UNCHANGED vars
    BY DEF Freeze, sums, vars
  <2>3. QED
    BY <2>1, <2>2 DEF Next
<1>1. ASSUME NEW b \in Ballots, Admit(t, b)
      PROVE  ThreadOK(t)'
  BY <1>1, <1>t, <1>d, <1>n, <1>z DEF ThreadOK, Admit, Request, Go, crowd, Held
<1>2. CASE Poll(t)
  BY <1>2, <1>t, <1>d, <1>n, <1>z DEF ThreadOK, Poll, Request, Go, crowd, Held
<1>3. CASE RefuseFrozen(t)
  BY <1>3, <1>t, <1>d, <1>n, <1>z DEF ThreadOK, RefuseFrozen, Reply, Go, crowd, Held
<1>4. CASE PassCap(t)
  BY <1>4, <1>t, <1>d DEF ThreadOK, PassCap, Go, sums, crowd, Held
<1>5. CASE RefuseFull(t)
  BY <1>5, <1>t, <1>d DEF ThreadOK, RefuseFull, Reply, Go, sums, crowd, Held
<1>6. CASE Store(t)
  BY <1>6, <1>t, <1>d, <1>n, <1>z DEF ThreadOK, Store, Go, sums
<1>7. CASE BeginSum(t)
  BY <1>7, <1>t, <1>d, <1>e, <1>z DEF ThreadOK, BeginSum, Go, crowd, Held
<1>8. ASSUME NEW i \in Initials, AddVote(t, i)
      PROVE  ThreadOK(t)'
  <2>1. /\ step[t] = "summing" /\ seen[t] \subseteq Held /\ i \in Held \ seen[t]
        /\ tally[t].approve <= Cardinality(seen[t]) /\ answer[t] = "none"
    BY <1>8, <1>t DEF AddVote, ThreadOK
  <2>2. /\ seen'[t] = seen[t] \cup {i} /\ Held' = Held
        /\ step'[t] = "summing" /\ answer'[t] = "none"
    BY <1>8, <1>d, <2>1 DEF AddVote, crowd, Held
  <2>3. tally'[t].approve = tally[t].approve \/ tally'[t].approve = tally[t].approve + 1
    <3>1. PICK n \in {0, 1} : tally' = [tally EXCEPT ![t].approve = @ + n]
      BY <1>8 DEF AddVote
    <3>2. tally'[t].approve = tally[t].approve + n
      BY <1>d, <3>1 DEF TypeOK
    <3>3. QED
      BY <1>n, <3>2
  <2>4. /\ Cardinality(seen[t]) \in Nat /\ Cardinality(seen'[t]) = Cardinality(seen[t]) + 1
        /\ Cardinality(seen[t]) < Cardinality(Held')
    BY <2>1, <2>2, OneMoreVoter
  <2>5. tally'[t].approve <= Cardinality(seen'[t]) /\ tally'[t].approve <= Cardinality(Held')
    BY <1>n, <2>1, <2>3, <2>4
  <2>6. seen'[t] \subseteq Held'
    BY <2>1, <2>2
  <2>7. QED
    BY <2>2, <2>5, <2>6 DEF ThreadOK
<1>9. CASE SumFails(t)
  <2>1. /\ step'[t] = "idle" /\ answer'[t] \in {"poll failed", "failed"}
        /\ tally'[t] = NoTally /\ seen'[t] = {}
    BY <1>9, <1>d DEF SumFails, Reply, Forget, Go
  <2>2. tally'[t].approve <= Cardinality(Held')
    <3>1. tally'[t].approve = 0
      BY <2>1, <1>z
    <3>2. QED
      BY <3>1, <1>n
  <2>3. QED
    BY <2>1, <2>2 DEF ThreadOK
<1>10. CASE EndSum(t)
  BY <1>10, <1>t, <1>d DEF ThreadOK, EndSum, Forget, Go, crowd, Held
<1>11. CASE Subtract(t)
  <2>1. /\ step'[t] = "subtracted" /\ answer'[t] = "none" /\ seen'[t] = {} /\ Held' = Held
        /\ tally'[t].approve = tally[t].approve
        /\ tally'[t].reject = Cardinality(Held) - tally[t].approve
        /\ tally[t].approve <= Cardinality(Held)
    BY <1>11, <1>d, <1>t DEF Subtract, Go, crowd, Held, ThreadOK, TypeOK
  <2>2. tally'[t].approve + tally'[t].reject <= Cardinality(Held')
    BY <1>n, <2>1
  <2>3. QED
    BY <2>1, <2>2 DEF ThreadOK
<1>12. CASE Answer(t)
  <2>1. /\ step'[t] = "idle" /\ answer'[t] = "ok" /\ seen'[t] = {} /\ Held' = Held
        /\ tally'[t].approve = tally[t].approve /\ tally'[t].reject = tally[t].reject
        /\ tally'[t].count = Cardinality(Held)
        /\ tally[t].approve + tally[t].reject <= Cardinality(Held)
        /\ tally[t].approve <= Cardinality(Held)
    BY <1>12, <1>d, <1>t DEF Answer, Reply, Go, crowd, Held, ThreadOK, TypeOK
  <2>2. QED
    BY <1>n, <2>1 DEF ThreadOK
<1>13. QED
  BY <1>0, <1>1, <1>2, <1>3, <1>4, <1>5, <1>6, <1>7, <1>8, <1>9, <1>10, <1>11, <1>12
     DEF ThreadStep

\* Whoever is about to store a new voter saw room for it: a thread joins those
\* that do only while fewer voters are held than the cap, and leaves them with
\* the voter it adds.
LEMMA CapStep ==
  ASSUME TypeOK, CrowdInv, [Next]_vars
  PROVE  CapInv'
<1>f. \A S \in SUBSET Threads : IsFiniteSet(S) /\ Cardinality(S) \in Nat
                               /\ Cardinality(S) <= Cardinality(Threads)
  BY CrowdAssumption, FS_Subset, FS_CardinalityType
<1>n. /\ Coming \in SUBSET Threads /\ Coming' \in SUBSET Threads
      /\ Cardinality(Threads) \in Nat /\ CROWD_CAP \in Nat
      /\ Cardinality(Held) \in Nat /\ Cardinality(Held') \in Nat
  BY <1>f, CrowdAssumption, HeldIsFinite, HeldIsFiniteNext, SizesAreNumbers DEF Coming
<1>d. /\ DOMAIN step = Threads /\ DOMAIN ballot = Threads
      /\ \A t \in Threads : ThreadOK(t)
  BY DEF TypeOK, CrowdInv
\* Nobody new comes and nothing is stored.
<1>1. ASSUME Held' = Held, Coming' \subseteq Coming
      PROVE  CapInv'
  <2>1. Cardinality(Coming') <= Cardinality(Coming)
    BY <1>1, <1>n, <1>f, FS_Subset
  <2>2. Cardinality(Coming) \in Nat /\ Cardinality(Coming') \in Nat
    BY <1>n, <1>f
  <2>3. CapInv
    BY DEF CrowdInv
  <2>4. QED
    BY <1>1, <1>n, <2>1, <2>2, <2>3 DEF CapInv
<1>2. ASSUME NEW t \in Threads, PassCap(t)
      PROVE  CapInv'
  <2>1. Held' = Held /\ step' = [step EXCEPT ![t] = "hasRoom"] /\ ballot' = ballot
    BY <1>2 DEF PassCap, Go, crowd, Held
  <2>2. CASE ballot[t].who \in Held
    BY <1>1, <1>d, <2>1, <2>2 DEF Coming
  <2>3. CASE Cardinality(Held) < CROWD_CAP
    <3>1. Cardinality(Coming') \in Nat /\ Cardinality(Coming') <= Cardinality(Threads)
      BY <1>n, <1>f
    <3>2. QED
      BY <1>n, <2>1, <2>3, <3>1 DEF CapInv
  <2>4. QED
    BY <1>2, <2>2, <2>3 DEF PassCap, HasRoom
<1>3. ASSUME NEW t \in Threads, Store(t)
      PROVE  CapInv'
  <2>1. /\ step[t] = "hasRoom" /\ step' = [step EXCEPT ![t] = "stored"] /\ ballot' = ballot
        /\ Held' = Held \cup {ballot[t].who}
    BY <1>3, <1>d, StoreHolds DEF Store, Go, ThreadOK
  <2>2. Coming' \subseteq Coming \ {t}
    BY <1>d, <2>1 DEF Coming
  <2>3. CASE ballot[t].who \in Held
    BY <1>1, <2>1, <2>2, <2>3
  <2>4. CASE ballot[t].who \notin Held
    <3>1. t \in Coming
      BY <2>1, <2>4 DEF Coming
    <3>2. Cardinality(Coming \ {t}) = Cardinality(Coming) - 1
      BY <1>n, <1>f, <3>1, FS_RemoveElement
    <3>3. Cardinality(Coming') <= Cardinality(Coming \ {t})
      <4>1. Coming \ {t} \in SUBSET Threads
        BY <1>n
      <4>2. QED
        BY <4>1, <1>f, <2>2, FS_Subset
    <3>4. Cardinality(Held') = Cardinality(Held) + 1
      BY <2>1, <2>4, HeldIsFinite, FS_AddElement
    <3>5. Cardinality(Coming) \in Nat /\ Cardinality(Coming') \in Nat
      BY <1>n, <1>f
    <3>6. CapInv
      BY DEF CrowdInv
    <3>7. QED
      BY <1>n, <3>2, <3>3, <3>4, <3>5, <3>6 DEF CapInv
  <2>5. QED
    BY <2>3, <2>4
<1>4. ASSUME NEW t \in Threads, NEW to \in {"admitted", "stored"}, NEW b, Request(t, to, b)
      PROVE  CapInv'
  <2>1. Held' = Held /\ step' = [step EXCEPT ![t] = to] /\ ballot' = [ballot EXCEPT ![t] = b]
    BY <1>4 DEF Request, Go, crowd, Held
  <2>2. Coming' \subseteq Coming
    BY <1>d, <2>1 DEF Coming
  <2>3. QED
    BY <1>1, <2>1, <2>2
<1>5. ASSUME NEW t \in Threads, NEW from, NEW a, Reply(t, from, a), CROWD' = CROWD
      PROVE  CapInv'
  <2>1. /\ Held' = Held /\ step' = [step EXCEPT ![t] = "idle"]
        /\ ballot' = [ballot EXCEPT ![t] = NoVote]
    BY <1>5 DEF Reply, Go, Held
  <2>2. Coming' \subseteq Coming
    BY <1>d, <2>1 DEF Coming
  <2>3. QED
    BY <1>1, <2>1, <2>2
<1>6. ASSUME NEW t \in Threads, NEW from, NEW to \in {"summing", "summed", "subtracted"},
             Go(t, from, to), CROWD' = CROWD, ballot' = ballot
      PROVE  CapInv'
  BY <1>1, <1>6, <1>d DEF Go, Coming, Held
<1>7. ASSUME CROWD' = CROWD, ballot' = ballot, step' = step
      PROVE  CapInv'
  BY <1>1, <1>7 DEF Coming, Held
<1>8. CASE Freeze \/ UNCHANGED vars
  BY <1>7, <1>8 DEF Freeze, vars, crowd
<1>9. ASSUME NEW t \in Threads, ThreadStep(t)
      PROVE  CapInv'
  <2>1. CASE RefuseFrozen(t) \/ RefuseFull(t) \/ SumFails(t) \/ Answer(t)
    BY <1>5, <2>1 DEF RefuseFrozen, RefuseFull, SumFails, Answer, crowd
  <2>2. CASE BeginSum(t) \/ EndSum(t) \/ Subtract(t)
    BY <1>6, <2>2 DEF BeginSum, EndSum, Subtract, crowd
  <2>3. CASE \E i \in Initials : AddVote(t, i)
    BY <1>7, <2>3 DEF AddVote, crowd
  <2>4. QED
    BY <1>9, <1>2, <1>3, <2>1, <2>2, <2>3 DEF ThreadStep
<1>10. QED
  BY <1>4, <1>8, <1>9 DEF Next, Poll, Admit

Inv == TypeOK /\ CrowdInv

\* The inductive invariant holds in every reachable state.
LEMMA Invariance == Spec => []Inv
<1>1. Init => Inv
  <2> SUFFICES ASSUME Init
               PROVE  Inv
    OBVIOUS
  <2>1. Held = {} /\ Coming = {}
    BY DEF Init, Held, Coming
  <2>2. Cardinality(Held) = 0 /\ Cardinality(Coming) = 0
    BY <2>1, FS_EmptySet
  <2>3. Cardinality(Threads) \in Nat /\ Cardinality(Threads) # 0
    BY CrowdAssumption, FS_EmptySet, FS_CardinalityType
  <2>4. CapInv
    BY <2>2, <2>3, CrowdAssumption DEF CapInv
  <2>5. \A t \in Threads : ThreadOK(t)
    BY <2>1, <2>2, TallyType DEF Init, ThreadOK
  <2>6. TypeOK
    BY SizesAreNumbers, TallyType DEF Init, TypeOK
  <2>7. QED
    BY <2>4, <2>5, <2>6 DEF Inv, CrowdInv
<1>2. Inv /\ [Next]_vars => Inv'
  <2> SUFFICES ASSUME Inv, [Next]_vars
               PROVE  Inv'
    OBVIOUS
  <2>1. TypeOK' /\ Held \subseteq Held' /\ Cardinality(Held) <= Cardinality(Held')
    BY TypeStep, HeldGrows DEF Inv
  <2>2. ASSUME NEW t \in Threads
        PROVE  ThreadOK(t)'
    BY <2>1, UntouchedThread, ThreadStepKeeps DEF Inv, CrowdInv
  <2>3. QED
    BY <2>1, <2>2, CapStep DEF Inv, CrowdInv
<1>3. QED
  BY <1>1, <1>2, PTL DEF Spec

----------------------------------------------------------------------------
(* What the crowd may rely on. *)

\* Every variable keeps its type.
THEOREM TypeCorrect == Spec => []TypeOK
<1>1. Inv => TypeOK
  BY DEF Inv
<1>2. QED
  BY <1>1, Invariance, PTL

\* vote() tests the cap and inserts in two steps: with any number of threads the
\* cap is exceeded by at most one vote for each other thread.
THEOREM CapNearlyKept == Spec => []CapIsNearlyKept
<1>1. Inv => CapIsNearlyKept
  <2> SUFFICES ASSUME Inv
               PROVE  CapIsNearlyKept
    OBVIOUS
  <2>1. Coming \in SUBSET Threads
    BY DEF Coming
  <2>2. Cardinality(Coming) \in Nat /\ Cardinality(Threads) \in Nat
    BY <2>1, CrowdAssumption, FS_Subset, FS_CardinalityType
  <2>3. Cardinality(Held) \in Nat /\ CROWD_CAP \in Nat
    BY HeldIsFinite, SizesAreNumbers, CrowdAssumption
  <2>4. QED
    BY <2>2, <2>3 DEF Inv, CrowdInv, CapInv, CapIsNearlyKept
<1>2. QED
  BY <1>1, Invariance, PTL

\* The three numbers of an answer, read at different times while others vote,
\* are those of a vote that no more voters take part in than are held.
THEOREM TallyPossible == Spec => []TallyIsPossible
<1>1. Inv => TallyIsPossible
  <2> SUFFICES ASSUME Inv, NEW t \in Threads, answer[t] = "ok"
               PROVE  /\ tally[t].approve >= 0 /\ tally[t].reject >= 0
                      /\ tally[t].approve + tally[t].reject <= tally[t].count
                      /\ tally[t].count <= Cardinality(Held)
    BY DEF TallyIsPossible
  <2>1. tally[t].approve \in Nat /\ tally[t].reject \in Nat
    BY TallyType, SizesAreNumbers DEF Inv
  <2>2. QED
    BY <2>1 DEF Inv, CrowdInv, ThreadOK
<1>2. QED
  BY <1>1, Invariance, PTL
=============================================================================
