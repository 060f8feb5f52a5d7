------------------------ MODULE ProfileSwitching_proofs ------------------------
(***************************************************************************)
(* Proofs about ProfileSwitching, for any Profiles, requests and attempts. *)
(*                                                                         *)
(* Inv has three parts: the record is valid; what a generation says of the *)
(* requests that hold it; and what each request has tried so far.          *)
(***************************************************************************)
EXTENDS ProfileSwitching, FiniteSetTheorems, SequenceTheorems,
        WellFoundedInduction, TLAPS

-----------------------------------------------------------------------------
\* Sequences of ids.
LEMMA Least ==
  ASSUME NEW S \in SUBSET Nat, S # {}
  PROVE  Min(S) \in S /\ \A n \in S : Min(S) <= n
  <1>1. \E m \in S : \A n \in S : <<n, m>> \notin OpToRel(<, Nat)
    BY NatLessThanWellFounded, WFMin
  <1>2. \A m, n \in Nat : <<n, m>> \notin OpToRel(<, Nat) => m <= n
    BY DEF OpToRel
  <1>3. \E m \in S : \A n \in S : m <= n
    BY <1>1, <1>2
  <1> QED
    BY <1>3 DEF Min

LEMMA Appended ==
  ASSUME NEW s \in Seq(Ids), NEW i \in Ids
  PROVE  /\ Append(s, i) \in Seq(Ids) /\ ToSet(Append(s, i)) = ToSet(s) \cup {i}
         /\ Len(Append(s, i)) = Len(s) + 1
         /\ IsInjective(s) /\ i \notin ToSet(s) => IsInjective(Append(s, i))
  <1> DEFINE t == Append(s, i)
  <1>1. /\ t \in Seq(Ids) /\ Len(t) = Len(s) + 1 /\ Len(s) \in Nat
        /\ DOMAIN t = 1..Len(s) + 1 /\ DOMAIN s = 1..Len(s)
        /\ \A k \in 1..Len(s) : t[k] = s[k]
        /\ t[Len(s) + 1] = i
    OBVIOUS
  <1> HIDE DEF t
  <1>2. ToSet(t) = ToSet(s) \cup {i}
    BY <1>1 DEF ToSet
  <1>3. IsInjective(s) /\ i \notin ToSet(s) => IsInjective(t)
    BY <1>1 DEF ToSet, IsInjective
  <1> QED
    BY <1>1, <1>2, <1>3 DEF t

LEMMA Removed ==
  ASSUME NEW s \in Seq(Ids), NEW k \in DOMAIN s, IsInjective(s)
  PROVE  /\ RemoveAt(s, k) \in Seq(Ids) /\ IsInjective(RemoveAt(s, k))
         /\ ToSet(RemoveAt(s, k)) = ToSet(s) \ {s[k]}
  <1> DEFINE t == RemoveAt(s, k)
  <1>1. Len(s) \in Nat /\ k \in 1..Len(s) /\ DOMAIN s = 1..Len(s)
    OBVIOUS
  <1>2. /\ t \in Seq(Ids) /\ Len(t) = Len(s) - 1
        /\ \A j \in 1..Len(s) - 1 : t[j] = IF j < k THEN s[j] ELSE s[j + 1]
    <2> DEFINE before == SubSeq(s, 1, k - 1)  after == SubSeq(s, k + 1, Len(s))
    <2>1. /\ before \in Seq(Ids) /\ Len(before) = k - 1
          /\ \A j \in 1..k - 1 : before[j] = s[j]
      BY <1>1, SubSeqProperties
    <2>2. /\ after \in Seq(Ids) /\ Len(after) = Len(s) - k
          /\ \A j \in 1..Len(s) - k : after[j] = s[k + j]
      <3>1. k + 1 \in Int /\ Len(s) \in Int /\ \A j \in (k + 1)..Len(s) : s[j] \in Ids
        BY <1>1
      <3>2. /\ after \in Seq(Ids)
            /\ Len(after) = IF k + 1 <= Len(s) THEN Len(s) - (k + 1) + 1 ELSE 0
            /\ \A j \in 1..Len(s) - (k + 1) + 1 : after[j] = s[k + 1 + j - 1]
        BY <3>1, SubSeqProperties
      <3> HIDE DEF after
      <3>3. \A j \in 1..Len(s) - k : j \in 1..Len(s) - (k + 1) + 1 /\ k + 1 + j - 1 = k + j
        BY <1>1
      <3>4. Len(after) = Len(s) - k
        BY <1>1, <3>2
      <3> QED
        BY <3>2, <3>3, <3>4
    <2>3. t = before \o after
      BY DEF RemoveAt
    <2> HIDE DEF before, after, t
    <2>4. /\ t \in Seq(Ids) /\ Len(t) = Len(s) - 1
          /\ \A j \in 1..Len(s) - 1 : t[j] = IF j <= k - 1 THEN before[j] ELSE after[j - (k - 1)]
      <3>1. /\ t \in Seq(Ids) /\ Len(t) = Len(before) + Len(after)
            /\ \A j \in 1..Len(before) + Len(after) :
                 t[j] = IF j <= Len(before) THEN before[j] ELSE after[j - Len(before)]
        BY <2>1, <2>2, <2>3, ConcatProperties
      <3>2. Len(before) + Len(after) = Len(s) - 1 /\ Len(before) = k - 1
        BY <1>1, <2>1, <2>2
      <3> QED
        BY <3>1, <3>2
    <2>5. ASSUME NEW j \in 1..Len(s) - 1
          PROVE  t[j] = IF j < k THEN s[j] ELSE s[j + 1]
      <3>1. CASE j < k
        BY <1>1, <2>1, <2>4, <3>1
      <3>2. CASE j >= k
        <4>1. j - (k - 1) \in 1..Len(s) - k /\ k + (j - (k - 1)) = j + 1
          BY <1>1, <3>2
        <4> QED
          <5>1. after[j - (k - 1)] = s[j + 1]
            BY <2>2, <4>1
          <5>2. ~(j <= k - 1) /\ ~(j < k)
            BY <1>1, <3>2
          <5> QED
            BY <2>4, <5>1, <5>2
      <3> QED
        BY <1>1, <3>1, <3>2
    <2> QED
      BY <2>4, <2>5
  <1> HIDE DEF t
  <1>3. DOMAIN t = 1..Len(s) - 1
    BY <1>2
  <1>4. IsInjective(t)
    <2> DEFINE old(j) == IF j < k THEN j ELSE j + 1
    <2>1. \A j \in 1..Len(s) - 1 : old(j) \in 1..Len(s) /\ t[j] = s[old(j)]
      BY <1>1, <1>2
    <2>2. \A i, j \in 1..Len(s) - 1 : old(i) = old(j) => i = j
      BY <1>1
    <2> HIDE DEF old
    <2> QED
      BY <1>1, <1>3, <2>1, <2>2 DEF IsInjective
  <1>5. \A j \in 1..Len(s) : j # k => s[j] \in ToSet(t)
    <2> TAKE j \in 1..Len(s)
    <2>1. CASE j < k
      BY <1>1, <1>2, <1>3, <2>1 DEF ToSet
    <2>2. CASE j > k
      <3>1. j - 1 \in 1..Len(s) - 1 /\ t[j - 1] = s[j]
        BY <1>1, <1>2, <2>2
      <3> QED
        BY <1>3, <3>1 DEF ToSet
    <2> QED
      BY <1>1, <2>1, <2>2
  <1>6. ToSet(t) \subseteq ToSet(s) \ {s[k]}
    <2>1. ASSUME NEW j \in 1..Len(s) - 1
          PROVE  \E q \in 1..Len(s) : q # k /\ t[j] = s[q]
      <3>1. CASE j < k
        BY <1>1, <1>2, <3>1
      <3>2. CASE j >= k
        <4>1. j + 1 \in 1..Len(s) /\ j + 1 # k /\ t[j] = s[j + 1]
          BY <1>1, <1>2, <3>2
        <4> QED
          BY <4>1
      <3> QED
        BY <1>1, <3>1, <3>2
    <2>2. \A q \in 1..Len(s) : q # k => s[q] \in ToSet(s) /\ s[q] # s[k]
      BY <1>1 DEF ToSet, IsInjective
    <2> QED
      BY <1>3, <2>1, <2>2 DEF ToSet
  <1>7. ToSet(s) \ {s[k]} \subseteq ToSet(t)
    BY <1>1, <1>5 DEF ToSet
  <1> QED
    BY <1>2, <1>4, <1>6, <1>7 DEF t

LEMMA Reordered ==
  ASSUME NEW s \in Seq(Ids), NEW t \in SetToSeqs(ToSet(s)), IsInjective(s)
  PROVE  t \in Seq(Ids) /\ IsInjective(t) /\ ToSet(t) = ToSet(s)
  <1> DEFINE S == ToSet(s)  n == Cardinality(S)
  <1>1. S \subseteq Ids /\ Len(s) \in Nat /\ s \in [1..Len(s) -> S] /\ DOMAIN s = 1..Len(s)
    BY DEF ToSet
  <1>2. IsFiniteSet(S)
    <2>1. s \in Surjection(1..Len(s), S)
      BY <1>1 DEF Surjection, ToSet
    <2>2. IsFiniteSet(1..Len(s))
      BY <1>1, FS_Interval
    <2> QED
      BY <2>1, <2>2, FS_Surjection
  <1>3. n \in Nat
    BY <1>2, FS_CardinalityType
  <1>4. t \in [1..n -> S] /\ \A i, j \in 1..n : i # j => t[i] # t[j]
    BY DEF SetToSeqs
  <1> HIDE DEF S, n
  <1>5. t \in Seq(Ids) /\ IsInjective(t) /\ DOMAIN t = 1..n
    BY <1>1, <1>3, <1>4 DEF IsInjective
  <1>6. ToSet(t) \subseteq S /\ ToSet(t) \in SUBSET S
    BY <1>4, <1>5 DEF ToSet
  <1>7. Cardinality(ToSet(t)) = n
    <2>1. t \in Bijection(1..n, ToSet(t))
      BY <1>4, <1>5 DEF Bijection, Injection, Surjection, IsInjective, ToSet
    <2>2. IsFiniteSet(1..n) /\ Cardinality(1..n) = n
      BY <1>3, FS_Interval
    <2> QED
      BY <2>1, <2>2, FS_Bijection DEF ExistsBijection
  <1>8. ToSet(t) = S
    BY <1>2, <1>6, <1>7, FS_Subset DEF n
  <1> QED
    BY <1>5, <1>8 DEF S

-----------------------------------------------------------------------------
Busy(r) == pc[r] \in {"bound", "sent", "limited"}

\* Generations never return, so a request that holds the present one has seen
\* every choice of the user's, and of the 429s under it none is forgotten.
Causes(r) ==
  /\ Busy(r) /\ r \in overtaken => bind[r].gen # gen
  /\ pc[r] = "limited" /\ IsCurrent(r) => spent

\* What a request has tried: distinct Profiles of one kind, few enough.
Attempts(r) ==
  /\ pc[r] = "idle" => tried[r] = <<>>
  /\ Busy(r) => bind[r].id \in Ids
  /\ IsInjective(tried[r]) /\ Len(tried[r]) <= MaxAttempts
  /\ \A i \in ToSet(tried[r]) : Kind[i] = Kind[bind[r].id]
  /\ pc[r] = "bound" => bind[r].id \notin ToSet(tried[r])
  /\ pc[r] \in {"bound", "limited"} => Len(tried[r]) < MaxAttempts

Inv ==
  /\ TypeOK /\ SelectionIsValid /\ Members \subseteq used
  /\ \A r \in Requests : Causes(r) /\ Attempts(r)

LEMMA InitInv == Init => Inv
  <1> SUFFICES ASSUME Init PROVE Inv
    OBVIOUS
  <1>1. /\ ToSet(<<>>) = {} /\ IsInjective(<<>>) /\ <<>> \in Seq(Ids) /\ Len(<<>>) = 0
    BY DEF ToSet, IsInjective
  <1>2. TypeOK
    BY <1>1 DEF Init, TypeOK, NoBinding
  <1>3. SelectionIsValid /\ Members \subseteq used
    BY <1>1 DEF Init, SelectionIsValid, Members
  <1>4. ASSUME NEW r \in Requests PROVE Causes(r) /\ Attempts(r)
    <2>1. pc[r] = "idle" /\ tried[r] = <<>>
      BY DEF Init
    <2> QED
      BY <1>1, <2>1, SwitchingAssumption DEF Causes, Attempts, Busy
  <1> QED
    BY <1>2, <1>3, <1>4 DEF Inv

\* The types of the history and of the selection survive a choice of the user's,
\* and no request holds the generation it draws.
LEMMA UserChoice ==
  ASSUME Inv, UNCHANGED requests, NEW i \in Ids \cup {NoId},
         UserReselects(i) \/ UserKeepsSelection
  PROVE  /\ active' \in {active, i} /\ gen' \in Gens \cup {NoGen}
         /\ overtaken' \subseteq Requests /\ spent' \in BOOLEAN
         /\ \A r \in Requests : (Causes(r) /\ Attempts(r))'
  <1>1. \A r \in Requests : pc'[r] = pc[r] /\ bind'[r] = bind[r] /\ tried'[r] = tried[r]
    BY DEF requests
  <1>2. \A r \in Requests : Attempts(r)'
    BY <1>1 DEF Inv, Attempts, Busy
  <1>3. CASE UserKeepsSelection
    BY <1>1, <1>2, <1>3
    DEF UserKeepsSelection, KeepSelection, Inv, TypeOK, Causes, IsCurrent, Busy
  <1>4. CASE UserReselects(i)
    <2>1. \A r \in Requests : bind[r].gen # gen'
      BY <1>4 DEF UserReselects, Reselect, FreshGens
    <2> QED
      BY <1>1, <1>2, <1>4, <2>1
      DEF UserReselects, Reselect, FreshGens, Causes, IsCurrent, Busy
  <1> QED
    BY <1>3, <1>4

LEMMA NextUser ==
  ASSUME Inv, User
  PROVE  Inv'
  <1>0. /\ profiles \in Seq(Ids) /\ IsInjective(profiles) /\ Members \subseteq used
        /\ enabled \subseteq Members /\ active \in enabled \cup {NoId}
        /\ used \subseteq Ids /\ NoId \notin Ids /\ Members = ToSet(profiles) /\ TypeOK
    BY SwitchingAssumption DEF Inv, TypeOK, SelectionIsValid, Members
  <1>1. ASSUME NEW i \in Ids, Acquire(i) PROVE Inv'
    <2>1. /\ profiles' \in Seq(Ids) /\ Members' = Members \cup {i} /\ IsInjective(profiles)'
      BY <1>0, <1>1, Appended DEF Acquire, Members
    <2>2. /\ active' \in {active, i} /\ gen' \in Gens \cup {NoGen}
          /\ overtaken' \subseteq Requests /\ spent' \in BOOLEAN
          /\ \A r \in Requests : (Causes(r) /\ Attempts(r))'
      BY <1>1, UserChoice DEF Acquire
    <2>3. TypeOK'
      BY <1>0, <1>1, <2>1, <2>2 DEF Acquire, TypeOK, requests
    <2>4. SelectionIsValid' /\ Members' \subseteq used'
      BY <1>0, <1>1, <2>1, <2>2 DEF Acquire, SelectionIsValid
    <2> QED
      BY <2>2, <2>3, <2>4 DEF Inv
  <1>2. ASSUME NEW i \in Ids, Activate(i) PROVE Inv'
    <2>1. /\ active' \in {active, i} /\ gen' \in Gens \cup {NoGen}
          /\ overtaken' \subseteq Requests /\ spent' \in BOOLEAN
          /\ \A r \in Requests : (Causes(r) /\ Attempts(r))'
      BY <1>2, UserChoice DEF Activate
    <2>2. TypeOK' /\ SelectionIsValid' /\ Members' \subseteq used'
      BY <1>0, <1>2, <2>1 DEF Activate, TypeOK, SelectionIsValid, Members, requests
    <2> QED
      BY <2>1, <2>2 DEF Inv
  <1>3. ASSUME NEW i \in Ids, Enable(i) PROVE Inv'
    <2>1. \A r \in Requests : (Causes(r) /\ Attempts(r))'
      BY <1>3 DEF Enable, Inv, Causes, Attempts, Busy, IsCurrent, requests, history
    <2> QED
      BY <1>0, <1>3, <2>1 DEF Enable, Inv, TypeOK, SelectionIsValid, Members, requests, history
  <1>4. ASSUME NEW i \in Ids, Disable(i) PROVE Inv'
    <2>1. (UserReselects(NoId) /\ active = i) \/ (UserKeepsSelection /\ active # i)
      BY <1>4 DEF Disable, ClearIfActive
    <2>2. /\ active' = NoId \/ (active' = active /\ active # i)
          /\ gen' \in Gens \cup {NoGen}
          /\ overtaken' \subseteq Requests /\ spent' \in BOOLEAN
          /\ \A r \in Requests : (Causes(r) /\ Attempts(r))'
      BY <1>4, <2>1, UserChoice
      DEF Disable, UserReselects, Reselect, UserKeepsSelection, KeepSelection
    <2>3. TypeOK' /\ SelectionIsValid' /\ Members' \subseteq used'
      BY <1>0, <1>4, <2>2 DEF Disable, TypeOK, SelectionIsValid, Members, requests
    <2> QED
      BY <2>2, <2>3 DEF Inv
  <1>5. ASSUME NEW i \in Ids, RemoveProfile(i) PROVE Inv'
    <2>1. (UserReselects(NoId) /\ active = i) \/ (UserKeepsSelection /\ active # i)
      BY <1>5 DEF RemoveProfile, ClearIfActive
    <2>2. /\ active' = NoId \/ (active' = active /\ active # i)
          /\ gen' \in Gens \cup {NoGen}
          /\ overtaken' \subseteq Requests /\ spent' \in BOOLEAN
          /\ \A r \in Requests : (Causes(r) /\ Attempts(r))'
      BY <1>5, <2>1, UserChoice
      DEF RemoveProfile, UserReselects, Reselect, UserKeepsSelection, KeepSelection
    <2>3. profiles' \in Seq(Ids) /\ IsInjective(profiles)' /\ Members' = Members \ {i}
      <3>1. PICK k \in DOMAIN profiles : profiles[k] = i /\ profiles' = RemoveAt(profiles, k)
        BY <1>5 DEF RemoveProfile
      <3> QED
        BY <1>0, <3>1, Removed DEF Members
    <2>4. TypeOK'
      BY <1>0, <1>5, <2>2, <2>3 DEF RemoveProfile, TypeOK, requests
    <2>5. SelectionIsValid' /\ Members' \subseteq used'
      BY <1>0, <1>5, <2>2, <2>3 DEF RemoveProfile, SelectionIsValid
    <2> QED
      BY <2>2, <2>4, <2>5 DEF Inv
  <1>6. ASSUME Reorder PROVE Inv'
    <2>1. profiles' \in Seq(Ids) /\ IsInjective(profiles)' /\ Members' = Members
      BY <1>0, <1>6, Reordered DEF Reorder, Members
    <2>2. \A r \in Requests : (Causes(r) /\ Attempts(r))'
      BY <1>6 DEF Reorder, Inv, Causes, Attempts, Busy, IsCurrent, requests, history
    <2> QED
      BY <1>0, <1>6, <2>1, <2>2 DEF Reorder, Inv, TypeOK, SelectionIsValid, requests, history
  <1>7. ASSUME NEW k \in Kinds, SetSwitchPolicy(k) PROVE Inv'
    <2>1. \A r \in Requests : (Causes(r) /\ Attempts(r))'
      BY <1>7 DEF SetSwitchPolicy, Inv, Causes, Attempts, Busy, IsCurrent, requests, history
    <2>2. policy' \in [Kinds -> BOOLEAN]
      BY <1>0, <1>7 DEF SetSwitchPolicy, TypeOK
    <2> QED
      BY <1>0, <1>7, <2>1, <2>2
      DEF SetSwitchPolicy, Inv, TypeOK, SelectionIsValid, Members, requests, history
  <1>8. {Kind[i] : i \in Ids} \subseteq Kinds
    BY SwitchingAssumption
  <1> QED
    BY <1>1, <1>2, <1>3, <1>4, <1>5, <1>6, <1>7, <1>8 DEF User

-----------------------------------------------------------------------------
\* A step of request r leaves the others as they are: what they have tried, and
\* what they know of their generation unless the selection moves on.
Alone(r) ==
  \A q \in Requests \ {r} : pc'[q] = pc[q] /\ bind'[q] = bind[q] /\ tried'[q] = tried[q]

LEMMA OthersKept ==
  ASSUME Inv, NEW r \in Requests, Alone(r), overtaken' \subseteq overtaken,
         \/ gen' = gen /\ active' = active /\ (spent => spent')
         \/ gen' \in FreshGens
  PROVE  \A q \in Requests \ {r} : (Causes(q) /\ Attempts(q))'
  <1> SUFFICES ASSUME NEW q \in Requests, q # r
               PROVE  Causes(q)' /\ Attempts(q)'
    OBVIOUS
  <1>1. /\ pc'[q] = pc[q] /\ bind'[q] = bind[q] /\ tried'[q] = tried[q]
        /\ Causes(q) /\ Attempts(q)
    BY DEF Alone, Inv
  <1>2. Attempts(q)'
    BY <1>1 DEF Attempts, Busy
  <1>3. CASE gen' \in FreshGens
    <2>1. bind[q].gen # gen'
      BY <1>3 DEF FreshGens
    <2> QED
      BY <1>1, <1>2, <2>1 DEF Causes, IsCurrent, Busy
  <1>4. CASE gen' = gen /\ active' = active /\ (spent => spent')
    BY <1>1, <1>2, <1>4 DEF Causes, IsCurrent, Busy
  <1> QED
    BY <1>3, <1>4

\* A request that has ended has tried nothing and knows nothing.
LEMMA Finished ==
  ASSUME Inv, NEW r \in Requests, Finish(r)
  PROVE  /\ Alone(r) /\ Causes(r)' /\ Attempts(r)' /\ pc'[r] = "idle"
         /\ pc' \in [Requests -> {"idle", "bound", "sent", "limited"}]
         /\ bind' \in [Requests -> [id : Ids \cup {NoId}, gen : Gens \cup {NoGen}]]
         /\ tried' \in [Requests -> Seq(Ids)]
  <1>1. /\ pc' = [pc EXCEPT ![r] = "idle"]
        /\ bind' = [bind EXCEPT ![r] = [id |-> NoId, gen |-> NoGen]]
        /\ tried' = [tried EXCEPT ![r] = <<>>]
    BY DEF Finish, Goto, Bound
  <1>2. /\ pc \in [Requests -> {"idle", "bound", "sent", "limited"}]
        /\ bind \in [Requests -> [id : Ids \cup {NoId}, gen : Gens \cup {NoGen}]]
        /\ tried \in [Requests -> Seq(Ids)]
    BY DEF Inv, TypeOK
  <1>3. pc'[r] = "idle" /\ tried'[r] = <<>>
    BY <1>1, <1>2
  <1>4. Causes(r)'
    BY <1>3 DEF Causes, Busy
  <1>5. IsInjective(<<>>) /\ Len(<<>>) = 0 /\ ToSet(<<>>) = {}
    BY DEF IsInjective, ToSet
  <1>6. Attempts(r)'
    BY <1>3, <1>5, SwitchingAssumption DEF Attempts, Busy
  <1> QED
    BY <1>1, <1>2, <1>3, <1>4, <1>6 DEF Alone

\* A request that ends without a word to the record.
LEMMA FinishKeeps ==
  ASSUME Inv, NEW r \in Requests, Finish(r), UNCHANGED <<record, overtaken>>,
         cooling' \subseteq Ids, spent' \in BOOLEAN, spent => spent'
  PROVE  Inv'
  <1>1. \A q \in Requests : (Causes(q) /\ Attempts(q))'
    BY Finished, OthersKept DEF record
  <1> QED
    BY <1>1, Finished DEF Inv, TypeOK, SelectionIsValid, Members, record

\* The next Profile is enabled, of the request's kind and not tried yet.
LEMMA TargetIsEligible ==
  ASSUME Inv, NEW r \in Requests, Target(r) # 0
  PROVE  profiles[Target(r)] \in Eligible(r) /\ profiles[Target(r)] \in Members
  <1> DEFINE I == {i \in 1..Len(profiles) : profiles[i] \in Eligible(r)}
  <1>1. Len(profiles) \in Nat /\ DOMAIN profiles = 1..Len(profiles)
    BY DEF Inv, TypeOK
  <1>2. Target(r) = IF I # {} THEN Min(I) ELSE 0
    BY DEF Target, SelectInSeq
  <1>3. I \in SUBSET Nat /\ I # {}
    BY <1>1, <1>2
  <1>4. Target(r) \in I
    BY <1>2, <1>3, Least
  <1> QED
    BY <1>1, <1>4 DEF Members, ToSet

LEMMA SwitchedRecord ==
  ASSUME Inv, NEW r \in Requests, CommitSwitch(r)
  PROVE  /\ active' \in Eligible(r) /\ active' \in Ids /\ gen' \in FreshGens /\ gen' \in Gens
         /\ spent' = FALSE /\ cooling' \subseteq Ids /\ Busy(r)
         /\ UNCHANGED <<profiles, enabled, policy, used, overtaken>>
         /\ SelectionIsValid' /\ Members' \subseteq used' /\ r \notin overtaken
  <1>1. active' = profiles[Target(r)] /\ active' \in Eligible(r) /\ active' \in Members
    BY TargetIsEligible DEF CommitSwitch, Reselect
  <1>2. Eligible(r) \subseteq enabled /\ enabled \subseteq Ids /\ Busy(r)
    BY DEF Eligible, Inv, TypeOK, CommitSwitch, Busy
  <1>3. bind[r].id \in Ids
    BY <1>2 DEF Inv, Attempts
  <1>4. r \notin overtaken
    BY <1>2 DEF Inv, Causes, CommitSwitch, IsCurrent
  <1> QED
    BY <1>1, <1>2, <1>3, <1>4
    DEF CommitSwitch, Reselect, FreshGens, Cool, Inv, TypeOK, SelectionIsValid, Members

LEMMA NextRequest ==
  ASSUME Inv, NEW r \in Requests, Capture(r) \/ Step(r)
  PROVE  Inv'
  <1>0. /\ TypeOK /\ SelectionIsValid /\ Members \subseteq used /\ Causes(r) /\ Attempts(r)
        /\ tried[r] \in Seq(Ids) /\ MaxAttempts \in Nat /\ MaxAttempts >= 1
    BY SwitchingAssumption DEF Inv, TypeOK
  <1>1. CASE Capture(r)
    <2>1. /\ pc' = [pc EXCEPT ![r] = "bound"] /\ tried' = tried
          /\ bind' = [bind EXCEPT ![r] = [id |-> active, gen |-> gen]]
          /\ overtaken' = overtaken \ {r} /\ active \in Ids /\ tried[r] = <<>>
          /\ UNCHANGED <<record, cooling, spent>>
      BY <1>0, <1>1 DEF Capture, Goto, Bound, TypeOK, Attempts
    <2>2. TypeOK' /\ SelectionIsValid' /\ Members' \subseteq used'
      BY <1>0, <2>1 DEF TypeOK, SelectionIsValid, Members, record
    <2>3. Alone(r) /\ pc'[r] = "bound" /\ tried'[r] = <<>> /\ bind'[r].id = active
      BY <1>0, <2>1 DEF Alone, TypeOK
    <2>4. ToSet(<<>>) = {} /\ IsInjective(<<>>) /\ Len(<<>>) = 0
      BY DEF ToSet, IsInjective
    <2>5. Causes(r)' /\ Attempts(r)'
      BY <1>0, <2>1, <2>3, <2>4 DEF Causes, Attempts, Busy
    <2> QED
      BY <2>1, <2>2, <2>3, <2>5, OthersKept DEF Inv, record
  <1>2. CASE Resolve(r)
    <2> DEFINE i == bind[r].id
    <2>1. /\ pc' = [pc EXCEPT ![r] = "sent"] /\ bind' = bind
          /\ tried' = [tried EXCEPT ![r] = Append(tried[r], i)]
          /\ UNCHANGED <<record, cooling, history>> /\ pc[r] = "bound" /\ i \in Ids
      BY <1>0, <1>2 DEF Resolve, Goto, Attempts, Busy
    <2>2. /\ Append(tried[r], i) \in Seq(Ids) /\ IsInjective(Append(tried[r], i))
          /\ ToSet(Append(tried[r], i)) = ToSet(tried[r]) \cup {i}
          /\ Len(Append(tried[r], i)) <= MaxAttempts
      <3>1. IsInjective(tried[r]) /\ i \notin ToSet(tried[r]) /\ Len(tried[r]) < MaxAttempts
        BY <1>0, <2>1 DEF Attempts
      <3> QED
        BY <1>0, <2>1, <3>1, Appended
    <2>3. /\ Alone(r) /\ pc'[r] = "sent" /\ bind'[r] = bind[r]
          /\ tried'[r] = Append(tried[r], i)
      BY <1>0, <2>1 DEF Alone, TypeOK
    <2>4. Causes(r)' /\ Attempts(r)'
      BY <1>0, <2>1, <2>2, <2>3 DEF Causes, Attempts, Busy, record, history
    <2>5. TypeOK' /\ SelectionIsValid' /\ Members' \subseteq used'
      BY <1>0, <2>1, <2>2 DEF TypeOK, SelectionIsValid, Members, record, history
    <2> QED
      BY <2>1, <2>3, <2>4, <2>5, OthersKept DEF Inv, record, history
  <1>3. CASE FailClosed(r) \/ Answer(r) \/ StaleBinding(r) \/ StorageFails(r)
    BY <1>0, <1>3, FinishKeeps
    DEF FailClosed, Answer, StaleBinding, StorageFails, history, TypeOK
  <1>4. CASE Answer429(r)
    <2>1. CASE Finish(r)
      BY <1>0, <1>4, <2>1, FinishKeeps DEF Answer429, TypeOK, IsCurrent
    <2>2. CASE ~(Len(tried[r]) >= MaxAttempts) /\ Goto(r, "limited") /\ UNCHANGED <<bind, tried>>
      <3>1. /\ Alone(r) /\ pc'[r] = "limited" /\ bind' = bind /\ tried' = tried
            /\ pc' \in [Requests -> {"idle", "bound", "sent", "limited"}]
        BY <1>0, <2>2 DEF Alone, Goto, TypeOK
      <3>2. spent' \in BOOLEAN /\ (spent => spent') /\ (IsCurrent(r) => spent')
        BY <1>0, <1>4 DEF Answer429, TypeOK, IsCurrent
      <3>3. UNCHANGED <<record, cooling, overtaken>> /\ pc[r] = "sent"
        BY <1>4 DEF Answer429
      <3>4. Len(tried[r]) < MaxAttempts
        BY <1>0, <2>2
      <3>5. Causes(r)' /\ Attempts(r)'
        BY <1>0, <3>1, <3>2, <3>3, <3>4 DEF Causes, Attempts, Busy, IsCurrent, record
      <3>6. TypeOK' /\ SelectionIsValid' /\ Members' \subseteq used'
        BY <1>0, <3>1, <3>2, <3>3 DEF TypeOK, SelectionIsValid, Members, record
      <3> QED
        BY <3>1, <3>2, <3>3, <3>5, <3>6, OthersKept DEF Inv, record
    <2> QED
      BY <1>4, <2>1, <2>2 DEF Answer429
  <1>5. CASE Switch(r)
    <2>1. /\ pc' = [pc EXCEPT ![r] = "bound"] /\ tried' = tried
          /\ bind' = [bind EXCEPT ![r] = [id |-> active', gen |-> gen']]
      BY <1>5 DEF Switch, Goto, Bound
    <2>2. /\ active' \in Eligible(r) /\ active' \in Ids /\ gen' \in FreshGens /\ gen' \in Gens
          /\ spent' = FALSE /\ cooling' \subseteq Ids
          /\ UNCHANGED <<profiles, enabled, policy, used, overtaken>>
          /\ SelectionIsValid' /\ Members' \subseteq used' /\ r \notin overtaken
      BY <1>5, SwitchedRecord DEF Switch
    <2>3. /\ Alone(r) /\ pc'[r] = "bound" /\ tried'[r] = tried[r]
          /\ bind'[r].id = active' /\ pc[r] = "limited"
      BY <1>0, <1>5, <2>1 DEF Alone, TypeOK, Switch, CommitSwitch
    <2>4. Attempts(r)'
      BY <1>0, <2>2, <2>3 DEF Attempts, Busy, Eligible
    <2>5. Causes(r)'
      BY <2>2, <2>3 DEF Causes, Busy
    <2>6. TypeOK'
      BY <1>0, <2>1, <2>2 DEF TypeOK
    <2> QED
      BY <2>2, <2>3, <2>4, <2>5, <2>6, OthersKept DEF Inv
  <1>6. CASE SwitchLost(r)
    <2>1. /\ gen' \in FreshGens /\ gen' \in Gens /\ active' \in Ids
          /\ spent' = FALSE /\ cooling' \subseteq Ids
          /\ UNCHANGED <<profiles, enabled, policy, used, overtaken>>
          /\ SelectionIsValid' /\ Members' \subseteq used'
      BY <1>6, SwitchedRecord DEF SwitchLost
    <2>2. \A q \in Requests : (Causes(q) /\ Attempts(q))'
      BY <1>6, <2>1, Finished, OthersKept DEF SwitchLost
    <2>3. TypeOK'
      BY <1>0, <1>6, <2>1, Finished DEF SwitchLost, TypeOK
    <2> QED
      BY <2>1, <2>2, <2>3 DEF Inv
  <1>7. CASE GiveUp(r)
    <2>1. bind[r].id \in Ids
      BY <1>0, <1>7 DEF GiveUp, Attempts, Busy
    <2> QED
      BY <1>0, <1>7, <2>1, FinishKeeps DEF GiveUp, Cool, TypeOK, history
  <1> QED
    BY <1>1, <1>2, <1>3, <1>4, <1>5, <1>6, <1>7 DEF Step

LEMMA NextInv == Inv /\ [Next]_vars => Inv'
  <1> SUFFICES ASSUME Inv, [Next]_vars PROVE Inv'
    OBVIOUS
  <1>1. ASSUME NEW i \in Ids, Thaw(i) PROVE Inv'
    BY <1>1 DEF Thaw, Inv, TypeOK, SelectionIsValid, Members, Causes, Attempts, Busy, IsCurrent,
                record, requests, history
  <1>2. CASE UNCHANGED vars
    BY <1>2 DEF vars, Inv, TypeOK, SelectionIsValid, Members, Causes, Attempts, Busy, IsCurrent,
                record, requests, history
  <1> QED
    BY <1>1, <1>2, NextUser, NextRequest DEF Next

-----------------------------------------------------------------------------
\* Every state: a valid record, and what each request knows and has tried.
THEOREM Invariance == Spec => []Inv
  BY InitInv, NextInv, PTL DEF Spec

\* No sequence of user operations and switches ever leaves the selection on a
\* Profile that is disabled or removed, or the record invalid.
THEOREM SelectionStaysConsistent == Spec => []SelectionConsistent
  BY Invariance, PTL DEF Inv, SelectionConsistent

\* No request sends twice under one Profile, or more often than it may.
THEOREM AttemptsStayDistinct == Spec => []AttemptsAreDistinct
  <1>1. Inv => AttemptsAreDistinct
    BY DEF Inv, Attempts, AttemptsAreDistinct
  <1> QED
    BY <1>1, Invariance, PTL

\* A request is never sent under Profiles of both kinds: a switch stays with the
\* kind of the Profile that the request was first bound to.
AttemptsAreOfOneKind ==
  \A r \in Requests : \A i, j \in ToSet(tried[r]) : Kind[i] = Kind[j]

\* However the user adds and enables Profiles of the other kind between attempts.
THEOREM AttemptsStayOfOneKind == Spec => []AttemptsAreOfOneKind
  <1>1. Inv => AttemptsAreOfOneKind
    BY DEF Inv, Attempts, AttemptsAreOfOneKind
  <1> QED
    BY <1>1, Invariance, PTL

\* Only a request's own switch moves the selection in one of its steps.
LEMMA MovesIsSwitch ==
  ASSUME Inv, [Next]_vars, NEW r \in Requests, Moves(r)
  PROVE  CommitSwitch(r)
  <1>1. gen' # gen /\ pc'[r] # pc[r] /\ pc[r] = "limited"
    BY DEF Moves
  <1>2. pc \in [Requests -> {"idle", "bound", "sent", "limited"}]
    BY DEF Inv, TypeOK
  <1>3. ~User
    BY <1>1
    DEF User, Acquire, Activate, Enable, Disable, RemoveProfile, Reorder, SetSwitchPolicy, requests
  <1>4. \A i \in Ids : ~Thaw(i)
    BY <1>1 DEF Thaw, record
  <1>5. PICK q \in Requests : Capture(q) \/ Step(q)
    BY <1>1, <1>3, <1>4 DEF Next, vars, requests
  <1>6. \E label : pc' = [pc EXCEPT ![q] = label]
    BY <1>5
    DEF Capture, Step, Resolve, FailClosed, Answer, Answer429, Switch, SwitchLost, GiveUp,
        StaleBinding, StorageFails, Finish, Goto
  <1>7. q = r
    BY <1>1, <1>2, <1>6
  <1> QED
    BY <1>1, <1>5, <1>7
    DEF Capture, Step, Resolve, FailClosed, Answer, Answer429, Switch, SwitchLost, GiveUp,
        StaleBinding, StorageFails, record

\* A request that the user has overtaken never moves the selection, not even
\* when the user has come back to the Profile the request captured.
THEOREM UserChoicesStand == Spec => UserChoiceStands
  <1>1. ASSUME Inv, [Next]_vars, NEW r \in Requests, Moves(r) PROVE r \notin overtaken
    BY <1>1, MovesIsSwitch, SwitchedRecord
  <1>2. Inv /\ [Next]_vars => [\A r \in Requests : Moves(r) => r \notin overtaken]_vars
    BY <1>1
  <1> QED
    BY <1>2, Invariance, PTL DEF Spec, UserChoiceStands

\* The selection moves once for each selection that was limited, however many
\* requests were limited under it.
THEOREM SwitchesHaveCauses == Spec => SwitchHasCause
  <1>1. ASSUME Inv, [Next]_vars, NEW r \in Requests, Moves(r) PROVE spent
    BY <1>1, MovesIsSwitch DEF CommitSwitch, Inv, Causes
  <1>2. Inv /\ [Next]_vars => [(\E r \in Requests : Moves(r)) => spent]_vars
    BY <1>1
  <1> QED
    BY <1>2, Invariance, PTL DEF Spec, SwitchHasCause

-----------------------------------------------------------------------------
(***************************************************************************)
(* The record.  ProfileRecord says which edits of a record there are, and  *)
(* ProfileRecordStore proves of exactly these that they are committed      *)
(* atomically.  Here every change of the selection is shown to be one.     *)
(***************************************************************************)
P == INSTANCE ProfileRecord

\* The record as the store keeps it; whether it exists stands for its revision.
Rec == [rev |-> IF gen = NoGen THEN 0 ELSE 1, members |-> Members,
        enabled |-> enabled, active |-> active]

\* The first login also makes the record's first revision.
Logged(r, i) == [P!Appended(r, i) EXCEPT !.rev = 1]

\* The user adds Profiles under new ids and makes management edits; a request
\* only ever makes the 429 switch, from a selection to another enabled Profile.
RecordChangesAreEdits ==
  [][Rec' # Rec =>
       IF requests' = requests
       THEN \/ \E i \in Ids \ used : Rec' = Logged(Rec, i)
            \/ Rec' \in P!Edits(Rec)
       ELSE Rec' \in P!Switches(Rec)]_vars

\* A record exists from the first login on.
Recorded == gen = NoGen => profiles = <<>>

LEMMA NoMembers == ASSUME TypeOK PROVE Members = {} <=> profiles = <<>>
  <1>1. profiles \in Seq(Ids) /\ Members = {profiles[k] : k \in DOMAIN profiles}
    BY DEF TypeOK, Members, ToSet
  <1>2. ASSUME profiles # <<>> PROVE profiles[1] \in Members
    BY <1>1, <1>2
  <1> QED
    BY <1>1, <1>2

\* Records are equal when their fields are; and what the edits do to the fields.
LEMMA SameRecord ==
  ASSUME NEW r \in P!Records, NEW s \in P!Records, r.rev = s.rev, r.members = s.members,
         r.enabled = s.enabled, r.active = s.active
  PROVE  r = s
  BY DEF P!Records

LEMMA EditedFields ==
  ASSUME NEW r \in P!Records, NEW i \in Ids
  PROVE  /\ P!Disabled(r, i) \in P!Records /\ P!Disabled(r, i).rev = r.rev
         /\ P!Disabled(r, i).members = r.members
         /\ P!Disabled(r, i).enabled = r.enabled \ {i}
         /\ P!Disabled(r, i).active = IF r.active = i THEN NoId ELSE r.active
         /\ P!Removed(r, i) \in P!Records /\ P!Removed(r, i).rev = r.rev
         /\ P!Removed(r, i).members = r.members \ {i}
         /\ P!Removed(r, i).enabled = r.enabled \ {i}
         /\ P!Removed(r, i).active = IF r.active = i THEN NoId ELSE r.active
  <1>1. /\ P!Disabled(r, i) \in P!Records /\ P!Disabled(r, i).rev = r.rev
        /\ P!Disabled(r, i).members = r.members
        /\ P!Disabled(r, i).enabled = r.enabled \ {i}
        /\ P!Disabled(r, i).active = IF r.active = i THEN NoId ELSE r.active
    BY DEF P!Disabled, P!Records
  <1>2. /\ P!Removed(r, i) \in P!Records /\ P!Removed(r, i).rev = r.rev
        /\ P!Removed(r, i).members = r.members \ {i}
        /\ P!Removed(r, i).enabled = r.enabled \ {i}
        /\ P!Removed(r, i).active = IF r.active = i THEN NoId ELSE r.active
    BY <1>1 DEF P!Removed, P!Records
  <1> QED
    BY <1>1, <1>2

LEMMA LoggedFields ==
  ASSUME NEW r \in P!Records, NEW i \in Ids
  PROVE  /\ Logged(r, i) \in P!Records /\ Logged(r, i).rev = 1
         /\ Logged(r, i).members = r.members \cup {i}
         /\ Logged(r, i).enabled = r.enabled \cup {i}
         /\ Logged(r, i).active = IF r.members = {} THEN i ELSE r.active
  BY DEF Logged, P!Appended, P!Records

LEMMA RecFields ==
  ASSUME TypeOK
  PROVE  /\ Rec \in P!Records /\ Rec.rev = IF gen = NoGen THEN 0 ELSE 1
         /\ Rec.members = Members /\ Rec.enabled = enabled /\ Rec.active = active
  <1>1. Members \subseteq Ids
    BY DEF TypeOK, Members, ToSet
  <1> QED
    BY <1>1 DEF TypeOK, Rec, P!Records

LEMMA RecordedStep == Inv /\ Recorded /\ [Next]_vars => Recorded'
  <1> SUFFICES ASSUME Inv, Recorded, [Next]_vars, gen' = NoGen PROVE profiles' = <<>>
    BY DEF Recorded
  <1>0. TypeOK /\ NoGen \notin Gens /\ IsInjective(profiles)
    BY SwitchingAssumption DEF Inv, SelectionIsValid
  <1>1. ASSUME NEW i \in Ids, Acquire(i) PROVE FALSE
    BY <1>0, <1>1 DEF Acquire, UserReselects, Reselect, FreshGens, UserKeepsSelection,
                      KeepSelection, Recorded
  <1>2. ASSUME NEW i \in Ids, RemoveProfile(i) PROVE FALSE
    <2>1. profiles # <<>> /\ gen # NoGen
      BY <1>2 DEF RemoveProfile, Recorded
    <2> QED
      BY <1>0, <1>2, <2>1 DEF RemoveProfile, ClearIfActive, UserReselects, Reselect, FreshGens,
                              UserKeepsSelection, KeepSelection
  <1>3. CASE Reorder
    <2>1. profiles = <<>> /\ profiles \in Seq(Ids) /\ Members = {}
      BY <1>0, <1>3, NoMembers DEF Reorder, Recorded, TypeOK
    <2>2. profiles' \in Seq(Ids) /\ ToSet(profiles') = {}
      BY <1>0, <1>3, <2>1, Reordered DEF Reorder, Members
    <2> QED
      BY <2>2 DEF ToSet
  <1>4. ASSUME NEW r \in Requests, CommitSwitch(r) PROVE FALSE
    BY <1>0, <1>4 DEF CommitSwitch, Reselect, FreshGens
  <1>5. ASSUME profiles' = profiles, gen' = gen \/ gen' \in FreshGens PROVE profiles' = <<>>
    BY <1>0, <1>5 DEF Recorded, FreshGens
  <1>6. CASE \E i \in Ids : Activate(i) \/ Enable(i) \/ Disable(i)
    BY <1>5, <1>6 DEF Activate, Enable, Disable, ClearIfActive, UserReselects, Reselect,
                      UserKeepsSelection, KeepSelection
  <1>7. CASE UNCHANGED <<profiles, gen>>
    BY <1>5, <1>7
  <1>8. ASSUME NEW r \in Requests, Capture(r) \/ Step(r), ~CommitSwitch(r)
        PROVE  UNCHANGED <<profiles, gen>>
    BY <1>8 DEF Capture, Step, Resolve, FailClosed, Answer, Answer429, Switch, SwitchLost, GiveUp,
                StaleBinding, StorageFails, record
  <1>9. ASSUME (\E k \in {Kind[i] : i \in Ids} : SetSwitchPolicy(k)) \/ (\E i \in Ids : Thaw(i))
               \/ UNCHANGED vars
        PROVE  UNCHANGED <<profiles, gen>>
    BY <1>9 DEF SetSwitchPolicy, Thaw, vars, record
  <1> QED
    BY <1>1, <1>2, <1>3, <1>4, <1>6, <1>7, <1>8, <1>9 DEF Next, User

LEMMA UserEdits ==
  ASSUME Inv, Inv', Recorded, User, Rec' # Rec
  PROVE  \/ \E i \in Ids \ used : Rec' = Logged(Rec, i)
         \/ Rec' \in P!Edits(Rec)
  <1>0. /\ TypeOK /\ NoGen \notin Gens /\ SelectionIsValid /\ enabled \subseteq Members
        /\ (Members = {} <=> profiles = <<>>) /\ Members \subseteq Ids
    BY SwitchingAssumption, NoMembers DEF Inv, SelectionIsValid, TypeOK, Members, ToSet
  <1>r. /\ Rec \in P!Records /\ Rec.rev = IF gen = NoGen THEN 0 ELSE 1
        /\ Rec.members = Members /\ Rec.enabled = enabled /\ Rec.active = active
    BY <1>0, RecFields
  <1>s. /\ Rec' \in P!Records /\ Rec'.rev = IF gen' = NoGen THEN 0 ELSE 1
        /\ Rec'.members = Members' /\ Rec'.enabled = enabled' /\ Rec'.active = active'
    <2>1. Members' \subseteq Ids /\ TypeOK'
      BY DEF Inv, TypeOK, Members, ToSet
    <2> QED
      BY <2>1 DEF TypeOK, Rec, P!Records
  <1>a. ASSUME NEW i, UserReselects(i) PROVE active' = i /\ gen' # NoGen
    BY <1>0, <1>a DEF UserReselects, Reselect, FreshGens
  <1>b. ASSUME UserKeepsSelection PROVE active' = active /\ gen' = gen
    BY <1>b DEF UserKeepsSelection, KeepSelection
  <1>c. Members # {} => gen # NoGen
    BY <1>0 DEF Recorded
  <1>d. ASSUME NEW i, ClearIfActive(i)
        PROVE  /\ active' = IF active = i THEN NoId ELSE active
               /\ gen' = gen \/ gen' # NoGen
    BY <1>a, <1>b, <1>d DEF ClearIfActive
  <1>1. ASSUME NEW i \in Ids, Acquire(i)
        PROVE  i \notin used /\ Rec' = Logged(Rec, i)
    <2>1. Members' = Members \cup {i} /\ enabled' = enabled \cup {i} /\ i \notin used
      BY <1>0, <1>1, Appended DEF Acquire, Members, TypeOK
    <2>2. active' = (IF Members = {} THEN i ELSE active) /\ gen' # NoGen
      BY <1>0, <1>1, <1>a, <1>b, <1>c DEF Acquire
    <2> DEFINE s == Logged(Rec, i)
    <2>7. /\ s \in P!Records /\ s.rev = 1 /\ s.members = Rec.members \cup {i}
          /\ s.enabled = Rec.enabled \cup {i} /\ s.active = IF Rec.members = {} THEN i ELSE Rec.active
      BY <1>r, LoggedFields
    <2>8. /\ Rec'.rev = s.rev /\ Rec'.members = s.members
          /\ Rec'.enabled = s.enabled /\ Rec'.active = s.active
      BY <1>r, <1>s, <2>1, <2>2, <2>7
    <2> HIDE DEF s
    <2>9. Rec' = s
      BY <1>s, <2>7, <2>8, SameRecord
    <2> QED
      BY <2>9, <2>1, <2>2 DEF s
  <1>2. ASSUME NEW i \in Ids, Activate(i)
        PROVE  i \in enabled \ {active} /\ Members # {} /\ Rec' = P!Selected(Rec, i)
    <2>1. active' = i /\ gen' # NoGen /\ Members' = Members /\ enabled' = enabled
      BY <1>2, <1>a DEF Activate, Members
    <2>2. i \in enabled \ {active} /\ Members # {} /\ gen # NoGen
      BY <1>0, <1>2, <1>c DEF Activate
    <2> QED
      BY <2>1, <2>2 DEF Rec, P!Selected
  <1>3. ASSUME NEW i \in Ids, Enable(i)
        PROVE  i \in Members \ enabled /\ Members # {} /\ Rec' = P!Enabled(Rec, i)
    <2>1. /\ active' = active /\ gen' = gen /\ Members' = Members
          /\ enabled' = enabled \cup {i} /\ i \in Members \ enabled
      BY <1>3 DEF Enable, Members, history
    <2> QED
      BY <2>1 DEF Rec, P!Enabled
  <1>4. ASSUME NEW i \in Ids, Disable(i)
        PROVE  i \in enabled /\ Members # {} /\ Rec' = P!Disabled(Rec, i)
    <2>1. /\ active' = IF active = i THEN NoId ELSE active
          /\ gen' # NoGen /\ gen # NoGen
          /\ Members' = Members /\ enabled' = enabled \ {i} /\ i \in enabled /\ Members # {}
      BY <1>0, <1>4, <1>c, <1>d DEF Disable, Members
    <2> DEFINE s == P!Disabled(Rec, i)
    <2>7. /\ s \in P!Records /\ s.rev = Rec.rev /\ s.members = Rec.members
          /\ s.enabled = Rec.enabled \ {i} /\ s.active = IF Rec.active = i THEN NoId ELSE Rec.active
      BY <1>r, EditedFields
    <2>8. /\ Rec'.rev = s.rev /\ Rec'.members = s.members
          /\ Rec'.enabled = s.enabled /\ Rec'.active = s.active
      BY <1>r, <1>s, <2>1, <2>7
    <2> HIDE DEF s
    <2>9. Rec' = s
      BY <1>s, <2>7, <2>8, SameRecord
    <2> QED
      BY <2>9, <2>1 DEF s
  <1>5. ASSUME NEW i \in Ids, RemoveProfile(i)
        PROVE  i \in Members /\ Rec' = P!Removed(Rec, i)
    <2>1. PICK k \in DOMAIN profiles : profiles[k] = i /\ profiles' = RemoveAt(profiles, k)
      BY <1>5 DEF RemoveProfile
    <2>2. Members' = Members \ {i} /\ i \in Members
      <3>1. profiles \in Seq(Ids) /\ IsInjective(profiles)
        BY <1>0 DEF TypeOK, SelectionIsValid
      <3>2. ToSet(profiles') = ToSet(profiles) \ {i}
        BY <2>1, <3>1, Removed
      <3>3. i \in ToSet(profiles)
        BY <2>1 DEF ToSet
      <3> QED
        BY <3>2, <3>3 DEF Members
    <2>3. /\ active' = IF active = i THEN NoId ELSE active
          /\ gen' # NoGen /\ gen # NoGen /\ enabled' = enabled \ {i}
      BY <1>5, <1>c, <1>d, <2>2 DEF RemoveProfile
    <2> DEFINE s == P!Removed(Rec, i)
    <2>7. /\ s \in P!Records /\ s.rev = Rec.rev /\ s.members = Rec.members \ {i}
          /\ s.enabled = Rec.enabled \ {i} /\ s.active = IF Rec.active = i THEN NoId ELSE Rec.active
      BY <1>r, EditedFields
    <2>8. /\ Rec'.rev = s.rev /\ Rec'.members = s.members
          /\ Rec'.enabled = s.enabled /\ Rec'.active = s.active
      BY <1>r, <1>s, <2>2, <2>3, <2>7
    <2> HIDE DEF s
    <2>9. Rec' = s
      BY <1>s, <2>7, <2>8, SameRecord
    <2> QED
      BY <2>9, <2>2, <2>3 DEF s
  <1>6. CASE Reorder
    <2>1. Members' = Members
      BY <1>0, <1>6, Reordered DEF Reorder, Members, SelectionIsValid, TypeOK
    <2> QED
      BY <1>6, <2>1 DEF Reorder, Rec, history
  <1>7. ASSUME NEW k, SetSwitchPolicy(k) PROVE FALSE
    BY <1>7 DEF SetSwitchPolicy, Rec, Members, history
  <1>9. ASSUME NEW i \in Ids, Activate(i) \/ Enable(i) \/ Disable(i) \/ RemoveProfile(i)
        PROVE  Rec' \in P!Edits(Rec)
    <2> HIDE DEF Rec
    <2>1. Rec.rev # 0
      BY <1>c, <1>r, <1>9, <1>2, <1>3, <1>4, <1>5
    <2> QED
      BY <1>2, <1>3, <1>4, <1>5, <1>r, <1>9, <2>1 DEF P!Edits
  <1> QED
    BY <1>1, <1>6, <1>7, <1>9 DEF User

\* What the user and the 429s do to the selection is what the store was shown
\* to commit.
THEOREM SelectionMovesByEdits == Spec => RecordChangesAreEdits
  <1>1. Init => Recorded
    BY DEF Init, Recorded
  <1>2. ASSUME NEW r \in Requests, Inv, Recorded, Capture(r) \/ Step(r), Rec' # Rec
        PROVE  Rec' \in P!Switches(Rec) /\ requests' # requests
    <2>1. CommitSwitch(r) /\ requests' # requests
      BY <1>2 DEF Capture, Step, Resolve, FailClosed, Answer, Answer429, Switch, SwitchLost,
                  CommitSwitch, GiveUp, StaleBinding, StorageFails, Finish, Goto, record, Rec,
                  Members, Inv, TypeOK, requests
    <2>2. /\ active' \in enabled /\ gen' # NoGen /\ active = bind[r].id /\ active \in Ids
          /\ Members' = Members /\ enabled' = enabled
      BY <1>2, <2>1, SwitchedRecord, SwitchingAssumption
      DEF CommitSwitch, IsCurrent, Eligible, Members, Inv, Attempts
    <2>3. gen # NoGen /\ active # NoId
      BY <1>2, <2>2, NoMembers, SwitchingAssumption DEF Inv, SelectionIsValid, Recorded
    <2>4. Rec' = P!Selected(Rec, active') /\ active' # active
      BY <1>2, <2>2, <2>3 DEF Rec, P!Selected
    <2> QED
      BY <2>1, <2>2, <2>3, <2>4 DEF P!Switches, Rec
  <1>3. ASSUME NEW i \in Ids, Thaw(i) PROVE Rec' = Rec
    BY <1>3 DEF Thaw, record, Rec, Members
  <1>4. User => requests' = requests
    BY DEF User, Acquire, Activate, Enable, Disable, RemoveProfile, Reorder, SetSwitchPolicy
  <1>5. ASSUME Inv, Inv', Recorded, [Next]_vars, Rec' # Rec
        PROVE  IF requests' = requests
               THEN \/ \E i \in Ids \ used : Rec' = Logged(Rec, i)
                    \/ Rec' \in P!Edits(Rec)
               ELSE Rec' \in P!Switches(Rec)
    <2>1. ~UNCHANGED vars
      BY <1>5 DEF vars, record, Rec, Members
    <2>2. CASE User
      BY <1>4, <1>5, <2>2, UserEdits
    <2>3. CASE \E r \in Requests : Capture(r) \/ Step(r)
      BY <1>2, <1>5, <2>3
    <2> QED
      BY <1>3, <1>5, <2>1, <2>2, <2>3 DEF Next
  <1>6. Inv /\ Inv' /\ Recorded /\ [Next]_vars =>
          [Rec' # Rec =>
             IF requests' = requests
             THEN \/ \E i \in Ids \ used : Rec' = Logged(Rec, i)
                  \/ Rec' \in P!Edits(Rec)
             ELSE Rec' \in P!Switches(Rec)]_vars
    BY <1>5
  <1> QED
    BY <1>1, <1>6, RecordedStep, Invariance, PTL DEF Spec, RecordChangesAreEdits
-----------------------------------------------------------------------------
(***************************************************************************)
(* Requests count down.  A running request can always take one of its      *)
(* steps, so that it ends in as many as its rank says.                     *)
(***************************************************************************)
RankIs(r) ==
  /\ Rank(r) \in Nat /\ Left(r) \in Nat
  /\ pc[r] = "idle" => Rank(r) = 0
  /\ pc[r] = "limited" => Rank(r) = 3 * Left(r) + 2
  /\ pc[r] = "sent" => Rank(r) = 3 * Left(r) + 3
  /\ pc[r] = "bound" => Rank(r) = 3 * Left(r) + 1

LEMMA RankValues == Inv => \A r \in Requests : RankIs(r)
  <1> SUFFICES ASSUME Inv, NEW r \in Requests PROVE RankIs(r)
    OBVIOUS
  <1>1. /\ tried[r] \in Seq(Ids) /\ Len(tried[r]) <= MaxAttempts /\ MaxAttempts \in Nat
        /\ pc[r] \in {"idle", "bound", "sent", "limited"}
    BY SwitchingAssumption DEF Inv, TypeOK, Attempts
  <1>2. Left(r) \in Nat
    BY <1>1 DEF Left
  <1> QED
    BY <1>1, <1>2 DEF Rank, RankIs

LEMMA RankValuesNext == Inv' => (\A r \in Requests : RankIs(r))'
  BY RankValues, PTL

LEMMA StepCountsDown ==
  ASSUME Inv, Inv', NEW r \in Requests, Step(r)
  PROVE  Rank(r)' < Rank(r)
  <1>1. /\ pc[r] = "limited" => Rank(r) = 3 * Left(r) + 2
        /\ pc[r] = "sent" => Rank(r) = 3 * Left(r) + 3
        /\ pc[r] = "bound" => Rank(r) = 3 * Left(r) + 1
        /\ Left(r) \in Nat
    BY RankValues DEF RankIs
  <1>2. /\ pc'[r] = "idle" => Rank(r)' = 0
        /\ pc'[r] = "limited" => Rank(r)' = 3 * Left(r)' + 2
        /\ pc'[r] = "sent" => Rank(r)' = 3 * Left(r)' + 3
        /\ pc'[r] = "bound" => Rank(r)' = 3 * Left(r)' + 1
        /\ Left(r)' \in Nat
    BY RankValuesNext DEF RankIs
  <1>3. /\ TypeOK /\ MaxAttempts \in Nat /\ tried[r] \in Seq(Ids)
    BY SwitchingAssumption DEF Inv, TypeOK
  <1>4. ASSUME pc'[r] = "idle", pc[r] # "idle", pc[r] \in {"bound", "sent", "limited"}
        PROVE  Rank(r)' < Rank(r)
    BY <1>1, <1>2, <1>4
  <1>5. CASE Resolve(r)
    <2>1. pc[r] = "bound" /\ pc'[r] = "sent" /\ tried'[r] = Append(tried[r], bind[r].id)
      BY <1>3, <1>5 DEF Resolve, Goto, TypeOK
    <2>2. Len(tried'[r]) = Len(tried[r]) + 1
      BY <1>3, <2>1
    <2>3. Left(r)' = Left(r) - 1
      BY <1>3, <2>2 DEF Left
    <2> QED
      BY <1>1, <1>2, <2>1, <2>3
  <1>6. CASE Answer429(r) /\ pc'[r] = "limited"
    <2>1. pc[r] = "sent" /\ (tried'[r] = tried[r] \/ pc'[r] = "idle")
      BY <1>3, <1>6 DEF Answer429, Goto, Finish, TypeOK
    <2>2. Left(r)' = Left(r)
      BY <1>6, <2>1 DEF Left
    <2> QED
      BY <1>1, <1>2, <1>6, <2>1, <2>2
  <1>7. CASE Switch(r)
    <2>1. pc[r] = "limited" /\ pc'[r] = "bound" /\ tried' = tried
      BY <1>3, <1>7 DEF Switch, CommitSwitch, Goto, TypeOK
    <2>2. Left(r)' = Left(r)
      BY <2>1 DEF Left
    <2> QED
      BY <1>1, <1>2, <2>1, <2>2
  <1>8. ASSUME FailClosed(r) \/ Answer(r) \/ (Answer429(r) /\ pc'[r] # "limited") \/ SwitchLost(r)
               \/ GiveUp(r) \/ StaleBinding(r) \/ StorageFails(r)
        PROVE  pc'[r] = "idle" /\ pc[r] \in {"bound", "sent", "limited"}
    BY <1>3, <1>8 DEF FailClosed, Answer, Answer429, SwitchLost, CommitSwitch, GiveUp,
                      StaleBinding, StorageFails, Finish, Goto, TypeOK
  <1> QED
    BY <1>4, <1>5, <1>6, <1>7, <1>8 DEF Step

\* A request that is interfered with still ends in a bounded number of its own
\* steps: at most three for each attempt it may make.
THEOREM RequestsNearTheirEnd == Spec => RequestsCountDown
  <1>1. ASSUME NEW r \in Requests, Inv, Inv', [Next]_vars, ~Step(r), pc[r] # "idle"
        PROVE  Rank(r)' = Rank(r)
    <2>1. ASSUME NEW q \in Requests, q # r, Capture(q) \/ Step(q)
          PROVE  pc'[r] = pc[r] /\ tried'[r] = tried[r]
      BY <1>1, <2>1 DEF Capture, Step, Resolve, FailClosed, Answer, Answer429, Switch, SwitchLost,
                        CommitSwitch, GiveUp, StaleBinding, StorageFails, Finish, Goto, Inv, TypeOK
    <2>2. ASSUME User \/ (\E i \in Ids : Thaw(i)) \/ UNCHANGED vars
          PROVE  pc' = pc /\ tried' = tried
      BY <2>2 DEF User, Acquire, Activate, Enable, Disable, RemoveProfile, Reorder, SetSwitchPolicy,
                  Thaw, vars, requests
    <2>3. ~Capture(r)
      BY <1>1 DEF Capture
    <2>4. pc'[r] = pc[r] /\ tried'[r] = tried[r]
      BY <1>1, <2>1, <2>2, <2>3 DEF Next
    <2> QED
      BY <2>4 DEF Rank, Left
  <1>2. ASSUME NEW r \in Requests, Inv, Inv', [Next]_vars, pc[r] # "idle"
        PROVE  /\ Rank(r) \in Nat /\ Rank(r)' <= Rank(r)
               /\ Step(r) => Rank(r)' < Rank(r)
    <2>1. Rank(r) \in Nat /\ Rank(r)' \in Nat
      BY <1>2, RankValues, RankValuesNext DEF RankIs
    <2>2. Step(r) => Rank(r)' < Rank(r)
      BY <1>2, StepCountsDown
    <2> QED
      BY <1>1, <1>2, <2>1, <2>2
  <1>3. Inv /\ Inv' /\ [Next]_vars =>
          [\A r \in Requests : pc[r] # "idle" => /\ Rank(r) \in Nat /\ Rank(r)' <= Rank(r)
                                                 /\ Step(r) => Rank(r)' < Rank(r)]_vars
    BY <1>2
  <1> QED
    BY <1>3, Invariance, PTL DEF Spec, RequestsCountDown
=============================================================================
