---------------------------- MODULE ControlProofs ----------------------------
(***************************************************************************)
(* Proofs about the control plane: Jarvis with its squad, the conflict     *)
(* resolver, the rate limiter, the registry and the router of models and   *)
(* the enhancement pipeline, each for any sets of agents, files, callers,  *)
(* routes, requests and texts.                                             *)
(***************************************************************************)
EXTENDS MCControl, CollectionProofs, SequenceTheorems

-----------------------------------------------------------------------------
(* The conflict resolver.                                                  *)

\* The conflicts that wait, and the one being resolved, are between two agents.
ConflictsAreBetweenTwo ==
    /\ \A c \in conflicts : c.holder.editor # c.comer.editor
    /\ resolving # NoConflict => resolving.holder.editor # resolving.comer.editor

ResolverInv == ResolverTypeOK /\ ConflictsAreBetweenTwo /\ BackOffsAreJustified

\* NoConflict is none of the conflicts, which have three fields.
LEMMA NoConflictIsNone == NoConflict \notin Conflict
  <1>1. DOMAIN NoConflict = {"file"} BY DEF NoConflict
  <1>2. \A c \in Conflict : DOMAIN c = {"file", "holder", "comer"} BY DEF Conflict
  <1> QED BY <1>1, <1>2

\* What a conflict leads to: a winner and a loser, of which the winner is as urgent.
LEMMA WinnersAndLosers ==
    ASSUME NEW c \in Conflict, c.holder.editor # c.comer.editor
    PROVE  /\ Winner(c) \in Access /\ Loser(c) \in Access
           /\ Winner(c).editor # Loser(c).editor
           /\ Winner(c).priority <= Loser(c).priority
  <1>1. c.holder \in Access /\ c.comer \in Access BY DEF Conflict
  <1>2. c.holder.priority \in Nat /\ c.comer.priority \in Nat
    BY <1>1, ResolverAssumption DEF Access
  <1> QED BY <1>1, <1>2 DEF Winner, Loser

\* The conflicts a registration finds are with other agents.
LEMMA ConflictsFound ==
    ASSUME ResolverTypeOK, NEW access \in Access, NEW files \in SUBSET File
    PROVE  /\ Conflicts(access, files) \subseteq Conflict
           /\ \A c \in Conflicts(access, files) : c.holder.editor # c.comer.editor
  <1> SUFFICES ASSUME NEW c \in Conflicts(access, files)
               PROVE  c \in Conflict /\ c.holder.editor # c.comer.editor
    OBVIOUS
  <1>1. PICK f \in {g \in files : activeFiles[g].editor \notin {NoEditor, access.editor}} :
            c = [file |-> f, holder |-> activeFiles[f], comer |-> access]
    BY DEF Conflicts
  <1>2. activeFiles[f] \in Access BY <1>1 DEF ResolverTypeOK, Free
  <1> QED BY <1>1, <1>2 DEF Conflict

\* The state of the resolver keeps its types, and a conflict stays one between two agents.
THEOREM ResolverTypeCorrect == ResolverSpec => []ResolverInv
  <1>1. ResolverInit => ResolverInv
    BY DEF ResolverInit, ResolverInv, ResolverTypeOK, ConflictsAreBetweenTwo,
           BackOffsAreJustified
  <1>2. ResolverInv /\ [ResolverNext]_resolverVars => ResolverInv'
    <2> SUFFICES ASSUME ResolverInv, [ResolverNext]_resolverVars PROVE ResolverInv'
      OBVIOUS
    <2> USE DEF ResolverInv
    <2>1. ASSUME NEW access \in Access, NEW files \in SUBSET File,
                 RegisterFileAccess(access, files)
          PROVE  ResolverInv'
      <3>1. ResolverTypeOK'
        BY <2>1, ConflictsFound DEF RegisterFileAccess, ResolverTypeOK
      <3>2. ConflictsAreBetweenTwo'
        BY <2>1, ConflictsFound DEF RegisterFileAccess, ConflictsAreBetweenTwo
      <3> QED BY <2>1, <3>1, <3>2 DEF RegisterFileAccess, BackOffsAreJustified
    <2>2. ASSUME NEW editor \in Editor, ReleaseFiles(editor) PROVE ResolverInv'
      BY <2>2 DEF ReleaseFiles, ResolverTypeOK, ConflictsAreBetweenTwo, BackOffsAreJustified
    <2>3. ASSUME NEW c \in conflicts, ResolveConflict(c) PROVE ResolverInv'
      <3>1. c \in Conflict /\ c.holder.editor # c.comer.editor
        BY DEF ResolverTypeOK, ConflictsAreBetweenTwo
      <3>2. c.file \in File /\ Winner(c) \in Access
        BY <3>1, WinnersAndLosers DEF Conflict
      <3>3. ResolverTypeOK' BY <2>3, <3>1, <3>2 DEF ResolveConflict, ResolverTypeOK
      <3>4. ConflictsAreBetweenTwo'
        BY <2>3, <3>1 DEF ResolveConflict, ConflictsAreBetweenTwo
      <3> QED BY <2>3, <3>3, <3>4 DEF ResolveConflict, BackOffsAreJustified
    <2>4. CASE NotifyBackOff
      <3> DEFINE notice == [winner |-> Winner(resolving), loser |-> Loser(resolving)]
      <3>1. resolving \in Conflict /\ resolving.holder.editor # resolving.comer.editor
        BY <2>4 DEF NotifyBackOff, ResolverTypeOK, ConflictsAreBetweenTwo
      <3>2. PICK winner, loser : winner = Winner(resolving) /\ loser = Loser(resolving)
        OBVIOUS
      <3>3. /\ winner \in Access /\ loser \in Access
            /\ winner.editor # loser.editor /\ winner.priority <= loser.priority
        BY <3>1, <3>2, WinnersAndLosers
      <3>4. backOff' = [winner |-> winner, loser |-> loser] /\ resolving' = NoConflict
                /\ UNCHANGED <<activeFiles, conflicts>>
        BY <2>4, <3>2 DEF NotifyBackOff
      <3> QED BY <3>3, <3>4
              DEF ResolverTypeOK, ConflictsAreBetweenTwo, BackOffsAreJustified
    <2>5. CASE NotifyFails
      BY <2>5 DEF NotifyFails, ResolverTypeOK, ConflictsAreBetweenTwo, BackOffsAreJustified
    <2>6. CASE UNCHANGED resolverVars
      BY <2>6 DEF resolverVars, ResolverTypeOK, ConflictsAreBetweenTwo, BackOffsAreJustified
    <2> QED BY <2>1, <2>2, <2>3, <2>4, <2>5, <2>6 DEF ResolverNext
  <1> QED BY <1>1, <1>2, PTL DEF ResolverSpec

\* However registrations, releases and resolutions mix, nobody is told to keep off a file
\* for its own sake or for somebody less urgent.
THEOREM BackOffsHaveAReason == ResolverSpec => []BackOffsAreJustified
  <1>1. ResolverInv => BackOffsAreJustified BY DEF ResolverInv
  <1> QED BY <1>1, ResolverTypeCorrect, PTL

-----------------------------------------------------------------------------
(* The rate limiter.                                                       *)

\* The callers that will not, within so many ticks, wake and take a token of the bucket.
Others(ticks) == {w \in Waiter : w \in replaced \/ sleeping[w] \notin 0..ticks}

\* Those that wake within some ticks owe less than the bucket gains in that time and the
\* others could take.
DebtIsWaitedFor == \A ticks \in Nat : tokens + ticks + Cardinality(Others(ticks)) >= 1

LimiterInv == LimiterTypeOK /\ DebtIsWaitedFor

\* The callers are finitely many.
LEMMA OthersAreFinite ==
    ASSUME NEW ticks
    PROVE  /\ IsFiniteSet(Others(ticks)) /\ Cardinality(Others(ticks)) \in Nat
           /\ Cardinality(Others(ticks)) <= Cardinality(Waiter)
           /\ Cardinality(Waiter) \in Nat
  <1>1. Others(ticks) \in SUBSET Waiter BY DEF Others
  <1>2. IsFiniteSet(Waiter) BY RateLimiterAssumption
  <1> QED BY <1>1, <1>2, FS_Subset, FS_CardinalityType

\* The bucket never owes more than every caller but one has taken.
LEMMA DebtFollows == LimiterInv => DebtIsBounded
  <1> SUFFICES ASSUME LimiterInv PROVE DebtIsBounded
    OBVIOUS
  <1>1. tokens + 0 + Cardinality(Others(0)) >= 1 BY DEF LimiterInv, DebtIsWaitedFor
  <1>2. tokens \in Int BY OthersAreFinite DEF LimiterInv, LimiterTypeOK
  <1> QED BY <1>1, <1>2, OthersAreFinite DEF DebtIsBounded, Lowest
\* Every step keeps the debt waited for.
LEMMA NextLimiter == LimiterInv /\ [LimiterNext]_limiterVars => LimiterInv'
  <1> SUFFICES ASSUME LimiterInv, [LimiterNext]_limiterVars PROVE LimiterInv'
    OBVIOUS
  <1> DEFINE n == Cardinality(Waiter)
  <1>0. n \in Nat /\ TokensPerMinute \in Nat \ {0} BY OthersAreFinite, RateLimiterAssumption
  <1>1. /\ tokens \in -(2 * n) .. TokensPerMinute /\ tokens \in Int
        /\ sleeping \in [Waiter -> Awake .. 2 * n + 1]
        /\ replaced \subseteq {w \in Waiter : sleeping[w] # Awake}
    BY <1>0 DEF LimiterInv, LimiterTypeOK
  <1>2. \A ticks \in Nat : tokens + ticks + Cardinality(Others(ticks)) >= 1
    BY DEF LimiterInv, DebtIsWaitedFor
  <1>3. tokens >= 1 - n
    BY DebtFollows DEF DebtIsBounded, Lowest
  <1>4. \A ticks : /\ IsFiniteSet(Others(ticks)) /\ Cardinality(Others(ticks)) \in Nat
                   /\ IsFiniteSet(Others(ticks)') /\ Cardinality(Others(ticks)') \in Nat
    <2>1. \A ticks : Others(ticks)' \in SUBSET Waiter BY DEF Others
    <2>2. IsFiniteSet(Waiter) BY RateLimiterAssumption
    <2> QED BY <2>1, <2>2, OthersAreFinite, FS_Subset, FS_CardinalityType
  <1> HIDE DEF n
  <1>5. ASSUME tokens' \in Nat, tokens' <= TokensPerMinute,
               \/ tokens' >= 1
               \/ \A ticks \in Nat : Cardinality(Others(ticks)') >= 1
        PROVE  tokens' \in -(2 * n) .. TokensPerMinute /\ DebtIsWaitedFor'
    <2>1. \A ticks \in Nat : tokens' + ticks + Cardinality(Others(ticks)') >= 1
      BY <1>4, <1>5
    <2> QED BY <1>0, <1>5, <2>1 DEF DebtIsWaitedFor
  <1>6. CASE Configure
    <2>1. /\ tokens' \in -(2 * n) .. TokensPerMinute /\ DebtIsWaitedFor'
      BY <1>0, <1>5, <1>6 DEF Configure
    <2> QED BY <1>1, <1>6, <2>1 DEF Configure, LimiterInv, LimiterTypeOK, n
  <1>7. ASSUME NEW w \in Waiter, Acquire(w) PROVE LimiterInv'
    <2>1. sleeping[w] = Awake /\ UNCHANGED replaced BY <1>7 DEF Acquire
    <2>2. w \notin replaced BY <1>1, <2>1
    <2>3. CASE tokens >= 1
      <3>1. tokens' = tokens - 1 /\ UNCHANGED sleeping BY <1>7, <2>3 DEF Acquire
      <3>2. \A ticks \in Nat : w \in Others(ticks)' BY <2>1, <3>1 DEF Others, Awake
      <3>3. \A ticks \in Nat : Cardinality(Others(ticks)') >= 1
        <4> SUFFICES ASSUME NEW ticks \in Nat PROVE Cardinality(Others(ticks)') >= 1
          OBVIOUS
        <4>1. Cardinality(Others(ticks)') # 0 BY <1>4, <3>2, FS_EmptySet
        <4> QED BY <1>4, <4>1
      <3>4. tokens' \in -(2 * n) .. TokensPerMinute /\ DebtIsWaitedFor'
        BY <1>0, <1>1, <1>5, <2>3, <3>1, <3>3
      <3> QED BY <1>1, <2>1, <3>1, <3>4 DEF LimiterInv, LimiterTypeOK, n
    <2>4. CASE ~(tokens >= 1)
      <3>1. sleeping' = [sleeping EXCEPT ![w] = 1 - tokens] /\ UNCHANGED tokens
        BY <1>7, <2>4 DEF Acquire, TicksToToken
      <3>2. 1 - tokens \in Awake .. 2 * n + 1 /\ 1 - tokens # Awake
        BY <1>0, <1>1, <1>3, <2>4 DEF Awake
      <3>3. /\ sleeping' \in [Waiter -> Awake .. 2 * n + 1] /\ sleeping'[w] = 1 - tokens
            /\ \A v \in Waiter \ {w} : sleeping'[v] = sleeping[v]
        BY <1>1, <3>1, <3>2
      <3>4. LimiterTypeOK' BY <1>1, <2>1, <3>1, <3>2, <3>3 DEF LimiterTypeOK, n
      <3>5. ASSUME NEW ticks \in Nat
            PROVE  tokens' + ticks + Cardinality(Others(ticks)') >= 1
        <4>1. CASE ticks >= 1 - tokens BY <1>1, <1>4, <3>1, <4>1
        <4>2. CASE ~(ticks >= 1 - tokens)
          <5>1. \A v \in Waiter : v \in Others(ticks) => v \in Others(ticks)'
            <6> SUFFICES ASSUME NEW v \in Waiter, v \in Others(ticks) PROVE v \in Others(ticks)'
              OBVIOUS
            <6>1. CASE v = w BY <1>1, <3>3, <4>2, <6>1 DEF Others
            <6>2. CASE v # w BY <2>1, <3>3, <6>2 DEF Others
            <6> QED BY <6>1, <6>2
          <5>2. Others(ticks) \in SUBSET Others(ticks)' BY <5>1 DEF Others
          <5>3. Cardinality(Others(ticks)) <= Cardinality(Others(ticks)')
            BY <1>4, <5>2, FS_Subset
          <5> QED BY <1>1, <1>2, <1>4, <3>1, <5>3
        <4> QED BY <4>1, <4>2
      <3> QED BY <3>4, <3>5 DEF LimiterInv, DebtIsWaitedFor
    <2> QED BY <2>3, <2>4
  <1>8. ASSUME NEW w \in Waiter, Wake(w) PROVE LimiterInv'
    <2>1. /\ sleeping[w] = 0 /\ sleeping' = [sleeping EXCEPT ![w] = Awake]
          /\ replaced' = replaced \ {w}
      BY <1>8 DEF Wake
    <2>2. /\ sleeping' \in [Waiter -> Awake .. 2 * n + 1] /\ sleeping'[w] = Awake
          /\ \A v \in Waiter \ {w} : sleeping'[v] = sleeping[v]
      BY <1>0, <1>1, <2>1 DEF Awake
    <2>3. replaced' \subseteq {v \in Waiter : sleeping'[v] # Awake} BY <1>1, <2>1, <2>2
    <2>4. \A ticks \in Nat : w \in Others(ticks)' BY <2>2 DEF Others, Awake
    <2>5. \A ticks \in Nat : \A v \in Waiter \ {w} : v \in Others(ticks)' <=> v \in Others(ticks)
      BY <2>1, <2>2 DEF Others
    <2>6. CASE w \in replaced
      <3>1. UNCHANGED tokens BY <1>8, <2>6 DEF Wake
      <3>2. \A ticks \in Nat : Others(ticks)' = Others(ticks)
        <4>1. \A ticks \in Nat : w \in Others(ticks) BY <2>6 DEF Others
        <4>2. \A ticks \in Nat : Others(ticks)' \subseteq Waiter /\ Others(ticks) \subseteq Waiter
          BY DEF Others
        <4> QED BY <2>4, <2>5, <4>1, <4>2
      <3>3. DebtIsWaitedFor' BY <1>2, <3>1, <3>2 DEF DebtIsWaitedFor
      <3> QED BY <1>1, <2>2, <2>3, <3>1, <3>3 DEF LimiterInv, LimiterTypeOK, n
    <2>7. CASE w \notin replaced
      <3>1. tokens' = tokens - 1 BY <1>8, <2>7 DEF Wake
      <3>2. \A ticks \in Nat : w \notin Others(ticks) BY <2>1, <2>7 DEF Others
      <3>3. \A ticks \in Nat : Others(ticks)' = Others(ticks) \cup {w}
        <4>1. \A ticks \in Nat : Others(ticks)' \subseteq Waiter /\ Others(ticks) \subseteq Waiter
          BY DEF Others
        <4> QED BY <2>4, <2>5, <4>1
      <3>4. \A ticks \in Nat : Cardinality(Others(ticks)') = Cardinality(Others(ticks)) + 1
        <4>1. ASSUME NEW S, IsFiniteSet(S), w \notin S
              PROVE  Cardinality(S \cup {w}) = Cardinality(S) + 1
          BY <4>1, FS_AddElement
        <4> QED BY <1>4, <3>2, <3>3, <4>1
      <3>5. \A ticks \in Nat : tokens' + ticks + Cardinality(Others(ticks)') >= 1
        BY <1>1, <1>2, <1>4, <3>1, <3>4
      <3>6. tokens' \in -(2 * n) .. TokensPerMinute
        <4>1. tokens' + 0 + Cardinality(Others(0)') >= 1 BY <3>5
        <4>2. Others(0)' \in SUBSET Waiter /\ IsFiniteSet(Waiter)
          BY RateLimiterAssumption DEF Others
        <4>3. Cardinality(Others(0)') <= n BY <4>2, FS_Subset DEF n
        <4> QED BY <1>0, <1>1, <1>4, <3>1, <4>1, <4>3
      <3> QED BY <2>2, <2>3, <3>5, <3>6 DEF LimiterInv, LimiterTypeOK, DebtIsWaitedFor, n
    <2> QED BY <2>6, <2>7
  <1>9. CASE Refill
    <2>1. /\ tokens' = Min({TokensPerMinute, tokens + 1}) /\ UNCHANGED replaced
          /\ sleeping' = [w \in Waiter |-> IF sleeping[w] > 0 THEN sleeping[w] - 1
                                                              ELSE sleeping[w]]
      BY <1>9 DEF Refill
    <2>2. \A w \in Waiter : sleeping[w] \in Int /\ sleeping[w] >= -1 /\ sleeping[w] <= 2 * n + 1
      BY <1>0, <1>1 DEF Awake
    <2>3. /\ sleeping' \in [Waiter -> Awake .. 2 * n + 1]
          /\ \A w \in Waiter : sleeping'[w] = Awake <=> sleeping[w] = Awake
      BY <1>0, <2>1, <2>2 DEF Awake
    <2>4. Min({TokensPerMinute, tokens + 1}) =
              IF TokensPerMinute <= tokens + 1 THEN TokensPerMinute ELSE tokens + 1
      <3> DEFINE least == IF TokensPerMinute <= tokens + 1 THEN TokensPerMinute ELSE tokens + 1
                 both == {TokensPerMinute, tokens + 1}
      <3>1. least \in both /\ \A y \in both : least <= y BY <1>0, <1>1
      <3>2. \A x \in both : (\A y \in both : x <= y) => x = least
        BY <1>0, <1>1
      <3> HIDE DEF least
      <3> QED BY <3>1, <3>2 DEF Min, least
    <2>5. CASE TokensPerMinute <= tokens + 1
      <3>1. tokens' = TokensPerMinute BY <2>1, <2>4, <2>5
      <3>2. tokens' \in -(2 * n) .. TokensPerMinute /\ DebtIsWaitedFor' BY <1>0, <1>5, <3>1
      <3> QED BY <1>1, <2>1, <2>3, <3>2 DEF LimiterInv, LimiterTypeOK, n
    <2>6. CASE ~(TokensPerMinute <= tokens + 1)
      <3>1. tokens' = tokens + 1 BY <2>1, <2>4, <2>6
      <3>2. tokens' \in -(2 * n) .. TokensPerMinute BY <1>0, <1>1, <2>6, <3>1
      <3>3. ASSUME NEW ticks \in Nat PROVE Others(ticks)' = Others(ticks + 1)
        <4>1. \A w \in Waiter : sleeping'[w] \in 0..ticks <=> sleeping[w] \in 0..(ticks + 1)
          BY <2>1, <2>2
        <4> QED BY <2>1, <4>1 DEF Others
      <3>4. ASSUME NEW ticks \in Nat
            PROVE  tokens' + ticks + Cardinality(Others(ticks)') >= 1
        <4>1. tokens + (ticks + 1) + Cardinality(Others(ticks + 1)) >= 1 BY <1>2
        <4> QED BY <1>1, <1>4, <3>1, <3>3, <4>1
      <3> QED BY <1>1, <2>1, <2>3, <3>2, <3>4 DEF LimiterInv, LimiterTypeOK, DebtIsWaitedFor, n
    <2> QED BY <2>5, <2>6
  <1>10. CASE UNCHANGED limiterVars
    BY <1>10 DEF limiterVars, LimiterInv, LimiterTypeOK, DebtIsWaitedFor, Others
  <1> QED BY <1>6, <1>7, <1>8, <1>9, <1>10 DEF LimiterNext

\* The state of the limiter keeps its types, and who sleeps waits for what the bucket owes.
THEOREM LimiterTypeCorrect == LimiterSpec => []LimiterInv
  <1>1. LimiterInit => LimiterInv
    <2> SUFFICES ASSUME LimiterInit PROVE LimiterInv
      OBVIOUS
    <2>1. tokens = TokensPerMinute /\ TokensPerMinute \in Nat \ {0}
      BY RateLimiterAssumption DEF LimiterInit
    <2>2. LimiterTypeOK
      BY <2>1, OthersAreFinite DEF LimiterInit, LimiterTypeOK, Awake
    <2>3. DebtIsWaitedFor BY <2>1, OthersAreFinite DEF DebtIsWaitedFor
    <2> QED BY <2>2, <2>3 DEF LimiterInv
  <1> QED BY <1>1, NextLimiter, PTL DEF LimiterSpec

\* However many callers sleep for a token together, and whenever the bucket is replaced,
\* it never owes as many tokens as there are callers.
THEOREM DebtNeverRunsAway == LimiterSpec => []DebtIsBounded
  <1> QED BY DebtFollows, LimiterTypeCorrect, PTL

-----------------------------------------------------------------------------
(* The registry of models.                                                 *)

\* What stands in a list still does when something else has been taken from it.
LEMMA OthersRemain ==
    ASSUME NEW S, NEW s \in Seq(S), NEW r
    PROVE  /\ RemoveFirst(s, r) \in Seq(S)
           /\ \A e : e # r /\ Contains(s, e) => Contains(RemoveFirst(s, r), e)
  <1>1. CASE ~\E i \in 1..Len(s) : s[i] = r BY <1>1 DEF RemoveFirst
  <1>2. CASE \E i \in 1..Len(s) : s[i] = r
    <2> DEFINE at == {i \in 1..Len(s) : s[i] = r}
               k == Min(at)
    <2>1. k \in at
      <3>1. at \in SUBSET Nat /\ at # {} BY <1>2
      <3>2. \E m \in at : \A i \in at : m <= i BY <3>1, LeastNatural
      <3> QED BY <3>2 DEF Min
    <2>2. RemoveFirst(s, r) = SubSeq(s, 1, k - 1) \o SubSeq(s, k + 1, Len(s))
      BY <1>2 DEF RemoveFirst, RemoveAt, SelectInSeq
    <2> HIDE DEF k
    <2>3. Len(s) \in Nat /\ k \in 1..Len(s) /\ s[k] = r BY <2>1, LenProperties
    <2> DEFINE before == SubSeq(s, 1, k - 1)
               after == SubSeq(s, k + 1, Len(s))
    <2>4. /\ before \in Seq(S) /\ Len(before) = k - 1
          /\ \A i \in 1..(k - 1) : before[i] = s[i]
      BY <2>3, SubSeqProperties
    <2>5. /\ after \in Seq(S) /\ Len(after) = Len(s) - k
          /\ \A i \in 1..(Len(s) - k) : after[i] = s[k + i]
      BY <2>3, SubSeqProperties
    <2> HIDE DEF before, after
    <2>6. /\ before \o after \in Seq(S) /\ Len(before \o after) = Len(s) - 1
          /\ \A i \in 1..(k - 1) : (before \o after)[i] = s[i]
          /\ \A i \in k..(Len(s) - 1) : (before \o after)[i] = s[i + 1]
      <3>1. /\ before \o after \in Seq(S) /\ Len(before \o after) = Len(before) + Len(after)
            /\ \A i \in 1..(Len(before) + Len(after)) :
                   (before \o after)[i] = IF i <= Len(before) THEN before[i]
                                                            ELSE after[i - Len(before)]
        BY <2>4, <2>5, ConcatProperties
      <3>2. Len(before) + Len(after) = Len(s) - 1 BY <2>3, <2>4, <2>5
      <3>3. ASSUME NEW i \in 1..(k - 1) PROVE (before \o after)[i] = s[i]
        <4>1. i \in 1..(Len(before) + Len(after)) /\ i <= Len(before) BY <2>3, <2>4, <2>5
        <4> QED BY <2>4, <3>1, <4>1
      <3>4. ASSUME NEW i \in k..(Len(s) - 1) PROVE (before \o after)[i] = s[i + 1]
        <4>1. /\ i \in 1..(Len(before) + Len(after)) /\ ~(i <= Len(before))
              /\ i - Len(before) \in 1..(Len(s) - k) /\ k + (i - Len(before)) = i + 1
          BY <2>3, <2>4, <2>5
        <4>2. (before \o after)[i] = after[i - Len(before)] BY <3>1, <4>1
        <4>3. after[i - Len(before)] = s[k + (i - Len(before))] BY <2>5, <4>1
        <4> QED BY <4>1, <4>2, <4>3
      <3> QED BY <3>1, <3>2, <3>3, <3>4
    <2>7. ASSUME NEW e, e # r, NEW i \in 1..Len(s), s[i] = e
          PROVE  Contains(before \o after, e)
      <3>1. i # k BY <2>3, <2>7
      <3>2. CASE i < k
        <4>1. i \in 1..(Len(s) - 1) /\ i \in 1..(k - 1) BY <2>3, <3>2
        <4> QED BY <2>6, <2>7, <4>1 DEF Contains
      <3>3. CASE i > k
        <4>1. i - 1 \in k..(Len(s) - 1) /\ i - 1 \in 1..(Len(s) - 1) /\ (i - 1) + 1 = i
          BY <2>3, <3>3
        <4> QED BY <2>6, <2>7, <4>1 DEF Contains
      <3> QED BY <2>3, <3>1, <3>2, <3>3
    <2>8. RemoveFirst(s, r) = before \o after BY <2>2 DEF before, after
    <2> QED BY <2>6, <2>7, <2>8 DEF Contains
  <1> QED BY <1>1, <1>2

\* A registered route has its tenant, and that tenant has it in its list.
RegistryInv ==
    /\ RegistryTypeOK /\ RegisteredRoutesAreFound
    /\ \A r \in Route : routes[r] # Unregistered => routes[r].tenant \in Tenant

\* A route is registered for a tenant, and then in its list.
LEMMA NextRegistry == RegistryInv /\ [RegistryNext]_registryVars => RegistryInv'
  <1> SUFFICES ASSUME RegistryInv, [RegistryNext]_registryVars PROVE RegistryInv'
    OBVIOUS
  <1> DEFINE Row == [tenant : Tenant \cup {NoTenant}, active : BOOLEAN]
  <1>1. /\ routes \in [Route -> Row] /\ tenantRoutes \in [Tenant -> Seq(Route)]
        /\ NoTenant \notin Tenant /\ Unregistered \in Row /\ Unregistered.tenant = NoTenant
    BY RegistryAssumption DEF RegistryInv, RegistryTypeOK, Unregistered
  <1>2. \A r \in Route : routes[r] # Unregistered =>
            /\ routes[r].tenant \in Tenant
            /\ Contains(tenantRoutes[routes[r].tenant], r)
    BY DEF RegistryInv, RegisteredRoutesAreFound
  <1>3. ASSUME NEW r \in Route, NEW t \in Tenant, NEW active \in BOOLEAN, Register(r, t, active)
        PROVE  RegistryInv'
    <2> DEFINE row == [tenant |-> t, active |-> active]
    <2>1. row \in Row /\ row.tenant = t /\ row # Unregistered BY <1>1
    <2>2. routes' = [routes EXCEPT ![r] = row] BY <1>3 DEF Register
    <2> HIDE DEF row
    <2>3. /\ routes' \in [Route -> Row] /\ routes'[r] = row
          /\ \A q \in Route \ {r} : routes'[q] = routes[q]
      BY <1>1, <2>1, <2>2
    <2>4. PICK list : list = IF Contains(tenantRoutes[t], r) THEN tenantRoutes[t]
                                                             ELSE Append(tenantRoutes[t], r)
      OBVIOUS
    <2>5. /\ list \in Seq(Route) /\ Contains(list, r)
          /\ \A q : Contains(tenantRoutes[t], q) => Contains(list, q)
      <3>1. tenantRoutes[t] \in Seq(Route) BY <1>1
      <3>2. CASE Contains(tenantRoutes[t], r) BY <2>4, <3>1, <3>2
      <3>3. CASE ~Contains(tenantRoutes[t], r)
        <4>1. PICK s, n : s = tenantRoutes[t] /\ n = Len(s) OBVIOUS
        <4>2. /\ list \in Seq(Route) /\ Len(list) = n + 1 /\ list[n + 1] = r /\ n \in Nat
              /\ \A i \in 1..n : list[i] = s[i]
          BY <2>4, <3>1, <3>3, <4>1, AppendProperties, LenProperties
        <4>3. n + 1 \in 1..Len(list) /\ 1..n \subseteq 1..Len(list) BY <4>2
        <4> QED BY <4>1, <4>2, <4>3 DEF Contains
      <3> QED BY <3>2, <3>3
    <2>6. /\ tenantRoutes' \in [Tenant -> Seq(Route)] /\ tenantRoutes'[t] = list
          /\ \A u \in Tenant \ {t} : tenantRoutes'[u] = tenantRoutes[u]
      BY <1>1, <1>3, <2>4, <2>5 DEF Register
    <2>7. RegistryTypeOK' BY <2>3, <2>6 DEF RegistryTypeOK
    <2>8. ASSUME NEW q \in Route, routes'[q] # Unregistered
          PROVE  routes'[q].tenant \in Tenant /\ Contains(tenantRoutes'[routes'[q].tenant], q)
      <3>1. CASE q = r BY <2>1, <2>3, <2>5, <2>6, <3>1
      <3>2. CASE q # r
        <4>1. routes'[q] = routes[q] BY <2>3, <3>2
        <4> QED BY <1>2, <2>5, <2>6, <2>8, <4>1
      <3> QED BY <3>1, <3>2
    <2> QED BY <2>7, <2>8 DEF RegistryInv, RegisteredRoutesAreFound
  <1>4. ASSUME NEW r \in Route, Unregister(r) PROVE RegistryInv'
    <2>1. /\ routes[r] # Unregistered /\ routes' = [routes EXCEPT ![r] = Unregistered]
          /\ tenantRoutes' = [tenantRoutes EXCEPT ![routes[r].tenant] = RemoveFirst(@, r)]
      BY <1>4 DEF Unregister
    <2>2. PICK t \in Tenant : t = routes[r].tenant BY <1>2, <2>1
    <2>3. PICK list : list = RemoveFirst(tenantRoutes[t], r) OBVIOUS
    <2>4. /\ list \in Seq(Route)
          /\ \A q : q # r /\ Contains(tenantRoutes[t], q) => Contains(list, q)
      <3>1. tenantRoutes[t] \in Seq(Route) BY <1>1
      <3> QED BY <2>3, <3>1, OthersRemain
    <2>5. /\ tenantRoutes' \in [Tenant -> Seq(Route)] /\ tenantRoutes'[t] = list
          /\ \A u \in Tenant \ {t} : tenantRoutes'[u] = tenantRoutes[u]
      BY <1>1, <2>1, <2>2, <2>3, <2>4
    <2>6. /\ routes' \in [Route -> Row] /\ routes'[r] = Unregistered
          /\ \A q \in Route \ {r} : routes'[q] = routes[q]
      BY <1>1, <2>1
    <2>7. RegistryTypeOK' BY <2>5, <2>6 DEF RegistryTypeOK
    <2>8. ASSUME NEW q \in Route, routes'[q] # Unregistered
          PROVE  routes'[q].tenant \in Tenant /\ Contains(tenantRoutes'[routes'[q].tenant], q)
      <3>1. q # r /\ routes'[q] = routes[q] BY <2>6, <2>8
      <3> QED BY <1>2, <2>4, <2>5, <2>8, <3>1
    <2> QED BY <2>7, <2>8 DEF RegistryInv, RegisteredRoutesAreFound
  <1>5. ASSUME NEW r \in Route, NEW active \in BOOLEAN, SetActive(r, active) PROVE RegistryInv'
    <2> DEFINE row == [routes[r] EXCEPT !.active = active]
    <2>1. routes[r] # Unregistered /\ UNCHANGED tenantRoutes BY <1>5 DEF SetActive
    <2>2. row \in Row /\ row.tenant = routes[r].tenant BY <1>1
    <2>3. routes' = [routes EXCEPT ![r] = row] BY <1>5 DEF SetActive
    <2> HIDE DEF row
    <2>4. /\ routes' \in [Route -> Row] /\ routes'[r] = row
          /\ \A q \in Route \ {r} : routes'[q] = routes[q]
      BY <1>1, <2>2, <2>3
    <2>5. RegistryTypeOK' BY <1>1, <2>1, <2>4 DEF RegistryTypeOK
    <2>6. ASSUME NEW q \in Route, routes'[q] # Unregistered
          PROVE  routes'[q].tenant \in Tenant /\ Contains(tenantRoutes'[routes'[q].tenant], q)
      BY <1>2, <2>1, <2>2, <2>4, <2>6
    <2> QED BY <2>5, <2>6 DEF RegistryInv, RegisteredRoutesAreFound
  <1>6. CASE UNCHANGED registryVars
    BY <1>6 DEF registryVars, RegistryInv, RegistryTypeOK, RegisteredRoutesAreFound
  <1> QED BY <1>3, <1>4, <1>5, <1>6 DEF RegistryNext

\* The registry keeps its types, and a registered route has a tenant.
THEOREM RegistryTypeCorrect == RegistrySpec => []RegistryInv
  <1>1. RegistryInit => RegistryInv
    BY RegistryAssumption
    DEF RegistryInit, RegistryInv, RegistryTypeOK, RegisteredRoutesAreFound, Unregistered
  <1> QED BY <1>1, NextRegistry, PTL DEF RegistrySpec

\* Whichever tenants registered the id of a route before, the tenant that has it now finds
\* it among its routes.
THEOREM RoutesAreFound == RegistrySpec => []RegisteredRoutesAreFound
  <1>1. RegistryInv => RegisteredRoutesAreFound BY DEF RegistryInv
  <1> QED BY <1>1, RegistryTypeCorrect, PTL

-----------------------------------------------------------------------------
(* The health monitor of the router.                                       *)

\* What the health monitor keeps of the providers.
HealthTypeOK ==
    /\ failures \in [Provider -> 0 .. MaxFailures]
    /\ disabled \in [Provider -> Disabled]

HealthInv == HealthTypeOK /\ DisabledWithReason

\* What becomes of a provider, whichever request tells of it.
LEMMA HealthSteps ==
    ASSUME HealthInv
    PROVE  /\ \A p : RecordSuccess(p) => HealthInv'
           /\ \A p : RecordFailure(p) => HealthInv'
           /\ \A providers : AskAfter(providers) => HealthInv'
           /\ UNCHANGED <<failures, disabled>> => HealthInv'
  <1> USE RouterAssumption DEF HealthInv, HealthTypeOK, DisabledWithReason, Disabled
  <1>1. ASSUME NEW p, RecordSuccess(p) PROVE HealthInv'
    <2>1. 0 \in 0..MaxFailures OBVIOUS
    <2>2. failures' = [failures EXCEPT ![p] = 0] /\ disabled' = [disabled EXCEPT ![p] = "no"]
      BY <1>1 DEF RecordSuccess
    <2>3. /\ failures' \in [Provider -> 0..MaxFailures] /\ disabled' \in [Provider -> Disabled]
          /\ \A x \in Provider : disabled'[x] # "no" => x # p
          /\ \A x \in Provider : x # p => failures'[x] = failures[x] /\ disabled'[x] = disabled[x]
      BY <2>1, <2>2
    <2> QED BY <2>3
  <1>2. ASSUME NEW p, RecordFailure(p) PROVE HealthInv'
    <2>1. CASE p \in Provider
      <3>1. /\ failures[p] \in 0..MaxFailures /\ disabled[p] \in Disabled
            /\ disabled[p] # "no" => failures[p] = MaxFailures
        BY <2>1
      <3> DEFINE count == IF failures[p] < MaxFailures THEN failures[p] + 1 ELSE failures[p]
                 state == IF disabled[p] = "no" /\ failures[p] + 1 >= MaxFailures
                            THEN "cooling" ELSE disabled[p]
      <3>2. /\ count \in 0..MaxFailures /\ state \in Disabled
            /\ state # "no" => count = MaxFailures
        BY <3>1
      <3>3. failures' = [failures EXCEPT ![p] = count] /\ disabled' = [disabled EXCEPT ![p] = state]
        BY <1>2 DEF RecordFailure
      <3> HIDE DEF count, state
      <3> QED BY <2>1, <3>2, <3>3
    <2>2. CASE p \notin Provider
      <3>1. UNCHANGED <<failures, disabled>> BY <1>2, <2>2 DEF RecordFailure
      <3> QED BY <3>1
    <2> QED BY <2>1, <2>2
  <1>3. ASSUME NEW providers, AskAfter(providers) PROVE HealthInv' BY <1>3 DEF AskAfter
  <1>4. ASSUME UNCHANGED <<failures, disabled>> PROVE HealthInv' BY <1>4
  <1> QED BY <1>1, <1>2, <1>3, <1>4

\* Every step of the router keeps what the monitor says true.
LEMMA NextRouter == HealthInv /\ RouterNext => HealthInv'
  <1> SUFFICES ASSUME HealthInv, RouterNext PROVE HealthInv'
    OBVIOUS
  <1>1. ASSUME NEW q \in Request, NEW t \in Tenant, NEW preferred \in Provider \cup {"any"},
               NEW strategy \in Strategy, StartRouting(q, t, preferred, strategy)
        PROVE  HealthInv'
    <2>1. AskAfter(Asked(t, preferred)) BY <1>1 DEF StartRouting
    <2> QED BY <2>1, HealthSteps
  <1>2. ASSUME NEW q \in Request, TokenAcquired(q) PROVE HealthInv'
    BY <1>2, HealthSteps DEF TokenAcquired
  <1>3. ASSUME NEW q \in Request, Answered(q) PROVE HealthInv'
    <2>1. RecordSuccess(Head(routing[q].chain)) BY <1>3 DEF Answered
    <2> QED BY <2>1, HealthSteps
  <1>4. ASSUME NEW q \in Request, Refused(q) PROVE HealthInv'
    <2>1. UNCHANGED <<failures, disabled>> \/ RecordFailure(ProviderOf[routing[q].route])
      BY <1>4 DEF Refused
    <2> QED BY <2>1, HealthSteps
  <1>5. ASSUME NEW p \in Provider, Cooldown(p) PROVE HealthInv'
    BY <1>5 DEF Cooldown, HealthInv, HealthTypeOK, DisabledWithReason, Disabled
  <1> QED BY <1>1, <1>2, <1>3, <1>4, <1>5 DEF RouterNext

\* A provider is passed over only after as many failures in a row as are configured, however
\* the requests in flight, selected before, end, and whatever becomes of the registry.
THEOREM NobodyIsDisabledForLess == RouterSpec => []DisabledWithReason
  <1>1. RouterInit => HealthInv
    BY RouterAssumption
    DEF RouterInit, HealthInv, HealthTypeOK, DisabledWithReason, Disabled
  <1>2. HealthInv /\ UNCHANGED routerVars => HealthInv'
    BY HealthSteps DEF routerVars
  <1>3. HealthInv /\ [RouterNext \/ (RegistryNext /\ UNCHANGED routerVars)]_<<registryVars,
            routerVars>> => HealthInv'
    BY <1>2, NextRouter
  <1>4. HealthInv => DisabledWithReason BY DEF HealthInv
  <1> QED BY <1>1, <1>3, <1>4, PTL DEF RouterSpec

\* The routes of the registry are found however the router uses it meanwhile.
THEOREM RoutesAreFoundByTheRouter == RouterSpec => []RegisteredRoutesAreFound
  <1>1. RegistryInit => RegistryInv
    BY RegistryAssumption
    DEF RegistryInit, RegistryInv, RegistryTypeOK, RegisteredRoutesAreFound, Unregistered
  <1>2. RegistryInv /\ [RouterNext \/ (RegistryNext /\ UNCHANGED routerVars)]_<<registryVars,
            routerVars>> => RegistryInv'
    <2>1. RouterNext => UNCHANGED registryVars BY DEF RouterNext
    <2> QED BY <2>1, NextRegistry
  <1>3. RegistryInv => RegisteredRoutesAreFound BY DEF RegistryInv
  <1> QED BY <1>1, <1>2, <1>3, PTL DEF RouterSpec

-----------------------------------------------------------------------------
(* The router.                                                             *)

\* Where a route stands is a number, and no two stand in the same place.
LEMMA Places ==
    ASSUME RegistryTypeOK, NEW t \in Tenant
    PROVE  /\ IsFiniteSet(ToSet(tenantRoutes[t])) /\ ToSet(tenantRoutes[t]) \subseteq Route
           /\ \A r \in ToSet(tenantRoutes[t]) : Place(t)[r] \in Nat
           /\ \A r, s \in ToSet(tenantRoutes[t]) : Place(t)[r] = Place(t)[s] => r = s
  <1>1. PICK list \in Seq(Route) : list = tenantRoutes[t] BY DEF RegistryTypeOK
  <1>2. Len(list) \in Nat /\ DOMAIN list = 1..Len(list) /\ \A i \in 1..Len(list) : list[i] \in Route
    BY LenProperties
  <1>3. ToSet(list) = {list[i] : i \in 1..Len(list)} BY <1>2 DEF ToSet
  <1>4. IsFiniteSet(ToSet(list))
    <2>1. IsFiniteSet(1..Len(list)) BY <1>2, FS_Interval
    <2>2. [i \in 1..Len(list) |-> list[i]] \in Surjection(1..Len(list), ToSet(list))
      BY <1>3 DEF Surjection
    <2> QED BY <2>1, <2>2, FS_Surjection
  <1>5. ASSUME NEW r \in ToSet(list) PROVE Place(t)[r] \in 1..Len(list) /\ list[Place(t)[r]] = r
    <2>1. Place(t)[r] = CHOOSE i \in 1..Len(list) : list[i] = r BY <1>1, <1>2 DEF Place
    <2>2. \E i \in 1..Len(list) : list[i] = r BY <1>3
    <2> QED BY <2>1, <2>2
  <1>6. \A r \in ToSet(list) : Place(t)[r] \in Nat BY <1>2, <1>5
  <1>7. \A r, s \in ToSet(list) : Place(t)[r] = Place(t)[s] => r = s BY <1>5
  <1> QED BY <1>1, <1>2, <1>3, <1>4, <1>6, <1>7

\* Of enough routes there is one that so many others stand before.
LEMMA NthIsOneOfThem ==
    ASSUME RegistryTypeOK, NEW t \in Tenant, NEW some \in SUBSET ToSet(tenantRoutes[t]),
           NEW n \in Nat, n < Cardinality(some)
    PROVE  Nth(t, some, n) \in some
  <1>1. IsFiniteSet(some) BY Places, FS_Subset
  <1>2. PICK place : place = Place(t) OBVIOUS
  <1>3. /\ \A r \in some : place[r] \in Nat
        /\ \A r, s \in some : place[r] = place[s] => r = s
    BY <1>2, Places
  <1>4. \E r \in some : Cardinality({s \in some : place[s] < place[r]}) = n
    BY <1>1, <1>3, Ranks
  <1> QED BY <1>2, <1>4 DEF Nth

\* What is left of the routes when the filters have gone through them is some of the tenant's.
LEMMA CandidatesAreSome ==
    ASSUME RegistryTypeOK, NEW t \in Tenant, NEW preferred, GetActiveRoutes(t) # {}
    PROVE  /\ Candidates(t, preferred) \in SUBSET ToSet(tenantRoutes[t])
           /\ Candidates(t, preferred) # {}
           /\ IsFiniteSet(Candidates(t, preferred))
  <1>1. GetActiveRoutes(t) \subseteq ToSet(tenantRoutes[t]) BY DEF GetActiveRoutes
  <1>2. Liked(t, preferred) \subseteq GetActiveRoutes(t) /\ Liked(t, preferred) # {}
    BY DEF Liked, NonEmptyOr
  <1>3. Candidates(t, preferred) \subseteq Liked(t, preferred) /\ Candidates(t, preferred) # {}
    BY <1>2 DEF Candidates, NonEmptyOr
  <1> QED BY <1>1, <1>2, <1>3, Places, FS_Subset

\* Every strategy selects one of the candidates.
LEMMA OneIsSelected ==
    ASSUME RegistryTypeOK, NEW t \in Tenant, NEW candidates \in SUBSET ToSet(tenantRoutes[t]),
           candidates # {}, NEW strategy \in Strategy,
           latency \in [Route -> Latency \cup {Unmeasured}], roundRobinIndex \in Nat
    PROVE  SelectRoute(t, candidates, strategy) \in candidates
  <1>1. IsFiniteSet(candidates) /\ candidates \subseteq Route BY Places, FS_Subset
  <1>2. Cardinality(candidates) \in Nat /\ Cardinality(candidates) > 0
    BY <1>1, FS_CardinalityType, FS_EmptySet
  <1>3. ASSUME NEW measure, \A r \in candidates : measure[r] \in Nat
        PROVE  Least(t, candidates, measure) \in candidates
    <2> DEFINE best == {r \in candidates : \A s \in candidates : measure[r] <= measure[s]}
               measures == {measure[r] : r \in candidates}
    <2>1. measures \in SUBSET Nat /\ measures # {} BY <1>3
    <2>2. \E m \in measures : \A i \in measures : m <= i
      <3> HIDE DEF measures
      <3> QED BY <2>1, LeastNatural
    <2>3. best # {} /\ best \in SUBSET ToSet(tenantRoutes[t]) BY <2>2
    <2>4. IsFiniteSet(best) BY <1>1, FS_Subset
    <2>5. Least(t, candidates, measure) = Nth(t, best, 0) BY DEF Least
    <2>6. best \subseteq candidates OBVIOUS
    <2> HIDE DEF best
    <2>7. Cardinality(best) \in Nat /\ Cardinality(best) # 0
      BY <2>3, <2>4, FS_CardinalityType, FS_EmptySet
    <2>8. 0 < Cardinality(best) BY <2>7
    <2> QED BY <2>3, <2>5, <2>6, <2>8, NthIsOneOfThem
  <1>4. \A r \in candidates : PriceOf[r] \in Nat /\ PriorityOf[r] \in Nat /\ latency[r] \in Nat
    <2>1. Latency \cup {Unmeasured} \subseteq Nat BY RouterAssumption DEF Unmeasured
    <2>2. \A r \in Route : PriceOf[r] \in Nat /\ PriorityOf[r] \in Nat
      BY RegistryAssumption
    <2>3. \A r \in Route : latency[r] \in Nat BY <2>1
    <2> QED BY <1>1, <2>2, <2>3
  <1>5. Nth(t, candidates, roundRobinIndex % Cardinality(candidates)) \in candidates
    <2>1. PICK n : n = roundRobinIndex % Cardinality(candidates) OBVIOUS
    <2>2. n \in Nat /\ n < Cardinality(candidates) BY <1>2, <2>1
    <2> QED BY <2>1, <2>2, NthIsOneOfThem
  <1>6. /\ Least(t, candidates, PriceOf) \in candidates
        /\ Least(t, candidates, PriorityOf) \in candidates
        /\ Least(t, candidates, latency) \in candidates
    BY <1>3, <1>4
  <1> QED BY <1>5, <1>6 DEF SelectRoute, Strategy

\* A chain names one to three providers.
LEMMA ChainsAreShort ==
    ASSUME RegistryTypeOK, NEW t \in Tenant, NEW candidates \in SUBSET ToSet(tenantRoutes[t]),
           NEW selected \in Route
    PROVE  /\ BuildFallbackChain(t, selected, candidates) \in Seq(Provider)
           /\ Len(BuildFallbackChain(t, selected, candidates)) \in 1..3
  <1> DEFINE others == {r \in candidates : ProviderOf[r] # ProviderOf[selected]}
             count == Cardinality(others)
             used == IF count < 2 THEN count ELSE 2
             first == <<ProviderOf[selected]>>
             rest == [i \in 1 .. used |-> ProviderOf[Nth(t, others, i - 1)]]
  <1>1. IsFiniteSet(others) /\ others \in SUBSET ToSet(tenantRoutes[t]) BY Places, FS_Subset
  <1>2. BuildFallbackChain(t, selected, candidates) = first \o rest BY DEF BuildFallbackChain
  <1> HIDE DEF others
  <1>3. count \in Nat BY <1>1, FS_CardinalityType
  <1>4. used \in 0..2 /\ \A i \in 1..used : i - 1 \in Nat /\ i - 1 < count
    <2> HIDE DEF count
    <2> QED BY <1>3
  <1>5. \A i \in 1..used : ProviderOf[Nth(t, others, i - 1)] \in Provider
    <2> SUFFICES ASSUME NEW i \in 1..used
                 PROVE  ProviderOf[Nth(t, others, i - 1)] \in Provider
      OBVIOUS
    <2>1. i - 1 \in Nat /\ i - 1 < Cardinality(others) BY <1>4
    <2>2. Nth(t, others, i - 1) \in others BY <1>1, <2>1, NthIsOneOfThem
    <2>3. Nth(t, others, i - 1) \in Route BY <1>1, <2>2, Places
    <2> QED BY <2>3, RegistryAssumption
  <1> HIDE DEF used
  <1>6. rest \in Seq(Provider) /\ Len(rest) = used
    <2>1. rest \in [1..used -> Provider] BY <1>5
    <2> HIDE DEF rest
    <2>2. used \in Nat BY <1>4
    <2>3. rest \in Seq(Provider) BY <2>1, <2>2, SeqDef
    <2>4. DOMAIN rest = 1..used /\ DOMAIN rest = 1..Len(rest) /\ Len(rest) \in Nat
      BY <2>1, <2>3, LenProperties
    <2> QED BY <2>2, <2>3, <2>4
  <1>7. first \in Seq(Provider) /\ Len(first) = 1 BY RegistryAssumption
  <1> HIDE DEF first, rest
  <1>8. first \o rest \in Seq(Provider) /\ Len(first \o rest) = 1 + used
    BY <1>6, <1>7, ConcatProperties
  <1> QED BY <1>2, <1>4, <1>8

\* A request under way has providers left to ask, and attempts.
UnderWay == {state \in Routing : /\ Len(state.chain) \in 1..3
                                 /\ state.attempt <= state.retries}

RouterInv ==
    /\ RegistryInv
    /\ HealthInv
    /\ latency \in [Route -> Latency \cup {Unmeasured}]
    /\ roundRobinIndex \in 0 .. Turns - 1
    /\ routing \in [Request -> UnderWay \cup {Idle}]

\* How many calls of providers, and a token, a request may still wait for.
StepsLeft(state) ==
    IF state = Idle THEN 0
    ELSE (IF state.pc = "acquiring" THEN 1 ELSE 0) + 2 * Len(state.chain) - state.attempt

\* A request under way is not over, and waits for seven answers at most.
LEMMA UnderWayIsBounded ==
    \A state \in UnderWay : state # Idle /\ StepsLeft(state) \in 1..7
  <1> SUFFICES ASSUME NEW state \in UnderWay PROVE state # Idle /\ StepsLeft(state) \in 1..7
    OBVIOUS
  <1>1. /\ state.pc \in {"acquiring", "generating"} /\ state.attempt \in {0, 1}
        /\ Len(state.chain) \in 1..3
    BY DEF UnderWay, Routing
  <1>2. state # Idle BY <1>1 DEF Idle
  <1>3. PICK n \in 1..3 : n = Len(state.chain) BY <1>1
  <1>4. PICK a \in {0, 1} : a = state.attempt BY <1>1
  <1>5. 2 * n - a \in 1..6
    <2>1. (n = 1 \/ n = 2 \/ n = 3) /\ (a = 0 \/ a = 1) BY <1>3, <1>4
    <2> QED BY <2>1
  <1>6. StepsLeft(state) = (IF state.pc = "acquiring" THEN 1 ELSE 0) + (2 * n - a)
    BY <1>2, <1>3, <1>4 DEF StepsLeft
  <1> QED BY <1>2, <1>5, <1>6

\* A request of which nothing was under way is routed.
LEMMA RequestsStart ==
    ASSUME RouterInv, NEW q \in Request, NEW t \in Tenant, NEW preferred, NEW strategy \in Strategy,
           StartRouting(q, t, preferred, strategy)
    PROVE  /\ routing[q] = Idle
           /\ routing' \in [Request -> UnderWay \cup {Idle}]
           /\ \A p \in Request \ {q} : routing'[p] = routing[p]
           /\ roundRobinIndex' \in 0 .. Turns - 1
  <1>1. RegistryTypeOK /\ GetActiveRoutes(t) # {} /\ routing[q] = Idle
    BY DEF RouterInv, RegistryInv, StartRouting
  <1>2. roundRobinIndex \in Nat /\ Turns \in Nat \ {0}
    BY RouterAssumption DEF RouterInv
  <1>3. PICK candidates : candidates = Candidates(t, preferred) OBVIOUS
  <1>4. candidates \in SUBSET ToSet(tenantRoutes[t]) /\ candidates # {}
    BY <1>1, <1>3, CandidatesAreSome
  <1>5. PICK selected : selected = SelectRoute(t, candidates, strategy) OBVIOUS
  <1>6. selected \in Route
    <2>1. selected \in candidates BY <1>1, <1>2, <1>4, <1>5, OneIsSelected DEF RouterInv
    <2> QED BY <1>1, <1>4, <2>1, Places
  <1>7. PICK chain : chain = BuildFallbackChain(t, selected, candidates) OBVIOUS
  <1>8. chain \in Seq(Provider) /\ Len(chain) \in 1..3
    BY <1>1, <1>4, <1>6, <1>7, ChainsAreShort
  <1>9. PICK tries \in {0, 1} : tries = IF Len(chain) > 1 THEN 1 ELSE 0 OBVIOUS
  <1> DEFINE state == [pc |-> "acquiring", route |-> selected, chain |-> chain, attempt |-> 0,
                       retries |-> tries]
  <1>10. state \in UnderWay BY <1>6, <1>8, <1>9 DEF UnderWay, Routing
  <1>11. routing' = [routing EXCEPT ![q] = state]
    BY <1>3, <1>5, <1>7, <1>9 DEF StartRouting
  <1> HIDE DEF state
  <1>12. roundRobinIndex' \in 0 .. Turns - 1
    <2>1. (roundRobinIndex + 1) % Turns \in 0 .. Turns - 1 BY <1>2
    <2> QED BY <2>1 DEF StartRouting, RouterInv
  <1> QED BY <1>1, <1>10, <1>11, <1>12 DEF RouterInv

\* A request under way gets its token, an answer or a refusal.
Advances(q) == TokenAcquired(q) \/ Answered(q) \/ Refused(q)

LEMMA RequestsAdvance ==
    ASSUME RouterInv, NEW q \in Request, Advances(q)
    PROVE  /\ routing' \in [Request -> UnderWay \cup {Idle}]
           /\ \A p \in Request \ {q} : routing'[p] = routing[p]
           /\ StepsLeft(routing'[q]) < StepsLeft(routing[q])
  <1>1. routing \in [Request -> UnderWay \cup {Idle}] BY DEF RouterInv
  <1>2. routing[q] \in UnderWay
    BY <1>1 DEF Advances, TokenAcquired, Answered, Refused, Idle
  <1>3. PICK s \in UnderWay : s = routing[q] BY <1>2
  <1>4. /\ s \in Routing /\ Len(s.chain) \in 1..3 /\ s.attempt \in {0, 1} /\ s.retries \in {0, 1}
        /\ s.attempt <= s.retries /\ s.chain \in Seq(Provider)
    BY DEF UnderWay, Routing
  <1>5. s # Idle /\ Idle \notin UnderWay /\ StepsLeft(s) \in 1..7 BY UnderWayIsBounded
  <1>6. PICK n \in 1..3 : n = Len(s.chain) BY <1>4
  <1>7. PICK a \in {0, 1} : a = s.attempt BY <1>4
  <1>8. ASSUME NEW next \in UnderWay \cup {Idle}, routing' = [routing EXCEPT ![q] = next],
               StepsLeft(next) < StepsLeft(s)
        PROVE  /\ routing' \in [Request -> UnderWay \cup {Idle}]
               /\ \A p \in Request \ {q} : routing'[p] = routing[p]
               /\ StepsLeft(routing'[q]) < StepsLeft(routing[q])
    <2>1. /\ routing' \in [Request -> UnderWay \cup {Idle}] /\ routing'[q] = next
          /\ \A p \in Request \ {q} : routing'[p] = routing[p]
      BY <1>1, <1>8
    <2> QED BY <1>3, <1>8, <2>1
  <1>9. ASSUME routing' = [routing EXCEPT ![q] = Idle]
        PROVE  /\ routing' \in [Request -> UnderWay \cup {Idle}]
               /\ \A p \in Request \ {q} : routing'[p] = routing[p]
               /\ StepsLeft(routing'[q]) < StepsLeft(routing[q])
    <2>1. StepsLeft(Idle) = 0 BY DEF StepsLeft
    <2>2. StepsLeft(Idle) < StepsLeft(s) BY <1>5, <2>1
    <2> QED BY <1>8, <1>9, <2>2
  <1>10. CASE TokenAcquired(q)
    <2> DEFINE next == [s EXCEPT !.pc = "generating"]
    <2>1. routing' = [routing EXCEPT ![q] = next] BY <1>3, <1>10 DEF TokenAcquired
    <2>2. next \in Routing /\ next.chain = s.chain /\ next.attempt = a /\ next.retries = s.retries
              /\ next.pc = "generating"
      BY <1>4, <1>7 DEF Routing
    <2> HIDE DEF next
    <2>3. next \in UnderWay BY <1>4, <1>7, <2>2 DEF UnderWay
    <2>4. StepsLeft(next) = 2 * n - a
      BY <1>5, <1>6, <2>2, <2>3 DEF StepsLeft
    <2>5. StepsLeft(s) = 1 + 2 * n - a
      BY <1>3, <1>5, <1>6, <1>7, <1>10 DEF StepsLeft, TokenAcquired
    <2>6. StepsLeft(next) < StepsLeft(s) BY <1>6, <1>7, <2>4, <2>5
    <2> QED BY <1>8, <2>1, <2>3, <2>6
  <1>11. CASE Answered(q) BY <1>9, <1>11 DEF Answered
  <1>12. CASE Refused(q)
    <2>1. s.pc = "generating" BY <1>3, <1>12 DEF Refused
    <2>2. StepsLeft(s) = 2 * n - a BY <1>5, <1>6, <1>7, <2>1 DEF StepsLeft
    <2>3. CASE s.attempt < s.retries /\ routing' = [routing EXCEPT ![q].attempt = @ + 1]
      <3>1. a = 0 /\ s.retries = 1 BY <1>4, <1>7, <2>3
      <3> DEFINE next == [s EXCEPT !.attempt = 1]
      <3>2. routing' = [routing EXCEPT ![q] = next] BY <1>3, <1>7, <2>3, <3>1
      <3>3. next \in Routing /\ next.chain = s.chain /\ next.attempt = 1 /\ next.retries = 1
                /\ next.pc = "generating"
        BY <1>4, <2>1, <3>1 DEF Routing
      <3> HIDE DEF next
      <3>4. next \in UnderWay BY <1>4, <3>3 DEF UnderWay
      <3>5. StepsLeft(next) = 2 * n - 1 BY <1>5, <1>6, <3>3, <3>4 DEF StepsLeft
      <3>6. StepsLeft(next) < StepsLeft(s) BY <1>6, <2>2, <3>1, <3>5
      <3> QED BY <1>8, <3>2, <3>4, <3>6
    <2>4. CASE /\ n > 1
               /\ routing' = [routing EXCEPT ![q].chain = Tail(@), ![q].attempt = 0]
      <3>0. n = 2 \/ n = 3 BY <2>4
      <3>1. PICK tail : tail = Tail(s.chain) OBVIOUS
      <3>2. s.chain # <<>>
        <4>1. Len(<<>>) = 0 OBVIOUS
        <4> QED BY <1>6, <3>0, <4>1
      <3>3. tail \in Seq(Provider) /\ Len(tail) = n - 1 BY <1>4, <1>6, <3>1, <3>2, HeadTailProperties
      <3> DEFINE mid == [s EXCEPT !.chain = tail]
                 next == [mid EXCEPT !.attempt = 0]
      <3>4. mid \in Routing /\ mid.chain = tail /\ mid.retries = s.retries
                /\ mid.pc = "generating"
        BY <1>4, <2>1, <3>3 DEF Routing
      <3>5. routing' = [routing EXCEPT ![q] = next] BY <1>1, <1>3, <2>4, <3>1
      <3> HIDE DEF mid
      <3>6. next \in Routing /\ next.chain = tail /\ next.attempt = 0 /\ next.retries = s.retries
                /\ next.pc = "generating"
        BY <3>4 DEF Routing
      <3> HIDE DEF next
      <3>7. Len(tail) \in 1..3 BY <3>0, <3>3
      <3>8. next \in UnderWay BY <1>4, <3>6, <3>7 DEF UnderWay
      <3>9. StepsLeft(next) = 2 * (n - 1) BY <1>5, <1>6, <3>3, <3>6, <3>8 DEF StepsLeft
      <3>10. StepsLeft(next) < StepsLeft(s) BY <1>6, <1>7, <2>2, <3>9
      <3> QED BY <1>8, <3>5, <3>8, <3>10
    <2>5. CASE routing' = [routing EXCEPT ![q] = Idle] BY <1>9, <2>5
    <2> QED BY <1>3, <1>6, <1>12, <2>3, <2>4, <2>5 DEF Refused
  <1> QED BY <1>10, <1>11, <1>12 DEF Advances

\* A step of the router or of the registry.
ServiceNext == RouterNext \/ (RegistryNext /\ UNCHANGED routerVars)

serviceVars == <<registryVars, routerVars>>

\* Every step of the router and of its registry.
LEMMA NextService == RouterInv /\ [ServiceNext]_serviceVars => RouterInv'
  <1> SUFFICES ASSUME RouterInv, [ServiceNext]_serviceVars PROVE RouterInv'
    OBVIOUS
  <1>1. RegistryInv'
    <2>1. RouterNext => UNCHANGED registryVars BY DEF RouterNext
    <2> QED BY <2>1, NextRegistry DEF ServiceNext, serviceVars, RouterInv
  <1>2. HealthInv'
    <2>1. UNCHANGED routerVars => UNCHANGED <<failures, disabled>> BY DEF routerVars
    <2> QED BY <2>1, NextRouter, HealthSteps DEF ServiceNext, serviceVars, RouterInv
  <1>3. ASSUME NEW q \in Request, NEW t \in Tenant, NEW preferred \in Provider \cup {"any"},
               NEW strategy \in Strategy, StartRouting(q, t, preferred, strategy)
        PROVE  RouterInv'
    <2>1. latency' = latency BY <1>3 DEF StartRouting
    <2> QED BY <1>1, <1>2, <1>3, <2>1, RequestsStart DEF RouterInv
  <1>4. ASSUME NEW q \in Request, Advances(q) PROVE RouterInv'
    <2>1. latency' \in [Route -> Latency \cup {Unmeasured}] /\ roundRobinIndex' = roundRobinIndex
      BY <1>4 DEF Advances, TokenAcquired, Answered, Refused, RecordLatency, RouterInv
    <2> QED BY <1>1, <1>2, <1>4, <2>1, RequestsAdvance DEF RouterInv
  <1>5. ASSUME NEW p \in Provider, Cooldown(p) PROVE RouterInv'
    BY <1>1, <1>2, <1>5 DEF Cooldown, RouterInv
  <1>6. ASSUME UNCHANGED routerVars PROVE RouterInv'
    BY <1>1, <1>2, <1>6 DEF routerVars, RouterInv
  <1> QED BY <1>3, <1>4, <1>5, <1>6 DEF ServiceNext, RouterNext, serviceVars, Advances

\* The router keeps its types: whatever strategy, preference and health leave of a tenant's
\* routes, a route is selected, and a chain of one to three providers asked.
THEOREM RouterTypeCorrect == RouterSpec => [](RouterTypeOK /\ RouterInv)
  <1>1. RegistryInit /\ RouterInit => RouterInv
    <2>1. RegistryInit => RegistryInv
      BY RegistryAssumption
      DEF RegistryInit, RegistryInv, RegistryTypeOK, RegisteredRoutesAreFound, Unregistered
    <2>2. RouterInit => HealthInv
      BY RouterAssumption
      DEF RouterInit, HealthInv, HealthTypeOK, DisabledWithReason, Disabled
    <2>3. 0 \in 0 .. Turns - 1 BY RouterAssumption
    <2> QED BY <2>1, <2>2, <2>3 DEF RouterInit, RouterInv
  <1>2. RouterInv /\ [RouterNext \/ (RegistryNext /\ UNCHANGED routerVars)]_<<registryVars,
            routerVars>> => RouterInv'
    BY NextService DEF ServiceNext, serviceVars
  <1>3. RouterInv => RouterTypeOK BY DEF RouterInv, RouterTypeOK, HealthInv, HealthTypeOK, UnderWay
  <1> QED BY <1>1, <1>2, <1>3, PTL DEF RouterSpec

\* However the registry changes meanwhile, every step of a request under way brings it nearer
\* its end, which is at most seven steps away: nothing is asked anew, and the requests only
\* have to be answered, well or ill, to be over.
THEOREM RequestsGetOn ==
    RouterSpec => [][\A q \in Request :
                        /\ StepsLeft(routing[q]) \in 0..7
                        /\ (routing[q] # Idle /\ routing'[q] # routing[q]) =>
                               StepsLeft(routing'[q]) < StepsLeft(routing[q])]_serviceVars
  <1> DEFINE GetsOn(q) == /\ StepsLeft(routing[q]) \in 0..7
                          /\ (routing[q] # Idle /\ routing'[q] # routing[q]) =>
                                 StepsLeft(routing'[q]) < StepsLeft(routing[q])
  <1>1. RouterInv /\ [ServiceNext]_serviceVars => [\A q \in Request : GetsOn(q)]_serviceVars
    <2> SUFFICES ASSUME RouterInv, ServiceNext, NEW q \in Request PROVE GetsOn(q)
      OBVIOUS
    <2>1. StepsLeft(routing[q]) \in 0..7
      <3>1. routing[q] \in UnderWay \cup {Idle} BY DEF RouterInv
      <3>2. StepsLeft(Idle) = 0 BY DEF StepsLeft
      <3>3. 1..7 \subseteq 0..7 /\ 0 \in 0..7 OBVIOUS
      <3> QED BY <3>1, <3>2, <3>3, UnderWayIsBounded
    <2>2. ASSUME NEW p \in Request, NEW t \in Tenant, NEW preferred \in Provider \cup {"any"},
                 NEW strategy \in Strategy, StartRouting(p, t, preferred, strategy)
          PROVE  routing[q] = Idle \/ routing'[q] = routing[q]
      BY <2>2, RequestsStart
    <2>3. ASSUME NEW p \in Request, Advances(p)
          PROVE  routing'[q] = routing[q] \/ StepsLeft(routing'[q]) < StepsLeft(routing[q])
      BY <2>3, RequestsAdvance
    <2>4. ASSUME NEW p \in Provider, Cooldown(p) PROVE routing' = routing BY <2>4 DEF Cooldown
    <2>5. UNCHANGED routerVars => routing' = routing BY DEF routerVars
    <2> QED BY <2>1, <2>2, <2>3, <2>4, <2>5 DEF ServiceNext, RouterNext, Advances
  <1>2. RouterSpec => [](RouterInv) BY RouterTypeCorrect, PTL
  <1>3. RouterSpec => [][ServiceNext]_serviceVars
    BY PTL DEF RouterSpec, ServiceNext, serviceVars
  <1> HIDE DEF GetsOn
  <1>4. RouterSpec => [][\A q \in Request : GetsOn(q)]_serviceVars BY <1>1, <1>2, <1>3, PTL
  <1> QED BY <1>4 DEF GetsOn

-----------------------------------------------------------------------------
(* Jarvis.                                                                 *)

\* What a call under way knows: an agent and an item, once it publishes.
Placing == {state \in CallState : state.pc = "publishing" => /\ state.agent \in Agent
                                                              /\ state.item \in Item}

JarvisInv ==
    /\ roster \in Seq(Agent)
    /\ squad \in [Agent -> Tracked]
    /\ call \in [Call -> Placing]
    /\ announced \subseteq Agent \X Item
    /\ shuttingDown \in BOOLEAN
    /\ WorkIsAnnounced

\* Who is chosen is a candidate that has been heard of.
LEMMA ChosenIsACandidate ==
    ASSUME roster \in Seq(Agent), NEW candidates \in SUBSET Known, candidates # {}
    PROVE  Chosen(candidates) \in candidates /\ Chosen(candidates) \in Agent
  <1> DEFINE at == {i \in DOMAIN roster : roster[i] \in candidates}
  <1>1. DOMAIN roster = 1..Len(roster) /\ Len(roster) \in Nat BY LenProperties
  <1>2. at \in SUBSET Nat /\ at # {} BY <1>1 DEF Known, Range
  <1>3. PICK m \in at : \A i \in at : m <= i BY <1>2, LeastNatural
  <1>4. /\ m \in DOMAIN roster /\ roster[m] \in candidates
        /\ \A j \in 1..(m - 1) : roster[j] \notin candidates
    BY <1>1, <1>3
  <1>5. PICK i \in DOMAIN roster : roster[i] \in candidates /\ Chosen(candidates) = roster[i]
    BY <1>4 DEF Chosen
  <1> QED BY <1>1, <1>5

\* A call that moves on leaves the squad as it was.
LEMMA CallsMoveOn ==
    ASSUME JarvisInv, NEW c \in Call, NEW state \in Placing, call' = [call EXCEPT ![c] = state],
           UNCHANGED <<roster, squad, announced, shuttingDown>>
    PROVE  JarvisInv'
  BY DEF JarvisInv, WorkIsAnnounced

\* An assignment names an agent that Jarvis knows.
LEMMA AssignmentsArePlaced ==
    ASSUME JarvisInv, NEW c \in Call, NEW caller \in Caller, NEW item \in Item, NEW candidates,
           candidates \subseteq IdleAgents, AssignWorkItem(c, caller, item, candidates),
           UNCHANGED <<roster, squad, announced, shuttingDown>>
    PROVE  JarvisInv'
  <1> DEFINE state == [pc |-> "publishing", caller |-> caller, agent |-> Chosen(candidates),
                       item |-> item]
  <1>1. candidates \in SUBSET Known /\ candidates # {} BY DEF AssignWorkItem, IdleAgents
  <1>2. Chosen(candidates) \in Agent BY <1>1, ChosenIsACandidate DEF JarvisInv
  <1>3. state \in Placing BY <1>2 DEF Placing, CallState
  <1>4. call' = [call EXCEPT ![c] = state] BY DEF AssignWorkItem
  <1> HIDE DEF state
  <1> QED BY <1>3, <1>4, CallsMoveOn

\* Every way to handle an escalation is an assignment, a word to a human or nothing.
LEMMA EscalationsAreHandled ==
    ASSUME JarvisInv, NEW c \in Call, NEW a \in Agent, NEW item \in Item, Escalation(c, a, item),
           UNCHANGED shuttingDown
    PROVE  JarvisInv'
  <1>1. ASSUME NEW candidates, candidates \subseteq IdleAgents, AssignAgain(c, item, candidates)
        PROVE  JarvisInv'
    <2>1. "escalation" \in Caller BY DEF Caller
    <2> QED BY <1>1, <2>1, AssignmentsArePlaced DEF AssignAgain
  <1>2. ASSUME TellHuman(c, item) PROVE JarvisInv'
    <2> DEFINE state == [pc |-> "notifying", caller |-> "escalation", agent |-> NoAgent,
                         item |-> item]
    <2>1. state \in Placing BY DEF Placing, CallState, Caller
    <2>2. call' = [call EXCEPT ![c] = state] /\ UNCHANGED <<roster, squad, announced>>
      BY <1>2 DEF TellHuman
    <2> HIDE DEF state
    <2> QED BY <2>1, <2>2, CallsMoveOn
  <1>3. ASSUME Defer PROVE JarvisInv'
    BY <1>3 DEF Defer, squadVars, JarvisInv, WorkIsAnnounced
  <1>4. \A vertical : IdleIn(vertical) \subseteq IdleAgents BY DEF IdleIn
  <1>5. ASSUME HandleMergeConflict(c, a, item) PROVE JarvisInv'
    BY <1>1, <1>3, <1>4, <1>5 DEF HandleMergeConflict
  <1>6. ASSUME HandleTestFailure(c, a, item) PROVE JarvisInv'
    <2>1. PICK candidates : /\ candidates = IF a \in IdleAgents THEN IdleIn(VerticalOf[a])
                                                                ELSE IdleAgents
                            /\ AssignAgain(c, item, candidates) \/ TellHuman(c, item)
      BY <1>6 DEF HandleTestFailure
    <2>2. candidates \subseteq IdleAgents BY <1>4, <2>1
    <2> QED BY <1>1, <1>2, <2>1, <2>2
  <1>7. ASSUME NEW atXL \in BOOLEAN, HandleTimeout(c, item, atXL) PROVE JarvisInv'
    BY <1>1, <1>2, <1>3, <1>7 DEF HandleTimeout
  <1>8. ASSUME NEW blocker \in {"dependency", "other"}, HandleBlocked(c, item, blocker)
        PROVE  JarvisInv'
    BY <1>1, <1>2, <1>8 DEF HandleBlocked
  <1> QED BY <1>2, <1>5, <1>6, <1>7, <1>8 DEF Escalation

\* The publish answered: the agent is marked and told.
LEMMA AssignmentsFinish ==
    ASSUME JarvisInv, NEW c \in Call, FinishAssignment(c), UNCHANGED shuttingDown
    PROVE  JarvisInv'
  <1>1. PICK a, item : a = call[c].agent /\ item = call[c].item OBVIOUS
  <1>2. call[c] \in Placing /\ call[c].pc = "publishing" BY DEF JarvisInv, FinishAssignment
  <1>3. a \in Agent /\ item \in Item BY <1>1, <1>2 DEF Placing
  <1>4. /\ announced' = announced \cup {<<a, item>>}
        /\ squad' = [squad EXCEPT ![a] = [@ EXCEPT !.status = "working", !.item = item]]
        /\ call' = [call EXCEPT ![c] = NoCall] /\ UNCHANGED <<roster, shuttingDown>>
    BY <1>1 DEF FinishAssignment
  <1>5. NoCall \in Placing BY DEF NoCall, Placing, CallState, Caller
  <1>6. call' \in [Call -> Placing] BY <1>4, <1>5 DEF JarvisInv
  <1>7. announced' \subseteq Agent \X Item /\ announced \subseteq announced' /\ <<a, item>> \in announced'
    BY <1>3, <1>4 DEF JarvisInv
  <1> DEFINE entry == [squad[a] EXCEPT !.status = "working", !.item = item]
  <1>8. squad[a] \in Tracked BY <1>3 DEF JarvisInv
  <1>9. entry \in Tracked /\ entry.status = "working" /\ entry.item = item
    <2>1. PICK i, f : squad[a] = [status |-> squad[a].status, item |-> i, fresh |-> f]
                      /\ i \in Item \cup {NoItem} /\ f \in BOOLEAN
      BY <1>8 DEF Tracked
    <2>2. PICK mid : mid = [squad[a] EXCEPT !.status = "working"] OBVIOUS
    <2>3. mid \in Tracked /\ mid.status = "working" BY <1>8, <2>2 DEF Tracked
    <2>4. entry = [mid EXCEPT !.item = item] BY <2>2
    <2> HIDE DEF entry
    <2> QED BY <1>3, <2>3, <2>4 DEF Tracked
  <1>10. squad' = [squad EXCEPT ![a] = entry] BY <1>4
  <1> HIDE DEF entry
  <1>11. /\ squad' \in [Agent -> Tracked] /\ squad'[a] = entry
         /\ \A b \in Agent \ {a} : squad'[b] = squad[b]
    BY <1>3, <1>9, <1>10 DEF JarvisInv
  <1>12. WorkIsAnnounced' BY <1>7, <1>9, <1>11 DEF JarvisInv, WorkIsAnnounced
  <1> QED BY <1>4, <1>6, <1>7, <1>11, <1>12 DEF JarvisInv

\* Who is relieved is no longer at work, and an item goes on only to a known agent.
LEMMA StuckAreRelieved ==
    ASSUME JarvisInv, DetectStuckAgents, UNCHANGED shuttingDown
    PROVE  JarvisInv'
  <1> DEFINE from == {a \in StuckAgents : squad[a].item # NoItem}
             placed == {a \in from : IdleIn(VerticalOf[a]) # {}}
             relieved(a) == [squad[a] EXCEPT !.status = "offline", !.item = NoItem]
             place(a) == [pc |-> "publishing", caller |-> "unawaited",
                          agent |-> Chosen(IdleIn(VerticalOf[a])), item |-> squad[a].item]
  <1>1. /\ squad' = [a \in Agent |-> IF a \in from THEN relieved(a) ELSE squad[a]]
        /\ UNCHANGED <<roster, announced, shuttingDown>>
    BY DEF DetectStuckAgents
  <1>2. PICK slot \in Injection(placed, {c \in Call : call[c].pc = "idle"}) :
            call' = [c \in Call |-> IF \E a \in placed : slot[a] = c
                                    THEN place(CHOOSE a \in placed : slot[a] = c)
                                    ELSE call[c]]
    BY DEF DetectStuckAgents
  <1>3. \A a \in placed : a \in Known /\ a \in Agent /\ squad[a] \in Tracked /\ squad[a].item # NoItem
    <2>1. \A a \in Known : a \in Agent
      BY LenProperties DEF Known, Range, JarvisInv
    <2> QED BY <2>1 DEF StuckAgents, JarvisInv
  <1>4. ASSUME NEW a \in placed PROVE place(a) \in Placing
    <2>1. IdleIn(VerticalOf[a]) \in SUBSET Known BY DEF IdleIn, IdleAgents
    <2>2. Chosen(IdleIn(VerticalOf[a])) \in Agent
      BY <2>1, ChosenIsACandidate DEF JarvisInv
    <2>3. squad[a].item \in Item BY <1>3 DEF Tracked
    <2> HIDE DEF placed, from
    <2> QED BY <2>2, <2>3 DEF Placing, CallState, Caller
  <1>5. call' \in [Call -> Placing]
    <2> HIDE DEF place, placed, from
    <2>1. ASSUME NEW c \in Call
          PROVE  (IF \E a \in placed : slot[a] = c
                    THEN place(CHOOSE a \in placed : slot[a] = c) ELSE call[c]) \in Placing
      <3>1. CASE \E a \in placed : slot[a] = c
        <4>1. (CHOOSE a \in placed : slot[a] = c) \in placed BY <3>1
        <4> QED BY <1>4, <3>1, <4>1
      <3>2. CASE ~\E a \in placed : slot[a] = c BY <3>2 DEF JarvisInv
      <3> QED BY <3>1, <3>2
    <2> QED BY <1>2, <2>1
  <1>6. ASSUME NEW a \in Agent PROVE relieved(a) \in Tracked /\ relieved(a).item = NoItem
    <2>1. squad[a] \in Tracked BY DEF JarvisInv
    <2>2. PICK mid : mid = [squad[a] EXCEPT !.status = "offline"] OBVIOUS
    <2>3. mid \in Tracked BY <2>1, <2>2 DEF Tracked, HeartbeatStatus
    <2>4. relieved(a) = [mid EXCEPT !.item = NoItem] BY <2>2
    <2> HIDE DEF relieved
    <2> QED BY <2>3, <2>4 DEF Tracked
  <1> HIDE DEF relieved, from
  <1>7. squad' \in [Agent -> Tracked] BY <1>1, <1>6 DEF JarvisInv
  <1>8. WorkIsAnnounced' BY <1>1, <1>6 DEF JarvisInv, WorkIsAnnounced
  <1> QED BY <1>1, <1>5, <1>7, <1>8 DEF JarvisInv

\* A process that comes back knows nobody.
LEMMA ForgottenIsClean == JarvisInv /\ Forgotten => JarvisInv'
  <1> SUFFICES ASSUME JarvisInv, Forgotten PROVE JarvisInv'
    OBVIOUS
  <1>1. NoCall \in Placing BY DEF NoCall, Placing, CallState, Caller
  <1>2. Unknown \in Tracked /\ Unknown.item = NoItem
    BY DEF Unknown, Tracked, HeartbeatStatus
  <1>3. /\ roster' = <<>> /\ squad' = [a \in Agent |-> Unknown] /\ call' = [c \in Call |-> NoCall]
        /\ shuttingDown' = FALSE /\ UNCHANGED announced
    BY DEF Forgotten
  <1>4. WorkIsAnnounced' BY <1>2, <1>3 DEF WorkIsAnnounced
  <1>5. <<>> \in Seq(Agent) OBVIOUS
  <1>6. [a \in Agent |-> Unknown] \in [Agent -> Tracked] /\ [c \in Call |-> NoCall] \in [Call -> Placing]
    BY <1>1, <1>2
  <1> QED BY <1>3, <1>4, <1>5, <1>6 DEF JarvisInv

\* Every step of Jarvis.
LEMMA NextJarvis == JarvisInv /\ [JarvisNext]_jarvisVars => JarvisInv'
  <1> SUFFICES ASSUME JarvisInv, [JarvisNext]_jarvisVars PROVE JarvisInv'
    OBVIOUS
  <1>0. NoCall \in Placing BY DEF NoCall, Placing, CallState, Caller
  <1>1. ASSUME NEW a \in Agent, NEW status \in HeartbeatStatus, NEW recent \in BOOLEAN,
               HandleHeartbeat(a, status, recent), UNCHANGED shuttingDown
        PROVE  JarvisInv'
    <2> DEFINE entry == [status |-> status, item |-> NoItem, fresh |-> recent]
    <2>1. entry \in Tracked /\ entry.item = NoItem BY DEF Tracked
    <2>2. squad' = [squad EXCEPT ![a] = entry] /\ UNCHANGED <<call, announced>>
      BY <1>1 DEF HandleHeartbeat
    <2> HIDE DEF entry
    <2>3. squad' \in [Agent -> Tracked] /\ squad'[a] = entry
              /\ \A b \in Agent \ {a} : squad'[b] = squad[b]
      BY <2>1, <2>2 DEF JarvisInv
    <2>4. roster' \in Seq(Agent) BY <1>1, AppendProperties DEF HandleHeartbeat, JarvisInv
    <2>5. WorkIsAnnounced' BY <2>1, <2>2, <2>3 DEF JarvisInv, WorkIsAnnounced
    <2> QED BY <1>1, <2>2, <2>3, <2>4, <2>5 DEF JarvisInv
  <1>2. CASE Receive
    <2>1. UNCHANGED shuttingDown BY <1>2 DEF Receive
    <2>2. ASSUME NEW c \in Call, NEW item \in Item, CrossVerticalRequest(c, item)
          PROVE  JarvisInv'
      <3>1. "unawaited" \in Caller BY DEF Caller
      <3> QED BY <2>1, <2>2, <3>1, AssignmentsArePlaced DEF CrossVerticalRequest
    <2> QED BY <1>1, <1>2, <2>1, <2>2, EscalationsAreHandled DEF Receive
  <1>3. ASSUME NEW c \in Call, Answer(c) PROVE JarvisInv'
    <2>1. CASE FinishAssignment(c) BY <1>3, <2>1, AssignmentsFinish DEF Answer
    <2>2. CASE FinishTelling(c)
      BY <1>0, <1>3, <2>2, CallsMoveOn DEF Answer, FinishTelling
    <2> QED BY <1>3, <2>1, <2>2 DEF Answer
  <1>4. ASSUME NEW c \in Call, PublishFails(c) PROVE JarvisInv'
    BY <1>0, <1>4, CallsMoveOn, ForgottenIsClean DEF PublishFails
  <1>5. CASE CheckStuck BY <1>5, StuckAreRelieved DEF CheckStuck
  <1>6. CASE Silence
    <2>1. PICK a \in Agent : FallSilent(a) BY <1>6 DEF Silence
    <2> DEFINE entry == [squad[a] EXCEPT !.fresh = FALSE]
    <2>2. squad[a] \in Tracked BY DEF JarvisInv
    <2>3. entry \in Tracked /\ entry.item = squad[a].item /\ entry.status = squad[a].status
      BY <2>2 DEF Tracked
    <2>4. squad' = [squad EXCEPT ![a] = entry] /\ UNCHANGED <<roster, call, announced, shuttingDown>>
      BY <1>6, <2>1 DEF Silence, FallSilent
    <2> HIDE DEF entry
    <2>5. squad' \in [Agent -> Tracked] /\ squad'[a] = entry
              /\ \A b \in Agent \ {a} : squad'[b] = squad[b]
      BY <2>3, <2>4 DEF JarvisInv
    <2>6. WorkIsAnnounced' BY <2>3, <2>4, <2>5 DEF JarvisInv, WorkIsAnnounced
    <2> QED BY <2>4, <2>5, <2>6 DEF JarvisInv
  <1>7. CASE GracefulShutdown
    BY <1>7 DEF GracefulShutdown, squadVars, JarvisInv, WorkIsAnnounced
  <1>8. CASE Restart BY <1>8, ForgottenIsClean DEF Restart
  <1>9. CASE UNCHANGED jarvisVars
    BY <1>9 DEF jarvisVars, squadVars, JarvisInv, WorkIsAnnounced
  <1> QED BY <1>2, <1>3, <1>4, <1>5, <1>6, <1>7, <1>8, <1>9 DEF JarvisNext

\* Jarvis keeps its types, and every call that publishes an assignment has an agent and an
\* item to name.
THEOREM JarvisTypeCorrect == JarvisSpec => []JarvisInv
  <1>1. JarvisInit => JarvisInv
    <2> SUFFICES ASSUME JarvisInit PROVE JarvisInv
      OBVIOUS
    <2>1. NoCall \in Placing BY DEF NoCall, Placing, CallState, Caller
    <2>2. Unknown \in Tracked /\ Unknown.item = NoItem
      BY DEF Unknown, Tracked, HeartbeatStatus
    <2>3. /\ roster = <<>> /\ squad = [a \in Agent |-> Unknown] /\ call = [c \in Call |-> NoCall]
          /\ shuttingDown = FALSE /\ announced = {}
      BY DEF JarvisInit, SquadInit
    <2>4. WorkIsAnnounced BY <2>2, <2>3 DEF WorkIsAnnounced
    <2>5. <<>> \in Seq(Agent) OBVIOUS
    <2>6. squad \in [Agent -> Tracked] /\ call \in [Call -> Placing] BY <2>1, <2>2, <2>3
    <2> QED BY <2>3, <2>4, <2>5, <2>6 DEF JarvisInv
  <1> QED BY <1>1, NextJarvis, PTL DEF JarvisSpec

\* Whatever heartbeats come while a publish is under way and however it ends, Jarvis believes
\* an agent to be at work only on an item it has told the agent of.
THEOREM WorkIsAlwaysAnnounced == JarvisSpec => []WorkIsAnnounced
  <1>1. JarvisInv => WorkIsAnnounced BY DEF JarvisInv
  <1> QED BY <1>1, JarvisTypeCorrect, PTL

-----------------------------------------------------------------------------
(* The enhancement pipeline.                                               *)

\* The armours that run after the scanner.
AfterScan == {"pii-detector", "license-checker", "cost-limiter", "human-escalation-gate"}

\* The places of the stages.
LEMMA Order ==
    /\ DOMAIN StageOrder = 1..20
    /\ StageOrder[1] = "rag-injector" /\ StageOrder[2] = "chain-of-verification"
    /\ StageOrder[3] = "ensemble-router" /\ StageOrder[4] = "domain-expert-prompts"
    /\ StageOrder[5] = "output-refinement-loop" /\ StageOrder[6] = "schema-enforcer"
    /\ StageOrder[7] = "deterministic-validator" /\ StageOrder[8] = "confidence-scorer"
    /\ StageOrder[9] = "temperature-controller" /\ StageOrder[10] = "retry-escalator"
    /\ StageOrder[11] = "prompt-compiler" /\ StageOrder[12] = "context-compressor"
    /\ StageOrder[13] = "output-normalizer" /\ StageOrder[14] = "code-formatter"
    /\ StageOrder[15] = "semantic-deduplicator" /\ StageOrder[16] = "security-scanner"
    /\ StageOrder[17] = "pii-detector" /\ StageOrder[18] = "license-checker"
    /\ StageOrder[19] = "cost-limiter" /\ StageOrder[20] = "human-escalation-gate"
  BY DEF StageOrder

\* There are twenty stages.
LEMMA Stages ==
    /\ Stage = {StageOrder[i] : i \in 1..20}
    /\ IsFiniteSet(Stage)
    /\ \A i, j \in 1..20 : StageOrder[i] = StageOrder[j] => i = j
  <1>1. Stage = {StageOrder[i] : i \in 1..20} BY Order DEF Stage, ToSet
  <1>2. IsFiniteSet(1..20)
    <2>1. PICK n \in Int : n = 20 OBVIOUS
    <2>2. IsFiniteSet(1..n) BY FS_Interval
    <2> QED BY <2>1, <2>2
  <1>3. IsFiniteSet(Stage)
    <2> DEFINE f == [i \in 1..20 |-> StageOrder[i]]
    <2>1. f \in Surjection(1..20, Stage) BY <1>1 DEF Surjection
    <2> QED BY <1>2, <2>1, FS_Surjection
  <1>4. \A i, j \in 1..20 : StageOrder[i] = StageOrder[j] => i = j
    <2>1. \A i \in 1..20 : \/ i = 1 \/ i = 2 \/ i = 3 \/ i = 4 \/ i = 5 \/ i = 6 \/ i = 7
                           \/ i = 8 \/ i = 9 \/ i = 10 \/ i = 11 \/ i = 12 \/ i = 13
                           \/ i = 14 \/ i = 15 \/ i = 16 \/ i = 17 \/ i = 18 \/ i = 19
                           \/ i = 20
      OBVIOUS
    <2> QED BY <2>1, Order
  <1> QED BY <1>1, <1>3, <1>4

\* When the scanner runs only the other armours are left; when the detector runs the
\* scanner is done.
LEMMA ScannerComesLate ==
    ASSUME pending \subseteq Stage
    PROVE  /\ IsNext("security-scanner") => pending \subseteq AfterScan \cup {"security-scanner"}
           /\ IsNext("pii-detector") => "security-scanner" \notin pending
  <1>1. ASSUME IsNext("security-scanner")
        PROVE  pending \subseteq AfterScan \cup {"security-scanner"}
    <2>1. PICK i \in 1..20 : StageOrder[i] = "security-scanner"
                             /\ \A j \in 1..(i - 1) : StageOrder[j] \notin pending
      BY <1>1, Order DEF IsNext
    <2>2. i = 16 BY <2>1, Order, Stages
    <2>3. \A j \in 1..15 : StageOrder[j] \notin pending BY <2>1, <2>2
    <2>4. ASSUME NEW stage \in pending PROVE stage \in AfterScan \cup {"security-scanner"}
      <3>1. PICK k \in 1..20 : stage = StageOrder[k] BY Stages
      <3>2. k \notin 1..15 BY <2>3, <3>1
      <3>3. k = 16 \/ k = 17 \/ k = 18 \/ k = 19 \/ k = 20 BY <3>2
      <3> QED BY <3>1, <3>3, Order DEF AfterScan
    <2> QED BY <2>4
  <1>2. ASSUME IsNext("pii-detector") PROVE "security-scanner" \notin pending
    <2>1. PICK i \in 1..20 : StageOrder[i] = "pii-detector"
                             /\ \A j \in 1..(i - 1) : StageOrder[j] \notin pending
      BY <1>2, Order DEF IsNext
    <2>2. i = 17 BY <2>1, Order, Stages
    <2> QED BY <2>1, <2>2, Order
  <1> QED BY <1>1, <1>2

\* A stage makes a text of a text.
LEMMA EffectsAreTexts ==
    ASSUME NEW stage, NEW text \in Text, NEW result \in Effect(stage, text)
    PROVE  result \in Text
  <1> USE DEF Text, Trait
  <1>1. /\ "retrieved-context" \in Trait /\ "verification-warnings" \in Trait
        /\ "ensemble-routing" \in Trait /\ "domain-context" \in Trait /\ "system" \in Trait
        /\ "refinement-feedback" \in Trait /\ "validation-errors" \in Trait /\ "json" \in Trait
    BY DEF Section, Note, InJson
  <1> HIDE DEF Trait
  <1>2. CASE stage = "rag-injector" BY <1>1, <1>2 DEF Effect, RagInjector
  <1>3. CASE stage = "chain-of-verification" BY <1>1, <1>3 DEF Effect, ChainOfVerification
  <1>4. CASE stage = "ensemble-router" BY <1>1, <1>4 DEF Effect, EnsembleRouter
  <1>5. CASE stage = "domain-expert-prompts" BY <1>1, <1>5 DEF Effect, DomainExpertPrompts
  <1>6. CASE stage = "output-refinement-loop" BY <1>1, <1>6 DEF Effect, OutputRefinementLoop
  <1>7. CASE stage = "schema-enforcer" BY <1>7 DEF Effect, SchemaEnforcer
  <1>8. CASE stage = "deterministic-validator" BY <1>1, <1>8 DEF Effect, DeterministicValidator
  <1>9. CASE stage = "prompt-compiler"
    <2>1. result = PromptCompiler(text, Target) BY <1>9 DEF Effect
    <2> QED BY <2>1 DEF PromptCompiler
  <1>10. CASE stage = "context-compressor"
    <2>1. result \in ContextCompressor(text) BY <1>10 DEF Effect
    <2> QED BY <2>1 DEF ContextCompressor
  <1>11. CASE stage = "output-normalizer"
    <2>1. result = OutputNormalizer(text, Format) BY <1>11 DEF Effect
    <2> QED BY <1>1, <2>1 DEF OutputNormalizer
  <1>12. CASE stage = "code-formatter" BY <1>12 DEF Effect, CodeFormatter
  <1>13. CASE stage = "semantic-deduplicator" BY <1>13 DEF Effect, SemanticDeduplicator
  <1>14. CASE stage = "pii-detector" BY <1>14 DEF Effect, PiiDetector
  <1>15. CASE stage \notin {"rag-injector", "chain-of-verification", "ensemble-router",
                            "domain-expert-prompts", "output-refinement-loop",
                            "schema-enforcer", "deterministic-validator", "prompt-compiler",
                            "context-compressor", "output-normalizer", "code-formatter",
                            "semantic-deduplicator", "pii-detector"}
    BY <1>15 DEF Effect
  <1> QED BY <1>2, <1>3, <1>4, <1>5, <1>6, <1>7, <1>8, <1>9, <1>10, <1>11, <1>12, <1>13,
             <1>14, <1>15

\* After the scanner, only the detector touches the text, and takes personal data at most.
LEMMA ArmoursLeaveTheText ==
    ASSUME NEW stage \in AfterScan \cup {"security-scanner"}, NEW text,
           NEW result \in Effect(stage, text)
    PROVE  result = IF stage = "pii-detector" THEN PiiDetector(text, Redact) ELSE text
  BY DEF Effect, AfterScan

\* What a stage puts in the metadata: the cost never falls.
LEMMA MetadataIsKept ==
    ASSUME NEW stage, NEW meta \in Metadata, NEW text
    PROVE  /\ Remember(stage, meta, text) \in Metadata
           /\ Remember(stage, meta, text).cost >= meta.cost
           /\ Remember(stage, meta, text).executions = meta.executions
  <1> DEFINE Kept(m) == m \in Metadata /\ m.cost >= meta.cost /\ m.executions = meta.executions
  <1>1. /\ meta.cost \in Nat /\ meta.retryCount \in Nat /\ meta.model \in Model
        /\ CostOf \in [Model -> Nat]
    BY PipelineAssumption DEF Metadata
  <1>2. Kept(meta) BY <1>1
  <1>3. Kept(RetryEscalator(meta))
    <2> DEFINE counted == [meta EXCEPT !.retryCount = @ + 1]
    <2>1. PICK target : target = EscalationTarget(meta.model) OBVIOUS
    <2>2. target \in Model BY <2>1 DEF EscalationTarget, Model
    <2>3. Kept(counted) BY <1>1 DEF Metadata
    <2>4. RetryEscalator(meta) \in {meta, counted, [counted EXCEPT !.escalated = TRUE,
                                                                   !.recommended = target]}
      BY <2>1 DEF RetryEscalator
    <2> HIDE DEF counted
    <2>5. PICK m : m = [counted EXCEPT !.escalated = TRUE] OBVIOUS
    <2>6. Kept(m) BY <2>3, <2>5 DEF Metadata
    <2>7. [counted EXCEPT !.escalated = TRUE, !.recommended = target]
              = [m EXCEPT !.recommended = target]
      BY <2>5
    <2>8. Kept([m EXCEPT !.recommended = target]) BY <2>2, <2>6 DEF Metadata
    <2> HIDE DEF Kept
    <2> QED BY <1>2, <2>3, <2>4, <2>7, <2>8
  <1>4. Kept(CostLimiter(meta, text))
    <2>1. PICK price \in Nat : price = CostOf[meta.model] BY <1>1
    <2>2. RequestCost(meta, text) \in Nat BY <2>1 DEF RequestCost
    <2>3. PICK sum : sum = meta.cost + RequestCost(meta, text) OBVIOUS
    <2>4. sum \in Nat /\ sum >= meta.cost BY <1>1, <2>2, <2>3
    <2>5. CostLimiter(meta, text) = [meta EXCEPT !.cost = sum] BY <2>3 DEF CostLimiter
    <2> QED BY <2>4, <2>5 DEF Metadata
  <1>5. Kept(HumanEscalationGate(meta, text))
    <2>1. HumanEscalationGate(meta, text) \in {meta, [meta EXCEPT !.requiresHumanReview = TRUE]}
      BY DEF HumanEscalationGate
    <2>2. PICK m : m = [meta EXCEPT !.requiresHumanReview = TRUE] OBVIOUS
    <2>3. Kept(m) BY <1>2, <2>2 DEF Metadata
    <2> HIDE DEF Kept
    <2> QED BY <1>2, <2>1, <2>2, <2>3
  <1>6. Kept(Remember(stage, meta, text))
    <2> HIDE DEF Kept
    <2> QED BY <1>2, <1>3, <1>4, <1>5 DEF Remember
  <1> QED BY <1>6

\* The score the caller sees is a percentage.
LEMMA ScoresArePercentages ==
    ASSUME enabled \in SUBSET Stage, outcome \in Outcome, NEW confidence \in Int
    PROVE  FinalScore(confidence) \in 0..100
  <1>1. ASSUME NEW S \in SUBSET enabled, enabled # {}
        PROVE  (Cardinality(S) * 100) \div Cardinality(enabled) \in Int
    <2>1. IsFiniteSet(enabled) BY Stages, FS_Subset
    <2>2. IsFiniteSet(S) BY <2>1, FS_Subset
    <2>3. Cardinality(S) \in Nat /\ Cardinality(enabled) \in Nat /\ Cardinality(enabled) # 0
      BY <1>1, <2>1, <2>2, FS_CardinalityType, FS_EmptySet
    <2>4. PICK a, b : a = Cardinality(S) * 100 /\ b = Cardinality(enabled) OBVIOUS
    <2>5. a \in Nat /\ b \in Nat /\ b > 0 BY <2>3, <2>4
    <2>6. a \div b \in Int BY <2>5
    <2> QED BY <2>4, <2>6
  <1>2. RawScore(confidence) \in Int
    <2>1. outcome.failed \in SUBSET enabled /\ outcome.findings \in Nat BY DEF Outcome
    <2>2. (confidence - 50) \div 5 \in Int OBVIOUS
    <2>3. PICK lost : lost = (Cardinality(outcome.failed) * 100) \div Cardinality(enabled)
      OBVIOUS
    <2>4. enabled # {} => lost \in Int BY <1>1, <2>1, <2>3
    <2>5. PICK doubt : doubt = (confidence - 50) \div 5 OBVIOUS
    <2>6. RawScore(confidence) =
              IF enabled = {} THEN 100
              ELSE 100 - lost + (IF outcome.modified THEN 10 ELSE 0) - 5 * outcome.findings
                       - (IF outcome.review THEN 20 ELSE 0) + doubt
      BY <2>3, <2>5 DEF RawScore
    <2> QED BY <2>1, <2>2, <2>4, <2>5, <2>6
  <1>3. ASSUME NEW x \in Int PROVE Min({100, Max({0, x})}) \in 0..100
    <2> DEFINE high == IF x > 0 THEN x ELSE 0
               low == IF high < 100 THEN high ELSE 100
    <2>1. Max({0, x}) = high
      <3>1. high \in {0, x} /\ \A y \in {0, x} : high >= y OBVIOUS
      <3>2. \A z \in {0, x} : (\A y \in {0, x} : z >= y) => z = high OBVIOUS
      <3> HIDE DEF high
      <3> QED BY <3>1, <3>2 DEF Max
    <2>2. high \in Int /\ high >= 0 OBVIOUS
    <2> HIDE DEF high
    <2>3. Min({100, high}) = low
      <3>1. low \in {100, high} /\ \A y \in {100, high} : low <= y BY <2>2
      <3>2. \A z \in {100, high} : (\A y \in {100, high} : z <= y) => z = low BY <2>2
      <3> HIDE DEF low
      <3> QED BY <3>1, <3>2 DEF Min
    <2> QED BY <2>1, <2>2, <2>3
  <1> QED BY <1>2, <1>3 DEF FinalScore

\* A confidence is a number.
LEMMA ConfidenceIsANumber == ASSUME NEW text PROVE Confidence(text) \subseteq Int
  <1>1. \A end \in {"least", "most"} :
            /\ LengthSignal(text)[end] \in Int /\ CodeStructureSignal(text)[end] \in Int
            /\ CompletenessSignal[end] \in Int /\ HedgingSignal(text)[end] \in Int
            /\ ErrorHandlingSignal(text)[end] \in Int /\ DocumentationSignal(text)[end] \in Int
    BY DEF LengthSignal, CodeStructureSignal, CompletenessSignal, HedgingSignal,
           ErrorHandlingSignal, DocumentationSignal
  <1>2. \A end \in {"least", "most"} : Weighted(text, end) \in Int
    <2> SUFFICES ASSUME NEW end \in {"least", "most"} PROVE Weighted(text, end) \in Int
      OBVIOUS
    <2>1. PICK a, b, c, d, e, f :
              /\ a = LengthSignal(text)[end] /\ b = CodeStructureSignal(text)[end]
              /\ c = CompletenessSignal[end] /\ d = HedgingSignal(text)[end]
              /\ e = ErrorHandlingSignal(text)[end] /\ f = DocumentationSignal(text)[end]
      OBVIOUS
    <2>2. /\ a \in Int /\ b \in Int /\ c \in Int /\ d \in Int /\ e \in Int /\ f \in Int
      BY <1>1, <2>1
    <2>3. (10 * a + 15 * b + 25 * c + 20 * d + 15 * e + 15 * f) \div 100 \in Int BY <2>2
    <2> QED BY <2>1, <2>3 DEF Weighted
  <1> QED BY <1>2 DEF Confidence
(***************************************************************************)
(* What holds in every state: once the scanner has run nothing is left to  *)
(* run but the other armours, and what they have in hand is what it saw,   *)
(* without the personal data; before it has run the detector has not.      *)
(***************************************************************************)
ScannedAlready ==
    /\ pending \subseteq AfterScan
    /\ content \subseteq scanned
    /\ scanned \ content \subseteq {"pii"}
    /\ (Redact /\ "pii-detector" \in outcome.ran) => "pii" \notin content

PipelineInv ==
    /\ enabled \in SUBSET Stage
    /\ pending \subseteq enabled
    /\ content \in Text
    /\ scanned \in Text
    /\ metadata \in Metadata
    /\ outcome \in Outcome
    /\ "security-scanner" \in outcome.ran => ScannedAlready
    /\ "security-scanner" \in pending => "pii-detector" \notin outcome.ran

\* The final score is a percentage because the rest has its types.
LEMMA PipelineIsTyped == PipelineInv => PipelineTypeOK
  BY ScoresArePercentages, ConfidenceIsANumber DEF PipelineInv, PipelineTypeOK

\* What the armours report.
LEMMA ReportsAreCounts ==
    ASSUME NEW stage, NEW text
    PROVE  Findings(stage, text) \in Nat /\ LicenseChecker(text) \in Nat
  <1>1. ASSUME NEW S, IsFiniteSet(S) PROVE Cardinality(text \cap S) \in Nat
    BY <1>1, FS_Subset, FS_CardinalityType
  <1>2. /\ IsFiniteSet({"secret"} \cup {"danger"}) /\ IsFiniteSet({"license"})
        /\ IsFiniteSet({"pii"} \cup {"echoed pii"})
    BY FS_Singleton, FS_Union
  <1>3. /\ {"secret"} \cup {"danger"} = {"secret", "danger"}
        /\ {"pii"} \cup {"echoed pii"} = {"pii", "echoed pii"}
    OBVIOUS
  <1>4. /\ SecurityScanner(text) \in Nat /\ PiiFindings(text) \in Nat
        /\ LicenseChecker(text) \in Nat
    BY <1>1, <1>2, <1>3 DEF SecurityScanner, PiiFindings, LicenseChecker
  <1> QED BY <1>4 DEF Findings

\* An execution starts with every stage to run and none that has.
LEMMA ExecutionsStartAnew ==
    ASSUME PipelineInv, NEW input \in Inputs, NEW mark \in Marks, Execute(input, mark)
    PROVE  PipelineInv' /\ metadata'.cost = metadata.cost
  <1>1. /\ mark \in [retryRequested : BOOLEAN, highRisk : BOOLEAN, currentModel : Model]
        /\ input \in Text /\ MaxExecutions \in Nat
    BY PipelineAssumption
  <1>2. metadata \in Metadata /\ metadata.executions < MaxExecutions BY DEF PipelineInv, Execute
  <1>3. PICK a : a = [metadata EXCEPT !.retryRequested = mark.retryRequested] OBVIOUS
  <1>4. PICK b : b = [a EXCEPT !.highRisk = mark.highRisk] OBVIOUS
  <1>5. PICK c : c = [b EXCEPT !.model = mark.currentModel] OBVIOUS
  <1>6. a \in Metadata /\ a.executions = metadata.executions /\ a.cost = metadata.cost
    BY <1>1, <1>2, <1>3 DEF Metadata
  <1>7. b \in Metadata /\ b.executions = metadata.executions /\ b.cost = metadata.cost
    BY <1>1, <1>4, <1>6 DEF Metadata
  <1>8. c \in Metadata /\ c.executions = metadata.executions /\ c.cost = metadata.cost
    BY <1>1, <1>5, <1>7 DEF Metadata
  <1>9. metadata' = [c EXCEPT !.executions = @ + 1] BY <1>3, <1>4, <1>5 DEF Execute
  <1>10. c.executions + 1 \in 0..MaxExecutions
    <2>1. metadata.executions \in 0..MaxExecutions BY <1>2 DEF Metadata
    <2>2. PICK x \in 0..MaxExecutions : x = metadata.executions BY <2>1
    <2>3. x + 1 \in 0..MaxExecutions BY <1>1, <1>2, <2>2
    <2> QED BY <1>8, <2>2, <2>3
  <1>11. PICK d : d = c.executions + 1 OBVIOUS
  <1>12. metadata' = [c EXCEPT !.executions = d] BY <1>9, <1>11
  <1>13. metadata' \in Metadata /\ metadata'.cost = metadata.cost
    BY <1>8, <1>10, <1>11, <1>12 DEF Metadata
  <1>14. /\ pending' = enabled /\ content' = input /\ scanned' = {} /\ outcome' = NoOutcome
         /\ enabled' = enabled
    BY DEF Execute
  <1>15. outcome' \in Outcome' /\ outcome'.ran = {} BY <1>14 DEF NoOutcome, Outcome
  <1>16. scanned' \in Text' BY <1>14 DEF Text
  <1>17. enabled \in SUBSET Stage BY DEF PipelineInv
  <1> QED BY <1>1, <1>13, <1>14, <1>15, <1>16, <1>17 DEF PipelineInv, Metadata, Text

\* A stage that runs.
LEMMA StagesRun ==
    ASSUME PipelineInv, NEW stage \in Stage, StageRuns(stage)
    PROVE  PipelineInv' /\ metadata'.cost >= metadata.cost /\ metadata'.cost \in Nat
  <1>1. /\ stage \in pending /\ pending' = pending \ {stage} /\ enabled' = enabled
        /\ content' \in Effect(stage, content)
        /\ metadata' = Remember(stage, metadata, content)
        /\ scanned' = IF stage = "security-scanner" THEN content ELSE scanned
    BY DEF StageRuns, IsNext
  <1>2. pending \subseteq Stage /\ IsNext(stage) BY DEF PipelineInv, StageRuns
  <1>3. content' \in Text BY <1>1, EffectsAreTexts DEF PipelineInv
  <1>4. metadata' \in Metadata /\ metadata'.cost >= metadata.cost
    BY <1>1, MetadataIsKept DEF PipelineInv
  <1>5. outcome' \in Outcome /\ outcome'.ran = outcome.ran \cup {stage}
    <2>1. outcome \in Outcome /\ stage \in enabled BY <1>1 DEF PipelineInv
    <2>2. Findings(stage, content) \in Nat /\ LicenseChecker(content) \in Nat
      BY ReportsAreCounts
    <2>3. PICK found \in Nat : found = outcome.findings + Findings(stage, content)
      BY <2>1, <2>2 DEF Outcome
    <2>4. PICK licences \in Nat : licences = IF stage = "license-checker" THEN LicenseChecker(content)
                                                                       ELSE outcome.violations
      BY <2>1, <2>2 DEF Outcome
    <2>5. PICK changed \in BOOLEAN : changed = (outcome.modified \/ content' # content)
      OBVIOUS
    <2>6. PICK asked \in BOOLEAN :
              asked = (outcome.review \/ (stage = "human-escalation-gate"
                                            /\ RiskScore(metadata, content) >= RiskThreshold))
      OBVIOUS
    <2>7. PICK dead \in BOOLEAN :
              dead = (outcome.killed \/ (stage = "cost-limiter" /\ metadata'.cost > MaxCost))
      OBVIOUS
    <2>8. outcome' = [ran |-> outcome.ran \cup {stage}, failed |-> outcome.failed,
                      modified |-> changed, findings |-> found, violations |-> licences,
                      review |-> asked, killed |-> dead]
      BY <1>1, <2>3, <2>4, <2>5, <2>6, <2>7 DEF StageRuns
    <2> QED BY <2>1, <2>8 DEF Outcome
  <1>6. ASSUME "security-scanner" \in outcome'.ran PROVE ScannedAlready'
    <2>1. CASE stage = "security-scanner"
      <3>1. pending' \subseteq AfterScan BY <1>1, <1>2, <2>1, ScannerComesLate
      <3>2. content' = content /\ scanned' = content
        BY <1>1, <2>1, ArmoursLeaveTheText DEF AfterScan
      <3>3. "pii-detector" \notin outcome.ran BY <1>1, <2>1 DEF PipelineInv
      <3>4. "pii-detector" \notin outcome'.ran BY <1>5, <2>1, <3>3
      <3> QED BY <3>1, <3>2, <3>4 DEF ScannedAlready, AfterScan
    <2>2. CASE stage # "security-scanner"
      <3>1. ScannedAlready BY <1>5, <1>6, <2>2 DEF PipelineInv
      <3>2. stage \in AfterScan /\ pending' \subseteq AfterScan BY <1>1, <3>1 DEF ScannedAlready
      <3>3. content' = IF stage = "pii-detector" THEN PiiDetector(content, Redact) ELSE content
        BY <1>1, <3>2, ArmoursLeaveTheText
      <3>4. scanned' = scanned BY <1>1, <2>2
      <3>5. content' \subseteq content /\ content \ content' \subseteq {"pii"}
        BY <3>3 DEF PiiDetector
      <3>6. content' \subseteq scanned' /\ scanned' \ content' \subseteq {"pii"}
        BY <3>1, <3>4, <3>5 DEF ScannedAlready
      <3>7. (Redact /\ "pii-detector" \in outcome'.ran) => "pii" \notin content'
        BY <1>5, <3>1, <3>3, <3>5 DEF ScannedAlready, PiiDetector
      <3> QED BY <3>2, <3>6, <3>7 DEF ScannedAlready, AfterScan
    <2> QED BY <2>1, <2>2
  <1>7. "security-scanner" \in pending' => "pii-detector" \notin outcome'.ran
    <2>1. stage = "pii-detector" => "security-scanner" \notin pending
      BY <1>2, ScannerComesLate
    <2> QED BY <1>1, <1>5, <2>1 DEF PipelineInv
  <1>8. metadata'.cost \in Nat BY <1>4 DEF Metadata
  <1> QED
    <2>1. outcome' \in Outcome' /\ metadata' \in Metadata' /\ content' \in Text'
              /\ scanned' \in Text' /\ enabled' \in SUBSET Stage' /\ pending' \subseteq enabled'
      BY <1>1, <1>3, <1>4, <1>5 DEF PipelineInv, Outcome, Metadata, Text, Stage
    <2> QED BY <1>4, <1>6, <1>7, <1>8, <2>1 DEF PipelineInv

\* A stage that throws leaves the text.
LEMMA StagesThrow ==
    ASSUME PipelineInv, NEW stage \in Stage, StageThrows(stage)
    PROVE  PipelineInv' /\ outcome'.ran = outcome.ran
  <1>1. /\ stage \in pending /\ pending' = pending \ {stage}
        /\ outcome' = [outcome EXCEPT !.failed = @ \cup {stage}]
        /\ UNCHANGED <<enabled, content, metadata, scanned>>
    BY DEF StageThrows, IsNext
  <1>2. outcome \in Outcome /\ stage \in enabled BY <1>1 DEF PipelineInv
  <1>3. PICK failed : failed = outcome.failed \cup {stage} OBVIOUS
  <1>4. failed \in SUBSET enabled BY <1>2, <1>3 DEF Outcome
  <1>5. outcome' = [outcome EXCEPT !.failed = failed] BY <1>1, <1>3
  <1>6. outcome' \in Outcome /\ outcome'.ran = outcome.ran BY <1>2, <1>4, <1>5 DEF Outcome
  <1>7. outcome' \in Outcome' BY <1>1, <1>6 DEF Outcome
  <1> QED BY <1>1, <1>6, <1>7 DEF PipelineInv, ScannedAlready, AfterScan, Metadata, Text

\* A context of its own has nothing in it.
LEMMA ContextsStartAnew == ASSUME PipelineInv, NewContext PROVE PipelineInv' /\ metadata'.executions = 0
  <1>1. /\ pending' = {} /\ metadata' = NoMetadata /\ outcome' = NoOutcome
        /\ content' = {} /\ scanned' = {} /\ enabled' = enabled
    BY DEF NewContext, PipelineInv
  <1>2. NoMetadata \in Metadata BY PipelineAssumption DEF NoMetadata, Metadata, Model
  <1>3. outcome' \in Outcome' /\ outcome'.ran = {} BY <1>1 DEF NoOutcome, Outcome
  <1>4. content' \in Text' /\ scanned' \in Text' BY <1>1 DEF Text
  <1>5. metadata' \in Metadata' BY <1>1, <1>2 DEF Metadata
  <1>6. metadata'.executions = 0 BY <1>1 DEF NoMetadata
  <1> QED BY <1>1, <1>3, <1>4, <1>5, <1>6 DEF PipelineInv

\* Every step of the pipeline.
LEMMA NextPipeline == PipelineInv /\ [PipelineNext]_enhancementVars => PipelineInv'
  <1> SUFFICES ASSUME PipelineInv, [PipelineNext]_enhancementVars PROVE PipelineInv'
    OBVIOUS
  <1>1. ASSUME NEW input \in Inputs, NEW mark \in Marks, Execute(input, mark) PROVE PipelineInv'
    BY <1>1, ExecutionsStartAnew
  <1>2. ASSUME NEW stage \in Stage, StageRuns(stage) PROVE PipelineInv'
    BY <1>2, StagesRun
  <1>3. ASSUME NEW stage \in Stage, StageThrows(stage) PROVE PipelineInv'
    BY <1>3, StagesThrow
  <1>4. CASE NewContext BY <1>4, ContextsStartAnew
  <1>5. CASE UNCHANGED enhancementVars
    BY <1>5 DEF enhancementVars, PipelineInv, ScannedAlready, AfterScan, Metadata, Outcome, Text
  <1> QED BY <1>1, <1>2, <1>3, <1>4, <1>5 DEF PipelineNext

\* The pipeline keeps its types, and scores every text between 0 and 100.
THEOREM PipelineTypeCorrect == PipelineSpec => []PipelineInv
  <1>1. PipelineInit => PipelineInv
    <2> SUFFICES ASSUME PipelineInit PROVE PipelineInv
      OBVIOUS
    <2>1. enabled \in SUBSET Stage BY PipelineAssumption DEF PipelineInit
    <2>2. metadata \in Metadata
      BY PipelineAssumption DEF PipelineInit, NoMetadata, Metadata, Model
    <2>3. outcome \in Outcome /\ outcome.ran = {} BY DEF PipelineInit, NoOutcome, Outcome
    <2> QED BY <2>1, <2>2, <2>3 DEF PipelineInit, PipelineInv, Text
  <1> QED BY <1>1, NextPipeline, PTL DEF PipelineSpec

\* The types the run checks, with the score.
THEOREM ScoresStayPercentages == PipelineSpec => []PipelineTypeOK
  BY PipelineTypeCorrect, PipelineIsTyped, PTL

\* Whatever the codecs and amplifiers make of a text and whichever stage throws, what is
\* returned is what the scanner has looked at, without the personal data.
THEOREM ReturnedIsScanned == PipelineSpec => []ScannedIsReturned
  <1>1. PipelineInv => ScannedIsReturned BY DEF PipelineInv, ScannedAlready, ScannedIsReturned
  <1> QED BY <1>1, PipelineTypeCorrect, PTL

\* A step in a context that is over its budget.
LEMMA OverBudgetStays ==
    ASSUME PipelineInv, [PipelineNext]_enhancementVars,
           metadata.cost > MaxCost, metadata'.executions > 0
    PROVE  /\ metadata'.cost > MaxCost
           /\ "cost-limiter" \in outcome'.ran \ outcome.ran => outcome'.killed
  <1>1. metadata.cost \in Nat /\ MaxCost \in Nat
    BY PipelineAssumption DEF PipelineInv, Metadata
  <1>2. ASSUME NEW input \in Inputs, NEW mark \in Marks, Execute(input, mark)
        PROVE  metadata'.cost = metadata.cost /\ outcome'.ran = {}
    BY <1>2, ExecutionsStartAnew DEF Execute, NoOutcome
  <1>3. ASSUME NEW stage \in Stage, StageRuns(stage)
        PROVE  /\ metadata'.cost > MaxCost
               /\ "cost-limiter" \in outcome'.ran \ outcome.ran => outcome'.killed
    <2>1. metadata'.cost >= metadata.cost /\ metadata'.cost \in Nat BY <1>3, StagesRun
    <2>2. metadata'.cost > MaxCost BY <1>1, <2>1
    <2>3. /\ outcome'.ran = outcome.ran \cup {stage}
          /\ outcome'.killed = (outcome.killed \/ (stage = "cost-limiter" /\ metadata'.cost > MaxCost))
      BY <1>3 DEF StageRuns
    <2> QED BY <2>2, <2>3
  <1>4. ASSUME NEW stage \in Stage, StageThrows(stage)
        PROVE  metadata' = metadata /\ outcome'.ran = outcome.ran
    BY <1>4, StagesThrow DEF StageThrows
  <1>5. NewContext => metadata'.executions = 0 BY ContextsStartAnew
  <1>6. UNCHANGED enhancementVars => metadata' = metadata /\ outcome' = outcome
    BY DEF enhancementVars
  <1> QED BY <1>2, <1>3, <1>4, <1>5, <1>6 DEF PipelineNext

\* A context that is over its budget stays over it, and every later request of it that the
\* cost limiter sees is killed.
THEOREM BudgetIsNeverForgotten == PipelineSpec => BudgetStaysExceeded
  <1>1. PipelineInv /\ [PipelineNext]_enhancementVars
            => [(metadata.cost > MaxCost /\ metadata'.executions > 0) =>
                   /\ metadata'.cost > MaxCost
                   /\ "cost-limiter" \in outcome'.ran \ outcome.ran => outcome'.killed]_enhancementVars
    BY OverBudgetStays
  <1> QED BY <1>1, PipelineTypeCorrect, PTL DEF PipelineSpec, BudgetStaysExceeded

-----------------------------------------------------------------------------
(* The control plane side by side, as the run checks it.                   *)

\* A step of the control plane is a step of one part, and none to the others.
LEMMA StepsAreOfParts ==
    ASSUME [Next]_vars
    PROVE  /\ [JarvisNext]_jarvisVars /\ [ResolverNext]_resolverVars /\ [LimiterNext]_limiterVars
           /\ [ServiceNext]_serviceVars /\ [PipelineNext]_enhancementVars
           /\ part' = part
  <1> USE DEF ServiceNext, serviceVars
  <1>1. CASE UNCHANGED vars BY <1>1 DEF vars
  <1>2. CASE JarvisPart BY <1>2 DEF JarvisPart
  <1>3. CASE ResolverPart BY <1>3 DEF ResolverPart
  <1>4. CASE LimiterPart BY <1>4 DEF LimiterPart
  <1>5. CASE RegistryPart BY <1>5 DEF RegistryPart
  <1>6. CASE RouterPart BY <1>6 DEF RouterPart
  <1>7. CASE PipelinePart BY <1>7 DEF PipelinePart
  <1> QED BY <1>1, <1>2, <1>3, <1>4, <1>5, <1>6, <1>7 DEF Next

\* What the parts do side by side each of them does on its own; the registry and the router
\* of the run are one service.
THEOREM PartsKeepTheirSpecs ==
    Spec => /\ JarvisSpec /\ ResolverSpec /\ LimiterSpec /\ PipelineSpec
            /\ [][ServiceNext]_serviceVars
  <1>1. Init => JarvisInit /\ ResolverInit /\ LimiterInit /\ PipelineInit BY DEF Init
  <1>2. [Next]_vars => /\ [JarvisNext]_jarvisVars /\ [ResolverNext]_resolverVars
                       /\ [LimiterNext]_limiterVars /\ [PipelineNext]_enhancementVars
                       /\ [ServiceNext]_serviceVars
    BY StepsAreOfParts
  <1> QED BY <1>1, <1>2, PTL DEF Spec, JarvisSpec, ResolverSpec, LimiterSpec, PipelineSpec

\* Whether the registry starts empty or filled, the service starts as it goes on.
LEMMA ServiceStarts == Init => RouterInv
  <1> SUFFICES ASSUME Init PROVE RouterInv
    OBVIOUS
  <1>1. RegistryInv
    <2>1. CASE RegistryInit
      BY <2>1, RegistryAssumption
      DEF RegistryInit, RegistryInv, RegistryTypeOK, RegisteredRoutesAreFound, Unregistered
    <2>2. CASE FilledRegistry
      <3>1. r1 \in Route /\ r2 \in Route /\ t1 \in Tenant BY ControlAssumption
      <3>2. <<>> \in Seq(Route) OBVIOUS
      <3>3. <<r1, r2>> \in Seq(Route) BY <3>1
      <3>4. /\ routes = [r \in Route |-> [tenant |-> t1, active |-> TRUE]]
            /\ tenantRoutes = [t \in Tenant |-> IF t = t1 THEN <<r1, r2>> ELSE <<>>]
        BY <2>2 DEF FilledRegistry
      <3>5. RegistryTypeOK BY <3>1, <3>2, <3>3, <3>4 DEF RegistryTypeOK
      <3>6. \A r \in Route : routes[r].tenant = t1 BY <3>4
      <3>7. \A r \in Route : Contains(tenantRoutes[t1], r)
        <4>1. tenantRoutes[t1] = <<r1, r2>> BY <3>1, <3>4
        <4>2. Len(<<r1, r2>>) = 2 /\ <<r1, r2>>[1] = r1 /\ <<r1, r2>>[2] = r2 OBVIOUS
        <4>3. 1 \in 1..2 /\ 2 \in 1..2 OBVIOUS
        <4> QED BY <4>1, <4>2, <4>3, ControlAssumption DEF Contains
      <3> QED BY <3>1, <3>5, <3>6, <3>7 DEF RegistryInv, RegisteredRoutesAreFound
    <2> QED BY <2>1, <2>2 DEF Init
  <1>2. RouterInit BY DEF Init
  <1>3. HealthInv
    BY <1>2, RouterAssumption
    DEF RouterInit, HealthInv, HealthTypeOK, DisabledWithReason, Disabled
  <1>4. 0 \in 0 .. Turns - 1 BY RouterAssumption
  <1> QED BY <1>1, <1>2, <1>3, <1>4 DEF RouterInit, RouterInv

\* Side by side the parts of the control plane keep their types, and the routes of the
\* registry are found and no provider is disabled for less, filled registry or not.
THEOREM ControlTypeCorrect ==
    Spec => [](TypeOK /\ RegisteredRoutesAreFound /\ DisabledWithReason)
  <1>1. Spec => [](part \in Parts)
    <2>1. Init => part \in Parts BY DEF Init
    <2>2. part \in Parts /\ [Next]_vars => (part \in Parts)' BY StepsAreOfParts DEF Parts
    <2> QED BY <2>1, <2>2, PTL DEF Spec
  <1>2. Spec => []RouterInv
    <2>1. Spec => Init BY DEF Spec
    <2> QED BY <2>1, ServiceStarts, NextService, PartsKeepTheirSpecs, PTL
  <1>3. /\ JarvisInv => JarvisTypeOK
        /\ ResolverInv => ResolverTypeOK
        /\ LimiterInv => LimiterTypeOK
    BY DEF JarvisInv, JarvisTypeOK, SquadTypeOK, Placing, ResolverInv, LimiterInv
  <1>4. RouterInv => /\ RegistryTypeOK /\ RouterTypeOK
                     /\ RegisteredRoutesAreFound /\ DisabledWithReason
    BY DEF RouterInv, RegistryInv, HealthInv, HealthTypeOK, RouterTypeOK, UnderWay
  <1>5. (/\ part \in Parts /\ JarvisTypeOK /\ ResolverTypeOK /\ LimiterTypeOK /\ RegistryTypeOK
         /\ RouterTypeOK /\ PipelineTypeOK) => TypeOK
    BY DEF TypeOK
  <1> QED BY <1>1, <1>2, <1>3, <1>4, <1>5, PartsKeepTheirSpecs, JarvisTypeCorrect,
             ResolverTypeCorrect, LimiterTypeCorrect, ScoresStayPercentages, PTL

=============================================================================
