---------------------------- MODULE AuthorityDecay ----------------------------
(***************************************************************************)
(* packages/governance/src/authority-decay.ts: grants of authority that    *)
(* expire.  A timer throws expired ones away; checkAuthority looks at the  *)
(* clock itself.                                                           *)
(***************************************************************************)
EXTENDS Naturals, FiniteSets

CONSTANTS Grantee, Scope,
          MaxTime    \* bound: the clock stops there

ASSUME AuthorityAssumption == MaxTime \in Nat

VARIABLES grants,    \* agent -> its grants
          now        \* the clock

authorityVars == <<grants, now>>

Grant == [scope : Scope, expiresAt : 1..MaxTime]

AuthorityTypeOK ==
    /\ grants \in [Grantee -> SUBSET Grant]
    /\ now \in 0..MaxTime

AuthorityInit ==
    /\ grants = [a \in Grantee |-> {}]
    /\ now = 0

\* Nothing is asked of a grant that has expired already.
GiveGrant(a, g) ==
    /\ grants' = [grants EXCEPT ![a] = @ \cup {g}]
    /\ UNCHANGED now

CheckAuthority(a, scope) ==
    \E g \in grants[a] : g.scope = scope /\ g.expiresAt > now

Expired(g) == g.expiresAt <= now

ActiveOrNothing(a) ==   \* a defect: an agent with an expired grant is deleted
    IF \E g \in grants[a] : Expired(g) THEN {} ELSE grants[a]

Active(a) == {g \in grants[a] : ~Expired(g)}

RevokeExpired ==
    /\ grants' = [a \in Grantee |-> Active(a)]
    /\ UNCHANGED now

Tick ==
    /\ now < MaxTime
    /\ now' = now + 1
    /\ UNCHANGED grants

AuthorityNext ==
    \/ \E a \in Grantee, g \in Grant : GiveGrant(a, g)
    \/ RevokeExpired
    \/ Tick

AuthoritySpec == AuthorityInit /\ [][AuthorityNext]_authorityVars

\* Authority is lost only as time passes and gained only by a grant: when the timer
\* fires, and how often, makes no difference to anybody.
RevocationIsInvisible ==
    [][now' = now =>
           \A a \in Grantee, s \in Scope :
               /\ CheckAuthority(a, s) => CheckAuthority(a, s)'
               /\ CheckAuthority(a, s)' => \E g \in grants[a] \cup grants'[a] :
                                              g.scope = s /\ g.expiresAt > now]_authorityVars
=============================================================================
