--------------------------- MODULE EnrollmentProofs ---------------------------
(***************************************************************************)
(* For any number of hosts, invites, device ids, faults and restores: the  *)
(* registry is sound, invites are obeyed, revoked devices stay out, host   *)
(* and Controller agree on who is a member, and the passes of a replaced   *)
(* Controller enroll nobody.  In the end, the store that keeps the         *)
(* registry: what was acknowledged survives any crash.                     *)
(***************************************************************************)
EXTENDS Enrollment, ControlStore, FiniteSetTheorems, TLAPS

-----------------------------------------------------------------------------
(* The snapshot: what every transaction keeps.                             *)

\* WithinPass, of the passes `iss` made so far.
Pass(s, iss) ==
    /\ \A i \in Invites : Cardinality(ClaimsOf(s, i)) <= MaxClaims
    /\ \A d \in DeviceIds : s.claim[d] # None =>
          LET i == InviteOf(s, d) IN
          /\ s.at[d] # None /\ iss[i] # None /\ s.first[i] # None
          /\ iss[i] <= s.at[d] /\ s.at[d] < iss[i] + ValidFor
          /\ s.first[i] <= s.at[d]
          /\ s.at[d] <= s.first[i] \/ s.at[d] < s.first[i] + Window

\* A snapshot the Controller may hold when the passes iss have been made, the
\* ids mint handed out and the clock shows t.
Sound(s, iss, mint, t) ==
    /\ s \in Snapshot
    /\ ClaimDeviceAgree(s) /\ CatalogAgree(s) /\ OneClaimPerKey(s) /\ RevokedIsDead(s)
    /\ Pass(s, iss)
    /\ s.sites \subseteq s.known
    /\ \A i \in s.known : iss[i] # None
    /\ \A i \in Invites : s.first[i] # None => s.first[i] <= t
    /\ \A d \in DeviceIds : s.claim[d] # None => d \in mint


\* The registry before anything happened, and after a restore that was killed.
LEMMA EmptySound ==
    ASSUME NEW iss, NEW mint, NEW t
    PROVE  Sound(EmptySnapshot, iss, mint, t)
<1> DEFINE s == EmptySnapshot
<1>1. /\ s \in Snapshot /\ s.sites = {} /\ s.known = {} /\ s.revoked = {}
      /\ \A d \in DeviceIds : /\ s.claim[d] = None /\ s.device[d] = None
                              /\ s.owner[d] = None /\ s.catalog[d] = None
      /\ \A i \in Invites : s.first[i] = None
  <2>1. /\ s.sites = {} /\ s.known = {} /\ s.closed = {} /\ s.revoked = {} /\ s.deleted = {}
        /\ s.first = [i \in Invites |-> None] /\ s.claim = [d \in DeviceIds |-> None]
        /\ s.device = [d \in DeviceIds |-> None] /\ s.owner = [d \in DeviceIds |-> None]
        /\ s.at = [d \in DeviceIds |-> None] /\ s.catalog = [d \in DeviceIds |-> None]
        /\ s.paused = FALSE
    BY DEF EmptySnapshot
  <2>2. s \in Snapshot
    <3> DEFINE F == [i \in Invites |-> None]  D == [d \in DeviceIds |-> None]
    <3>1. /\ F \in [Invites -> Nat \cup {None}] /\ D \in [DeviceIds -> Status \cup {None}]
          /\ D \in [DeviceIds -> Hosts \cup {None}] /\ D \in [DeviceIds -> Nat \cup {None}]
          /\ D \in [DeviceIds -> {"active", "revoked", None}]
      OBVIOUS
    <3>2. s = [sites |-> {}, known |-> {}, closed |-> {}, revoked |-> {}, deleted |-> {},
               first |-> F, claim |-> D, device |-> D, owner |-> D, at |-> D, catalog |-> D,
               paused |-> FALSE]
      BY DEF EmptySnapshot
    <3> HIDE DEF F, D, s
    <3> QED  BY <3>1, <3>2 DEF Snapshot
  <2> QED  BY <2>1, <2>2
<1> HIDE DEF s
<1>2. \A i \in Invites : ClaimsOf(s, i) = {}
  BY <1>1 DEF ClaimsOf
<1>3. Pass(s, iss)
  <2>1. \A i \in Invites : Cardinality(ClaimsOf(s, i)) <= MaxClaims
    <3>1. Cardinality({}) = 0 /\ MaxClaims >= 0
      BY FS_EmptySet, ConstantsAssumption
    <3> QED  BY <1>2, <3>1, ConstantsAssumption
  <2> QED  BY <1>1, <2>1 DEF Pass
<1>4. ClaimDeviceAgree(s) /\ CatalogAgree(s) /\ OneClaimPerKey(s) /\ RevokedIsDead(s)
  BY <1>1, ConstantsAssumption
     DEF ClaimDeviceAgree, CatalogAgree, OneClaimPerKey, RevokedIsDead
<1>5. Sound(s, iss, mint, t)
  BY <1>1, <1>3, <1>4 DEF Sound
<1> QED  BY <1>5 DEF s

\* Invites may be added, closed and issued, ids handed out and time may pass.
LEMMA SoundGrows ==
    ASSUME NEW s, NEW iss, NEW mint, NEW t \in Nat, Sound(s, iss, mint, t),
           NEW n \in Snapshot, NEW iss2, NEW mint2, NEW t2 \in Nat,
           n.claim = s.claim, n.device = s.device, n.owner = s.owner, n.at = s.at,
           n.catalog = s.catalog, n.first = s.first, n.revoked = s.revoked,
           s.sites \subseteq n.sites, n.sites \subseteq n.known,
           \A i \in n.known : iss2[i] # None,
           \A i \in Invites : iss[i] # None => iss2[i] = iss[i],
           mint \subseteq mint2, t <= t2
    PROVE  Sound(n, iss2, mint2, t2)
<1>1. s \in Snapshot /\ \A d \in DeviceIds : InviteOf(n, d) = InviteOf(s, d)
  BY DEF Sound, InviteOf
<1>2. \A i \in Invites : ClaimsOf(n, i) = ClaimsOf(s, i)
  BY <1>1 DEF ClaimsOf
<1>3. Pass(n, iss2)
  <2>1. \A d \in DeviceIds : s.claim[d] # None => InviteOf(s, d) \in Invites
    BY ConstantsAssumption DEF Sound, ClaimDeviceAgree, InviteOf, Snapshot
  <2> QED  BY <1>1, <1>2, <2>1 DEF Sound, Pass
<1>4. ClaimDeviceAgree(n) /\ CatalogAgree(n) /\ OneClaimPerKey(n) /\ RevokedIsDead(n)
  BY <1>1 DEF Sound, ClaimDeviceAgree, CatalogAgree, OneClaimPerKey, RevokedIsDead
<1>5. \A i \in Invites : n.first[i] # None => n.first[i] <= t2
  BY ConstantsAssumption DEF Sound, Snapshot
<1> QED  BY <1>3, <1>4, <1>5 DEF Sound

\* The claims of an invite stay within bounds when they only become fewer.
LEMMA FewerClaims ==
    ASSUME NEW s, NEW n, NEW i \in Invites, ClaimsOf(n, i) \subseteq ClaimsOf(s, i),
           Cardinality(ClaimsOf(s, i)) <= MaxClaims
    PROVE  Cardinality(ClaimsOf(n, i)) <= MaxClaims
<1>1. IsFiniteSet(ClaimsOf(s, i)) /\ IsFiniteSet(ClaimsOf(n, i))
  <2>1. ClaimsOf(s, i) \subseteq DeviceIds /\ ClaimsOf(n, i) \subseteq DeviceIds
    BY DEF ClaimsOf
  <2> QED  BY <2>1, FS_Subset, ConstantsAssumption
<1>2. Cardinality(ClaimsOf(n, i)) <= Cardinality(ClaimsOf(s, i))
  BY <1>1, FS_Subset
<1>3. Cardinality(ClaimsOf(n, i)) \in Nat /\ Cardinality(ClaimsOf(s, i)) \in Nat
  BY <1>1, FS_CardinalityType
<1> QED  BY <1>2, <1>3, ConstantsAssumption

\* A transaction may end or drop claims, as long as the parts still agree.
LEMMA SoundShrinks ==
    ASSUME NEW s, NEW iss, NEW mint, NEW t, Sound(s, iss, mint, t), NEW n \in Snapshot,
           n.sites = s.sites, n.known = s.known,
           ClaimDeviceAgree(n), CatalogAgree(n), RevokedIsDead(n),
           \A d \in DeviceIds : n.claim[d] # None =>
               /\ s.claim[d] # None /\ n.owner[d] = s.owner[d] /\ n.at[d] = s.at[d]
               /\ n.first[InviteOf(s, d)] = s.first[InviteOf(s, d)],
           \A i \in Invites : n.first[i] # None => n.first[i] = s.first[i]
    PROVE  Sound(n, iss, mint, t)
<1>1. \A d \in DeviceIds : n.claim[d] # None => InviteOf(n, d) = InviteOf(s, d)
  BY DEF InviteOf
<1>2. \A i \in Invites : ClaimsOf(n, i) \subseteq ClaimsOf(s, i)
  BY <1>1 DEF ClaimsOf
<1>3. \A i \in Invites : Cardinality(ClaimsOf(n, i)) <= MaxClaims
  BY <1>2, FewerClaims DEF Sound, Pass
<1>4. Pass(n, iss)
  BY <1>1, <1>3 DEF Sound, Pass
<1>5. OneClaimPerKey(n)
  BY DEF Sound, OneClaimPerKey
<1> QED  BY <1>4, <1>5 DEF Sound

\* What claim_with_ceiling has checked of a new key, for the passes iss at time t.
MayClaim(s, iss, h, t) ==
    LET i == SiteFile[h] IN
    /\ SiteKnown(s, i) /\ i \notin s.revoked /\ ClaimsBy(s, h) = {}
    /\ iss[i] <= t /\ t < iss[i] + ValidFor
    /\ s.first[i] # None => t < s.first[i] + Window
    /\ Cardinality(ClaimsOf(s, i)) < MaxClaims

\* The claim transaction: a new key, an open window and a fresh id.
LEMMA ClaimSound ==
    ASSUME NEW s, NEW iss \in [Invites -> Nat \cup {None}], NEW mint, NEW t \in Nat,
           Sound(s, iss, mint, t), NEW h \in Hosts, NEW d \in DeviceIds, d \notin mint,
           MayClaim(s, iss, h, t)
    PROVE  /\ Sound(Claim(s, h, d, t), iss, mint \cup {d}, t)
           /\ Claim(s, h, d, t).owner = [s.owner EXCEPT ![d] = h]
           /\ Claim(s, h, d, t).device = [s.device EXCEPT ![d] = "pending"]
           /\ s.owner[d] = None /\ s.device[d] = None
           /\ Claim(s, h, d, t).sites = s.sites /\ Claim(s, h, d, t).closed = s.closed
           /\ Claim(s, h, d, t).paused = s.paused
           /\ Claim(s, h, d, t).claim = [s.claim EXCEPT ![d] = "pending"]
<1> USE DEF MayClaim
<1> DEFINE n == Claim(s, h, d, t)  i == SiteFile[h]
<1> DEFINE f == IF s.first[i] = None THEN t ELSE s.first[i]
<1>1. s \in Snapshot /\ i \in Invites /\ f \in Nat
  BY ConstantsAssumption DEF Sound, Snapshot
<1>2. /\ n.known = s.known \cup {i} /\ n.first = [s.first EXCEPT ![i] = f]
      /\ n.claim = [s.claim EXCEPT ![d] = "pending"]
      /\ n.device = [s.device EXCEPT ![d] = "pending"]
      /\ n.owner = [s.owner EXCEPT ![d] = h] /\ n.at = [s.at EXCEPT ![d] = t]
      /\ n.sites = s.sites /\ n.closed = s.closed /\ n.revoked = s.revoked
      /\ n.deleted = s.deleted /\ n.catalog = s.catalog /\ n.paused = s.paused
  BY <1>1 DEF Claim, Snapshot
<1>3. n \in Snapshot
  <2> DEFINE C == [s.claim EXCEPT ![d] = "pending"]  D == [s.device EXCEPT ![d] = "pending"]
             O == [s.owner EXCEPT ![d] = h]  A == [s.at EXCEPT ![d] = t]
             F == [s.first EXCEPT ![i] = f]
  <2>1. /\ C \in [DeviceIds -> Status \cup {None}] /\ D \in [DeviceIds -> Status \cup {None}]
        /\ O \in [DeviceIds -> Hosts \cup {None}] /\ A \in [DeviceIds -> Nat \cup {None}]
        /\ F \in [Invites -> Nat \cup {None}]
    BY <1>1 DEF Snapshot, Status
  <2>2. n = [s EXCEPT !.known = @ \cup {i}, !.first = F, !.claim = C, !.device = D,
                      !.owner = O, !.at = A]
    BY <1>1 DEF Claim, Snapshot
  <2> HIDE DEF C, D, O, A, F, n
  <2> QED  BY <1>1, <2>1, <2>2 DEF Snapshot
<1>4. s.claim[d] = None /\ s.device[d] = None /\ s.owner[d] = None /\ s.catalog[d] = None
  BY DEF Sound, ClaimDeviceAgree, CatalogAgree
<1> HIDE DEF n, f
<1>5. \A e \in DeviceIds :
        IF e = d THEN /\ n.claim[e] = "pending" /\ n.device[e] = "pending"
                      /\ n.owner[e] = h /\ n.at[e] = t
        ELSE /\ n.claim[e] = s.claim[e] /\ n.device[e] = s.device[e]
             /\ n.owner[e] = s.owner[e] /\ n.at[e] = s.at[e]
  BY <1>1, <1>2 DEF Snapshot
<1>6. \A e \in DeviceIds : InviteOf(n, e) = IF e = d THEN i ELSE InviteOf(s, e)
  BY <1>5 DEF InviteOf
<1>7. ClaimDeviceAgree(n)
  BY <1>5, ConstantsAssumption DEF Sound, ClaimDeviceAgree
<1>8. CatalogAgree(n)
  BY <1>2, <1>4, <1>5, <1>6 DEF Sound, CatalogAgree
<1>9. OneClaimPerKey(n)
  BY <1>5 DEF Sound, OneClaimPerKey, ClaimsBy
<1>10. RevokedIsDead(n)
  BY <1>2, <1>5, <1>6 DEF Sound, RevokedIsDead
<1>11. \A j \in Invites : Cardinality(ClaimsOf(n, j)) <= MaxClaims
  <2> SUFFICES ASSUME NEW j \in Invites PROVE Cardinality(ClaimsOf(n, j)) <= MaxClaims
    OBVIOUS
  <2>1. CASE j = i
    <3>1. ClaimsOf(n, i) = ClaimsOf(s, i) \cup {d} /\ d \notin ClaimsOf(s, i)
      BY <1>4, <1>5, <1>6, ConstantsAssumption DEF ClaimsOf
    <3>2. ClaimsOf(s, i) \subseteq DeviceIds
      BY DEF ClaimsOf
    <3>3. IsFiniteSet(ClaimsOf(s, i)) /\ Cardinality(ClaimsOf(s, i)) \in Nat
      BY <3>2, FS_Subset, FS_CardinalityType, ConstantsAssumption
    <3>4. Cardinality(ClaimsOf(n, i)) = Cardinality(ClaimsOf(s, i)) + 1
      BY <3>1, <3>3, FS_AddElement
    <3> QED  BY <2>1, <3>3, <3>4, ConstantsAssumption
  <2>2. CASE j # i
    <3>1. ClaimsOf(n, j) \subseteq ClaimsOf(s, j)
      BY <1>5, <1>6, <2>2 DEF ClaimsOf
    <3> QED  BY <3>1, FewerClaims DEF Sound, Pass
  <2> QED  BY <2>1, <2>2
<1>12. /\ n.first[i] = f /\ \A j \in Invites : j # i => n.first[j] = s.first[j]
       /\ f <= t /\ (f = t \/ t < f + Window)
       /\ s.first[i] # None => f = s.first[i]
  BY <1>1, <1>2, ConstantsAssumption DEF Sound, Snapshot, f
<1>13. iss[i] # None /\ f # None /\ t # None
  BY <1>1, ConstantsAssumption DEF Sound, SiteKnown
<1>14. ASSUME NEW e \in DeviceIds, n.claim[e] # None
       PROVE  LET j == InviteOf(n, e) IN
              /\ n.at[e] # None /\ iss[j] # None /\ n.first[j] # None
              /\ iss[j] <= n.at[e] /\ n.at[e] < iss[j] + ValidFor
              /\ n.first[j] <= n.at[e]
              /\ n.at[e] <= n.first[j] \/ n.at[e] < n.first[j] + Window
  <2>1. CASE e = d
    BY <1>5, <1>6, <1>12, <1>13, <2>1
  <2>2. CASE e # d
    <3> DEFINE j == InviteOf(s, e)
    <3>1. s.claim[e] # None /\ n.at[e] = s.at[e] /\ InviteOf(n, e) = j
      BY <1>5, <1>6, <1>14, <2>2
    <3>2. /\ s.at[e] # None /\ iss[j] # None /\ s.first[j] # None
          /\ iss[j] <= s.at[e] /\ s.at[e] < iss[j] + ValidFor
          /\ s.first[j] <= s.at[e]
          /\ s.at[e] <= s.first[j] \/ s.at[e] < s.first[j] + Window
      BY <3>1 DEF Sound, Pass
    <3>3. j \in Invites
      BY <3>1, ConstantsAssumption DEF Sound, ClaimDeviceAgree, InviteOf, Snapshot
    <3>4. n.first[j] = s.first[j]
      BY <1>12, <3>2, <3>3
    <3> QED  BY <3>1, <3>2, <3>4
  <2> QED  BY <2>1, <2>2
<1>15. Pass(n, iss)
  BY <1>11, <1>14 DEF Pass
<1>16. /\ n.sites \subseteq n.known /\ \A j \in n.known : iss[j] # None
       /\ \A j \in Invites : n.first[j] # None => n.first[j] <= t
       /\ \A e \in DeviceIds : n.claim[e] # None => e \in mint \cup {d}
  BY <1>2, <1>5, <1>12, <1>13 DEF Sound
<1>17. Sound(n, iss, mint \cup {d}, t)
  BY <1>3, <1>7, <1>8, <1>9, <1>10, <1>15, <1>16 DEF Sound
<1> QED  BY <1>2, <1>4, <1>17 DEF n

\* finalize_host_persist and finalize_persisted: a claim that is not revoked.
LEMMA FinalizeSound ==
    ASSUME NEW s, NEW iss, NEW mint, NEW t, Sound(s, iss, mint, t),
           NEW h \in Hosts, NEW d \in DeviceIds, CanFinalize(s, h, d)
    PROVE  /\ Sound(Finalize(s, d), iss, mint, t)
           /\ Finalize(s, d).device = [s.device EXCEPT ![d] = "active"]
           /\ Finalize(s, d).owner = s.owner
           /\ s.owner[d] \in Hosts /\ s.device[d] \in {"pending", "active"}
           /\ \A e \in DeviceIds : Finalize(s, d).claim[e] # None => s.claim[e] # None
           /\ Finalize(s, d).sites = s.sites /\ Finalize(s, d).closed = s.closed
           /\ Finalize(s, d).paused = s.paused
<1> DEFINE n == Finalize(s, d)
<1>1. /\ s \in Snapshot /\ s.claim[d] \in {"pending", "active"}
      /\ InviteOf(s, d) = SiteFile[h] /\ SiteFile[h] \notin s.revoked /\ SiteFile[h] \in s.sites
  BY DEF Sound, CanFinalize, ClaimsOf, SiteKnown
<1>2. /\ n.claim = [s.claim EXCEPT ![d] = "active"]
      /\ n.device = [s.device EXCEPT ![d] = "active"]
      /\ n.catalog = [s.catalog EXCEPT ![d] = "active"]
      /\ n.sites = s.sites /\ n.known = s.known /\ n.closed = s.closed
      /\ n.revoked = s.revoked /\ n.first = s.first /\ n.owner = s.owner /\ n.at = s.at
      /\ n.paused = s.paused
  BY <1>1 DEF Finalize, Snapshot
<1>3. n \in Snapshot
  BY <1>1 DEF Finalize, Snapshot, Status
<1> HIDE DEF n
<1>4. \A e \in DeviceIds :
        /\ InviteOf(n, e) = InviteOf(s, e)
        /\ IF e = d THEN n.claim[e] = "active" /\ n.device[e] = "active" /\ n.catalog[e] = "active"
           ELSE n.claim[e] = s.claim[e] /\ n.device[e] = s.device[e] /\ n.catalog[e] = s.catalog[e]
  BY <1>1, <1>2 DEF Snapshot, InviteOf
<1>5. s.claim[d] # None /\ s.device[d] = s.claim[d] /\ s.owner[d] \in Hosts
  BY <1>1, ConstantsAssumption DEF Sound, ClaimDeviceAgree, Snapshot
<1>6. ClaimDeviceAgree(n)
  BY <1>2, <1>4, <1>5, ConstantsAssumption DEF Sound, ClaimDeviceAgree
<1>7. CatalogAgree(n)
  BY <1>1, <1>2, <1>4 DEF Sound, CatalogAgree
<1>8. RevokedIsDead(n)
  BY <1>1, <1>2, <1>4 DEF Sound, RevokedIsDead
<1>9. \A e \in DeviceIds : n.claim[e] # None => s.claim[e] # None
  BY <1>4, <1>5
<1>10. Sound(n, iss, mint, t)
  <2>1. /\ n.sites = s.sites /\ n.known = s.known
        /\ \A e \in DeviceIds : n.claim[e] # None =>
               /\ s.claim[e] # None /\ n.owner[e] = s.owner[e] /\ n.at[e] = s.at[e]
               /\ n.first[InviteOf(s, e)] = s.first[InviteOf(s, e)]
        /\ \A i \in Invites : n.first[i] # None => n.first[i] = s.first[i]
    BY <1>2, <1>9
  <2> QED  BY <1>3, <1>6, <1>7, <1>8, <2>1, SoundShrinks
<1> QED  BY <1>1, <1>2, <1>5, <1>9, <1>10 DEF n

\* invite revocation: every claim of the invite, activated or not.
LEMMA RevokeInviteSound ==
    ASSUME NEW s, NEW iss, NEW mint, NEW t, Sound(s, iss, mint, t), NEW i \in Invites
    PROVE  LET n == RevokeInvite(s, i) IN
           /\ Sound(n, iss, mint, t)
           /\ \A d \in DeviceIds :
                /\ n.device[d] = IF d \in ClaimsOf(s, i) THEN "revoked" ELSE s.device[d]
                /\ n.claim[d] # None => s.claim[d] # None
           /\ n.owner = s.owner /\ n.sites = s.sites /\ n.paused = s.paused
           /\ n.closed = s.closed \cup {i}
<1> DEFINE n == RevokeInvite(s, i)  ds == ClaimsOf(s, i)
<1> DEFINE C == [d \in DeviceIds |-> IF d \in ds THEN "revoked" ELSE s.claim[d]]
           D == [d \in DeviceIds |-> IF d \in ds /\ s.device[d] # None THEN "revoked"
                                     ELSE s.device[d]]
           G == [d \in DeviceIds |-> IF d \in ds /\ s.catalog[d] # None THEN "revoked"
                                     ELSE s.catalog[d]]
<1>1. s \in Snapshot /\ ds \subseteq DeviceIds
  BY DEF Sound, ClaimsOf
<1>2. n = [s EXCEPT !.closed = @ \cup {i}, !.revoked = @ \cup {i},
                    !.claim = C, !.device = D, !.catalog = G]
  BY DEF RevokeInvite
<1>3. /\ C \in [DeviceIds -> Status \cup {None}] /\ D \in [DeviceIds -> Status \cup {None}]
      /\ G \in [DeviceIds -> {"active", "revoked", None}]
  BY <1>1 DEF Snapshot, Status
<1>4. \A d \in DeviceIds : /\ C[d] = IF d \in ds THEN "revoked" ELSE s.claim[d]
                           /\ D[d] = IF d \in ds /\ s.device[d] # None THEN "revoked"
                                     ELSE s.device[d]
                           /\ G[d] = IF d \in ds /\ s.catalog[d] # None THEN "revoked"
                                     ELSE s.catalog[d]
  OBVIOUS
<1> HIDE DEF C, D, G, n
<1>5. /\ n \in Snapshot /\ n.claim = C /\ n.device = D /\ n.catalog = G
      /\ n.sites = s.sites /\ n.known = s.known /\ n.closed = s.closed \cup {i}
      /\ n.revoked = s.revoked \cup {i} /\ n.first = s.first /\ n.owner = s.owner
      /\ n.at = s.at /\ n.paused = s.paused
  BY <1>1, <1>2, <1>3 DEF Snapshot
<1>6. \A d \in DeviceIds : /\ InviteOf(n, d) = InviteOf(s, d)
                           /\ d \in ds <=> s.claim[d] # None /\ InviteOf(s, d) = i
                           /\ s.claim[d] = s.device[d]
  BY <1>5 DEF InviteOf, ClaimsOf, Sound, ClaimDeviceAgree
<1>7. ClaimDeviceAgree(n)
  BY <1>4, <1>5, <1>6, ConstantsAssumption DEF Sound, ClaimDeviceAgree
<1>8. CatalogAgree(n)
  BY <1>4, <1>5, <1>6 DEF Sound, CatalogAgree
<1>9. RevokedIsDead(n)
  BY <1>4, <1>5, <1>6 DEF Sound, RevokedIsDead
<1>10. \A d \in DeviceIds : n.claim[d] # None => s.claim[d] # None
  BY <1>4, <1>5, <1>6
<1>11. Sound(n, iss, mint, t)
  BY <1>5, <1>7, <1>8, <1>9, <1>10, SoundShrinks
<1>12. \A d \in DeviceIds : n.device[d] = IF d \in ds THEN "revoked" ELSE s.device[d]
  BY <1>4, <1>5, <1>6
<1> QED  BY <1>5, <1>10, <1>11, <1>12 DEF n

\* delete_invite_history: the invite's claims and devices disappear.
LEMMA DeleteInviteSound ==
    ASSUME NEW s, NEW iss, NEW mint, NEW t, Sound(s, iss, mint, t), NEW i \in Invites
    PROVE  LET n == DeleteInviteHistory(s, i) IN
           /\ Sound(n, iss, mint, t)
           /\ ClaimsOf(s, i) = DevicesOf(s, i)
           /\ \A d \in DeviceIds :
                /\ n.device[d] = IF d \in ClaimsOf(s, i) THEN None ELSE s.device[d]
                /\ n.owner[d] = IF d \in ClaimsOf(s, i) THEN None ELSE s.owner[d]
                /\ n.claim[d] # None => s.claim[d] # None
           /\ n.sites = s.sites /\ n.paused = s.paused /\ n.closed = s.closed \cup {i}
<1> DEFINE n == DeleteInviteHistory(s, i)  ds == ClaimsOf(s, i)
<1> DEFINE C == [d \in DeviceIds |-> IF d \in ds THEN None ELSE s.claim[d]]
           D == [d \in DeviceIds |-> IF d \in ds THEN None ELSE s.device[d]]
           O == [d \in DeviceIds |-> IF d \in ds THEN None ELSE s.owner[d]]
           A == [d \in DeviceIds |-> IF d \in ds THEN None ELSE s.at[d]]
           G == [d \in DeviceIds |-> IF d \in ds THEN None ELSE s.catalog[d]]
           F == [s.first EXCEPT ![i] = None]
<1>1. s \in Snapshot /\ DevicesOf(s, i) = ds
  BY DEF Sound, ClaimsOf, DevicesOf, ClaimDeviceAgree
<1>2. n = [s EXCEPT !.closed = @ \cup {i}, !.revoked = @ \cup {i}, !.deleted = @ \cup {i},
                    !.first = F, !.claim = C, !.device = D,
                    !.owner = O, !.at = A,
                    !.catalog = G]
  <2>1. ClaimsOf(s, i) \cup DevicesOf(s, i) = ds
    BY <1>1
  <2> QED  BY ZenonT(60), <1>1, <2>1 DEF DeleteInviteHistory, Snapshot
<1>3. /\ C \in [DeviceIds -> Status \cup {None}]
      /\ D \in [DeviceIds -> Status \cup {None}]
      /\ O \in [DeviceIds -> Hosts \cup {None}]
      /\ A \in [DeviceIds -> Nat \cup {None}]
      /\ G \in [DeviceIds -> {"active", "revoked", None}]
      /\ F \in [Invites -> Nat \cup {None}]
  BY <1>1 DEF Snapshot, Status
<1>4. \A d \in DeviceIds :
        IF d \in ds THEN C[d] = None /\ D[d] = None /\ O[d] = None /\ G[d] = None
        ELSE /\ C[d] = s.claim[d] /\ D[d] = s.device[d] /\ O[d] = s.owner[d]
             /\ A[d] = s.at[d] /\ G[d] = s.catalog[d]
  OBVIOUS
<1>5. \A j \in Invites : F[j] = IF j = i THEN None ELSE s.first[j]
  BY <1>1 DEF Snapshot
<1> HIDE DEF C, D, O, A, G, F, n
<1>6. /\ n \in Snapshot /\ n.claim = C /\ n.device = D
      /\ n.owner = O /\ n.at = A /\ n.catalog = G
      /\ n.first = F /\ n.sites = s.sites /\ n.known = s.known
      /\ n.closed = s.closed \cup {i} /\ n.revoked = s.revoked \cup {i}
      /\ n.paused = s.paused
  <2>1. /\ n.sites = s.sites /\ n.known = s.known /\ n.closed = s.closed \cup {i}
        /\ n.revoked = s.revoked \cup {i} /\ n.paused = s.paused
        /\ n.first = F /\ n.claim = C /\ n.device = D /\ n.owner = O /\ n.at = A
        /\ n.catalog = G
    BY <1>1, <1>2 DEF Snapshot
  <2>2. n \in Snapshot
    <3> DEFINE m == [s EXCEPT !.closed = @ \cup {i}, !.revoked = @ \cup {i},
                              !.deleted = @ \cup {i}, !.first = F]
    <3>1. m \in Snapshot
      BY ZenonT(60), <1>1, <1>3 DEF Snapshot
    <3>2. n = [m EXCEPT !.claim = C, !.device = D, !.owner = O, !.at = A, !.catalog = G]
      BY <1>1, <1>2 DEF Snapshot
    <3> HIDE DEF m
    <3> QED  BY <1>3, <3>1, <3>2 DEF Snapshot
  <2> QED  BY <2>1, <2>2
<1>7. \A d \in DeviceIds :
        IF d \in ds THEN /\ n.claim[d] = None /\ n.device[d] = None /\ n.owner[d] = None
                         /\ n.catalog[d] = None
        ELSE /\ n.claim[d] = s.claim[d] /\ n.device[d] = s.device[d]
             /\ n.owner[d] = s.owner[d] /\ n.catalog[d] = s.catalog[d] /\ n.at[d] = s.at[d]
             /\ InviteOf(n, d) = InviteOf(s, d)
             /\ s.claim[d] # None => InviteOf(s, d) # i
  BY <1>4, <1>6 DEF InviteOf, ClaimsOf
<1>8. ClaimDeviceAgree(n)
  BY <1>7 DEF Sound, ClaimDeviceAgree
<1>9. CatalogAgree(n)
  BY <1>6, <1>7, ConstantsAssumption DEF Sound, CatalogAgree
<1>10. RevokedIsDead(n)
  BY <1>6, <1>7 DEF Sound, RevokedIsDead
<1>11. \A d \in DeviceIds : s.claim[d] # None => InviteOf(s, d) \in Invites
  BY ConstantsAssumption DEF Sound, ClaimDeviceAgree, InviteOf, Snapshot
<1>12. \A d \in DeviceIds : n.claim[d] # None =>
           /\ s.claim[d] # None /\ n.owner[d] = s.owner[d] /\ n.at[d] = s.at[d]
           /\ n.first[InviteOf(s, d)] = s.first[InviteOf(s, d)]
  BY <1>5, <1>6, <1>7, <1>11
<1>13. \A j \in Invites : n.first[j] # None => n.first[j] = s.first[j]
  BY <1>5, <1>6
<1>14. Sound(n, iss, mint, t)
  BY <1>6, <1>8, <1>9, <1>10, <1>12, <1>13, SoundShrinks
<1> QED  BY <1>1, <1>6, <1>7, <1>12, <1>14 DEF n

\* DeviceRevoke: claim, device and catalog entry together.
LEMMA RevokeDeviceSound ==
    ASSUME NEW s, NEW iss, NEW mint, NEW t, Sound(s, iss, mint, t), NEW d \in DeviceIds,
           CanRevokeDevice(s, d)
    PROVE  LET n == RevokeDevice(s, d) IN
           /\ Sound(n, iss, mint, t)
           /\ n.device = [s.device EXCEPT ![d] = "revoked"]
           /\ n.owner = s.owner /\ n.sites = s.sites /\ n.closed = s.closed
           /\ n.paused = s.paused /\ s.claim[d] # None
           /\ \A e \in DeviceIds : n.claim[e] # None => s.claim[e] # None
<1> DEFINE n == RevokeDevice(s, d)
<1>1. s \in Snapshot /\ s.device[d] # None /\ s.claim[d] # None /\ s.catalog[d] # None
  BY DEF Sound, CanRevokeDevice, ClaimDeviceAgree
<1>2. n = [s EXCEPT !.device[d] = "revoked", !.catalog[d] = "revoked", !.claim[d] = "revoked"]
  BY <1>1 DEF RevokeDevice, Snapshot
<1>3. /\ n.claim = [s.claim EXCEPT ![d] = "revoked"]
      /\ n.device = [s.device EXCEPT ![d] = "revoked"]
      /\ n.catalog = [s.catalog EXCEPT ![d] = "revoked"]
      /\ n.sites = s.sites /\ n.known = s.known /\ n.closed = s.closed
      /\ n.revoked = s.revoked /\ n.first = s.first /\ n.owner = s.owner /\ n.at = s.at
      /\ n.paused = s.paused
  BY <1>1, <1>2 DEF Snapshot
<1>4. n \in Snapshot
  <2> DEFINE C == [s.claim EXCEPT ![d] = "revoked"]  D == [s.device EXCEPT ![d] = "revoked"]
             G == [s.catalog EXCEPT ![d] = "revoked"]
  <2>1. /\ C \in [DeviceIds -> Status \cup {None}] /\ D \in [DeviceIds -> Status \cup {None}]
        /\ G \in [DeviceIds -> {"active", "revoked", None}]
    BY <1>1 DEF Snapshot, Status
  <2>2. n = [s EXCEPT !.device = D, !.catalog = G, !.claim = C]
    BY <1>1, <1>2 DEF Snapshot
  <2> HIDE DEF C, D, G, n
  <2> QED  BY <1>1, <2>1, <2>2 DEF Snapshot
<1> HIDE DEF n
<1>5. \A e \in DeviceIds :
        /\ InviteOf(n, e) = InviteOf(s, e)
        /\ IF e = d THEN /\ n.claim[e] = "revoked" /\ n.device[e] = "revoked"
                         /\ n.catalog[e] = "revoked"
           ELSE n.claim[e] = s.claim[e] /\ n.device[e] = s.device[e] /\ n.catalog[e] = s.catalog[e]
  BY <1>1, <1>3 DEF Snapshot, InviteOf
<1>6. ClaimDeviceAgree(n)
  BY <1>1, <1>3, <1>5, ConstantsAssumption DEF Sound, ClaimDeviceAgree
<1>7. CatalogAgree(n)
  BY <1>1, <1>3, <1>5 DEF Sound, CatalogAgree
<1>8. RevokedIsDead(n)
  BY <1>3, <1>5 DEF Sound, RevokedIsDead
<1>9. \A e \in DeviceIds : n.claim[e] # None => s.claim[e] # None
  BY <1>1, <1>5
<1>10. Sound(n, iss, mint, t)
  <2>1. /\ n.sites = s.sites /\ n.known = s.known
        /\ \A e \in DeviceIds : n.claim[e] # None =>
               /\ s.claim[e] # None /\ n.owner[e] = s.owner[e] /\ n.at[e] = s.at[e]
               /\ n.first[InviteOf(s, e)] = s.first[InviteOf(s, e)]
        /\ \A i \in Invites : n.first[i] # None => n.first[i] = s.first[i]
    BY <1>3, <1>9
  <2> QED  BY <1>4, <1>6, <1>7, <1>8, <2>1, SoundShrinks
<1> QED  BY <1>1, <1>3, <1>9, <1>10 DEF n

-----------------------------------------------------------------------------
(* The whole system.                                                       *)

\* The Controller's snapshot, and the one a restore would bring back.
RegistryOK ==
    /\ Sound(ctl, issued, minted, now)
    /\ backup # None => Sound(backup, issued, minted, now)

\* What the host program has on disk when it is at a given place.
HostOK(h) ==
    /\ pc[h] \in Writing => receipt[h] \in DeviceIds
    /\ pc[h] \in Writing \ {"record"} => record[h][receipt[h]] = receipt[h]
    /\ pc[h] \in {"promote", "unpend", "marker", "send"} => activation[h] = receipt[h]
    /\ pc[h] \in {"unpend", "marker", "send"} => active[h] = receipt[h]
    /\ pc[h] = "send" => marker[h] = receipt[h]
    /\ pc[h] \in {"acked", "confirm"} => marker[h] \in everActive
    /\ marker[h] \in DeviceIds => HasMembership(h, marker[h])
    /\ active[h] \in DeviceIds /\ activation[h] = None => active[h] \in everActive

\* What a message of h's exchange stands for.
MsgOK(h, m) ==
    /\ m.kind \in {"persisted", "activated", "ack", "confirmed"} => marker[h] = m.dev
    /\ m.kind \in {"activated", "ack", "confirmed"} => m.dev \in everActive

HostsOK ==
    /\ \A h \in Hosts : HostOK(h) /\ MsgOK(h, wire[h])
    /\ \A x \in orphans : x[2].kind \in {"claim", "persisted"} /\ MsgOK(x[1], x[2])

\* The ids h refers to.
Names(h) == {wire[h].dev, receipt[h], active[h], marker[h]} \cap DeviceIds

\* An id belongs to the host it was first given to, in every snapshot.
OwnersOK ==
    /\ \A h \in Hosts : \A d \in Names(h) :
          /\ d \in minted /\ ctl.owner[d] \in {None, h}
          /\ backup # None => backup.owner[d] \in {None, h}
    /\ backup # None => \A d \in DeviceIds :
          None \in {ctl.owner[d], backup.owner[d]} \/ ctl.owner[d] = backup.owner[d]

\* NoGhostDevice, of the backup too.
NoGhost(s) == \A d \in DeviceIds : s.device[d] = "active" => HasMembership(s.owner[d], d)
GhostsOK == NoGhost(ctl) /\ (backup # None => NoGhost(backup))

BansOK ==
    /\ banned \subseteq minted
    /\ \A d \in banned : confirmed \/ ctl.paused \/ ctl.device[d] \in {"revoked", None}

HistoricOK ==
    \A i \in historic : issued[i] # None /\ (i \in ctl.sites => i \in ctl.closed)

\* TypeOK in two halves: what the Controller's steps move, and what hosts move.
CtlType ==
    /\ backup \in Snapshot \cup {None}
    /\ issued \in [Invites -> Nat \cup {None}]
    /\ now \in Nat /\ restores \in Nat
    /\ minted \subseteq DeviceIds /\ everActive \subseteq DeviceIds
    /\ banned \subseteq DeviceIds /\ historic \subseteq Invites
    /\ confirmed \in BOOLEAN
HostType ==
    /\ faults \in Nat
    /\ pending \in [Hosts -> Hosts \cup {None, Torn}]
    /\ record \in [Hosts -> [DeviceIds -> DeviceIds \cup {None, Torn}]]
    /\ activation \in [Hosts -> DeviceIds \cup {None, Torn}]
    /\ active \in [Hosts -> DeviceIds \cup {None, Torn}]
    /\ marker \in [Hosts -> DeviceIds \cup {None, Torn}]
    /\ pc \in [Hosts -> Labels]
    /\ receipt \in [Hosts -> DeviceIds \cup {None}]
    /\ wire \in [Hosts -> Messages]
    /\ orphans \subseteq Hosts \X Messages

\* The inductive invariant.
IInv == CtlType /\ HostType /\ RegistryOK /\ HostsOK /\ OwnersOK /\ GhostsOK /\ BansOK /\ HistoricOK

\* It implies the invariants that are checked.
LEMMA IInvImplies ==
    IInv => RegistryIsSound /\ InviteIsObeyed /\ BothSidesAgree /\ RevokedStaysOut
<1> SUFFICES ASSUME IInv
             PROVE  RegistryIsSound /\ InviteIsObeyed /\ BothSidesAgree /\ RevokedStaysOut
  OBVIOUS
<1>1. Sound(ctl, issued, minted, now)
  BY DEF IInv, RegistryOK
<1>2. TypeOK
  BY <1>1 DEF IInv, CtlType, HostType, TypeOK, Sound
<1>3. RegistryIsSound
  BY <1>1, <1>2 DEF Sound, RegistryIsSound, StoreValid, OneIdentityPerKey
<1>4. InviteIsObeyed
  BY <1>1 DEF Sound, Pass, WithinPass, InviteIsObeyed, RevokedInviteIsDead, ClaimsWithinPass
<1>5. NoGhostDevice
  BY DEF IInv, GhostsOK, NoGhost, NoGhostDevice
<1>6. ConfirmedIsActivated
  BY DEF IInv, HostsOK, HostOK, HasMembership, ConfirmedIsActivated
<1>7. RevokedStaysOut
  BY ConstantsAssumption DEF IInv, BansOK, RevokedStaysOut, Authorized
<1> QED  BY <1>3, <1>4, <1>5, <1>6, <1>7 DEF BothSidesAgree

\* A Controller without invites and hosts without files.
LEMMA InitIInv == Init => IInv
<1> SUFFICES ASSUME Init PROVE IInv
  OBVIOUS
<1>1. Sound(ctl, issued, minted, now)
  BY EmptySound DEF Init
<1>2. CtlType /\ HostType
  BY DEF Init, CtlType, HostType, Messages, Down, Msg, Labels
<1>3. HostsOK
  BY ConstantsAssumption DEF Init, HostsOK, HostOK, MsgOK, Down, Msg, Writing
<1>4. OwnersOK
  BY ConstantsAssumption DEF Init, OwnersOK, Names, Down, Msg
<1>5. GhostsOK
  BY ConstantsAssumption DEF Init, GhostsOK, NoGhost, EmptySnapshot
<1> QED  BY <1>1, <1>2, <1>3, <1>4, <1>5 DEF Init, IInv, RegistryOK, BansOK, HistoricOK

-----------------------------------------------------------------------------
(* Hosts.                                                                  *)

\* A step of h alone: the Controller and the other hosts stay as they are.
LocalStep(h) ==
    /\ UNCHANGED <<ctl, world, history>>
    /\ \A g \in Hosts \ {h} :
          /\ activation'[g] = activation[g] /\ active'[g] = active[g]
          /\ marker'[g] = marker[g] /\ record'[g] = record[g]
          /\ pc'[g] = pc[g] /\ receipt'[g] = receipt[g] /\ wire'[g] = wire[g]

\* h reads and copies ids, and never gives up a membership it has.
LEMMA LocalStepIInv ==
    ASSUME IInv, NEW h \in Hosts, LocalStep(h), HostType', HostOK(h)', MsgOK(h, wire[h])',
           Names(h)' \subseteq Names(h),
           \A d \in DeviceIds : HasMembership(h, d) => HasMembership(h, d)',
           \A x \in orphans' : x \in orphans \/ (/\ x = <<h, wire[h]>>
                                                 /\ wire[h].kind \in {"claim", "persisted"})
    PROVE  IInv'
<1>1. \A g \in Hosts \ {h} : /\ HostOK(g)' /\ MsgOK(g, wire[g])' /\ Names(g)' = Names(g)
                             /\ \A d \in DeviceIds : HasMembership(g, d)' = HasMembership(g, d)
  <2> SUFFICES ASSUME NEW g \in Hosts \ {h}
               PROVE  /\ HostOK(g)' /\ MsgOK(g, wire[g])' /\ Names(g)' = Names(g)
                      /\ \A d \in DeviceIds : HasMembership(g, d)' = HasMembership(g, d)
    OBVIOUS
  <2>1. /\ activation'[g] = activation[g] /\ active'[g] = active[g]
        /\ marker'[g] = marker[g] /\ record'[g] = record[g]
        /\ pc'[g] = pc[g] /\ receipt'[g] = receipt[g] /\ wire'[g] = wire[g]
        /\ everActive' = everActive /\ HostOK(g) /\ MsgOK(g, wire[g])
    BY DEF LocalStep, history, IInv, HostsOK
  <2> QED  BY <2>1 DEF HostOK, MsgOK, Names, HasMembership
<1>2. \A g \in Hosts, d \in DeviceIds : HasMembership(g, d) => HasMembership(g, d)'
  BY <1>1
<1>3. everActive' = everActive
  BY DEF LocalStep, history
<1>4. \A x \in orphans' : x[2].kind \in {"claim", "persisted"} /\ MsgOK(x[1], x[2])'
  <2> SUFFICES ASSUME NEW x \in orphans'
               PROVE  x[2].kind \in {"claim", "persisted"} /\ MsgOK(x[1], x[2])'
    OBVIOUS
  <2>1. /\ x[2].kind \in {"claim", "persisted"} /\ MsgOK(x[1], x[2])
        /\ x[1] \in Hosts /\ x[2] \in Messages
    <3>1. CASE x \in orphans
      BY <3>1 DEF IInv, HostsOK, HostType
    <3>2. CASE x = <<h, wire[h]>> /\ wire[h].kind \in {"claim", "persisted"}
      BY <3>2 DEF IInv, HostsOK, HostType
    <3> QED  BY <3>1, <3>2
  <2>2. x[2].kind = "persisted" => /\ marker[x[1]] = x[2].dev /\ x[2].dev \in DeviceIds
                                   /\ HasMembership(x[1], x[2].dev)
    BY <2>1 DEF MsgOK, Messages, IInv, HostsOK, HostOK
  <2>3. x[2].kind = "persisted" => marker'[x[1]] = x[2].dev
    BY <1>2, <2>1, <2>2 DEF HasMembership
  <2> QED  BY <2>1, <2>3 DEF MsgOK
<1>5. HostsOK'
  BY <1>1, <1>4 DEF HostsOK
<1>6. OwnersOK'
  <2>1. \A g \in Hosts : Names(g)' \subseteq Names(g)
    BY <1>1
  <2> QED  BY <2>1 DEF IInv, OwnersOK, LocalStep, world
<1>7. GhostsOK'
  <2>1. ASSUME NEW s, Sound(s, issued, minted, now), NoGhost(s),
               NEW d \in DeviceIds, s.device[d] = "active"
        PROVE  HasMembership(s.owner[d], d)'
    <3>1. s.owner[d] \in Hosts
      BY <2>1, ConstantsAssumption DEF Sound, ClaimDeviceAgree, Snapshot
    <3> QED  BY <1>2, <2>1, <3>1 DEF NoGhost
  <2>2. UNCHANGED <<ctl, backup>>
    BY DEF LocalStep, world
  <2> QED  BY <2>1, <2>2 DEF IInv, GhostsOK, NoGhost, RegistryOK
<1>8. CtlType' /\ RegistryOK' /\ BansOK' /\ HistoricOK'
  BY DEF IInv, CtlType, RegistryOK, BansOK, HistoricOK, LocalStep, world, history
<1> QED  BY <1>5, <1>6, <1>7, <1>8 DEF IInv

\* A step of h that leaves its files alone: where the program is, the receipt it
\* holds and the message on its connection.
LEMMA QuietDiskIInv ==
    ASSUME IInv, NEW h \in Hosts, NEW l \in Labels, NEW r \in DeviceIds \cup {None},
           NEW m \in Messages,
           UNCHANGED <<ctl, world, history, disk>>, faults' \in Nat,
           pc' = [pc EXCEPT ![h] = l], receipt' = [receipt EXCEPT ![h] = r],
           wire' = [wire EXCEPT ![h] = m],
           \A x \in orphans' : x \in orphans \/ (/\ x = <<h, wire[h]>>
                                                 /\ wire[h].kind \in {"claim", "persisted"}),
           \/ l \in {"off", "start", "done", "failed", "claiming", "persisted"}
           \/ l = "record" /\ r \in DeviceIds
           \/ l \in {"acked", "confirm"} /\ marker[h] \in everActive
           \/ l = pc[h] /\ r = receipt[h],
           MsgOK(h, m),
           m.dev \in DeviceIds => m.dev \in Names(h), r \in DeviceIds => r \in Names(h)
    PROVE  IInv'
<1>1. HostType /\ HostOK(h)
  BY DEF IInv, HostsOK
<1>2. /\ pc'[h] = l /\ receipt'[h] = r /\ wire'[h] = m
      /\ \A g \in Hosts \ {h} : pc'[g] = pc[g] /\ receipt'[g] = receipt[g] /\ wire'[g] = wire[g]
  BY <1>1 DEF HostType
<1>3. UNCHANGED <<pending, record, activation, active, marker, everActive>>
  BY DEF disk, history
<1>4. HostType'
  <2>1. orphans' \subseteq Hosts \X Messages
    BY <1>1 DEF HostType
  <2> QED  BY <1>1, <1>3, <2>1 DEF HostType
<1>5. HostOK(h)'
  BY <1>1, <1>2, <1>3 DEF HostOK, HasMembership, Writing
<1>6. MsgOK(h, wire[h])' /\ Names(h)' \subseteq Names(h)
  BY <1>2, <1>3 DEF MsgOK, Names
<1>7. LocalStep(h)
  BY <1>2, <1>3 DEF LocalStep
<1>8. \A d \in DeviceIds : HasMembership(h, d) => HasMembership(h, d)'
  BY <1>3 DEF HasMembership
<1> QED  BY <1>4, <1>5, <1>6, <1>7, <1>8, LocalStepIInv

\* Messages without a device.
LEMMA NoDevice ==
    ASSUME NEW h \in Hosts, NEW k \in {"claim", "error", "down", "open"}
    PROVE  /\ Msg(k, None) \in Messages /\ MsgOK(h, Msg(k, None))
           /\ Msg(k, None).dev = None /\ Msg(k, None).kind = k
           /\ None \notin DeviceIds
BY ConstantsAssumption DEF Msg, Messages, MsgOK

\* Messages about one.
LEMMA WithDevice ==
    ASSUME NEW k \in {"claimed", "persisted", "activated", "ack", "confirmed"},
           NEW d \in DeviceIds
    PROVE  Msg(k, d) \in Messages /\ Msg(k, d).dev = d /\ Msg(k, d).kind = k
BY DEF Msg, Messages

\* What the proofs use of a host about to move.
LEMMA HostFacts ==
    ASSUME IInv, NEW h \in Hosts
    PROVE  /\ HostType /\ HostOK(h) /\ MsgOK(h, wire[h])
           /\ receipt = [receipt EXCEPT ![h] = receipt[h]] /\ wire = [wire EXCEPT ![h] = wire[h]]
           /\ pc = [pc EXCEPT ![h] = pc[h]]
           /\ receipt[h] \in DeviceIds \cup {None} /\ wire[h] \in Messages /\ pc[h] \in Labels
           /\ faults \in Nat
           /\ wire[h].dev \in DeviceIds => wire[h].dev \in Names(h)
           /\ receipt[h] \in DeviceIds => receipt[h] \in Names(h)
           /\ wire[h].kind \in {"claimed", "persisted", "activated", "ack", "confirmed"}
                  => wire[h].dev \in DeviceIds
BY DEF IInv, HostsOK, HostType, Names, Messages

\* A program label that promises nothing about the files.
Idle == {"off", "start", "done", "failed", "claiming", "persisted"}

\* Every label the steps below move to is one.
LEMMA IdleLabels ==
    Idle \subseteq Labels /\ "record" \in Labels /\ {"acked", "confirm"} \subseteq Labels
BY DEF Idle, Labels, Waiting, Writing

\* The same with the receipt left alone ...
LEMMA SendIInv ==
    ASSUME IInv, NEW h \in Hosts, NEW l, NEW m \in Messages,
           UNCHANGED <<ctl, world, history, disk, receipt, orphans>>, faults' \in Nat,
           pc' = [pc EXCEPT ![h] = l], wire' = [wire EXCEPT ![h] = m],
           l \in Idle \/ (l \in {"acked", "confirm"} /\ marker[h] \in everActive),
           MsgOK(h, m), m.dev \in DeviceIds => m.dev \in Names(h)
    PROVE  IInv'
<1> DEFINE r == receipt[h]
<1>1. /\ receipt' = [receipt EXCEPT ![h] = r] /\ r \in DeviceIds \cup {None}
      /\ r \in DeviceIds => r \in Names(h)
  BY HostFacts
<1>2. l \in Labels
  BY IdleLabels
<1>3. \A x \in orphans' : x \in orphans
  OBVIOUS
<1>4. UNCHANGED <<ctl, world, history, disk>>
  OBVIOUS
<1> HIDE DEF r
<1> QED  BY <1>1, <1>2, <1>3, <1>4, QuietDiskIInv DEF Idle

\* ... and with the connection left alone too.
LEMMA GoIInv ==
    ASSUME IInv, NEW h \in Hosts, NEW l \in Idle,
           UNCHANGED <<ctl, world, history, disk, receipt, wire, orphans>>, faults' \in Nat,
           pc' = [pc EXCEPT ![h] = l]
    PROVE  IInv'
<1> DEFINE m == wire[h]
<1>1. /\ wire' = [wire EXCEPT ![h] = m] /\ m \in Messages /\ MsgOK(h, m)
      /\ m.dev \in DeviceIds => m.dev \in Names(h)
  BY HostFacts
<1>2. UNCHANGED <<ctl, world, history, disk, receipt, orphans>>
  OBVIOUS
<1> HIDE DEF m
<1> QED  BY <1>1, <1>2, SendIInv

\* Steps of the program that only send, receive and give up.
LEMMA TalkIInv ==
    ASSUME IInv, NEW h \in Hosts,
           \/ StartClaim(h) \/ ResumeActivation(h) \/ NothingToResume(h)
           \/ SendPersisted(h) \/ ReceiveConfirmed(h) \/ ReceiveError(h) \/ RetryAfterDrop(h)
    PROVE  IInv'
<1>1. /\ UNCHANGED <<ctl, world, history, disk, receipt, orphans>> /\ faults' \in Nat
  BY HostFacts DEF StartClaim, ResumeActivation, NothingToResume, SendPersisted,
     ReceiveConfirmed, ReceiveError, RetryAfterDrop, HostOnly
<1>2. CASE StartClaim(h)
  <2>1. /\ pc' = [pc EXCEPT ![h] = "claiming"]
        /\ wire' = [wire EXCEPT ![h] = Msg("claim", None)]
    BY <1>2 DEF StartClaim, Goto
  <2> QED  BY <1>1, <2>1, NoDevice, SendIInv DEF Idle
<1>3. CASE ResumeActivation(h)
  <2>1. /\ marker[h] \in DeviceIds
        /\ pc' = [pc EXCEPT ![h] = "persisted"]
        /\ wire' = [wire EXCEPT ![h] = Msg("persisted", marker[h])]
    BY <1>3 DEF ResumeActivation, Goto
  <2>2. /\ Msg("persisted", marker[h]) \in Messages /\ Msg("persisted", marker[h]).dev = marker[h]
        /\ Msg("persisted", marker[h]).kind = "persisted"
    BY <2>1, WithDevice
  <2>3. MsgOK(h, Msg("persisted", marker[h])) /\ marker[h] \in Names(h)
    BY <2>1, <2>2 DEF MsgOK, Names
  <2> QED  BY <1>1, <2>1, <2>2, <2>3, SendIInv DEF Idle
<1>4. CASE NothingToResume(h)
  <2>1. pc' = [pc EXCEPT ![h] = "done"] /\ UNCHANGED wire
    BY <1>4 DEF NothingToResume, Goto
  <2> QED  BY <1>1, <2>1, GoIInv DEF Idle
<1>5. CASE SendPersisted(h)
  <2>1. /\ pc[h] = "send" /\ pc' = [pc EXCEPT ![h] = "persisted"]
        /\ wire' = [wire EXCEPT ![h] = Msg("persisted", receipt[h])]
    BY <1>5 DEF SendPersisted, Goto
  <2>2. receipt[h] \in DeviceIds /\ marker[h] = receipt[h] /\ receipt[h] \in Names(h)
    BY <2>1, HostFacts DEF HostOK, Writing
  <2>3. /\ Msg("persisted", receipt[h]) \in Messages
        /\ Msg("persisted", receipt[h]).dev = receipt[h]
        /\ Msg("persisted", receipt[h]).kind = "persisted"
    BY <2>2, WithDevice
  <2>4. MsgOK(h, Msg("persisted", receipt[h]))
    BY <2>2, <2>3 DEF MsgOK
  <2> QED  BY <1>1, <2>1, <2>2, <2>3, <2>4, SendIInv DEF Idle
<1>6. CASE ReceiveConfirmed(h)
  <2>1. /\ pc[h] = "acked" /\ pc' = [pc EXCEPT ![h] = "confirm"]
        /\ wire' = [wire EXCEPT ![h] = Msg("down", None)]
    BY <1>6 DEF ReceiveConfirmed, Goto, Down
  <2>2. marker[h] \in everActive
    BY <2>1, HostFacts DEF HostOK
  <2> QED  BY <1>1, <2>1, <2>2, NoDevice, SendIInv
<1>7. CASE ReceiveError(h)
  <2>1. /\ pc' = [pc EXCEPT ![h] = "failed"]
        /\ wire' = [wire EXCEPT ![h] = Msg("down", None)]
    BY <1>7 DEF ReceiveError, Goto, Down
  <2> QED  BY <1>1, <2>1, NoDevice, SendIInv DEF Idle
<1>8. CASE RetryAfterDrop(h)
  <2>1. pc' = [pc EXCEPT ![h] = "start"] /\ UNCHANGED wire
    BY <1>8 DEF RetryAfterDrop, Goto
  <2> QED  BY <1>1, <2>1, GoIInv DEF Idle
<1> QED  BY <1>2, <1>3, <1>4, <1>5, <1>6, <1>7, <1>8

\* The program takes the receipt, and forgets it when it exits.
LEMMA ReceiptIInv ==
    ASSUME IInv, NEW h \in Hosts, ReceiveClaimed(h) \/ ExitFailed(h)
    PROVE  IInv'
<1>1. /\ UNCHANGED <<ctl, world, history, disk>> /\ faults' \in Nat
      /\ \A x \in orphans' : x \in orphans
  BY HostFacts DEF ReceiveClaimed, ExitFailed, HostOnly
<1>2. CASE ReceiveClaimed(h)
  <2> DEFINE r == wire[h].dev
  <2>1. /\ wire[h].kind = "claimed" /\ pc' = [pc EXCEPT ![h] = "record"]
        /\ receipt' = [receipt EXCEPT ![h] = r]
        /\ wire' = [wire EXCEPT ![h] = Msg("open", None)]
    BY <1>2 DEF ReceiveClaimed, Goto, Open
  <2>2. r \in DeviceIds /\ r \in Names(h)
    BY <2>1, HostFacts
  <2> HIDE DEF r
  <2> QED  BY <1>1, <2>1, <2>2, IdleLabels, NoDevice, QuietDiskIInv
<1>3. CASE ExitFailed(h)
  <2> DEFINE m == wire[h]
  <2>1. /\ pc' = [pc EXCEPT ![h] = "off"] /\ receipt' = [receipt EXCEPT ![h] = None]
        /\ wire' = [wire EXCEPT ![h] = m] /\ m \in Messages /\ MsgOK(h, m)
        /\ m.dev \in DeviceIds => m.dev \in Names(h)
    BY <1>3, HostFacts DEF ExitFailed, Goto
  <2>2. "off" \in Labels /\ None \in DeviceIds \cup {None} /\ None \notin DeviceIds
    BY ConstantsAssumption DEF Labels
  <2> HIDE DEF m
  <2> QED  BY <1>1, <2>1, <2>2, QuietDiskIInv
<1> QED  BY <1>2, <1>3

\* verify_activated: the id the Controller activated is the one on disk.
LEMMA ReceiveActivatedIInv ==
    ASSUME IInv, NEW h \in Hosts, ReceiveActivated(h)
    PROVE  IInv'
<1>1. /\ UNCHANGED <<ctl, world, history, disk, receipt, orphans>> /\ faults' \in Nat
      /\ wire[h].kind = "activated"
  BY HostFacts DEF ReceiveActivated, HostOnly
<1>2. /\ wire[h].dev = marker[h] /\ wire[h].dev \in everActive /\ wire[h].dev \in DeviceIds
      /\ wire[h].dev \in Names(h)
  BY <1>1, HostFacts DEF MsgOK
<1>3. CASE /\ pc' = [pc EXCEPT ![h] = "acked"]
           /\ wire' = [wire EXCEPT ![h].kind = "ack"]
  <2> DEFINE m == Msg("ack", wire[h].dev)
  <2>1. wire' = [wire EXCEPT ![h] = m]
    <3> DEFINE w == wire[h]
    <3>1. w \in [kind: {"claimed", "persisted", "activated", "ack", "confirmed"}, dev: DeviceIds]
      BY <1>1, HostFacts DEF Messages
    <3>2. wire' = [wire EXCEPT ![h] = [w EXCEPT !.kind = "ack"]]
      BY <1>3
    <3>3. m = Msg("ack", w.dev)
      OBVIOUS
    <3> HIDE DEF w
    <3>4. [w EXCEPT !.kind = "ack"] = Msg("ack", w.dev)
      BY <3>1 DEF Msg
    <3> QED  BY <3>2, <3>3, <3>4
  <2>2. m \in Messages /\ m.dev = wire[h].dev /\ m.kind = "ack"
    BY <1>2, WithDevice
  <2> HIDE DEF m
  <2>3. MsgOK(h, m)
    BY <1>2, <2>2 DEF MsgOK
  <2> QED  BY <1>1, <1>2, <1>3, <2>1, <2>2, <2>3, SendIInv
<1>4. CASE /\ pc' = [pc EXCEPT ![h] = "confirm"]
           /\ wire' = [wire EXCEPT ![h] = Msg("down", None)]
  BY <1>1, <1>2, <1>4, NoDevice, SendIInv
<1> QED  BY <1>2, <1>3, <1>4 DEF ReceiveActivated, Goto, Down

\* The connection breaks, or the program is killed between two writes.
LEMMA AbandonIInv ==
    ASSUME IInv, NEW h \in Hosts, ConnectionBreaks(h) \/ HostKilled(h)
    PROVE  IInv'
<1>1. /\ UNCHANGED <<ctl, world, history, disk>> /\ faults' \in Nat
      /\ wire' = [wire EXCEPT ![h] = Msg("down", None)]
      /\ \A x \in orphans' : x \in orphans \/ (/\ x = <<h, wire[h]>>
                                               /\ wire[h].kind \in {"claim", "persisted"})
  BY HostFacts DEF ConnectionBreaks, HostKilled, Killed, Abandon, Fault, Down
<1>2. \/ pc' = pc /\ receipt' = receipt
      \/ pc' = [pc EXCEPT ![h] = "off"] /\ receipt' = [receipt EXCEPT ![h] = None]
  BY DEF ConnectionBreaks, HostKilled, Killed, Goto
<1>3. CASE pc' = pc /\ receipt' = receipt
  <2> DEFINE l == pc[h]  r == receipt[h]
  <2>1. /\ pc' = [pc EXCEPT ![h] = l] /\ receipt' = [receipt EXCEPT ![h] = r]
        /\ l \in Labels /\ r \in DeviceIds \cup {None}
        /\ r \in DeviceIds => r \in Names(h)
        /\ l = pc[h] /\ r = receipt[h]
    BY <1>3, HostFacts
  <2> HIDE DEF l, r
  <2> QED  BY <1>1, <2>1, NoDevice, QuietDiskIInv
<1>4. CASE pc' = [pc EXCEPT ![h] = "off"] /\ receipt' = [receipt EXCEPT ![h] = None]
  <2>1. "off" \in Labels /\ None \in DeviceIds \cup {None} /\ None \notin DeviceIds
    BY ConstantsAssumption DEF Labels
  <2> QED  BY <1>1, <1>4, <2>1, NoDevice, QuietDiskIInv
<1> QED  BY <1>2, <1>3, <1>4

-----------------------------------------------------------------------------
(* The host's files.                                                       *)

\* The files of the other hosts are not touched.
OthersKeepFiles(h) ==
    \A g \in Hosts \ {h} :
        /\ activation'[g] = activation[g] /\ active'[g] = active[g]
        /\ marker'[g] = marker[g] /\ record'[g] = record[g]

FileType ==
    /\ pending \in [Hosts -> Hosts \cup {None, Torn}]
    /\ record \in [Hosts -> [DeviceIds -> DeviceIds \cup {None, Torn}]]
    /\ activation \in [Hosts -> DeviceIds \cup {None, Torn}]
    /\ active \in [Hosts -> DeviceIds \cup {None, Torn}]
    /\ marker \in [Hosts -> DeviceIds \cup {None, Torn}]

\* A file write: the new content is an id h already refers to, and a complete
\* membership is never taken back.
LEMMA WriteIInv ==
    ASSUME IInv, NEW h \in Hosts, NEW l \in Labels,
           UNCHANGED <<ctl, world, history, faults, receipt, wire, orphans>>,
           pc' = [pc EXCEPT ![h] = l], FileType', OthersKeepFiles(h), HostOK(h)',
           {active'[h], marker'[h]} \cap DeviceIds \subseteq Names(h),
           \A d \in DeviceIds : HasMembership(h, d) => HasMembership(h, d)'
    PROVE  IInv'
<1>1. HostType /\ HostOK(h) /\ MsgOK(h, wire[h]) /\ wire[h] \in Messages
  BY HostFacts
<1>2. HostType'
  BY <1>1 DEF HostType, FileType
<1>3. LocalStep(h)
  BY <1>1 DEF LocalStep, OthersKeepFiles, HostType
<1>4. MsgOK(h, wire[h])'
  <2>1. everActive' = everActive /\ wire' = wire
    BY DEF history
  <2>2. wire[h].kind \in {"persisted", "activated", "ack", "confirmed"} =>
            marker[h] = wire[h].dev /\ wire[h].dev \in DeviceIds
    BY <1>1 DEF MsgOK, Messages
  <2>3. wire[h].kind \in {"persisted", "activated", "ack", "confirmed"} =>
            marker'[h] = wire[h].dev
    BY <1>1, <2>2 DEF HostOK, HasMembership
  <2> QED  BY <1>1, <2>1, <2>3 DEF MsgOK
<1>5. Names(h)' \subseteq Names(h)
  BY DEF Names
<1>6. \A x \in orphans' : x \in orphans
  OBVIOUS
<1> QED  BY <1>2, <1>3, <1>4, <1>5, <1>6, LocalStepIInv

\* The process dies in a write: what it leaves behind is torn or as it was.
LEMMA TornIInv ==
    ASSUME IInv, NEW h \in Hosts, faults' \in Nat, Killed(h),
           FileType', OthersKeepFiles(h), HostOK(h)',
           {active'[h], marker'[h]} \cap DeviceIds \subseteq Names(h),
           \A d \in DeviceIds : HasMembership(h, d) => HasMembership(h, d)'
    PROVE  IInv'
<1>1. HostType /\ wire[h] \in Messages
  BY HostFacts
<1>2. /\ UNCHANGED <<ctl, world, history>>
      /\ pc' = [pc EXCEPT ![h] = "off"] /\ receipt' = [receipt EXCEPT ![h] = None]
      /\ wire' = [wire EXCEPT ![h] = Msg("down", None)]
      /\ \A x \in orphans' : x \in orphans \/ (/\ x = <<h, wire[h]>>
                                               /\ wire[h].kind \in {"claim", "persisted"})
  BY DEF Killed, Abandon, Goto, Down
<1>3. "off" \in Labels /\ Msg("down", None) \in Messages
  BY NoDevice DEF Labels
<1>4. HostType'
  <2>1. orphans' \subseteq Hosts \X Messages
    BY <1>1, <1>2 DEF HostType
  <2> QED  BY <1>1, <1>2, <1>3, <2>1 DEF HostType, FileType
<1>5. LocalStep(h)
  BY <1>1, <1>2 DEF LocalStep, OthersKeepFiles, HostType
<1>6. wire'[h] = Msg("down", None) /\ receipt'[h] = None
  BY <1>1, <1>2 DEF HostType
<1>7. MsgOK(h, wire[h])' /\ Names(h)' \subseteq Names(h)
  BY <1>6, NoDevice DEF MsgOK, Names
<1> QED  BY <1>2, <1>4, <1>5, <1>7, LocalStepIInv

\* The same in the launch, which has no connection yet.
LEMMA TornLaunchIInv ==
    ASSUME IInv, NEW h \in Hosts, faults' \in Nat,
           UNCHANGED <<ctl, world, history, pc, receipt, wire, orphans>>,
           FileType', OthersKeepFiles(h), HostOK(h)',
           {active'[h], marker'[h]} \cap DeviceIds \subseteq Names(h),
           marker[h] \in DeviceIds => marker'[h] = marker[h],
           \A d \in DeviceIds : HasMembership(h, d) => HasMembership(h, d)'
    PROVE  IInv'
<1>1. HostType /\ HostOK(h) /\ MsgOK(h, wire[h]) /\ wire[h] \in Messages
  BY HostFacts
<1>2. HostType'
  BY <1>1 DEF HostType, FileType
<1>3. LocalStep(h)
  BY <1>1 DEF LocalStep, OthersKeepFiles, HostType
<1>4. MsgOK(h, wire[h])'
  <2>1. everActive' = everActive /\ wire' = wire
    BY DEF history
  <2> QED  BY <1>1, <2>1 DEF MsgOK, Messages
<1>5. Names(h)' \subseteq Names(h)
  BY DEF Names
<1>6. \A x \in orphans' : x \in orphans
  OBVIOUS
<1> QED  BY <1>2, <1>3, <1>4, <1>5, <1>6, LocalStepIInv

\* resolve_site_file: the marker is rebuilt from the active identity, or a key is made.
LEMMA LaunchIInv ==
    ASSUME IInv, NEW h \in Hosts, Launch(h)
    PROVE  IInv'
<1>1. HostType /\ HostOK(h)
  BY HostFacts
<1>2. /\ UNCHANGED <<ctl, world, history, faults, receipt, wire, orphans>>
      /\ UNCHANGED <<record, activation, active, everActive>>
      /\ pc' = [pc EXCEPT ![h] = "start"] /\ "start" \in Labels
  BY DEF Launch, HostOnly, Goto, Labels, history
<1>3. pc'[h] = "start"
  BY <1>1, <1>2 DEF HostType
<1>4. CASE CanRecover(h) /\ marker' = [marker EXCEPT ![h] = active[h]] /\ UNCHANGED pending
  <2>1. /\ marker'[h] = active[h] /\ active[h] \in DeviceIds
        /\ record[h][active[h]] = active[h] /\ marker[h] \in {None, active[h]}
        /\ \A g \in Hosts \ {h} : marker'[g] = marker[g]
        /\ marker' \in [Hosts -> DeviceIds \cup {None, Torn}]
    BY <1>1, <1>4 DEF CanRecover, HostType
  <2>2. FileType' /\ OthersKeepFiles(h)
    BY <1>1, <1>2, <1>4, <2>1 DEF HostType, FileType, OthersKeepFiles
  <2>3. HostOK(h)'
    BY <1>1, <1>2, <1>3, <2>1 DEF HostOK, HasMembership, Writing
  <2>4. {active'[h], marker'[h]} \cap DeviceIds \subseteq Names(h)
    BY <1>2, <2>1 DEF Names
  <2>5. \A d \in DeviceIds : HasMembership(h, d) => HasMembership(h, d)'
    BY <1>2, <2>1 DEF HasMembership
  <2> QED  BY <1>2, <2>2, <2>3, <2>4, <2>5, WriteIInv
<1>5. CASE pending' = [pending EXCEPT ![h] = h] /\ UNCHANGED marker
  <2>2. FileType' /\ OthersKeepFiles(h)
    BY <1>1, <1>2, <1>5 DEF HostType, FileType, OthersKeepFiles
  <2>3. HostOK(h)'
    BY <1>1, <1>2, <1>3, <1>5 DEF HostOK, HasMembership, Writing
  <2>4. {active'[h], marker'[h]} \cap DeviceIds \subseteq Names(h)
    BY <1>2, <1>5 DEF Names
  <2>5. \A d \in DeviceIds : HasMembership(h, d) => HasMembership(h, d)'
    BY <1>2, <1>5 DEF HasMembership
  <2> QED  BY <1>2, <2>2, <2>3, <2>4, <2>5, WriteIInv
<1> QED  BY <1>4, <1>5 DEF Launch

\* A file that holds something else stops the program.
LEMMA RefusedIInv ==
    ASSUME IInv, NEW h \in Hosts, HostOnly, Goto(h, "failed"),
           UNCHANGED <<disk, receipt, wire, orphans>>
    PROVE  IInv'
<1>1. faults' \in Nat /\ UNCHANGED <<ctl, world, history, disk, receipt, wire, orphans>>
  BY HostFacts DEF HostOnly
<1> QED  BY <1>1, GoIInv DEF Idle, Goto

\* write_or_verify_state of the device record.
LEMMA PersistRecordIInv ==
    ASSUME IInv, NEW h \in Hosts, PersistRecord(h)
    PROVE  IInv'
<1> DEFINE d == receipt[h]
<1>1. HostType /\ HostOK(h) /\ d \in DeviceIds
  BY HostFacts DEF PersistRecord, HostOK, Writing
<1>2. CASE ~WriteOrVerify(record[h][d], d)
  BY <1>2, RefusedIInv DEF PersistRecord, disk
<1>3. CASE WriteOrVerify(record[h][d], d)
  <2>1. /\ UNCHANGED <<ctl, world, history, faults, receipt, wire, orphans>>
        /\ UNCHANGED <<pending, activation, active, marker, everActive>>
        /\ record' = [record EXCEPT ![h][d] = d]
        /\ pc' = [pc EXCEPT ![h] = "activation"] /\ "activation" \in Labels
    BY <1>3 DEF PersistRecord, HostOnly, Goto, Labels, Writing, history
  <2>2. pc'[h] = "activation" /\ receipt'[h] = d
    BY <1>1, <2>1 DEF HostType
  <2> HIDE DEF d
  <2>3. /\ record'[h][d] = d /\ \A e \in DeviceIds : e # d => record'[h][e] = record[h][e]
        /\ \A g \in Hosts \ {h} : record'[g] = record[g]
        /\ record' \in [Hosts -> [DeviceIds -> DeviceIds \cup {None, Torn}]]
    BY <1>1, <2>1 DEF HostType
  <2>4. FileType' /\ OthersKeepFiles(h)
    BY <1>1, <2>1, <2>3 DEF HostType, FileType, OthersKeepFiles
  <2>5. \A e \in DeviceIds : HasMembership(h, e) => HasMembership(h, e)'
    BY <2>1, <2>3 DEF HasMembership
  <2>6. HostOK(h)'
    BY <1>1, <2>1, <2>2, <2>3, <2>5 DEF HostOK, Writing
  <2>7. {active'[h], marker'[h]} \cap DeviceIds \subseteq Names(h)
    BY <2>1 DEF Names
  <2> QED  BY <2>1, <2>4, <2>5, <2>6, <2>7, WriteIInv
<1> QED  BY <1>2, <1>3

\* The activation-pending file.
LEMMA PersistActivationIInv ==
    ASSUME IInv, NEW h \in Hosts, PersistActivation(h)
    PROVE  IInv'
<1> DEFINE d == receipt[h]
<1>1. HostType /\ HostOK(h) /\ d \in DeviceIds /\ record[h][d] = d
  BY HostFacts DEF PersistActivation, HostOK, Writing
<1>2. CASE ~WriteOrVerify(activation[h], d)
  BY <1>2, RefusedIInv DEF PersistActivation, disk
<1>3. CASE WriteOrVerify(activation[h], d)
  <2>1. /\ UNCHANGED <<ctl, world, history, faults, receipt, wire, orphans>>
        /\ UNCHANGED <<pending, record, active, marker, everActive>>
        /\ activation' = [activation EXCEPT ![h] = d]
        /\ pc' = [pc EXCEPT ![h] = "promote"] /\ "promote" \in Labels
    BY <1>3 DEF PersistActivation, HostOnly, Goto, Labels, Writing, history
  <2>2. pc'[h] = "promote" /\ receipt'[h] = d
    BY <1>1, <2>1 DEF HostType
  <2> HIDE DEF d
  <2>3. /\ activation'[h] = d
        /\ \A g \in Hosts \ {h} : activation'[g] = activation[g]
        /\ activation' \in [Hosts -> DeviceIds \cup {None, Torn}]
    BY <1>1, <2>1 DEF HostType
  <2>4. FileType' /\ OthersKeepFiles(h)
    BY <1>1, <2>1, <2>3 DEF HostType, FileType, OthersKeepFiles
  <2>5. \A e \in DeviceIds : HasMembership(h, e) => HasMembership(h, e)'
    BY <2>1, <2>3 DEF HasMembership
  <2>6. HostOK(h)'
    BY <1>1, <2>1, <2>2, <2>3, <2>5, ConstantsAssumption DEF HostOK, Writing
  <2>7. {active'[h], marker'[h]} \cap DeviceIds \subseteq Names(h)
    BY <2>1 DEF Names
  <2> QED  BY <2>1, <2>4, <2>5, <2>6, <2>7, WriteIInv
<1> QED  BY <1>2, <1>3

\* The active identity, which takes over the pending key.
LEMMA PromoteActiveIInv ==
    ASSUME IInv, NEW h \in Hosts, PromoteActive(h)
    PROVE  IInv'
<1> DEFINE d == receipt[h]
<1>1. /\ HostType /\ HostOK(h) /\ d \in DeviceIds /\ record[h][d] = d
      /\ activation[h] = d /\ d \in Names(h)
  BY HostFacts DEF PromoteActive, HostOK, Writing
<1>2. CASE ~WriteOrVerify(active[h], d)
  BY <1>2, RefusedIInv DEF PromoteActive, disk
<1>3. CASE WriteOrVerify(active[h], d)
  <2> DEFINE l == IF active[h] = None THEN "unpend" ELSE "marker"
  <2>1. /\ UNCHANGED <<ctl, world, history, faults, receipt, wire, orphans>>
        /\ UNCHANGED <<pending, record, activation, marker, everActive>>
        /\ active' = [active EXCEPT ![h] = d]
        /\ pc' = [pc EXCEPT ![h] = l] /\ l \in Labels /\ l \in {"unpend", "marker"}
        /\ active[h] \in {None, d}
    BY <1>3 DEF PromoteActive, HostOnly, Goto, Labels, Writing, history, WriteOrVerify
  <2>2. pc'[h] \in {"unpend", "marker"} /\ receipt'[h] = d
    BY <1>1, <2>1 DEF HostType
  <2> HIDE DEF d, l
  <2>3. /\ active'[h] = d
        /\ \A g \in Hosts \ {h} : active'[g] = active[g]
        /\ active' \in [Hosts -> DeviceIds \cup {None, Torn}]
    BY <1>1, <2>1 DEF HostType
  <2>4. FileType' /\ OthersKeepFiles(h)
    BY <1>1, <2>1, <2>3 DEF HostType, FileType, OthersKeepFiles
  <2>5. \A e \in DeviceIds : HasMembership(h, e) => HasMembership(h, e)'
    BY <2>1, <2>3, ConstantsAssumption DEF HasMembership
  <2>6. HostOK(h)'
    BY <1>1, <2>1, <2>2, <2>3, <2>5, ConstantsAssumption DEF HostOK, Writing
  <2>7. {active'[h], marker'[h]} \cap DeviceIds \subseteq Names(h)
    BY <1>1, <2>1, <2>3 DEF Names
  <2> QED  BY <2>1, <2>4, <2>5, <2>6, <2>7, WriteIInv
<1> QED  BY <1>2, <1>3

\* The pending key goes, once.
LEMMA RemovePendingIInv ==
    ASSUME IInv, NEW h \in Hosts, RemovePending(h)
    PROVE  IInv'
<1>1. HostType /\ HostOK(h) /\ pc[h] = "unpend"
  BY HostFacts DEF RemovePending
<1>2. /\ UNCHANGED <<ctl, world, history, faults, receipt, wire, orphans>>
      /\ UNCHANGED <<record, activation, active, marker, everActive>>
      /\ pending' = [pending EXCEPT ![h] = None]
      /\ pc' = [pc EXCEPT ![h] = "marker"] /\ "marker" \in Labels
  BY DEF RemovePending, HostOnly, Goto, Labels, Writing, history
<1>3. pc'[h] = "marker"
  BY <1>1, <1>2 DEF HostType
<1>4. FileType' /\ OthersKeepFiles(h)
  BY <1>1, <1>2 DEF HostType, FileType, OthersKeepFiles
<1>5. \A e \in DeviceIds : HasMembership(h, e) => HasMembership(h, e)'
  BY <1>2 DEF HasMembership
<1>6. HostOK(h)'
  BY <1>1, <1>2, <1>3 DEF HostOK, Writing, HasMembership
<1>7. {active'[h], marker'[h]} \cap DeviceIds \subseteq Names(h)
  BY <1>2 DEF Names
<1> QED  BY <1>2, <1>4, <1>5, <1>6, <1>7, WriteIInv

\* The marker, last of all.
LEMMA PersistMarkerIInv ==
    ASSUME IInv, NEW h \in Hosts, PersistMarker(h)
    PROVE  IInv'
<1> DEFINE d == receipt[h]
<1>1. /\ HostType /\ HostOK(h) /\ d \in DeviceIds /\ record[h][d] = d
      /\ activation[h] = d /\ active[h] = d /\ d \in Names(h)
  BY HostFacts DEF PersistMarker, HostOK, Writing
<1>2. CASE ~WriteOrVerify(marker[h], d)
  BY <1>2, RefusedIInv DEF PersistMarker, disk
<1>3. CASE WriteOrVerify(marker[h], d)
  <2>1. /\ UNCHANGED <<ctl, world, history, faults, receipt, wire, orphans>>
        /\ UNCHANGED <<pending, record, activation, active, everActive>>
        /\ marker' = [marker EXCEPT ![h] = d]
        /\ pc' = [pc EXCEPT ![h] = "send"] /\ "send" \in Labels
        /\ marker[h] \in {None, d}
    BY <1>3 DEF PersistMarker, HostOnly, Goto, Labels, Writing, history, WriteOrVerify
  <2>2. pc'[h] = "send" /\ receipt'[h] = d
    BY <1>1, <2>1 DEF HostType
  <2> HIDE DEF d
  <2>3. /\ marker'[h] = d
        /\ \A g \in Hosts \ {h} : marker'[g] = marker[g]
        /\ marker' \in [Hosts -> DeviceIds \cup {None, Torn}]
    BY <1>1, <2>1 DEF HostType
  <2>4. FileType' /\ OthersKeepFiles(h)
    BY <1>1, <2>1, <2>3 DEF HostType, FileType, OthersKeepFiles
  <2>5. \A e \in DeviceIds : HasMembership(h, e) => HasMembership(h, e)'
    BY <2>1, <2>3, ConstantsAssumption DEF HasMembership
  <2>6. HostOK(h)'
    BY <1>1, <2>1, <2>2, <2>3, ConstantsAssumption DEF HostOK, Writing, HasMembership
  <2>7. {active'[h], marker'[h]} \cap DeviceIds \subseteq Names(h)
    BY <1>1, <2>1, <2>3 DEF Names
  <2> QED  BY <2>1, <2>4, <2>5, <2>6, <2>7, WriteIInv
<1> QED  BY <1>2, <1>3

\* confirm_controller_activation: the Controller has activated what is confirmed.
LEMMA ConfirmActivationIInv ==
    ASSUME IInv, NEW h \in Hosts, ConfirmActivation(h)
    PROVE  IInv'
<1>1. HostType /\ HostOK(h) /\ marker[h] \in everActive /\ marker[h] \in DeviceIds
  BY HostFacts DEF ConfirmActivation, HostOK, IInv, CtlType
<1>2. CASE activation[h] \notin {None, marker[h]}
  BY <1>2, RefusedIInv DEF ConfirmActivation, disk
<1>3. CASE activation[h] \in {None, marker[h]}
  <2>1. /\ UNCHANGED <<ctl, world, history, faults, receipt, wire, orphans>>
        /\ UNCHANGED <<pending, record, active, marker, everActive>>
        /\ activation' = [activation EXCEPT ![h] = None]
        /\ pc' = [pc EXCEPT ![h] = "done"] /\ "done" \in Labels
    BY <1>3 DEF ConfirmActivation, HostOnly, Goto, Labels, history
  <2>2. pc'[h] = "done"
    BY <1>1, <2>1 DEF HostType
  <2>3. FileType' /\ OthersKeepFiles(h)
    BY <1>1, <2>1 DEF HostType, FileType, OthersKeepFiles
  <2>4. \A e \in DeviceIds : HasMembership(h, e) => HasMembership(h, e)'
    BY <2>1 DEF HasMembership
  <2>5. HostOK(h)'
    BY <1>1, <2>1, <2>2 DEF HostOK, Writing, HasMembership
  <2>6. {active'[h], marker'[h]} \cap DeviceIds \subseteq Names(h)
    BY <2>1 DEF Names
  <2> QED  BY <2>1, <2>3, <2>4, <2>5, <2>6, WriteIInv
<1> QED  BY <1>2, <1>3

\* A write of activate_with_network is cut short.
LEMMA KilledInWriteIInv ==
    ASSUME IInv, NEW h \in Hosts, KilledInWrite(h)
    PROVE  IInv'
<1> DEFINE d == receipt[h]
<1>1. HostType /\ HostOK(h) /\ faults' \in Nat /\ Killed(h)
  BY HostFacts DEF KilledInWrite, Fault
<1>2. everActive' = everActive /\ pc'[h] = "off"
  BY <1>1 DEF Killed, Goto, HostType, history
<1>3. CASE /\ pc[h] = "record" /\ record[h][d] = None
           /\ record' = [record EXCEPT ![h][d] = Torn]
           /\ UNCHANGED <<pending, activation, active, marker>>
  <2>1. d \in DeviceIds
    BY <1>1, <1>3 DEF HostOK, Writing
  <2> HIDE DEF d
  <2>2. /\ \A e \in DeviceIds : e # d => record'[h][e] = record[h][e]
        /\ \A g \in Hosts \ {h} : record'[g] = record[g]
        /\ record' \in [Hosts -> [DeviceIds -> DeviceIds \cup {None, Torn}]]
    BY <1>1, <1>3, <2>1 DEF HostType
  <2>3. FileType' /\ OthersKeepFiles(h)
    BY <1>1, <1>3, <2>2 DEF HostType, FileType, OthersKeepFiles
  <2>4. \A e \in DeviceIds : HasMembership(h, e) => HasMembership(h, e)'
    BY <1>3, <2>1, <2>2, ConstantsAssumption DEF HasMembership
  <2>5. HostOK(h)'
    BY <1>1, <1>2, <1>3, <2>4 DEF HostOK, Writing
  <2>6. {active'[h], marker'[h]} \cap DeviceIds \subseteq Names(h)
    BY <1>3 DEF Names
  <2> QED  BY <1>1, <2>3, <2>4, <2>5, <2>6, TornIInv
<1>4. CASE /\ pc[h] = "activation" /\ activation[h] = None
           /\ activation' = [activation EXCEPT ![h] = Torn]
           /\ UNCHANGED <<pending, record, active, marker>>
  <2>1. activation'[h] = Torn
    BY <1>1, <1>4 DEF HostType
  <2>2. FileType' /\ OthersKeepFiles(h)
    BY <1>1, <1>4 DEF HostType, FileType, OthersKeepFiles
  <2>3. \A e \in DeviceIds : HasMembership(h, e) => HasMembership(h, e)'
    BY <1>4 DEF HasMembership
  <2>4. HostOK(h)'
    BY <1>1, <1>2, <1>4, <2>1, <2>3, ConstantsAssumption DEF HostOK, Writing
  <2>5. {active'[h], marker'[h]} \cap DeviceIds \subseteq Names(h)
    BY <1>4 DEF Names
  <2> QED  BY <1>1, <2>2, <2>3, <2>4, <2>5, TornIInv
<1>5. CASE /\ pc[h] = "promote" /\ active[h] = None
           /\ active' = [active EXCEPT ![h] = Torn]
           /\ UNCHANGED <<pending, record, activation, marker>>
  <2>1. active'[h] = Torn
    BY <1>1, <1>5 DEF HostType
  <2>2. FileType' /\ OthersKeepFiles(h)
    BY <1>1, <1>5 DEF HostType, FileType, OthersKeepFiles
  <2>3. \A e \in DeviceIds : ~HasMembership(h, e)
    BY <1>5, ConstantsAssumption DEF HasMembership
  <2>4. HostOK(h)'
    BY <1>1, <1>2, <1>5, <2>1, <2>3, ConstantsAssumption DEF HostOK, Writing
  <2>5. {active'[h], marker'[h]} \cap DeviceIds \subseteq Names(h)
    BY <1>5, <2>1, ConstantsAssumption DEF Names
  <2> QED  BY <1>1, <2>2, <2>3, <2>4, <2>5, TornIInv
<1>6. CASE /\ pc[h] = "marker" /\ marker[h] = None
           /\ marker' = [marker EXCEPT ![h] = Torn]
           /\ UNCHANGED <<pending, record, activation, active>>
  <2>1. marker'[h] = Torn
    BY <1>1, <1>6 DEF HostType
  <2>2. FileType' /\ OthersKeepFiles(h)
    BY <1>1, <1>6 DEF HostType, FileType, OthersKeepFiles
  <2>3. \A e \in DeviceIds : ~HasMembership(h, e)
    BY <1>6, ConstantsAssumption DEF HasMembership
  <2>4. HostOK(h)'
    BY <1>1, <1>2, <1>6, <2>1, <2>3, ConstantsAssumption DEF HostOK, Writing
  <2>5. {active'[h], marker'[h]} \cap DeviceIds \subseteq Names(h)
    BY <1>6, <2>1, ConstantsAssumption DEF Names
  <2> QED  BY <1>1, <2>2, <2>3, <2>4, <2>5, TornIInv
<1> QED  BY <1>3, <1>4, <1>5, <1>6 DEF KilledInWrite

\* A write of resolve_site_file is cut short.
LEMMA KilledInLaunchIInv ==
    ASSUME IInv, NEW h \in Hosts, KilledInLaunch(h)
    PROVE  IInv'
<1>1. HostType /\ HostOK(h) /\ faults' \in Nat /\ pc[h] = "off"
  BY HostFacts DEF KilledInLaunch, Fault
<1>2. /\ UNCHANGED <<ctl, world, history, pc, receipt, wire, orphans>>
      /\ UNCHANGED <<record, activation, active, everActive>>
  BY DEF KilledInLaunch, history
<1>3. CASE marker[h] = None /\ marker' = [marker EXCEPT ![h] = Torn] /\ UNCHANGED pending
  <2>1. marker'[h] = Torn
    BY <1>1, <1>3 DEF HostType
  <2>2. FileType' /\ OthersKeepFiles(h)
    BY <1>1, <1>2, <1>3 DEF HostType, FileType, OthersKeepFiles
  <2>3. \A e \in DeviceIds : ~HasMembership(h, e)
    BY <1>3, ConstantsAssumption DEF HasMembership
  <2>4. HostOK(h)'
    BY <1>1, <1>2, <1>3, <2>1, ConstantsAssumption DEF HostOK, Writing
  <2>5. {active'[h], marker'[h]} \cap DeviceIds \subseteq Names(h)
    BY <1>2, <2>1, ConstantsAssumption DEF Names
  <2>6. marker[h] \in DeviceIds => marker'[h] = marker[h]
    BY <1>3, ConstantsAssumption
  <2> QED  BY <1>1, <1>2, <2>2, <2>3, <2>4, <2>5, <2>6, TornLaunchIInv
<1>4. CASE pending' = [pending EXCEPT ![h] = Torn] /\ UNCHANGED marker
  <2>1. FileType' /\ OthersKeepFiles(h)
    BY <1>1, <1>2, <1>4 DEF HostType, FileType, OthersKeepFiles
  <2>2. \A e \in DeviceIds : HasMembership(h, e) => HasMembership(h, e)'
    BY <1>2, <1>4 DEF HasMembership
  <2>3. HostOK(h)'
    BY <1>1, <1>2, <1>4, <2>2 DEF HostOK, Writing
  <2>4. {active'[h], marker'[h]} \cap DeviceIds \subseteq Names(h)
    BY <1>2, <1>4 DEF Names
  <2>5. marker[h] \in DeviceIds => marker'[h] = marker[h]
    BY <1>4
  <2> QED  BY <1>1, <1>2, <2>1, <2>2, <2>3, <2>4, <2>5, TornLaunchIInv
<1> QED  BY <1>3, <1>4 DEF KilledInLaunch

-----------------------------------------------------------------------------
(* The bootstrap handler.                                                  *)

\* A request says what the host has on disk, and the reply goes to that host.
LEMMA ServeOK ==
    ASSUME IInv, NEW h \in Hosts, NEW m, NEW reply \in Messages, Serve(h, m, reply),
           ControllerOnly, everActive \subseteq everActive', MsgOK(h, reply)'
    PROVE  /\ HostType' /\ HostsOK' /\ MsgOK(h, m)
           /\ \A g \in Hosts : Names(g)' \subseteq Names(g) \cup (IF g = h THEN {reply.dev} ELSE {})
           /\ \A g, d : HasMembership(g, d)' = HasMembership(g, d)
<1>1. HostType /\ HostsOK
  BY DEF IInv
<1>2. UNCHANGED <<pending, record, activation, active, marker, pc, receipt, faults>>
  BY DEF ControllerOnly, disk
<1>3. /\ wire' \in [Hosts -> Messages] /\ orphans' \subseteq orphans
      /\ \A g \in Hosts : wire'[g] = wire[g] \/ (g = h /\ wire'[g] = reply)
      /\ MsgOK(h, m)
  <2>1. CASE wire[h] = m /\ wire' = [wire EXCEPT ![h] = reply] /\ UNCHANGED orphans
    BY <1>1, <2>1 DEF HostType, HostsOK
  <2>2. CASE <<h, m>> \in orphans /\ orphans' = orphans \ {<<h, m>>} /\ UNCHANGED wire
    <3>1. MsgOK(<<h, m>>[1], <<h, m>>[2])
      BY <1>1, <2>2 DEF HostsOK
    <3>2. <<h, m>>[1] = h /\ <<h, m>>[2] = m
      OBVIOUS
    <3>3. MsgOK(h, m)
      BY <3>1, <3>2
    <3> QED  BY <1>1, <2>2, <3>3 DEF HostType
  <2> QED  BY <2>1, <2>2 DEF Serve
<1>4. HostType'
  BY <1>1, <1>2, <1>3 DEF HostType
<1>5. \A g \in Hosts : HostOK(g)'
  <2> SUFFICES ASSUME NEW g \in Hosts PROVE HostOK(g)'
    OBVIOUS
  <2>1. HostOK(g)
    BY <1>1 DEF HostsOK
  <2> QED  BY <1>2, <2>1 DEF HostOK, HasMembership
<1>6. \A g \in Hosts : MsgOK(g, wire[g])'
  <2> SUFFICES ASSUME NEW g \in Hosts PROVE MsgOK(g, wire[g])'
    OBVIOUS
  <2>1. CASE wire'[g] = wire[g]
    BY <1>1, <1>2, <2>1 DEF HostsOK, MsgOK
  <2>2. CASE g = h /\ wire'[g] = reply
    BY <2>2 DEF MsgOK
  <2> QED  BY <1>3, <2>1, <2>2
<1>7. \A x \in orphans' : x[2].kind \in {"claim", "persisted"} /\ MsgOK(x[1], x[2])'
  BY <1>1, <1>2, <1>3 DEF HostsOK, MsgOK
<1>8. HostsOK'
  BY <1>5, <1>6, <1>7 DEF HostsOK
<1>9. \A g \in Hosts : Names(g)' \subseteq Names(g) \cup (IF g = h THEN {reply.dev} ELSE {})
  BY <1>2, <1>3 DEF Names
<1>10. \A g, d : HasMembership(g, d)' = HasMembership(g, d)
  BY <1>2 DEF HasMembership
<1> QED  BY <1>3, <1>4, <1>8, <1>9, <1>10

\* A request that changes no transaction: it is refused, replayed or acknowledged.
LEMMA AnswerIInv ==
    ASSUME IInv, NEW h \in Hosts, NEW m, NEW reply \in Messages, Serve(h, m, reply),
           ControllerOnly, UNCHANGED <<ctl, world, history>>, MsgOK(h, reply),
           reply.dev \in DeviceIds =>
               /\ reply.dev \in minted /\ ctl.owner[reply.dev] \in {None, h}
               /\ backup # None => backup.owner[reply.dev] \in {None, h}
    PROVE  IInv'
<1>1. UNCHANGED <<issued, now, minted, backup, restores, everActive, banned, confirmed, historic>>
  BY DEF world, history
<1>2. marker' = marker
  BY DEF ControllerOnly, disk
<1>3. MsgOK(h, reply)'
  BY <1>1, <1>2 DEF MsgOK
<1>4. /\ HostType' /\ HostsOK'
      /\ \A g \in Hosts : Names(g)' \subseteq Names(g) \cup (IF g = h THEN {reply.dev} ELSE {})
      /\ \A g, d : HasMembership(g, d)' = HasMembership(g, d)
  BY <1>1, <1>3, ServeOK
<1>5. OwnersOK'
  <2>1. \A g \in Hosts : \A d \in Names(g)' :
            d \in Names(g) \/ (g = h /\ d = reply.dev /\ d \in DeviceIds)
    BY <1>4 DEF Names
  <2> QED  BY <1>1, <2>1 DEF IInv, OwnersOK
<1>6. GhostsOK'
  BY <1>1, <1>4 DEF IInv, GhostsOK, NoGhost
<1>7. CtlType' /\ RegistryOK' /\ BansOK' /\ HistoricOK'
  BY <1>1 DEF IInv, CtlType, RegistryOK, BansOK, HistoricOK
<1> QED  BY <1>4, <1>5, <1>6, <1>7 DEF IInv

\* Refusals carry no device.
LEMMA RefusalIInv ==
    ASSUME IInv, NEW h \in Hosts, HandleRefusedClaim(h) \/ HandleRefusedPersisted(h)
    PROVE  IInv'
<1>1. ControllerOnly /\ UNCHANGED <<ctl, world, history>>
  BY DEF HandleRefusedClaim, HandleRefusedPersisted
<1>2. PICK m : Serve(h, m, Msg("error", None))
  BY DEF HandleRefusedClaim, HandleRefusedPersisted
<1> QED  BY <1>1, <1>2, NoDevice, AnswerIInv

\* A replay repeats the id the key already has.
LEMMA ReplayIInv ==
    ASSUME IInv, NEW h \in Hosts, HandleReplayedClaim(h)
    PROVE  IInv'
<1>1. ControllerOnly /\ UNCHANGED <<ctl, world, history>>
  BY DEF HandleReplayedClaim
<1>2. PICK d \in DeviceIds : /\ CanReplay(ctl, h, d)
                             /\ Serve(h, Msg("claim", None), Msg("claimed", d))
  BY DEF HandleReplayedClaim
<1>3. ctl.owner[d] = h /\ ctl.claim[d] # None
  BY <1>2 DEF CanReplay, ClaimsBy
<1>4. d \in minted /\ (backup # None => backup.owner[d] \in {None, h})
  BY <1>3, ConstantsAssumption DEF IInv, RegistryOK, Sound, OwnersOK
<1>5. Msg("claimed", d) \in Messages /\ Msg("claimed", d).dev = d /\ Msg("claimed", d).kind = "claimed"
  BY WithDevice
<1>6. MsgOK(h, Msg("claimed", d))
  BY <1>5 DEF MsgOK
<1> QED  BY <1>1, <1>2, <1>3, <1>4, <1>5, <1>6, AnswerIInv

\* The activation ack on a sealed channel.
LEMMA AckIInv ==
    ASSUME IInv, NEW h \in Hosts, HandleAck(h)
    PROVE  IInv'
<1> DEFINE w == wire[h]  d == w.dev
<1>1. /\ ControllerOnly /\ UNCHANGED <<ctl, world, history>> /\ w.kind = "ack"
      /\ Serve(h, w, Msg("confirmed", d))
  BY DEF HandleAck, Serve
<1>2. d \in DeviceIds /\ d \in Names(h) /\ MsgOK(h, w)
  BY <1>1, HostFacts
<1>3. d \in minted /\ ctl.owner[d] \in {None, h} /\ (backup # None => backup.owner[d] \in {None, h})
  BY <1>2 DEF IInv, OwnersOK
<1>4. marker[h] = d /\ d \in everActive
  BY <1>1, <1>2 DEF MsgOK
<1> HIDE DEF w, d
<1>5. /\ Msg("confirmed", d) \in Messages /\ Msg("confirmed", d).dev = d
      /\ Msg("confirmed", d).kind = "confirmed"
  BY <1>2, WithDevice
<1>6. MsgOK(h, Msg("confirmed", d))
  BY <1>4, <1>5 DEF MsgOK
<1> DEFINE reply == Msg("confirmed", d)
<1>7. reply.dev = d /\ reply \in Messages /\ MsgOK(h, reply) /\ Serve(h, w, reply)
  BY <1>1, <1>5, <1>6
<1> HIDE DEF reply
<1> QED  BY <1>1, <1>3, <1>7, AnswerIInv

\* What the claim transaction does to the Controller's snapshot.
LEMMA FreshClaimFacts ==
    ASSUME IInv, NEW h \in Hosts, NEW d \in DeviceIds, d \notin minted,
           SiteKnown(ctl, SiteFile[h]), CanClaim(ctl, h, now)
    PROVE  LET n == Claim(ctl, h, d, now) IN
           /\ Sound(n, issued, minted \cup {d}, now)
           /\ n.owner = [ctl.owner EXCEPT ![d] = h]
           /\ n.device = [ctl.device EXCEPT ![d] = "pending"]
           /\ ctl.owner[d] = None /\ ctl.device[d] = None
           /\ n.sites = ctl.sites /\ n.closed = ctl.closed
           /\ n.paused = ctl.paused
           /\ n.claim = [ctl.claim EXCEPT ![d] = "pending"]
<1>1. /\ issued \in [Invites -> Nat \cup {None}] /\ now \in Nat
      /\ Sound(ctl, issued, minted, now)
  BY DEF IInv, CtlType, RegistryOK
<1>2. MayClaim(ctl, issued, h, now)
  BY DEF CanClaim, MayClaim
<1> QED  BY SMTT(30), <1>1, <1>2, ClaimSound

\* A fresh id is one nobody has heard of.
LEMMA FreshClaimIInv ==
    ASSUME IInv, NEW h \in Hosts, HandleFreshClaim(h)
    PROVE  IInv'
<1>1. PICK d \in DeviceIds \ minted :
        /\ Serve(h, Msg("claim", None), Msg("claimed", d))
        /\ SiteKnown(ctl, SiteFile[h]) /\ CanClaim(ctl, h, now)
        /\ ctl' = Claim(ctl, h, d, now) /\ minted' = minted \cup {d}
  BY DEF HandleFreshClaim
<1>2. /\ ControllerOnly
      /\ UNCHANGED <<issued, now, backup, restores, everActive, banned, confirmed, historic>>
  BY DEF HandleFreshClaim, history
<1>3. /\ issued \in [Invites -> Nat \cup {None}] /\ now \in Nat
      /\ Sound(ctl, issued, minted, now) /\ minted \subseteq DeviceIds
  BY DEF IInv, CtlType, RegistryOK
<1> DEFINE n == Claim(ctl, h, d, now)
<1>4. /\ Sound(n, issued, minted \cup {d}, now)
      /\ n.owner = [ctl.owner EXCEPT ![d] = h] /\ n.device = [ctl.device EXCEPT ![d] = "pending"]
      /\ ctl.owner[d] = None /\ n.sites = ctl.sites /\ n.closed = ctl.closed
      /\ n.paused = ctl.paused
  BY ZenonT(60), <1>1, FreshClaimFacts
<1>5. ctl' = n
  BY <1>1
<1> HIDE DEF n
<1>6. /\ \A e \in DeviceIds : e # d => n.owner[e] = ctl.owner[e] /\ n.device[e] = ctl.device[e]
      /\ n.owner[d] = h /\ n.device[d] = "pending"
  BY <1>3, <1>4 DEF Sound, Snapshot
<1>7. /\ Msg("claimed", d) \in Messages /\ Msg("claimed", d).dev = d
      /\ Msg("claimed", d).kind = "claimed"
  BY WithDevice
<1> DEFINE reply == Msg("claimed", d)
<1>8. reply \in Messages /\ reply.dev = d /\ reply.kind = "claimed" /\ Serve(h, Msg("claim", None), reply)
  BY <1>1, <1>7
<1> HIDE DEF reply
<1>9. MsgOK(h, reply)'
  BY <1>8 DEF MsgOK
<1>10. /\ HostType' /\ HostsOK'
       /\ \A g \in Hosts : Names(g)' \subseteq Names(g) \cup (IF g = h THEN {reply.dev} ELSE {})
       /\ \A g, e : HasMembership(g, e)' = HasMembership(g, e)
  BY <1>2, <1>8, <1>9, ServeOK
<1>11. CtlType'
  BY <1>1, <1>2 DEF IInv, CtlType
<1>12. backup # None => Sound(backup, issued, minted \cup {d}, now) /\ backup.owner[d] = None
  <2> SUFFICES ASSUME backup # None
               PROVE  Sound(backup, issued, minted \cup {d}, now) /\ backup.owner[d] = None
    OBVIOUS
  <2>1. Sound(backup, issued, minted, now)
    BY DEF IInv, RegistryOK
  <2>2. backup \in Snapshot /\ backup.sites \subseteq backup.known
        /\ \A i \in backup.known : issued[i] # None
    BY <2>1 DEF Sound
  <2>3. Sound(backup, issued, minted \cup {d}, now)
    BY <1>3, <2>1, <2>2, SoundGrows
  <2>4. backup.owner[d] = None
    BY <2>1 DEF Sound, ClaimDeviceAgree
  <2> QED  BY <2>3, <2>4
<1>13. RegistryOK'
  BY <1>1, <1>2, <1>4, <1>5, <1>12 DEF RegistryOK
<1>14. OwnersOK'
  <2>1. \A g \in Hosts : \A e \in Names(g)' : e \in Names(g) \/ (g = h /\ e = d)
    BY <1>8, <1>10 DEF Names
  <2>2. \A g \in Hosts : \A e \in Names(g) : e \in minted /\ e \in DeviceIds
    BY DEF IInv, OwnersOK, Names
  <2>3. \A g \in Hosts : \A e \in Names(g)' :
          /\ e \in minted' /\ ctl'.owner[e] \in {None, g}
          /\ backup' # None => backup'.owner[e] \in {None, g}
    BY <1>1, <1>2, <1>5, <1>6, <1>12, <2>1, <2>2 DEF IInv, OwnersOK
  <2>4. backup' # None => \A e \in DeviceIds :
          None \in {ctl'.owner[e], backup'.owner[e]} \/ ctl'.owner[e] = backup'.owner[e]
    BY <1>2, <1>5, <1>6, <1>12 DEF IInv, OwnersOK
  <2> QED  BY <2>3, <2>4 DEF OwnersOK
<1>15. GhostsOK'
  BY <1>2, <1>5, <1>6, <1>10 DEF IInv, GhostsOK, NoGhost
<1>16. BansOK'
  BY ZenonT(60), <1>1, <1>2, <1>4, <1>5, <1>6 DEF IInv, BansOK, CtlType
<1>17. HistoricOK'
  BY <1>2, <1>4, <1>5 DEF IInv, HistoricOK
<1> QED  BY <1>10, <1>11, <1>13, <1>14, <1>15, <1>16, <1>17 DEF IInv

\* The Controller activates the device of a host that has all its files.
LEMMA PersistedIInv ==
    ASSUME IInv, NEW h \in Hosts, HandlePersisted(h)
    PROVE  IInv'
<1>1. PICK d \in DeviceIds :
        /\ ~ctl.paused /\ CanFinalize(ctl, h, d)
        /\ Serve(h, Msg("persisted", d), Msg("activated", d))
        /\ ctl' = Finalize(ctl, d) /\ everActive' = everActive \cup {d}
  BY DEF HandlePersisted
<1>2. /\ ControllerOnly
      /\ UNCHANGED <<issued, now, minted, backup, restores, banned, confirmed, historic, marker>>
  BY DEF HandlePersisted, world, ControllerOnly, disk
<1> DEFINE m == Msg("persisted", d)  reply == Msg("activated", d)
<1>3. /\ m \in Messages /\ m.dev = d /\ m.kind = "persisted"
      /\ reply \in Messages /\ reply.dev = d /\ reply.kind = "activated"
      /\ Serve(h, m, reply)
  BY <1>1, WithDevice
<1> HIDE DEF m, reply
<1>4. marker[h] = d
  <2>1. MsgOK(h, m)
    <3>1. CASE wire[h] = m
      BY <3>1, HostFacts
    <3>2. CASE <<h, m>> \in orphans
      <4>1. MsgOK(<<h, m>>[1], <<h, m>>[2])
        BY <3>2 DEF IInv, HostsOK
      <4>2. <<h, m>>[1] = h /\ <<h, m>>[2] = m
        OBVIOUS
      <4> QED  BY <4>1, <4>2
    <3> QED  BY <1>3, <3>1, <3>2 DEF Serve
  <2> QED  BY <1>3, <2>1 DEF MsgOK
<1>5. MsgOK(h, reply)'
  BY <1>1, <1>2, <1>3, <1>4 DEF MsgOK
<1>6. /\ HostType' /\ HostsOK'
      /\ \A g \in Hosts : Names(g)' \subseteq Names(g) \cup (IF g = h THEN {reply.dev} ELSE {})
      /\ \A g, e : HasMembership(g, e)' = HasMembership(g, e)
  BY <1>1, <1>2, <1>3, <1>5, ServeOK
<1>7. d \in Names(h) /\ HasMembership(h, d) /\ ctl.owner[d] \in {None, h}
  BY <1>4 DEF Names, IInv, HostsOK, HostOK, OwnersOK
<1>8. Sound(ctl, issued, minted, now)
  BY DEF IInv, RegistryOK
<1> DEFINE n == Finalize(ctl, d)
<1>9. /\ Sound(n, issued, minted, now)
      /\ n.device = [ctl.device EXCEPT ![d] = "active"] /\ n.owner = ctl.owner
      /\ ctl.owner[d] \in Hosts /\ ctl.device[d] \in {"pending", "active"}
      /\ n.sites = ctl.sites /\ n.closed = ctl.closed /\ n.paused = ctl.paused
  BY SMTT(30), <1>1, <1>8, FinalizeSound
<1>10. ctl' = n
  BY <1>1
<1> HIDE DEF n
<1>11. /\ \A e \in DeviceIds : e # d => n.device[e] = ctl.device[e]
       /\ n.owner[d] = h
  BY <1>7, <1>8, <1>9, ConstantsAssumption DEF Sound, Snapshot
<1>12. CtlType' /\ RegistryOK'
  BY <1>1, <1>2, <1>9, <1>10 DEF IInv, CtlType, RegistryOK
<1>13. OwnersOK'
  <2>1. \A g \in Hosts : \A e \in Names(g)' : e \in Names(g)
    BY <1>3, <1>6, <1>7
  <2> QED  BY <1>2, <1>9, <1>10, <2>1 DEF IInv, OwnersOK
<1>14. GhostsOK'
  BY <1>2, <1>6, <1>7, <1>9, <1>10, <1>11 DEF IInv, GhostsOK, NoGhost
<1>15. BansOK'
  <2>1. ctl'.paused = ctl.paused /\ \A e \in DeviceIds : e # d => ctl'.device[e] = ctl.device[e]
    BY <1>9, <1>10, <1>11
  <2>2. d \in banned => confirmed
    BY <1>1, <1>9, ConstantsAssumption DEF IInv, BansOK
  <2> QED  BY <1>2, <2>1, <2>2 DEF IInv, BansOK, CtlType
<1>16. HistoricOK'
  BY <1>2, <1>9, <1>10 DEF IInv, HistoricOK
<1> QED  BY <1>6, <1>12, <1>13, <1>14, <1>15, <1>16 DEF IInv

-----------------------------------------------------------------------------
(* The owner.                                                              *)

\* The owner's operations do not reach the hosts.
LEMMA OwnerOK ==
    ASSUME IInv, OwnerOnly, everActive' = everActive
    PROVE  /\ HostType' /\ HostsOK'
           /\ \A g : Names(g)' = Names(g)
           /\ \A g, d : HasMembership(g, d)' = HasMembership(g, d)
<1>1. UNCHANGED <<pending, record, activation, active, marker, pc, receipt, wire, orphans, faults>>
  BY DEF OwnerOnly, disk
<1>2. HostType'
  BY <1>1 DEF IInv, HostType
<1>3. /\ \A g : Names(g)' = Names(g)
      /\ \A g, d : HasMembership(g, d)' = HasMembership(g, d)
      /\ \A g : HostOK(g)' = HostOK(g)
      /\ \A g, m : MsgOK(g, m)' = MsgOK(g, m)
  BY <1>1 DEF Names, HasMembership, HostOK, MsgOK
<1>4. HostsOK'
  <2>1. \A g \in Hosts : HostOK(g)' /\ MsgOK(g, wire[g])'
    <3> SUFFICES ASSUME NEW g \in Hosts PROVE HostOK(g)' /\ MsgOK(g, wire[g])'
      OBVIOUS
    <3>1. HostOK(g) /\ MsgOK(g, wire[g])
      BY DEF IInv, HostsOK
    <3> QED  BY <1>1, <1>3, <3>1 DEF MsgOK
  <2>2. \A x \in orphans' : x[2].kind \in {"claim", "persisted"} /\ MsgOK(x[1], x[2])'
    BY <1>1, <1>3 DEF IInv, HostsOK
  <2> QED  BY <2>1, <2>2 DEF HostsOK
<1> QED  BY <1>2, <1>3, <1>4

\* What is left to show of a step that gives no id to anyone.
LEMMA OwnerIInv ==
    ASSUME IInv, OwnerOnly, everActive' = everActive, CtlType', RegistryOK', BansOK', HistoricOK',
           minted' = minted,
           \A d \in DeviceIds : /\ ctl'.owner[d] \in {None, ctl.owner[d]}
                                /\ ctl'.device[d] = "active" =>
                                     ctl.device[d] = "active" /\ ctl'.owner[d] = ctl.owner[d],
           backup' = backup \/ (backup' = ctl /\ ctl' = ctl)
    PROVE  IInv'
<1>1. /\ HostType' /\ HostsOK'
      /\ \A g : Names(g)' = Names(g)
      /\ \A g, d : HasMembership(g, d)' = HasMembership(g, d)
  BY OwnerOK
<1>2. \A g : Names(g) \subseteq DeviceIds
  BY DEF Names
<1>3. OwnersOK'
  <2>1. ASSUME NEW g \in Hosts, NEW d \in Names(g)
        PROVE  /\ d \in minted' /\ ctl'.owner[d] \in {None, g}
               /\ backup' # None => backup'.owner[d] \in {None, g}
    <3>1. /\ d \in DeviceIds /\ d \in minted /\ ctl.owner[d] \in {None, g}
          /\ backup # None => backup.owner[d] \in {None, g}
      BY <1>2, <2>1 DEF IInv, OwnersOK
    <3> QED  BY <3>1
  <2>2. ASSUME backup' # None, NEW d \in DeviceIds
        PROVE  None \in {ctl'.owner[d], backup'.owner[d]} \/ ctl'.owner[d] = backup'.owner[d]
    BY <2>2 DEF IInv, OwnersOK
  <2> QED  BY <1>1, <2>1, <2>2 DEF OwnersOK
<1>4. GhostsOK'
  <2>1. NoGhost(ctl)'
    BY <1>1 DEF IInv, GhostsOK, NoGhost
  <2>2. backup' # None => NoGhost(backup)'
    BY <1>1 DEF IInv, GhostsOK, NoGhost
  <2> QED  BY <2>1, <2>2 DEF GhostsOK
<1> QED  BY <1>1, <1>3, <1>4 DEF IInv

\* A new pass.
LEMMA InviteIssueIInv ==
    ASSUME IInv, NEW i \in Invites, InviteIssue(i)
    PROVE  IInv'
<1> DEFINE n == RegisterPass(ctl, i)
<1>1. /\ issued[i] = None /\ issued' = [issued EXCEPT ![i] = now] /\ ctl' = n
      /\ UNCHANGED <<now, minted, backup, restores, everActive, banned, confirmed, historic>>
      /\ OwnerOnly
  BY DEF InviteIssue, history
<1>2. CtlType /\ Sound(ctl, issued, minted, now) /\ ctl \in Snapshot /\ now \in Nat
  BY DEF IInv, RegistryOK, Sound, CtlType
<1>3. /\ n \in Snapshot /\ n.sites = ctl.sites \cup {i} /\ n.known = ctl.known \cup {i}
      /\ n.claim = ctl.claim /\ n.device = ctl.device /\ n.owner = ctl.owner /\ n.at = ctl.at
      /\ n.catalog = ctl.catalog /\ n.first = ctl.first /\ n.revoked = ctl.revoked
      /\ n.closed = ctl.closed /\ n.paused = ctl.paused
  BY <1>2 DEF RegisterPass, Snapshot
<1> HIDE DEF n
<1>4. /\ issued'[i] = now /\ now # None /\ \A j \in Invites : j # i => issued'[j] = issued[j]
      /\ issued' \in [Invites -> Nat \cup {None}]
  BY <1>1, <1>2, ConstantsAssumption DEF CtlType
<1>5. \A j \in Invites : issued[j] # None => issued'[j] = issued[j]
  BY <1>1, <1>4
<1>6. Sound(n, issued', minted, now)
  <2>1. n.sites \subseteq n.known /\ \A j \in n.known : issued'[j] # None
    <3>1. ctl.sites \subseteq ctl.known /\ ctl.known \subseteq Invites
          /\ \A j \in ctl.known : issued[j] # None
      BY <1>2 DEF Sound, Snapshot
    <3> QED  BY <1>3, <1>4, <1>5, <3>1
  <2> QED  BY <1>2, <1>3, <1>5, <2>1, SoundGrows
<1>7. backup # None => Sound(backup, issued', minted, now)
  <2> SUFFICES ASSUME backup # None PROVE Sound(backup, issued', minted, now)
    OBVIOUS
  <2>1. Sound(backup, issued, minted, now)
    BY DEF IInv, RegistryOK
  <2>2. /\ backup \in Snapshot /\ backup.sites \subseteq backup.known
        /\ \A j \in backup.known : j \in Invites /\ issued[j] # None
    BY <2>1 DEF Sound, Snapshot
  <2>3. \A j \in backup.known : issued'[j] # None
    BY <1>5, <2>2
  <2> QED  BY <1>2, <1>5, <2>1, <2>2, <2>3, SoundGrows
<1>8. CtlType' /\ RegistryOK'
  BY <1>1, <1>2, <1>4, <1>6, <1>7 DEF CtlType, RegistryOK
<1>9. BansOK'
  BY <1>1, <1>3 DEF IInv, BansOK, CtlType
<1>10. HistoricOK'
  BY <1>1, <1>2, <1>3, <1>5 DEF IInv, HistoricOK, CtlType
<1> QED  BY <1>1, <1>3, <1>8, <1>9, <1>10, OwnerIInv

\* Steps that change neither claims nor sites: they close or confirm.
LEMMA SameClaimsIInv ==
    ASSUME IInv, OwnerOnly, confirmed' \in BOOLEAN,
           UNCHANGED <<issued, now, minted, backup, restores, everActive, banned, historic>>,
           ctl' \in Snapshot, ctl'.sites = ctl.sites, ctl'.known = ctl.known,
           ctl'.claim = ctl.claim, ctl'.device = ctl.device, ctl'.owner = ctl.owner,
           ctl'.at = ctl.at, ctl'.catalog = ctl.catalog, ctl'.first = ctl.first,
           ctl'.revoked = ctl.revoked, ctl.closed \subseteq ctl'.closed,
           (ctl'.paused = ctl.paused /\ confirmed' = confirmed) \/ confirmed'
    PROVE  IInv'
<1>1. CtlType /\ Sound(ctl, issued, minted, now) /\ now \in Nat
  BY DEF IInv, RegistryOK, Sound, CtlType
<1>2. Sound(ctl', issued, minted, now)
  <2>1. ctl'.sites \subseteq ctl'.known /\ \A j \in ctl'.known : issued[j] # None
    BY <1>1 DEF Sound
  <2> DEFINE n == ctl'
  <2>2. /\ n \in Snapshot /\ n.claim = ctl.claim /\ n.device = ctl.device /\ n.owner = ctl.owner
        /\ n.at = ctl.at /\ n.catalog = ctl.catalog /\ n.first = ctl.first
        /\ n.revoked = ctl.revoked /\ ctl.sites \subseteq n.sites /\ n.sites \subseteq n.known
        /\ \A j \in n.known : issued[j] # None
    BY <2>1
  <2> HIDE DEF n
  <2>3. Sound(n, issued, minted, now)
    BY <1>1, <2>2, SoundGrows
  <2> QED  BY <2>3 DEF n
<1>3. CtlType' /\ RegistryOK'
  BY <1>1, <1>2 DEF IInv, CtlType, RegistryOK
<1>4. BansOK'
  BY DEF IInv, BansOK
<1>5. HistoricOK'
  BY DEF IInv, HistoricOK
<1>6. \A d \in DeviceIds : /\ ctl'.owner[d] \in {None, ctl.owner[d]}
                           /\ ctl'.device[d] = "active" =>
                                ctl.device[d] = "active" /\ ctl'.owner[d] = ctl.owner[d]
  OBVIOUS
<1> QED  BY <1>3, <1>4, <1>5, <1>6, OwnerIInv

\* An invite is closed: its pass claims nothing more.
LEMMA InviteCloseIInv ==
    ASSUME IInv, NEW i \in Invites, InviteClose(i)
    PROVE  IInv'
<1>1. ctl \in Snapshot /\ confirmed \in BOOLEAN
  BY DEF IInv, RegistryOK, Sound, CtlType
<1>2. /\ ctl' = [ctl EXCEPT !.closed = ctl.closed \cup {i}] /\ confirmed' = confirmed
      /\ OwnerOnly
      /\ UNCHANGED <<issued, now, minted, backup, restores, everActive, banned, historic>>
  BY DEF InviteClose, CloseInvite, world, history
<1>3. /\ ctl' \in Snapshot /\ ctl'.sites = ctl.sites /\ ctl'.known = ctl.known
      /\ ctl'.claim = ctl.claim /\ ctl'.device = ctl.device /\ ctl'.owner = ctl.owner
      /\ ctl'.at = ctl.at /\ ctl'.catalog = ctl.catalog /\ ctl'.first = ctl.first
      /\ ctl'.revoked = ctl.revoked /\ ctl.closed \subseteq ctl'.closed
      /\ ctl'.paused = ctl.paused
  BY <1>1, <1>2 DEF Snapshot
<1> QED  BY <1>1, <1>2, <1>3, SameClaimsIInv

\* Only the owner's word ends the recovery review.
LEMMA ConfirmRecoveryReviewIInv ==
    ASSUME IInv, ConfirmRecoveryReview
    PROVE  IInv'
<1>1. ctl \in Snapshot
  BY DEF IInv, RegistryOK, Sound
<1>2. /\ ctl' = [ctl EXCEPT !.paused = FALSE] /\ confirmed' = TRUE
      /\ OwnerOnly
      /\ UNCHANGED <<issued, now, minted, backup, restores, everActive, banned, historic>>
  BY DEF ConfirmRecoveryReview, world
<1>3. /\ ctl' \in Snapshot /\ ctl'.sites = ctl.sites /\ ctl'.known = ctl.known
      /\ ctl'.claim = ctl.claim /\ ctl'.device = ctl.device /\ ctl'.owner = ctl.owner
      /\ ctl'.at = ctl.at /\ ctl'.catalog = ctl.catalog /\ ctl'.first = ctl.first
      /\ ctl'.revoked = ctl.revoked /\ ctl.closed \subseteq ctl'.closed
  BY <1>1, <1>2 DEF Snapshot
<1> QED  BY <1>2, <1>3, SameClaimsIInv

\* The clock.
LEMMA TickIInv ==
    ASSUME IInv, Tick
    PROVE  IInv'
<1>1. CtlType /\ Sound(ctl, issued, minted, now) /\ now \in Nat /\ now + 1 \in Nat /\ now <= now + 1
  BY DEF IInv, RegistryOK, CtlType
<1>2. /\ UNCHANGED <<ctl, issued, minted, backup, restores, everActive, banned, confirmed, historic>>
      /\ OwnerOnly /\ now' = now + 1
  BY DEF Tick, history
<1>3. ASSUME NEW s, Sound(s, issued, minted, now)
      PROVE  Sound(s, issued, minted, now + 1)
  <2>1. s \in Snapshot /\ s.sites \subseteq s.known /\ \A i \in s.known : issued[i] # None
    BY <1>3 DEF Sound
  <2> QED  BY <1>1, <1>3, <2>1, SoundGrows
<1>4. CtlType' /\ RegistryOK'
  BY <1>1, <1>2, <1>3 DEF IInv, CtlType, RegistryOK
<1>5. BansOK' /\ HistoricOK'
  BY <1>2 DEF IInv, BansOK, HistoricOK
<1> QED  BY <1>2, <1>4, <1>5, OwnerIInv

\* A backup is the snapshot of a moment.
LEMMA ExportBackupIInv ==
    ASSUME IInv, ExportBackup
    PROVE  IInv'
<1>1. /\ UNCHANGED <<ctl, issued, now, minted, restores, everActive, banned, confirmed, historic>>
      /\ OwnerOnly /\ backup' = ctl
  BY DEF ExportBackup, history
<1>2. CtlType' /\ RegistryOK'
  BY <1>1 DEF IInv, CtlType, RegistryOK, Sound
<1>3. BansOK' /\ HistoricOK'
  BY <1>1 DEF IInv, BansOK, HistoricOK
<1> QED  BY <1>1, <1>2, <1>3, OwnerIInv

\* Revoking, deleting: claims end, and what ends is remembered as banned.
LEMMA EndsClaimsIInv ==
    ASSUME IInv, OwnerOnly,
           UNCHANGED <<issued, now, minted, backup, restores, everActive, confirmed, historic>>,
           Sound(ctl', issued, minted, now),
           NEW ds \in SUBSET DeviceIds, banned' = banned \cup ds,
           ctl'.sites = ctl.sites, ctl.closed \subseteq ctl'.closed, ctl'.paused = ctl.paused,
           \A d \in ds : d \in minted /\ ctl'.device[d] \in {"revoked", None},
           \A d \in DeviceIds : /\ d \notin ds => /\ ctl'.device[d] = ctl.device[d]
                                                  /\ ctl'.owner[d] = ctl.owner[d]
                                /\ ctl'.owner[d] \in {None, ctl.owner[d]}
    PROVE  IInv'
<1>1. CtlType /\ CtlType' /\ RegistryOK'
  BY DEF IInv, CtlType, RegistryOK
<1>2. BansOK'
  <2>1. banned' \subseteq minted'
    BY DEF IInv, BansOK
  <2>2. ASSUME NEW d \in banned'
        PROVE  confirmed' \/ ctl'.paused \/ ctl'.device[d] \in {"revoked", None}
    <3>1. CASE d \in ds
      BY <3>1
    <3>2. CASE d \notin ds
      BY <1>1, <2>2, <3>2 DEF IInv, BansOK, CtlType
    <3> QED  BY <3>1, <3>2
  <2> QED  BY <2>1, <2>2 DEF BansOK
<1>3. HistoricOK'
  BY DEF IInv, HistoricOK
<1>4. \A d \in DeviceIds : ctl'.device[d] = "active" =>
          ctl.device[d] = "active" /\ ctl'.owner[d] = ctl.owner[d]
  BY ConstantsAssumption
<1> QED  BY <1>1, <1>2, <1>3, <1>4, OwnerIInv

\* An invite is revoked, and every device it enrolled with it.
LEMMA InviteRevokeIInv ==
    ASSUME IInv, NEW i \in Invites, InviteRevoke(i)
    PROVE  IInv'
<1> DEFINE n == RevokeInvite(ctl, i)  ds == ClaimsOf(ctl, i)
<1>1. /\ ctl' = n /\ banned' = banned \cup ds /\ OwnerOnly
      /\ UNCHANGED <<issued, now, minted, backup, restores, everActive, confirmed, historic>>
  BY DEF InviteRevoke, world
<1>2. Sound(ctl, issued, minted, now)
  BY DEF IInv, RegistryOK
<1>3. ds \subseteq DeviceIds /\ ds \subseteq minted
  BY <1>2 DEF Sound, ClaimsOf
<1>4. /\ Sound(n, issued, minted, now) /\ n.owner = ctl.owner /\ n.sites = ctl.sites
      /\ n.paused = ctl.paused /\ n.closed = ctl.closed \cup {i}
      /\ \A d \in DeviceIds : n.device[d] = IF d \in ds THEN "revoked" ELSE ctl.device[d]
  BY <1>2, RevokeInviteSound
<1> HIDE DEF n, ds
<1> QED  BY <1>1, <1>3, <1>4, EndsClaimsIInv

\* An ended invite's history is deleted; its devices stay banned.
LEMMA InviteDeleteIInv ==
    ASSUME IInv, NEW i \in Invites, InviteDelete(i)
    PROVE  IInv'
<1> DEFINE n == DeleteInviteHistory(ctl, i)  ds == ClaimsOf(ctl, i)
<1>1. /\ ctl' = n /\ banned' = banned \cup ds \cup DevicesOf(ctl, i) /\ OwnerOnly
      /\ UNCHANGED <<issued, now, minted, backup, restores, everActive, confirmed, historic>>
  BY DEF InviteDelete, world
<1>2. Sound(ctl, issued, minted, now)
  BY DEF IInv, RegistryOK
<1>3. ds \subseteq DeviceIds /\ ds \subseteq minted
  BY <1>2 DEF Sound, ClaimsOf
<1>4. /\ Sound(n, issued, minted, now) /\ n.sites = ctl.sites /\ ds = DevicesOf(ctl, i)
      /\ n.paused = ctl.paused /\ n.closed = ctl.closed \cup {i}
      /\ \A d \in DeviceIds : /\ n.device[d] = IF d \in ds THEN None ELSE ctl.device[d]
                              /\ n.owner[d] = IF d \in ds THEN None ELSE ctl.owner[d]
  BY <1>2, DeleteInviteSound
<1>5. banned' = banned \cup ds
  BY <1>1, <1>4
<1> HIDE DEF n, ds
<1> QED  BY <1>1, <1>3, <1>4, <1>5, EndsClaimsIInv

\* One device is revoked.
LEMMA DeviceRevokeIInv ==
    ASSUME IInv, NEW d \in DeviceIds, DeviceRevoke(d)
    PROVE  IInv'
<1> DEFINE n == RevokeDevice(ctl, d)  ds == {d}
<1>1. /\ CanRevokeDevice(ctl, d) /\ ctl' = n /\ banned' = banned \cup ds /\ OwnerOnly
      /\ UNCHANGED <<issued, now, minted, backup, restores, everActive, confirmed, historic>>
  BY DEF DeviceRevoke, world
<1>2. Sound(ctl, issued, minted, now)
  BY DEF IInv, RegistryOK
<1>3. /\ Sound(n, issued, minted, now) /\ n.device = [ctl.device EXCEPT ![d] = "revoked"]
      /\ n.owner = ctl.owner /\ n.sites = ctl.sites /\ n.closed = ctl.closed
      /\ n.paused = ctl.paused /\ ctl.claim[d] # None
  BY <1>1, <1>2, RevokeDeviceSound
<1>4. ds \subseteq DeviceIds /\ ds \subseteq minted
  BY <1>2, <1>3 DEF Sound
<1> HIDE DEF n
<1>5. \A e \in DeviceIds : n.device[e] = IF e \in ds THEN "revoked" ELSE ctl.device[e]
  BY <1>2, <1>3 DEF Sound, Snapshot
<1> HIDE DEF ds
<1> QED  BY <1>1, <1>3, <1>4, <1>5, EndsClaimsIInv

\* An older snapshot, closed and paused, or an empty one; no connection survives.
LEMMA RestoreIInv ==
    ASSUME IInv, Restore
    PROVE  IInv'
<1>1. /\ backup # None /\ restores' = restores + 1 /\ confirmed' = FALSE /\ orphans' = {}
      /\ ctl' \in {Restored(backup), EmptySnapshot}
      /\ historic' = historic \cup {i \in Invites : issued[i] # None}
      /\ wire' = [h \in Hosts |-> Msg("down", None)]
      /\ UNCHANGED <<issued, now, minted, backup, everActive, banned>>
      /\ UNCHANGED <<pending, record, activation, active, marker, pc, receipt, faults>>
  BY DEF Restore, ControllerOnly, disk, Down
<1>2. CtlType /\ HostType /\ HostsOK /\ Sound(backup, issued, minted, now) /\ now \in Nat
  BY <1>1 DEF IInv, RegistryOK, CtlType
<1>3. /\ Sound(ctl', issued, minted, now)
      /\ \A i \in ctl'.sites : i \in ctl'.closed
      /\ \/ ctl'.paused /\ ctl'.owner = backup.owner /\ ctl'.device = backup.device
         \/ \A d \in DeviceIds : ctl'.owner[d] = None /\ ctl'.device[d] = None
  <2>1. CASE ctl' = EmptySnapshot
    <3>1. /\ ctl'.sites = {}
          /\ \A d \in DeviceIds : ctl'.owner[d] = None /\ ctl'.device[d] = None
      BY <2>1 DEF EmptySnapshot
    <3> QED  BY <2>1, <3>1, EmptySound
  <2>2. CASE ctl' = Restored(backup)
    <3> DEFINE n == Restored(backup)
    <3>1. backup \in Snapshot /\ backup.sites \subseteq backup.known
          /\ \A i \in backup.known : issued[i] # None
      BY <1>2 DEF Sound
    <3>2. /\ n \in Snapshot /\ n.sites = backup.sites /\ n.known = backup.known
          /\ n.claim = backup.claim /\ n.device = backup.device /\ n.owner = backup.owner
          /\ n.at = backup.at /\ n.catalog = backup.catalog /\ n.first = backup.first
          /\ n.revoked = backup.revoked /\ n.closed = backup.closed \cup backup.known
          /\ n.paused = TRUE
      BY <3>1 DEF Restored, Snapshot
    <3> HIDE DEF n
    <3>3. Sound(n, issued, minted, now)
      BY <1>2, <3>1, <3>2, SoundGrows
    <3>4. ctl' = n
      BY <2>2 DEF n
    <3> QED  BY <3>1, <3>2, <3>3, <3>4
  <2> QED  BY <1>1, <2>1, <2>2
<1>4. HostType'
  <2>1. wire' \in [Hosts -> Messages]
    <3>1. \A h \in Hosts : Msg("down", None) \in Messages
      BY NoDevice
    <3> QED  BY <1>1, <3>1
  <2> QED  BY <1>1, <1>2, <2>1 DEF HostType
<1>5. HostsOK' /\ \A h \in Hosts : Names(h)' \subseteq Names(h)
  <2>1. ASSUME NEW h \in Hosts
        PROVE  HostOK(h)' /\ MsgOK(h, wire[h])' /\ Names(h)' \subseteq Names(h)
    <3>1. wire'[h] = Msg("down", None) /\ HostOK(h)
      BY <1>1, <1>2 DEF HostsOK
    <3>2. HostOK(h)'
      BY <1>1, <3>1 DEF HostOK, HasMembership
    <3>3. MsgOK(h, wire[h])' /\ Names(h)' \subseteq Names(h)
      BY <1>1, <3>1, NoDevice DEF MsgOK, Names
    <3> QED  BY <3>2, <3>3
  <2> QED  BY <1>1, <2>1 DEF HostsOK
<1>6. CtlType' /\ RegistryOK'
  <2>1. historic' \subseteq Invites
    BY <1>1, <1>2 DEF CtlType
  <2>2. restores' \in Nat /\ confirmed' \in BOOLEAN
    <3>1. restores' = restores + 1 /\ restores \in Nat
      BY <1>1, <1>2 DEF CtlType
    <3>2. confirmed' \in BOOLEAN
      BY <1>1, Zenon
    <3> QED  BY <3>1, <3>2
  <2>3. CtlType'
    BY <1>1, <1>2, <2>1, <2>2 DEF CtlType
  <2>4. RegistryOK'
    BY <1>1, <1>2, <1>3 DEF RegistryOK
  <2> QED  BY <2>3, <2>4
<1>7. OwnersOK'
  <2>1. \A h \in Hosts : Names(h) \subseteq DeviceIds
    BY DEF Names
  <2> QED  BY <1>1, <1>3, <1>5, <2>1 DEF IInv, OwnersOK
<1>8. GhostsOK'
  <2>1. \A g, d : HasMembership(g, d)' = HasMembership(g, d)
    BY <1>1 DEF HasMembership
  <2> QED  BY <1>1, <1>3, <2>1, ConstantsAssumption DEF IInv, GhostsOK, NoGhost
<1>9. BansOK'
  BY <1>1, <1>3 DEF IInv, BansOK, CtlType
<1>10. HistoricOK'
  BY <1>1, <1>3 DEF IInv, HistoricOK
<1> QED  BY <1>4, <1>5, <1>6, <1>7, <1>8, <1>9, <1>10 DEF IInv

-----------------------------------------------------------------------------
(* Every step keeps the invariant, and what follows from it.               *)

\* Every action keeps the invariant.
LEMMA NextIInv == IInv /\ [Next]_vars => IInv'
<1> SUFFICES ASSUME IInv, [Next]_vars PROVE IInv'
  OBVIOUS
<1>1. CASE UNCHANGED vars
  <2>1. /\ OwnerOnly
        /\ UNCHANGED <<ctl, issued, now, minted, backup, restores, everActive, banned,
                       confirmed, historic>>
    BY <1>1 DEF vars, OwnerOnly, disk
  <2>2. CtlType' /\ RegistryOK' /\ BansOK' /\ HistoricOK'
    BY <2>1 DEF IInv, CtlType, RegistryOK, BansOK, HistoricOK
  <2> QED  BY <2>1, <2>2, OwnerIInv
<1>2. CASE Owner
  <2>1. ASSUME NEW i \in Invites,
               InviteIssue(i) \/ InviteClose(i) \/ InviteRevoke(i) \/ InviteDelete(i)
        PROVE  IInv'
    BY <2>1, InviteIssueIInv, InviteCloseIInv, InviteRevokeIInv, InviteDeleteIInv
  <2>2. ASSUME NEW d \in DeviceIds, DeviceRevoke(d) PROVE IInv'
    BY <2>2, DeviceRevokeIInv
  <2>3. CASE ExportBackup \/ Restore \/ ConfirmRecoveryReview \/ Tick
    BY <2>3, ExportBackupIInv, RestoreIInv, ConfirmRecoveryReviewIInv, TickIInv
  <2> QED  BY <1>2, <2>1, <2>2, <2>3 DEF Owner
<1>3. ASSUME NEW h \in Hosts, Handler(h) PROVE IInv'
  BY <1>3, FreshClaimIInv, ReplayIInv, RefusalIInv, PersistedIInv, AckIInv DEF Handler
<1>4. ASSUME NEW h \in Hosts, HostStep(h) PROVE IInv'
  BY <1>4, LaunchIInv, TalkIInv, ReceiptIInv, PersistRecordIInv, PersistActivationIInv,
     PromoteActiveIInv, RemovePendingIInv, PersistMarkerIInv, ReceiveActivatedIInv,
     ConfirmActivationIInv DEF HostStep
<1>5. ASSUME NEW h \in Hosts, HostFault(h) PROVE IInv'
  BY <1>5, AbandonIInv, KilledInWriteIInv, KilledInLaunchIInv DEF HostFault
<1> QED  BY <1>1, <1>2, <1>3, <1>4, <1>5 DEF Next

\* The inductive invariant holds.
THEOREM Invariance == Spec => []IInv
<1>1. Init => IInv
  BY InitIInv
<1>2. IInv /\ [Next]_vars => IInv'
  BY NextIInv
<1> QED  BY <1>1, <1>2, PTL DEF Spec

\* No transaction of the enrollment registry or the catalog is refused by the
\* store's validation, and no DeviceKey has two devices, however claims, replays,
\* revocations, deletions, crashes and restores interleave.
THEOREM RegistryIsSoundThm == Spec => []RegistryIsSound
BY Invariance, IInvImplies, PTL

\* claim_with_ceiling never exceeds a pass, and no claim of a revoked invite lives.
THEOREM InviteIsObeyedThm == Spec => []InviteIsObeyed
BY Invariance, IInvImplies, PTL

\* The Controller activates only a host whose files survive a crash, and a host
\* drops its activation file only when the Controller has activated it.
THEOREM BothSidesAgreeThm == Spec => []BothSidesAgree
BY Invariance, IInvImplies, PTL

\* handle_member lets no revoked or deleted device in again unless the owner
\* confirmed the review of a restored backup.
THEOREM RevokedStaysOutThm == Spec => []RevokedStaysOut
BY Invariance, IInvImplies, PTL

-----------------------------------------------------------------------------
(* What no step may do while one state directory lives.                    *)

\* A revoked device is not made anything else, and a claim is new only under an
\* open invite of a known site.
Kept(d) ==
    /\ ctl.device[d] = "revoked" => ctl'.device[d] \in {"revoked", None}
    /\ ctl'.claim[d] # None =>
          \/ ctl.claim[d] # None /\ ctl'.owner[d] = ctl.owner[d]
          \/ SiteFile[ctl'.owner[d]] \in ctl.sites \ ctl.closed

\* The claim handler.
LEMMA FreshClaimKept ==
    ASSUME IInv, NEW h \in Hosts, HandleFreshClaim(h)
    PROVE  \A e \in DeviceIds : Kept(e)
<1>1. PICK d \in DeviceIds \ minted :
        /\ SiteKnown(ctl, SiteFile[h]) /\ CanClaim(ctl, h, now)
        /\ ctl' = Claim(ctl, h, d, now)
  BY DEF HandleFreshClaim
<1> DEFINE i == SiteFile[h]  n == Claim(ctl, h, d, now)
<1>2. ctl \in Snapshot
  BY DEF IInv, RegistryOK, Sound
<1>3. i \in ctl.sites \ ctl.closed
  BY <1>1 DEF SiteKnown, CanClaim
<1>4. d \in DeviceIds /\ d \notin minted
  BY <1>1
<1>5. /\ n.owner = [ctl.owner EXCEPT ![d] = h] /\ n.device = [ctl.device EXCEPT ![d] = "pending"]
      /\ ctl.device[d] = None /\ n.claim = [ctl.claim EXCEPT ![d] = "pending"]
  BY ZenonT(60), <1>1, <1>4, FreshClaimFacts
<1>6. ctl' = n
  BY <1>1
<1> HIDE DEF n
<1>7. \A e \in DeviceIds :
        IF e = d THEN n.owner[e] = h
        ELSE /\ n.owner[e] = ctl.owner[e] /\ n.device[e] = ctl.device[e]
             /\ n.claim[e] = ctl.claim[e]
  BY <1>2, <1>5 DEF Snapshot
<1> QED  BY <1>3, <1>5, <1>6, <1>7, ConstantsAssumption DEF Kept

\* The handler of "Persisted".
LEMMA PersistedKept ==
    ASSUME IInv, NEW h \in Hosts, HandlePersisted(h)
    PROVE  \A e \in DeviceIds : Kept(e)
<1>1. PICK d \in DeviceIds : CanFinalize(ctl, h, d) /\ ctl' = Finalize(ctl, d)
  BY DEF HandlePersisted
<1> DEFINE n == Finalize(ctl, d)
<1>2. Sound(ctl, issued, minted, now) /\ ctl \in Snapshot
  BY DEF IInv, RegistryOK, Sound
<1>3. /\ n.device = [ctl.device EXCEPT ![d] = "active"] /\ n.owner = ctl.owner
      /\ ctl.device[d] \in {"pending", "active"}
      /\ \A e \in DeviceIds : n.claim[e] # None => ctl.claim[e] # None
  BY <1>1, <1>2, FinalizeSound
<1>4. ctl' = n
  BY <1>1
<1> HIDE DEF n
<1>5. \A e \in DeviceIds : e # d => n.device[e] = ctl.device[e]
  BY <1>2, <1>3 DEF Snapshot
<1> QED  BY <1>3, <1>4, <1>5 DEF Kept

\* The owner's revocations and deletions.
LEMMA InviteRevokeKept ==
    ASSUME IInv, NEW i \in Invites, InviteRevoke(i)
    PROVE  \A e \in DeviceIds : Kept(e)
<1> DEFINE n == RevokeInvite(ctl, i)
<1>1. ctl' = n /\ Sound(ctl, issued, minted, now)
  BY DEF IInv, RegistryOK, InviteRevoke
<1>2. /\ n.owner = ctl.owner
      /\ \A e \in DeviceIds :
            /\ n.device[e] = IF e \in ClaimsOf(ctl, i) THEN "revoked" ELSE ctl.device[e]
            /\ n.claim[e] # None => ctl.claim[e] # None
  BY <1>1, RevokeInviteSound
<1> HIDE DEF n
<1> QED  BY <1>1, <1>2 DEF Kept

\* Deleting history brings no device back.
LEMMA InviteDeleteKept ==
    ASSUME IInv, NEW i \in Invites, InviteDelete(i)
    PROVE  \A e \in DeviceIds : Kept(e)
<1> DEFINE n == DeleteInviteHistory(ctl, i)  ds == ClaimsOf(ctl, i)
<1>1. ctl' = n /\ Sound(ctl, issued, minted, now)
  BY DEF IInv, RegistryOK, InviteDelete
<1>2. /\ Sound(n, issued, minted, now)
      /\ \A e \in DeviceIds :
            /\ n.device[e] = IF e \in ds THEN None ELSE ctl.device[e]
            /\ n.owner[e] = IF e \in ds THEN None ELSE ctl.owner[e]
            /\ n.claim[e] # None => ctl.claim[e] # None
  BY <1>1, DeleteInviteSound
<1> HIDE DEF n, ds
<1>3. \A e \in DeviceIds : n.owner[e] = None <=> n.claim[e] = None
  BY <1>2 DEF Sound, ClaimDeviceAgree
<1> QED  BY <1>1, <1>2, <1>3 DEF Kept

\* Revoking one device brings no other back.
LEMMA DeviceRevokeKept ==
    ASSUME IInv, NEW d \in DeviceIds, DeviceRevoke(d)
    PROVE  \A e \in DeviceIds : Kept(e)
<1> DEFINE n == RevokeDevice(ctl, d)
<1>1. ctl' = n /\ CanRevokeDevice(ctl, d) /\ Sound(ctl, issued, minted, now) /\ ctl \in Snapshot
  BY DEF IInv, RegistryOK, DeviceRevoke, Sound
<1>2. /\ n.owner = ctl.owner /\ n.device = [ctl.device EXCEPT ![d] = "revoked"]
      /\ \A e \in DeviceIds : n.claim[e] # None => ctl.claim[e] # None
  BY <1>1, RevokeDeviceSound
<1> HIDE DEF n
<1>3. \A e \in DeviceIds : n.device[e] = IF e = d THEN "revoked" ELSE ctl.device[e]
  BY <1>1, <1>2 DEF Snapshot
<1> QED  BY <1>1, <1>2, <1>3 DEF Kept

\* Every other step leaves devices and claims alone, or is a restore.
LEMMA StepKept ==
    ASSUME IInv, [Next]_vars, restores' = restores
    PROVE  \A e \in DeviceIds : Kept(e)
<1>1. ASSUME ctl'.device = ctl.device, ctl'.claim = ctl.claim, ctl'.owner = ctl.owner
      PROVE  \A e \in DeviceIds : Kept(e)
  BY <1>1 DEF Kept
<1>2. ctl \in Snapshot /\ restores \in Nat
  BY DEF IInv, CtlType, RegistryOK, Sound
<1>3. CASE UNCHANGED vars
  BY <1>1, <1>3 DEF vars
<1>4. CASE Owner
  <2>1. ASSUME NEW i \in Invites, InviteIssue(i) PROVE \A e \in DeviceIds : Kept(e)
    BY <1>1, <1>2, <2>1 DEF InviteIssue, RegisterPass, Snapshot
  <2>2. ASSUME NEW i \in Invites, InviteClose(i) PROVE \A e \in DeviceIds : Kept(e)
    BY <1>1, <1>2, <2>2 DEF InviteClose, CloseInvite, Snapshot
  <2>3. CASE ConfirmRecoveryReview
    BY <1>1, <1>2, <2>3 DEF ConfirmRecoveryReview, Snapshot
  <2>4. CASE ExportBackup \/ Tick
    BY <1>1, <2>4 DEF ExportBackup, Tick
  <2>5. ~Restore
    BY <1>2 DEF Restore
  <2> QED  BY <1>4, <2>1, <2>2, <2>3, <2>4, <2>5, InviteRevokeKept, InviteDeleteKept,
              DeviceRevokeKept DEF Owner
<1>5. ASSUME NEW h \in Hosts, Handler(h) PROVE \A e \in DeviceIds : Kept(e)
  <2>1. CASE \/ HandleReplayedClaim(h) \/ HandleRefusedClaim(h)
             \/ HandleRefusedPersisted(h) \/ HandleAck(h)
    BY <1>1, <2>1 DEF HandleReplayedClaim, HandleRefusedClaim, HandleRefusedPersisted, HandleAck
  <2> QED  BY <1>5, <2>1, FreshClaimKept, PersistedKept DEF Handler
<1>6. ASSUME NEW h \in Hosts, HostStep(h) PROVE ctl' = ctl
  BY <1>6 DEF HostStep, Launch, StartClaim, ResumeActivation, NothingToResume, ReceiveClaimed,
     PersistRecord, PersistActivation, PromoteActive, RemovePending, PersistMarker, SendPersisted,
     ReceiveActivated, ReceiveConfirmed, ConfirmActivation, ReceiveError, RetryAfterDrop,
     ExitFailed, HostOnly
<1>7. ASSUME NEW h \in Hosts, HostFault(h) PROVE ctl' = ctl
  BY <1>7 DEF HostFault, ConnectionBreaks, HostKilled, KilledInWrite, KilledInLaunch, Killed
<1> QED  BY <1>1, <1>3, <1>4, <1>5, <1>6, <1>7 DEF Next

\* Until a backup is restored, a device once revoked is never pending or active
\* again, whatever late claim, replay or "Persisted" arrives.
THEOREM RevocationIsFinalThm == Spec => RevocationIsFinal
<1>1. ASSUME IInv, [Next]_vars
      PROVE  [\A d \in DeviceIds : restores' = restores /\ ctl.device[d] = "revoked" =>
                  ctl'.device[d] \in {"revoked", None}]_vars
  BY <1>1, StepKept DEF Kept
<1> QED  BY <1>1, Invariance, PTL DEF Spec, RevocationIsFinal

\* The passes made before a restore enroll nobody new after it: the backup knows
\* them and closes them, or does not know their site.
THEOREM HistoricBootstrapClosedThm == Spec => HistoricBootstrapClosed
<1>1. ASSUME IInv, [Next]_vars
      PROVE  [\A i \in historic : restores' = restores =>
                  ClaimsOf(ctl', i) \subseteq ClaimsOf(ctl, i)]_vars
  <2> SUFFICES ASSUME restores' = restores, NEW i \in historic
               PROVE  ClaimsOf(ctl', i) \subseteq ClaimsOf(ctl, i)
    OBVIOUS
  <2>1. i \notin ctl.sites \ ctl.closed
    BY <1>1 DEF IInv, HistoricOK
  <2>2. \A d \in DeviceIds : Kept(d)
    BY <1>1, StepKept
  <2> QED  BY <2>1, <2>2 DEF Kept, ClaimsOf, InviteOf
<1> QED  BY <1>1, Invariance, PTL DEF Spec, HistoricBootstrapClosed

-----------------------------------------------------------------------------
(* The store under the registry: ControlStore keeps its last acknowledged   *)
(* generation on disk and implements DurableRegister.                       *)

\* The slot of generation n + 1 is the one generation n is not in.
LEMMA NextSlot ==
    ASSUME NEW n \in Nat
    PROVE  /\ SlotFor(n) \in Slots
           /\ SlotFor(n + 1) = Other(SlotFor(n))
           /\ Other(SlotFor(n)) # SlotFor(n)
           /\ Other(Other(SlotFor(n))) = SlotFor(n)
  BY DEF SlotFor, Slots, Other

\* Documents sit in the slot of their parity.
InPlace ==
    \A s \in Slots : slot[s] \in Doc => slot[s].gen > 0 /\ s = SlotFor(slot[s].gen)

\* Before the first acknowledgement only the first document can exist.
Fresh ==
    /\ slot["B"] = Missing
    /\ slot["A"] \in {Missing, TornSlot, [gen |-> 1, val |-> InitValue]}

\* What memory and the candidate are in each phase.
Phases ==
    /\ phase \in {"idle", "writing"} => acked > 0 /\ mem = slot[SlotFor(acked)]
    /\ phase = "writing" => cand.gen = acked + 1
    /\ phase = "creating" => /\ acked = 0
                             /\ cand = [gen |-> 1, val |-> InitValue]
                             /\ slot["A"] = Missing

\* The inductive invariant.
StoreIInv == StoreType /\ InPlace /\ (acked = 0 => Fresh) /\ AckedIsDurable /\ Phases

\* A slot is valid when it holds a document.
LEMMA ValidIsDoc ==
    ASSUME StoreType
    PROVE  Valid = {s \in Slots : slot[s] \in Doc}
  BY StoreAssumption DEF StoreType, Valid, Doc

\* No document, missing or torn slot is another.
LEMMA Kinds == Missing # TornSlot /\ Missing \notin Doc /\ TornSlot \notin Doc
  BY StoreAssumption DEF Doc

\* An empty directory satisfies the inductive invariant.
LEMMA StoreInitIInv == StoreInit => StoreIInv
  <1> SUFFICES ASSUME StoreInit PROVE StoreIInv
      OBVIOUS
  <1>1. StoreType
      BY StoreAssumption DEF StoreInit, StoreType, Doc
  <1>2. InPlace /\ Fresh /\ AckedIsDurable /\ Phases
      BY Kinds DEF StoreInit, InPlace, Fresh, AckedIsDurable, Phases, Slots
  <1> QED
      BY <1>1, <1>2 DEF StoreIInv

\* An unacknowledged write changes only the slot that holds no acknowledged
\* generation.
LEMMA LeftoversIInv ==
    ASSUME StoreIInv, phase \in {"creating", "writing"}, slot' \in Leftovers
    PROVE  \E c \in {slot[SlotFor(cand.gen)], TornSlot, cand} :
              /\ slot' = [slot EXCEPT ![SlotFor(cand.gen)] = c]
              /\ cand.gen = acked + 1
              /\ c \in Doc \cup {Missing, TornSlot}
              /\ acked > 0 => SlotFor(cand.gen) = Other(SlotFor(acked))
              /\ acked = 0 => SlotFor(cand.gen) = "A" /\ cand = [gen |-> 1, val |-> InitValue]
  <1>1. PICK c \in {slot[SlotFor(cand.gen)], TornSlot, cand} :
           slot' = [slot EXCEPT ![SlotFor(cand.gen)] = c]
      BY DEF Leftovers
  <1>2. cand.gen = acked + 1 /\ cand \in Doc /\ acked \in Nat /\ cand.gen \in Nat
      BY DEF StoreIInv, Phases, StoreType, Doc
  <1>3. SlotFor(cand.gen) \in Slots
      BY <1>2, NextSlot
  <1>4. c \in Doc \cup {Missing, TornSlot}
      BY <1>1, <1>2, <1>3 DEF StoreIInv, StoreType
  <1>5. acked > 0 => SlotFor(cand.gen) = Other(SlotFor(acked))
      BY <1>2, NextSlot
  <1>6. acked = 0 => SlotFor(cand.gen) = "A" /\ cand = [gen |-> 1, val |-> InitValue]
      BY <1>2 DEF StoreIInv, Phases, SlotFor
  <1> QED
      BY <1>1, <1>2, <1>4, <1>5, <1>6

\* Such a write keeps the invariant if memory, candidate and history stay.
LEMMA UnackedIInv ==
    ASSUME StoreIInv, phase \in {"creating", "writing"}, slot' \in Leftovers,
           UNCHANGED <<mem, cand, acked>>,
           phase' \in {"down", "idle"}, phase' = "idle" => phase = "writing"
    PROVE  StoreIInv'
  <1>1. PICK c \in {slot[SlotFor(cand.gen)], TornSlot, cand} :
           /\ slot' = [slot EXCEPT ![SlotFor(cand.gen)] = c]
           /\ cand.gen = acked + 1
           /\ c \in Doc \cup {Missing, TornSlot}
           /\ acked > 0 => SlotFor(cand.gen) = Other(SlotFor(acked))
           /\ acked = 0 => SlotFor(cand.gen) = "A" /\ cand = [gen |-> 1, val |-> InitValue]
      BY LeftoversIInv
  <1>2. acked \in Nat /\ cand \in Doc /\ SlotFor(acked) \in Slots
           /\ SlotFor(cand.gen) \in Slots /\ cand.gen \in Nat /\ cand.gen > 0
      BY <1>1, NextSlot DEF StoreIInv, StoreType, Doc
  <1>3. StoreType'
      BY <1>1, <1>2 DEF StoreIInv, StoreType
  <1>4. InPlace'
      BY <1>1, <1>2, Kinds DEF StoreIInv, StoreType, InPlace
  <1>5. (acked = 0 => Fresh)'
      BY <1>1, <1>2 DEF StoreIInv, StoreType, Fresh, Slots
  <1>6. AckedIsDurable'
    <2> SUFFICES ASSUME acked > 0 PROVE AckedIsDurable'
        BY DEF AckedIsDurable
    <2>1. Other(SlotFor(acked)) # SlotFor(acked) /\ Other(SlotFor(acked)) \in Slots
        BY <1>2, NextSlot DEF Slots, Other
    <2>2. /\ slot'[SlotFor(acked)] = slot[SlotFor(acked)]
          /\ slot'[Other(SlotFor(acked))] = c
        BY <1>1, <1>2, <2>1 DEF StoreIInv, StoreType
    <2>3. slot[SlotFor(acked)] \in Doc /\ slot[SlotFor(acked)].gen = acked
        BY <1>2, ValidIsDoc DEF StoreIInv, AckedIsDurable
    <2>4. c \in Doc => c.gen \in {acked - 1, acked + 1}
        BY <1>1, <2>1, ValidIsDoc, Kinds DEF StoreIInv, AckedIsDurable
    <2>5. Valid' = {s \in Slots : slot'[s] \in Doc}
        BY <1>3, StoreAssumption DEF StoreType, Valid, Doc
    <2> QED
        BY <1>2, <2>1, <2>2, <2>3, <2>4, <2>5 DEF AckedIsDurable
  <1>7. Phases'
    <2>1. CASE phase' = "idle"
      <3>1. acked > 0 /\ mem = slot[SlotFor(acked)]
          BY <2>1 DEF StoreIInv, Phases
      <3>2. slot'[SlotFor(acked)] = slot[SlotFor(acked)]
          BY <1>1, <1>2, <3>1, NextSlot DEF StoreIInv, StoreType
      <3> QED
          BY <2>1, <3>1, <3>2 DEF Phases
    <2>2. CASE phase' = "down"
        BY <2>2 DEF Phases
    <2> QED
        BY <2>1, <2>2
  <1> QED
      BY <1>3, <1>4, <1>5, <1>6, <1>7 DEF StoreIInv

\* load_or_create adopts the newest intact slot, or refuses to start.
LEMMA LoadIInv == StoreIInv /\ Load => StoreIInv'
  <1> SUFFICES ASSUME StoreIInv, Load PROVE StoreIInv'
      OBVIOUS
  <1>1. PICK s \in Valid : Newest(s) /\ mem' = slot[s] /\ cand' = slot[s]
                              /\ acked' = slot[s].gen
      BY DEF Load
  <1>2. slot' = slot /\ phase' = "idle"
      BY DEF Load
  <1>3. /\ s \in Slots /\ slot[s] \in Doc /\ slot[s].gen \in Nat
        /\ slot[s].gen > 0 /\ s = SlotFor(slot[s].gen)
      BY <1>1, ValidIsDoc DEF StoreIInv, InPlace, Doc
  <1>4. StoreType' /\ InPlace' /\ Phases'
      BY <1>1, <1>2, <1>3 DEF StoreIInv, StoreType, InPlace, Phases
  <1>5. Other(s) \in Valid => slot[Other(s)].gen \in {slot[s].gen - 1, slot[s].gen + 1}
    <2>1. CASE acked = 0
        BY <2>1, <1>3, ValidIsDoc, Kinds DEF StoreIInv, Fresh, Slots, Other
    <2>2. CASE acked > 0
      <3>1. acked \in Nat /\ (s = SlotFor(acked) \/ s = Other(SlotFor(acked)))
          BY <1>3, <2>2 DEF StoreIInv, StoreType, Slots, Other, SlotFor
      <3>2. SlotFor(acked) \in Valid /\ slot[SlotFor(acked)].gen = acked
          BY <2>2 DEF StoreIInv, AckedIsDurable
      <3>3. CASE s = SlotFor(acked)
          BY <2>2, <3>2, <3>3 DEF StoreIInv, AckedIsDurable
      <3>4. CASE s = Other(SlotFor(acked))
        <4>1. slot[s].gen \in {acked - 1, acked + 1}
            BY <1>1, <2>2, <3>4 DEF StoreIInv, AckedIsDurable
        <4>2. Other(s) = SlotFor(acked)
            BY <3>4, NextSlot DEF StoreIInv, StoreType
        <4> QED
            BY <1>3, <3>2, <4>1, <4>2 DEF StoreIInv, StoreType
      <3> QED
          BY <3>1, <3>3, <3>4
    <2> QED
        BY <2>1, <2>2 DEF StoreIInv, StoreType
  <1>6. Valid' = Valid
      BY <1>2 DEF Valid
  <1>7. AckedIsDurable'
      BY <1>1, <1>2, <1>3, <1>5, <1>6 DEF AckedIsDurable
  <1>8. (acked = 0 => Fresh)'
      BY <1>1, <1>3
  <1> QED
      BY <1>4, <1>7, <1>8 DEF StoreIInv

\* An acknowledged write is the newest intact slot.
LEMMA WriteSucceedsIInv == StoreIInv /\ WriteSucceeds => StoreIInv'
  <1> SUFFICES ASSUME StoreIInv, WriteSucceeds PROVE StoreIInv'
      OBVIOUS
  <1> DEFINE n == SlotFor(cand.gen)
  <1>1. /\ slot' = [slot EXCEPT ![n] = cand] /\ mem' = cand /\ cand' = cand
        /\ acked' = cand.gen /\ phase' = "idle"
      BY DEF WriteSucceeds
  <1>2. /\ cand.gen = acked + 1 /\ cand \in Doc /\ acked \in Nat /\ cand.gen \in Nat
        /\ n \in Slots /\ n = Other(SlotFor(acked)) /\ Other(n) = SlotFor(acked)
        /\ Other(n) # n /\ SlotFor(acked) \in Slots
      BY NextSlot DEF StoreIInv, Phases, StoreType, Doc, WriteSucceeds
  <1>3. slot'[n] = cand /\ slot'[Other(n)] = slot[Other(n)]
      BY <1>1, <1>2 DEF StoreIInv, StoreType
  <1>4. StoreType'
      BY <1>1, <1>2 DEF StoreIInv, StoreType
  <1>5. InPlace'
      BY <1>1, <1>2 DEF StoreIInv, InPlace, StoreType
  <1>6. Phases'
      BY <1>1, <1>2, <1>3 DEF Phases
  <1>7. slot[Other(n)] \in Doc => slot[Other(n)].gen = acked
    <2>1. CASE acked = 0
        BY <2>1, <1>2, Kinds DEF StoreIInv, Fresh, SlotFor
    <2>2. CASE acked > 0
        BY <2>2, <1>2 DEF StoreIInv, AckedIsDurable
    <2> QED
        BY <1>2, <2>1, <2>2
  <1>8. Valid' = {s \in Slots : slot'[s] \in Doc}
      BY <1>4, StoreAssumption DEF StoreType, Valid, Doc
  <1>9. AckedIsDurable'
      BY <1>1, <1>2, <1>3, <1>7, <1>8 DEF AckedIsDurable
  <1>10. (acked = 0 => Fresh)'
      BY <1>1, <1>2
  <1> QED
      BY <1>4, <1>5, <1>6, <1>9, <1>10 DEF StoreIInv

\* Every step preserves the inductive invariant.
LEMMA StoreNextIInv == StoreIInv /\ [StoreNext]_storeVars => StoreIInv'
  <1> SUFFICES ASSUME StoreIInv, [StoreNext]_storeVars PROVE StoreIInv'
      OBVIOUS
  <1>1. CASE Load
      BY <1>1, LoadIInv
  <1>2. CASE CreateInitial
    <2>1. acked = 0
        BY <1>2, ValidIsDoc, Kinds, NextSlot
           DEF StoreIInv, CreateInitial, AckedIsDurable, StoreType
    <2>2. StoreType'
        BY <1>2, StoreAssumption DEF StoreIInv, CreateInitial, StoreType, Doc
    <2> QED
        BY <1>2, <2>1, <2>2
           DEF StoreIInv, CreateInitial, InPlace, Fresh, AckedIsDurable, Phases, Slots
  <1>3. CASE WriteSucceeds
      BY <1>3, WriteSucceedsIInv
  <1>4. CASE WriteFails
      BY <1>4, UnackedIInv DEF WriteFails
  <1>5. CASE Crash
    <2>1. CASE phase = "idle"
      <3>1. StoreType' /\ InPlace' /\ Phases'
          BY <1>5, <2>1 DEF StoreIInv, Crash, StoreType, InPlace, Phases
      <3>2. (acked = 0 => Fresh)' /\ AckedIsDurable'
          BY <1>5, <2>1 DEF StoreIInv, Crash, Fresh, AckedIsDurable, Valid
      <3> QED
          BY <3>1, <3>2 DEF StoreIInv
    <2>2. CASE phase # "idle"
        BY <1>5, <2>2, UnackedIInv DEF Crash, StoreIInv, StoreType
    <2> QED
        BY <2>1, <2>2
  <1>6. ASSUME NEW v \in Values, Transaction(v)
        PROVE  StoreIInv'
    <2>1. cand' = [gen |-> acked + 1, val |-> v] /\ phase' = "writing"
             /\ UNCHANGED <<slot, mem, acked>> /\ acked > 0 /\ acked \in Nat
        BY <1>6 DEF StoreIInv, Transaction, Candidate, Phases, AckedIsDurable, StoreType
    <2>2. StoreType' /\ InPlace' /\ Phases'
        BY <1>6, <2>1 DEF StoreIInv, StoreType, InPlace, Phases, Doc, Transaction
    <2>3. (acked = 0 => Fresh)' /\ AckedIsDurable'
        BY <2>1 DEF StoreIInv, Fresh, AckedIsDurable, Valid
    <2> QED
        BY <2>2, <2>3 DEF StoreIInv
  <1>7. CASE UNCHANGED storeVars
      BY <1>7 DEF storeVars, StoreIInv, StoreType, InPlace, Fresh, AckedIsDurable, Phases, Valid
  <1> QED
      BY <1>1, <1>2, <1>3, <1>4, <1>5, <1>6, <1>7 DEF StoreNext

\* Every reachable state is well typed.
THEOREM StoreTypeOK == StoreSpec => []StoreType
  <1>1. StoreIInv => StoreType
      BY DEF StoreIInv
  <1> QED
      BY StoreInitIInv, StoreNextIInv, <1>1, PTL DEF StoreSpec

\* In every reachable state the last acknowledged generation is intact in its
\* slot and the other slot is at most one generation away.
THEOREM AckedIsDurableThm == StoreSpec => []AckedIsDurable
  <1>1. StoreIInv => AckedIsDurable
      BY DEF StoreIInv
  <1> QED
      BY StoreInitIInv, StoreNextIInv, <1>1, PTL DEF StoreSpec

-----------------------------------------------------------------------------
(* Refinement of DurableRegister.                                          *)

\* The abstract state read off a state that satisfies the invariant.
LEMMA Mapping ==
    ASSUME StoreIInv
    PROVE  /\ acked = 0 => Committed = NoValue
           /\ acked > 0 => /\ Committed = slot[SlotFor(acked)].val
                           /\ Committed \in Values
           /\ Serving # NoValue <=> phase \in {"idle", "writing"}
           /\ Serving # NoValue => Serving = mem.val /\ Serving = Committed
           /\ Proposed # NoValue <=> phase \in {"creating", "writing"}
           /\ Proposed # NoValue => Proposed = cand.val
           /\ \A v \in InDoubt : v \in Values
  <1>1. acked > 0 => slot[SlotFor(acked)] \in Doc
      BY ValidIsDoc DEF StoreIInv, AckedIsDurable
  <1>2. mem.val \in Values /\ cand.val \in Values
      BY DEF StoreIInv, StoreType, Doc
  <1>3. acked > 0 => Committed = slot[SlotFor(acked)].val /\ Committed \in Values
      BY <1>1 DEF Committed, Doc, StoreIInv, StoreType
  <1>4. \A v \in InDoubt : v \in Values
      BY ValidIsDoc DEF InDoubt, Doc, StoreIInv
  <1> QED
      BY <1>2, <1>3, <1>4, StoreAssumption
         DEF Committed, Serving, Proposed, StoreIInv, Phases

\* Which slot can hold a value in doubt.
DoubtSlot == IF acked = 0 THEN "A" ELSE Other(SlotFor(acked))

\* The generation in doubt after a failed write is the next one, in its slot.
LEMMA DoubtSlotNext ==
    ASSUME StoreIInv
    PROVE  /\ DoubtSlot = SlotFor(acked + 1) /\ DoubtSlot \in Slots
           /\ InDoubt = IF slot[DoubtSlot] \in Doc /\ slot[DoubtSlot].gen = acked + 1
                        THEN {slot[DoubtSlot].val} ELSE {}
  <1>1. DoubtSlot = SlotFor(acked + 1) /\ DoubtSlot \in Slots
      BY NextSlot DEF StoreIInv, StoreType, DoubtSlot, SlotFor, Slots
  <1>2. DoubtSlot \in Valid <=> slot[DoubtSlot] \in Doc
      BY <1>1, ValidIsDoc DEF StoreIInv
  <1> QED
      BY <1>1, <1>2 DEF InDoubt, DoubtSlot

\* A write that is not acknowledged leaves the doubt as it was, none, or the
\* proposed value.
LEMMA UnackedDoubt ==
    ASSUME StoreIInv, StoreIInv', phase \in {"creating", "writing"}, slot' \in Leftovers,
           UNCHANGED <<mem, cand, acked>>
    PROVE  /\ InDoubt' \in {InDoubt, {}, {cand.val}}
           /\ Committed' = Committed
  <1>1. PICK c \in {slot[SlotFor(cand.gen)], TornSlot, cand} :
           /\ slot' = [slot EXCEPT ![SlotFor(cand.gen)] = c]
           /\ cand.gen = acked + 1
           /\ acked > 0 => SlotFor(cand.gen) = Other(SlotFor(acked))
      BY LeftoversIInv
  <1>2. DoubtSlot = SlotFor(cand.gen) /\ DoubtSlot' = DoubtSlot /\ DoubtSlot \in Slots
      BY <1>1, DoubtSlotNext DEF DoubtSlot
  <1>3. slot'[DoubtSlot] = c /\ cand \in Doc
      BY <1>1, <1>2 DEF StoreIInv, StoreType
  <1>4. InDoubt' = IF c \in Doc /\ c.gen = acked + 1 THEN {c.val} ELSE {}
    <2>1. Valid' = {s \in Slots : slot'[s] \in Doc}
        BY StoreAssumption DEF StoreIInv, StoreType, Valid, Doc
    <2> QED
        BY <1>2, <1>3, <2>1 DEF InDoubt, DoubtSlot
  <1>5. InDoubt' \in {InDoubt, {}, {cand.val}}
    <2>1. CASE c = slot[DoubtSlot]
        BY <1>4, <2>1, DoubtSlotNext
    <2>2. CASE c = TornSlot
        BY <1>4, <2>2, Kinds
    <2>3. CASE c = cand
        BY <1>1, <1>3, <1>4, <2>3
    <2> QED
        BY <1>1, <1>2, <2>1, <2>2, <2>3
  <1>6. Committed' = Committed
    <2>1. CASE acked = 0
        BY <2>1 DEF Committed
    <2>2. CASE acked > 0
      <3>1. slot'[SlotFor(acked)] = slot[SlotFor(acked)]
          BY <1>1, <2>2, NextSlot DEF StoreIInv, StoreType
      <3> QED
          BY <3>1 DEF Committed
    <2> QED
        BY <2>1, <2>2 DEF StoreIInv, StoreType
  <1> QED
      BY <1>5, <1>6

\* The initial states map to initial states of the register.
LEMMA InitRefines == StoreInit => Register!RInit
  BY Kinds, StoreAssumption
     DEF StoreInit, Register!RInit, Committed, InDoubt, Serving, Proposed, Valid, Slots

\* Every step of the two slots is a step of the register, or a stutter.
LEMMA StepRefines == StoreIInv /\ StoreIInv' /\ [StoreNext]_storeVars => [Register!RNext]_(Register!rvars)
  <1> SUFFICES ASSUME StoreIInv, StoreIInv', [StoreNext]_storeVars
               PROVE  Register!RNext \/ UNCHANGED Register!rvars
      OBVIOUS
  <1>1. CASE Load
    <2>1. Proposed = NoValue /\ Serving = NoValue /\ Proposed' = NoValue
        BY <1>1 DEF Load, Proposed, Serving
    <2>2. PICK s \in Valid : Newest(s) /\ mem' = slot[s] /\ acked' = slot[s].gen
        BY <1>1 DEF Load
    <2>3. slot' = slot /\ phase' = "idle" /\ s \in Slots /\ slot[s] \in Doc
             /\ s = SlotFor(slot[s].gen) /\ slot[s].gen > 0
        BY <1>1, <2>2, ValidIsDoc DEF Load, StoreIInv, InPlace
    <2>4. Committed' = slot[s].val /\ Serving' = slot[s].val
        BY <2>2, <2>3 DEF Committed, Serving, Doc
    <2>5. acked > 0 => SlotFor(acked) \in Valid /\ slot[SlotFor(acked)].gen = acked
        BY DEF StoreIInv, AckedIsDurable
    <2>6. slot[s].val \in {Committed} \cup InDoubt
      <3>1. CASE acked = 0
        <4>1. s = "A" /\ slot[s].gen = 1
            BY <2>3, <3>1, Kinds DEF StoreIInv, Fresh, Slots
        <4> QED
            BY <2>3, <3>1, <4>1, DoubtSlotNext DEF DoubtSlot
      <3>2. CASE acked > 0
        <4>1. CASE s = SlotFor(acked)
            BY <3>2, <4>1 DEF Committed
        <4>2. CASE s # SlotFor(acked)
          <5>1. s = Other(SlotFor(acked))
              BY <2>3, <4>2 DEF Slots, Other, SlotFor, StoreIInv, StoreType
          <5>2. slot[s].gen \in {acked - 1, acked + 1}
              BY <2>2, <3>2, <5>1 DEF StoreIInv, AckedIsDurable
          <5>3. slot[s].gen = acked + 1
              BY <2>2, <2>5, <3>2, <5>2 DEF Newest, StoreIInv, StoreType
          <5> QED
              BY <2>3, <3>2, <5>1, <5>3, DoubtSlotNext DEF DoubtSlot
        <4> QED
            BY <4>1, <4>2
      <3> QED
          BY <3>1, <3>2 DEF StoreIInv, StoreType
    <2>7. InDoubt' = {}
      <3>1. DoubtSlot' = SlotFor(slot[s].gen + 1)
          BY <2>2, <2>3, NextSlot DEF DoubtSlot, Doc
      <3>2. Other(s) \in Valid => slot[Other(s)].gen <= slot[s].gen
          BY <2>2 DEF Newest
      <3> QED
          BY <2>2, <2>3, <3>2 DEF InDoubt, Valid, Doc
    <2>8. Committed' # NoValue
        BY <2>3, <2>4, StoreAssumption DEF Doc
    <2> QED
        BY <2>1, <2>4, <2>6, <2>7, <2>8 DEF Register!RNext, Register!Recover
  <1>2. CASE CreateInitial
    <2>1. acked = 0 /\ UNCHANGED <<slot, acked>>
        BY <1>2 DEF CreateInitial, StoreIInv, Phases
    <2>2. Committed = NoValue /\ Committed' = NoValue /\ InDoubt' = InDoubt
        BY <2>1 DEF Committed, InDoubt, Valid
    <2>3. Serving = NoValue /\ Proposed = NoValue /\ Serving' = NoValue /\ Proposed' = InitValue
        BY <1>2 DEF CreateInitial, Serving, Proposed
    <2> QED
        BY <2>2, <2>3 DEF Register!RNext, Register!Create
  <1>3. CASE WriteSucceeds
    <2>1. /\ slot' = [slot EXCEPT ![SlotFor(cand.gen)] = cand] /\ mem' = cand
          /\ acked' = cand.gen /\ phase' = "idle" /\ phase \in {"creating", "writing"}
        BY <1>3 DEF WriteSucceeds
    <2>2. /\ cand.gen = acked + 1 /\ cand \in Doc /\ acked \in Nat /\ cand.gen \in Nat
          /\ SlotFor(cand.gen) \in Slots
        BY <2>1, NextSlot DEF StoreIInv, Phases, StoreType, Doc
    <2>3. Committed' = cand.val /\ Serving' = cand.val
        BY <2>1, <2>2 DEF Committed, Serving, StoreIInv, StoreType
    <2>4. Proposed = cand.val /\ Proposed' = NoValue /\ cand.val # NoValue
        BY <2>1, <2>2, StoreAssumption DEF Proposed, Doc
    <2>5. InDoubt' = {}
      <3>1. DoubtSlot' = SlotFor(acked' + 1) /\ DoubtSlot' \in Slots
          BY <2>1, <2>2, NextSlot DEF DoubtSlot, Slots, Other
      <3>2. DoubtSlot' = SlotFor(acked)
          BY <2>1, <2>2, <3>1 DEF SlotFor
      <3>3. slot'[SlotFor(acked)] = slot[SlotFor(acked)]
          BY <2>1, <2>2, NextSlot DEF StoreIInv, StoreType
      <3>4. slot[SlotFor(acked)] \in Doc => slot[SlotFor(acked)].gen = acked
        <4>1. CASE acked = 0
            BY <4>1, Kinds DEF StoreIInv, Fresh, SlotFor
        <4>2. CASE acked > 0
            BY <4>2 DEF StoreIInv, AckedIsDurable
        <4> QED
            BY <2>2, <4>1, <4>2
      <3>5. Valid' = {s \in Slots : slot'[s] \in Doc}
          BY StoreAssumption DEF StoreIInv, StoreType, Valid, Doc
      <3> QED
          BY <2>1, <2>2, <3>2, <3>3, <3>4, <3>5 DEF InDoubt, DoubtSlot
    <2> QED
        BY <2>3, <2>4, <2>5 DEF Register!RNext, Register!Acknowledge
  <1>4. CASE WriteFails
    <2>1. InDoubt' \in {InDoubt, {}, {cand.val}} /\ Committed' = Committed
        BY <1>4, UnackedDoubt DEF WriteFails
    <2>2. Proposed = cand.val /\ Proposed # NoValue /\ Proposed' = NoValue
        BY <1>4, Mapping DEF WriteFails, Proposed
    <2>3. Serving' = Serving
        BY <1>4 DEF WriteFails, Serving
    <2> QED
        BY <2>1, <2>2, <2>3 DEF Register!RNext, Register!Fail, Register!Unacknowledged
  <1>5. CASE Crash
    <2>1. Serving' = NoValue /\ Proposed' = NoValue
        BY <1>5 DEF Crash, Serving, Proposed
    <2>2. CASE phase = "idle"
      <3>1. UNCHANGED <<Committed, InDoubt, Proposed>>
          BY <1>5, <2>2 DEF Crash, Committed, InDoubt, Valid, Proposed
      <3>2. Proposed = NoValue
          BY <2>2 DEF Proposed
      <3> QED
          BY <2>1, <3>1, <3>2 DEF Register!RNext, Register!Crash
    <2>3. CASE phase # "idle"
      <3>1. phase \in {"creating", "writing"}
          BY <1>5, <2>3 DEF Crash, StoreIInv, StoreType
      <3>2. InDoubt' \in {InDoubt, {}, {cand.val}} /\ Committed' = Committed
          BY <1>5, <2>3, <3>1, UnackedDoubt DEF Crash
      <3>3. Proposed = cand.val /\ Proposed # NoValue
          BY <3>1, Mapping DEF Proposed
      <3> QED
          BY <2>1, <3>2, <3>3 DEF Register!RNext, Register!Crash, Register!Unacknowledged
    <2> QED
        BY <2>2, <2>3
  <1>6. ASSUME NEW v \in Values, Transaction(v)
        PROVE  Register!RNext
    <2>1. UNCHANGED <<Committed, InDoubt>>
        BY <1>6 DEF Transaction, Committed, InDoubt, Valid
    <2>2. Serving # NoValue /\ Serving' = Serving /\ Proposed = NoValue /\ Proposed' = v
        BY <1>6, Mapping DEF Transaction, Serving, Proposed, Candidate
    <2> QED
        BY <2>1, <2>2 DEF Register!RNext, Register!Propose
  <1>7. CASE UNCHANGED storeVars
      BY <1>7 DEF storeVars, Register!rvars, Committed, InDoubt, Serving, Proposed, Valid
  <1> QED
      BY <1>1, <1>2, <1>3, <1>4, <1>5, <1>6, <1>7 DEF StoreNext

\* The two-slot store implements the register: an acknowledged transaction is
\* never lost, and a restart shows it or the one write that was in doubt.
THEOREM StoreRefinesRegister == StoreSpec => ImplementsRegister
  BY StoreInitIInv, StoreNextIInv, InitRefines, StepRefines, PTL
     DEF StoreSpec, ImplementsRegister, Register!RSpec
=============================================================================
