---------------------------- MODULE ReleasesProofs ----------------------------
(***************************************************************************)
(* Proofs about the updates a desktop is offered: an answer 304 is sent    *)
(* only for what the desktop holds already, and no offer leads back.       *)
(***************************************************************************)
EXTENDS ReleasesProperties, WellFoundedInduction, TLAPS

-----------------------------------------------------------------------------
\* What the desktop holds.

\* An answer is kept under the tag that was made of it.
Tagged == held # None => held.etag[4] = held.content

\* Whatever channel, version or platform has changed in between, and whichever
\* instance answers: 304 stands for the content that 200 would carry.
THEOREM NotModifiedMeansCurrent == Spec => NotModifiedIsCurrent
<1>1. Init => Tagged
  BY DEF Init, Tagged
<1>2. Tagged /\ [Next]_vars => Tagged'
  <2> SUFFICES ASSUME Tagged, [Next]_vars PROVE Tagged'
    OBVIOUS
  <2>1. CASE UNCHANGED held
    BY <2>1 DEF Tagged
  <2>2. ASSUME NEW i \in Instances, Bootstrap(i)
        PROVE  Tagged'
    BY <2>2 DEF Bootstrap, Tagged, ETag
  <2>q. QED
    BY <2>1, <2>2 DEF Next, vars, Poll, AppLatest, Install, SwitchChannel, Redeploy, Tick
<1>3. Tagged => \A i \in Instances :
                  Bootstrap(i) /\ reply'.status = 304 => held.content = Content(i, app)
  <2> SUFFICES ASSUME Tagged, NEW i \in Instances, Bootstrap(i), reply'.status = 304
               PROVE  held.content = Content(i, app)
    OBVIOUS
  <2>1. /\ held # None
        /\ held.etag = ETag(Channel(app.channel), app.version, app.platform, Content(i, app))
    BY DEF Bootstrap, Reply
  <2>q. QED  BY <2>1 DEF Tagged, ETag
<1>q. QED  BY <1>1, <1>2, <1>3, PTL DEF NotModifiedIsCurrent, Spec

-----------------------------------------------------------------------------
\* Versions.

\* A version of up to three segments below a hundred, for which Weight says what
\* is newer.
Short(text) == \E n \in 0..3 : text.segs \in [1..n -> (0..99) \cup {NaN}]

\* What operators publish and desktops start from.
ShortVersions ==
  /\ \A text \in FirstVersions : Short(text)
  /\ \A c \in Configs : DOMAIN c.releases \subseteq Nat
                        /\ \A n \in DOMAIN c.releases : Short(c.releases[n].version)

Part(text, n) == Segment(versionParts(text), n)

LEMMA Parts ==
  ASSUME NEW text, Short(text)
  PROVE  /\ \A n \in 1..3 : Part(text, n) \in 0..99
         /\ Part(text, 1) \in 0..99 /\ Part(text, 2) \in 0..99 /\ Part(text, 3) \in 0..99
         /\ \A n : n \notin 1..3 => n \notin DOMAIN versionParts(text)
         /\ Weight(text) = Part(text, 1) * 10000 + Part(text, 2) * 100 + Part(text, 3)
<1>1. PICK l \in 0..3 : text.segs \in [1..l -> (0..99) \cup {NaN}]
  BY DEF Short
<1>2. DOMAIN text.segs = 1..l /\ DOMAIN versionParts(text) = 1..l
  BY <1>1 DEF versionParts
<1>3. ASSUME NEW n \in 1..3
      PROVE  /\ Part(text, n) \in 0..99
             /\ Part(text, n) = IF n \in DOMAIN text.segs /\ text.segs[n] # NaN THEN text.segs[n] ELSE 0
  <2>1. CASE n \in 1..l
    <3>1. text.segs[n] \in (0..99) \cup {NaN}
      BY <1>1, <2>1
    <3>2. Part(text, n) = IF text.segs[n] = NaN THEN 0 ELSE text.segs[n]
      BY <1>2, <2>1 DEF Part, Segment, versionParts
    <3>q. QED  BY <1>2, <2>1, <3>1, <3>2
  <2>2. CASE n \notin 1..l
    <3>1. Part(text, n) = 0
      BY <1>2, <2>2 DEF Part, Segment
    <3>q. QED  BY <1>2, <2>2, <3>1
  <2>q. QED  BY <2>1, <2>2
<1>4. Weight(text) = Part(text, 1) * 10000 + Part(text, 2) * 100 + Part(text, 3)
  BY <1>3 DEF Weight
<1>q. QED  BY <1>2, <1>3, <1>4

\* A version that compareVersions takes for older is older by its numbers.
LEMMA OlderIsLess ==
  ASSUME NEW a, NEW b, Short(a), Short(b), Older(a, b)
  PROVE  Weight(a) < Weight(b)
<1> DEFINE as == versionParts(a)
           bs == versionParts(b)
           D == Differing(as, bs)
<1>1. D # {} /\ Segment(as, Min(D)) < Segment(bs, Min(D))
  BY DEF Older, compareVersions
<1>2. D \subseteq 1..3 /\ \A n \in 1..3 : n \notin D => Part(a, n) = Part(b, n)
  BY Parts DEF Differing, Segment, Part
<1>3. PICK m \in 1..3 : m \in D /\ \A n \in D : m =< n
  <2>1. CASE 1 \in D
    BY <1>2, <2>1
  <2>2. CASE 1 \notin D /\ 2 \in D
    BY <1>2, <2>2
  <2>3. CASE 1 \notin D /\ 2 \notin D /\ 3 \in D
    BY <1>2, <2>3
  <2>q. QED  BY <1>1, <1>2, <2>1, <2>2, <2>3
<1>4. Min(D) = m
  <2>1. Min(D) \in D /\ \A n \in D : Min(D) =< n
    BY <1>3 DEF Min
  <2>q. QED  BY <1>2, <1>3, <2>1
<1>5. Part(a, m) < Part(b, m) /\ \A n \in 1..3 : n < m => Part(a, n) = Part(b, n)
  <2>1. \A n \in 1..3 : n < m => n \notin D
    BY <1>3
  <2>q. QED  BY <1>1, <1>2, <1>4, <2>1 DEF Part
<1>6. /\ Part(a, 1) \in 0..99 /\ Part(a, 2) \in 0..99 /\ Part(a, 3) \in 0..99
      /\ Part(b, 1) \in 0..99 /\ Part(b, 2) \in 0..99 /\ Part(b, 3) \in 0..99
  BY Parts
<1>7. PICK a1 \in 0..99, a2 \in 0..99, a3 \in 0..99, b1 \in 0..99, b2 \in 0..99, b3 \in 0..99 :
        /\ Part(a, 1) = a1 /\ Part(a, 2) = a2 /\ Part(a, 3) = a3
        /\ Part(b, 1) = b1 /\ Part(b, 2) = b2 /\ Part(b, 3) = b3
  BY <1>6
<1>8. a1 < b1 \/ (a1 = b1 /\ a2 < b2) \/ (a1 = b1 /\ a2 = b2 /\ a3 < b3)
  <2>1. CASE m = 1
    BY <1>5, <1>7, <2>1
  <2>2. CASE m = 2
    BY <1>5, <1>7, <2>2
  <2>3. CASE m = 3
    BY <1>5, <1>7, <2>3
  <2>q. QED  BY <2>1, <2>2, <2>3
<1>9. a1 * 10000 + a2 * 100 + a3 < b1 * 10000 + b2 * 100 + b3
  BY <1>8
<1>q. QED  BY <1>7, <1>9, Parts

Heaviest == 99 * 10000 + 99 * 100 + 99

LEMMA WeightNat ==
  ASSUME NEW a, Short(a)
  PROVE  Heaviest \in Nat /\ Weight(a) \in 0..Heaviest
<1>0. Part(a, 1) \in 0..99 /\ Part(a, 2) \in 0..99 /\ Part(a, 3) \in 0..99
  BY Parts
<1>1. PICK a1 \in 0..99, a2 \in 0..99, a3 \in 0..99 :
        Part(a, 1) = a1 /\ Part(a, 2) = a2 /\ Part(a, 3) = a3
  BY <1>0
<1>2. Heaviest \in Nat /\ a1 * 10000 + a2 * 100 + a3 \in 0..Heaviest
  <2>1. PICK h \in Nat : h = 99 * 10000 + 99 * 100 + 99
    OBVIOUS
  <2>2. a1 * 10000 + a2 * 100 + a3 \in Nat /\ a1 * 10000 + a2 * 100 + a3 =< h
    BY <2>1
  <2>3. h = Heaviest
    BY <2>1 DEF Heaviest
  <2>q. QED  BY <2>2, <2>3
<1>q. QED  BY <1>1, <1>2, Parts

-----------------------------------------------------------------------------
\* The latest release.

\* A set of natural numbers that is not empty has a least member.
LEMMA LeastMember ==
  ASSUME NEW S \in SUBSET Nat, S # {}
  PROVE  \E k \in S : \A y \in S : k =< y
<1>1. PICK k \in S : \A y \in S : ~ (<<y, k>> \in OpToRel(<, Nat))
  BY NatLessThanWellFounded, WFMin
<1>2. \A y \in S : k =< y
  <2>1. TAKE y \in S
  <2>2. ~ (y < k)
    BY <1>1 DEF OpToRel
  <2>q. QED  BY <2>2
<1>q. QED  BY <1>2

\* Where there is a release for the channel and platform, one of them is taken.
LEMMA LatestIsOne ==
  ASSUME ShortVersions, NEW c \in Configs, NEW channel, NEW platform,
         Candidates(c, channel, platform) # {}
  PROVE  Latest(c, channel, platform) \in DOMAIN c.releases
<1> DEFINE cands == Candidates(c, channel, platform)
           version(n) == c.releases[n].version
           gap(n) == Heaviest - Weight(version(n))
           gaps == {gap(n) : n \in cands}
           best == {n \in cands : \A m \in cands : ~Older(version(n), version(m))}
<1>1. cands \subseteq DOMAIN c.releases /\ cands \subseteq Nat
      /\ \A n \in cands : Short(version(n))
  BY DEF Candidates, ShortVersions
<1>2. \A n \in cands : gap(n) \in Nat
  <2>1. TAKE n \in cands
  <2>2. Heaviest \in Nat /\ Weight(version(n)) \in 0..Heaviest
    BY <1>1, WeightNat
  <2>q. QED  BY <2>2
<1>3. gaps # {} /\ gaps \in SUBSET Nat
  BY <1>2
<1>4. PICK k \in gaps : \A y \in gaps : k =< y
  BY <1>3, LeastMember
<1>5. PICK n \in cands : k = gap(n)
  BY <1>4
<1>6. ASSUME NEW m \in cands
      PROVE  ~Older(version(n), version(m))
  <2>1. gap(n) =< gap(m)
    BY <1>4, <1>5
  <2>2. /\ Heaviest \in Nat
        /\ Weight(version(n)) \in 0..Heaviest /\ Weight(version(m)) \in 0..Heaviest
    BY <1>1, WeightNat
  <2>3. ~ (Weight(version(n)) < Weight(version(m)))
    BY <2>1, <2>2
  <2>q. QED  BY <1>1, <2>3, OlderIsLess
<1>7. best # {} /\ best \in SUBSET Nat /\ best \subseteq cands
  BY <1>1, <1>6
<1>8. Min(best) \in best
  <2>1. \E x \in best : \A y \in best : x =< y
    BY <1>7, LeastMember
  <2>q. QED  BY <2>1 DEF Min
<1>q. QED  BY <1>1, <1>7, <1>8 DEF Latest

\* An update for a desktop of version current.
Offers(update, current) ==
  update # None => Short(update.version) /\ Weight(current) < Weight(update.version)

LEMMA ResolveOffers ==
  ASSUME ShortVersions, NEW c \in Configs, NEW channel, NEW platform, NEW current, Short(current),
         Resolve(c, channel, platform, current) # None
  PROVE  Offers(Resolve(c, channel, platform, current).update, current)
<1>1. Candidates(c, channel, platform) # {}
  BY DEF Resolve
<1>2. PICK release : /\ Short(release.version)
                     /\ release = c.releases[Latest(c, channel, platform)]
  BY <1>1, LatestIsOne DEF ShortVersions
<1>3. Resolve(c, channel, platform, current).update =
        IF ~Older(current, release.version) THEN None
        ELSE [version |-> release.version, mandatory |-> Mandatory(release, current)]
  BY <1>1, <1>2 DEF Resolve
<1>4. CASE Older(current, release.version)
  <2>1. Resolve(c, channel, platform, current).update.version = release.version
    BY <1>3, <1>4
  <2>2. Weight(current) < Weight(release.version)
    BY <1>2, <1>4, OlderIsLess
  <2>q. QED  BY <1>2, <2>1, <2>2 DEF Offers
<1>5. CASE ~Older(current, release.version)
  BY <1>3, <1>5 DEF Offers
<1>q. QED  BY <1>4, <1>5

-----------------------------------------------------------------------------
\* What the desktop is offered.

\* The desktop's version can be weighed, and so can what it is offered or would
\* be by the answer it holds, which was made for the version in its tag.
OffersOK ==
  /\ config \in [Instances -> Configs]
  /\ app = [platform |-> app.platform, version |-> app.version, channel |-> app.channel]
  /\ Short(app.version)
  /\ Offers(offered, app.version)
  /\ Tagged
  /\ held # None => Offers(held.content.update, held.etag[2])

LEMMA BootstrapOffers ==
  ASSUME ShortVersions, OffersOK, NEW i \in Instances, Bootstrap(i)
  PROVE  OffersOK'
<1> DEFINE content == Content(i, app)
           etag == ETag(Channel(app.channel), app.version, app.platform, content)
<1>1. Offers(content.update, app.version)
  <2> DEFINE result == Resolve(config[i], Channel(app.channel), app.platform, app.version)
  <2>1. content.update = IF result = None THEN None ELSE result.update
    BY DEF Content, Build, resolveAppUpdate
  <2>2. config[i] \in Configs
    BY DEF OffersOK
  <2>3. result # None => Offers(result.update, app.version)
    BY <2>2, ResolveOffers DEF OffersOK
  <2> HIDE DEF result, content
  <2>q. QED  BY <2>1, <2>3 DEF Offers
<1>2. \/ UNCHANGED <<held, offered>>
      \/ /\ held # None /\ held.etag = etag
         /\ UNCHANGED held /\ offered' = held.content.update
      \/ held' = [etag |-> etag, content |-> content] /\ offered' = content.update
  BY DEF Bootstrap
<1>3. UNCHANGED <<config, app>>
  BY DEF Bootstrap
<1>4. etag[2] = app.version /\ etag[4] = content
  BY DEF ETag
<1> HIDE DEF content, etag
<1>q. QED  BY <1>1, <1>2, <1>3, <1>4 DEF OffersOK, Tagged, Offers

LEMMA LatestOffers ==
  ASSUME ShortVersions, OffersOK, NEW i \in Instances, AppLatest(i)
  PROVE  OffersOK'
<1> DEFINE result == Resolve(config[i], Channel(app.channel), app.platform, app.version)
<1>1. config[i] \in Configs
  BY DEF OffersOK
<1>2. result # None => Offers(result.update, app.version)
  BY <1>1, ResolveOffers DEF OffersOK
<1>3. UNCHANGED offered \/ (result # None /\ offered' = result.update)
  BY DEF AppLatest
<1>4. UNCHANGED <<config, app, held>>
  BY DEF AppLatest
<1> HIDE DEF result
<1>q. QED  BY <1>2, <1>3, <1>4 DEF OffersOK, Tagged, Offers

\* What a desktop takes for an update is newer by its numbers than what it runs,
\* even out of an answer it holds since before it installed something.
THEOREM OffersLeadForward ==
  ASSUME ShortVersions
  PROVE  Spec => []OfferIsNewer
<1>1. Init => OffersOK
  BY DEF Init, OffersOK, Offers, Tagged, ShortVersions
<1>2. OffersOK /\ [Next]_vars => OffersOK'
  <2> SUFFICES ASSUME OffersOK, [Next]_vars PROVE OffersOK'
    OBVIOUS
  <2>1. CASE UNCHANGED vars
    BY <2>1 DEF vars, OffersOK, Tagged, Offers
  <2>2. CASE Poll
    BY <2>2, BootstrapOffers, LatestOffers DEF Poll
  <2>3. CASE Install \/ SwitchChannel
    <3>1. Short(app'.version) /\ offered' = None
          /\ app' = [platform |-> app'.platform, version |-> app'.version, channel |-> app'.channel]
      BY <2>3 DEF OffersOK, Offers, Install, SwitchChannel
    <3>2. UNCHANGED <<config, held>>
      BY <2>3 DEF Install, SwitchChannel
    <3>q. QED  BY <3>1, <3>2 DEF OffersOK, Offers, Tagged
  <2>4. CASE Tick \/ \E i \in Instances : Redeploy(i)
    <3>1. config' \in [Instances -> Configs]
      BY <2>4 DEF OffersOK, Tick, Redeploy
    <3>2. UNCHANGED <<app, offered, held>>
      BY <2>4 DEF Tick, Redeploy
    <3>q. QED  BY <3>1, <3>2 DEF OffersOK, Offers, Tagged
  <2>q. QED  BY <2>1, <2>2, <2>3, <2>4 DEF Next
<1>3. OffersOK => OfferIsNewer
  BY DEF OffersOK, Offers, OfferIsNewer
<1>q. QED  BY <1>1, <1>2, <1>3, PTL DEF Spec
=============================================================================
