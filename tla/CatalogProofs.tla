---------------------------- MODULE CatalogProofs ----------------------------
(***************************************************************************)
(* Proofs about the cached catalogue: whom an error reaches, and how old   *)
(* an answer may be.                                                       *)
(***************************************************************************)
EXTENDS CatalogProperties, WellFoundedInduction, TLAPS

-----------------------------------------------------------------------------
\* The invariant.

Waits == {"get", "join", "wait"}
Asks  == {"fetch", "reply"}
Busy  == Waits \cup Asks

\* The editions that have been published are those up to n.
Published(n) ==
  /\ n \in DOMAIN Editions
  /\ \A e \in DOMAIN Editions : since[e] # Never <=> e =< n

SinceOK ==
  /\ DOMAIN since = DOMAIN Editions
  /\ \A e \in DOMAIN Editions : since[e] = Never \/ (since[e] \in Nat /\ since[e] =< clock)
  /\ \E n \in Nat : Published(n)

\* What was replaced at ClawHub was so at t or later.
NotReplacedBefore(e, t) ==
  e \in Nat /\ e =< edition /\ (e < edition => since[e + 1] >= t)

Typed(q) ==
  q \in [pc : Busy \cup {"idle", "done"}, inst : {q.inst}, op : {q.op}, key : {q.key},
         ed : {q.ed}, began : Nat, start : Nat, parts : {q.parts}, gone : {q.gone},
         status : {q.status}]

\* Only what is cached is looked up or waited for; a call to ClawHub has its
\* timeout and brings what is there after it began.
CallOK(q) ==
  /\ Typed(q) /\ q.began =< clock
  /\ \E S : q.parts \in Seq(S)
  /\ q.pc \in Busy => q.key.what \in Whats
  /\ q.pc \in Waits => Cached(q.key)
  /\ q.pc \in Asks => q.began =< q.start /\ q.start =< clock /\ clock =< q.start + Timeout
  /\ q.pc = "reply" => NotReplacedBefore(q.ed, q.start)

CallsOK == call = [c \in Callers |-> call[c]] /\ \A c \in Callers : CallOK(call[c])

\* The longest lifetime.
Longest == IF Delta = 0 THEN BaseTTL ELSE BaseTTL + Delta - 1

\* A key dies within the longest lifetime, and within that and the timeout of
\* the time its value was replaced.
KeyOK(v) ==
  /\ v.until \in Nat /\ clock < v.until /\ v.until =< clock + Longest
  /\ NotReplacedBefore(v.ed, v.until - Stale)

StoreOK == \A key \in DOMAIN store : KeyOK(store[key])

TypeOK == clock \in Nat /\ SinceOK /\ CallsOK

CacheInv == TypeOK /\ StoreOK

-----------------------------------------------------------------------------
\* Lifetimes and editions.

LEMMA LeastMember ==
  ASSUME NEW S \in SUBSET Nat, S # {}
  PROVE  \E k \in S : \A y \in S : k =< y
<1>1. PICK k \in S : \A y \in S : ~ (<<y, k>> \in OpToRel(<, Nat))
  BY NatLessThanWellFounded, WFMin
<1>2. \A y \in S : k =< y
  <2>1. TAKE y \in S
  <2>2. ~ (y < k)
    BY <1>1 DEF OpToRel
  <2>q. QED  BY <2>2
<1>q. QED  BY <1>2

LEMMA LargestMember ==
  ASSUME NEW n \in Nat, NEW S \in SUBSET (1..n), S # {}
  PROVE  Max(S) \in S
<1> DEFINE T == {n - x : x \in S}
<1>1. T \in SUBSET Nat /\ T # {}
  <2>1. \A x \in S : n - x \in Nat
    OBVIOUS
  <2>q. QED  BY <2>1
<1>2. PICK k \in T : \A y \in T : k =< y
  <2> HIDE DEF T
  <2>q. QED  BY <1>1, LeastMember
<1>3. PICK m \in S : k = n - m
  BY <1>2
<1>4. \A y \in S : m >= y
  <2>1. TAKE y \in S
  <2>2. k =< n - y
    BY <1>2
  <2>q. QED  BY <1>3, <2>2
<1>q. QED  BY <1>4 DEF Max

\* The jitter takes less than half of a lifetime from it, or adds as much.
LEMMA DeltaIs ==
  /\ Delta \in Nat /\ Longest \in Nat /\ Stale = Timeout + Longest
  /\ BaseTTL > 0 => Delta < BaseTTL /\ Longest > 0
<1>a. BaseTTL \in Nat /\ JitterCap \in Nat /\ JitterPart \in Nat /\ JitterPart >= 2
  BY CatalogAssumption DEF CatalogAssumption
<1>1. PICK d \in Nat : d = BaseTTL \div JitterPart /\ (BaseTTL > 0 => d < BaseTTL)
  <2>1. BaseTTL \div JitterPart \in Nat
    BY <1>a
  <2>2. BaseTTL > 0 => BaseTTL \div JitterPart < BaseTTL
    BY <1>a
  <2>q. QED  BY <2>1, <2>2
<1>2. Delta \in Nat /\ Delta =< d
  <2>1. Delta = Min({JitterCap, d})
    BY <1>1 DEF Delta
  <2>2. CASE JitterCap =< d
    <3>1. Min({JitterCap, d}) = JitterCap
      BY <1>a, <2>2 DEF Min
    <3>q. QED  BY <1>a, <2>1, <2>2, <3>1
  <2>3. CASE ~ (JitterCap =< d)
    <3>1. Min({JitterCap, d}) = d
      BY <1>a, <2>3 DEF Min
    <3>q. QED  BY <1>a, <2>1, <3>1
  <2>q. QED  BY <2>2, <2>3
<1>3. Longest \in Nat /\ (BaseTTL > 0 => Longest > 0)
  <2>1. PICK e \in Nat : e = Delta
    BY <1>2
  <2>2. Longest = IF e = 0 THEN BaseTTL ELSE BaseTTL + e - 1
    BY <2>1 DEF Longest
  <2>q. QED  BY <1>a, <2>1, <2>2
<1>q. QED  BY <1>a, <1>1, <1>2, <1>3 DEF Stale, Longest

LEMMA LifetimeIs ==
  ASSUME BaseTTL > 0, NEW key, key.what \in Whats
  PROVE  jitterTTL(key) \in Nat /\ jitterTTL(key) > 0 /\ jitterTTL(key) =< Longest
<1>1. PICK h \in Nat : h = Hash[key.what]
  BY CatalogAssumption DEF CatalogAssumption
<1>2. PICK d \in Nat : d = Delta /\ d < BaseTTL
  BY DeltaIs
<1>3. BaseTTL \in Nat
  BY CatalogAssumption DEF CatalogAssumption
<1>4. CASE d = 0
  BY <1>2, <1>3, <1>4 DEF jitterTTL, Longest
<1>5. CASE d # 0
  <2>1. PICK n \in Nat \ {0} : n = 2 * d
    BY <1>5
  <2>2. h % n \in 0..(n - 1)
    OBVIOUS
  <2>3. jitterTTL(key) = BaseTTL + (h % n) - d /\ Longest = BaseTTL + d - 1
    BY <1>1, <1>2, <1>5, <2>1 DEF jitterTTL, Longest
  <2>q. QED  BY <1>2, <1>3, <2>1, <2>2, <2>3
<1>q. QED  BY <1>4, <1>5

LEMMA LastPublished ==
  ASSUME NEW published, NEW n \in DOMAIN Editions,
         \A e \in DOMAIN Editions : published[e] # Never <=> e =< n
  PROVE  Max({e \in DOMAIN Editions : published[e] # Never}) = n
<1> DEFINE P == {e \in DOMAIN Editions : published[e] # Never}
<1>1. DOMAIN Editions \subseteq Nat
  BY CatalogAssumption DEF CatalogAssumption
<1>2. n \in P /\ \A y \in P : y \in Nat /\ n >= y
  BY <1>1
<1> HIDE DEF P
<1>3. Max(P) \in P /\ \A y \in P : Max(P) >= y
  BY <1>2 DEF Max
<1>4. Max(P) = n
  BY <1>2, <1>3
<1>q. QED  BY <1>4 DEF P

LEMMA EditionIs ==
  ASSUME NEW n \in Nat, Published(n)
  PROVE  edition = n
BY LastPublished DEF Published, edition

-----------------------------------------------------------------------------
\* How a request goes on.

LEMMA AskOK ==
  ASSUME clock \in Nat, NEW q, Typed(q), q.began =< clock, \E S : q.parts \in Seq(S),
         NEW key, key.what \in Whats
  PROVE  LET asks == Ask(q, key) IN
         /\ CallOK(asks) /\ asks.pc \in {"get", "fetch"} /\ asks.parts = q.parts
<1>t. Timeout \in Nat
  BY CatalogAssumption DEF CatalogAssumption
<1>0. ASSUME NEW asks, asks = Ask(q, key)
      PROVE  /\ CallOK(asks) /\ asks.pc \in {"get", "fetch"} /\ asks.parts = q.parts
  <2>1. CASE Cached(key)
    <3>1. asks = [q EXCEPT !.pc = "get", !.key = key, !.ed = 0, !.start = 0]
      BY <1>0, <2>1 DEF Ask
    <3>2. /\ asks.pc = "get" /\ asks.key = key /\ asks.began = q.began
          /\ asks.parts = q.parts
      BY <3>1 DEF Typed
    <3>3. Typed(asks)
      BY <3>1 DEF Typed, Busy, Waits
    <3>q. QED  BY <2>1, <3>2, <3>3 DEF CallOK, Busy, Waits, Asks
  <2>2. CASE ~Cached(key)
    <3>1. asks = [q EXCEPT !.pc = "fetch", !.key = key, !.start = clock]
      BY <1>0, <2>2 DEF Ask
    <3>2. /\ asks.pc = "fetch" /\ asks.key = key /\ asks.began = q.began
          /\ asks.start = clock /\ asks.parts = q.parts
      BY <3>1 DEF Typed
    <3>3. Typed(asks)
      BY <3>1 DEF Typed, Busy, Asks
    <3>q. QED  BY <1>t, <3>2, <3>3 DEF CallOK, Busy, Waits, Asks
  <2>q. QED  BY <2>1, <2>2
<1>q. QED  BY <1>0

LEMMA FinishOK ==
  ASSUME clock \in Nat, NEW q, Typed(q), \E S : q.parts \in Seq(S), NEW status
  PROVE  LET ends == Finish(q, status) IN
         CallOK(ends) /\ ends.pc = "done" /\ ends.status = status /\ ends.parts = q.parts
<1>0. ASSUME NEW ends, ends = Finish(q, status)
      PROVE  CallOK(ends) /\ ends.pc = "done" /\ ends.status = status /\ ends.parts = q.parts
  <2>1. ends = [q EXCEPT !.pc = "done", !.status = status, !.inst = None, !.key = None,
                         !.ed = 0, !.began = 0, !.start = 0]
    BY <1>0 DEF Finish
  <2>2. ends.pc = "done" /\ ends.status = status /\ ends.parts = q.parts /\ ends.began = 0
    BY <2>1 DEF Typed
  <2>3. Typed(ends)
    BY <2>1 DEF Typed
  <2>q. QED  BY <2>2, <2>3 DEF CallOK, Busy, Waits, Asks
<1>q. QED  BY <1>0

\* All that a request asks for after the first are pages.
LEMMA AfterPages ==
  ASSUME NEW q, After(q) # None
  PROVE  After(q).what = "page"
BY DEF After, Key

LEMMA TakeOK ==
  ASSUME clock \in Nat, NEW q, Typed(q), q.began =< clock, \E S : q.parts \in Seq(S), NEW e
  PROVE  LET takes == Take(q, e) IN
         /\ CallOK(takes) /\ takes.pc \in {"get", "fetch", "done"}
         /\ takes.pc = "done" => takes.status = 200
         /\ takes.parts = Append(q.parts, [key |-> q.key, ed |-> e])
<1> DEFINE part == [key |-> q.key, ed |-> e]
           read == [q EXCEPT !.parts = Append(@, part)]
<1>1. Typed(read) /\ read.began =< clock /\ read.parts = Append(q.parts, part)
  BY DEF Typed
<1>2. \E S : read.parts \in Seq(S)
  <2>1. PICK S : q.parts \in Seq(S)
    OBVIOUS
  <2>2. q.parts \in Seq(S \cup {part})
    BY <2>1
  <2>3. Append(q.parts, part) \in Seq(S \cup {part})
    BY <2>2
  <2>q. QED  BY <1>1, <2>3
<1>3. Take(q, e) = IF After(read) = None THEN Finish(read, 200) ELSE Ask(read, After(read))
  BY DEF Take
<1> HIDE DEF read
<1>4. CASE After(read) = None
  <2>1. \A status : /\ CallOK(Finish(read, status)) /\ Finish(read, status).pc = "done"
                    /\ Finish(read, status).status = status
                    /\ Finish(read, status).parts = read.parts
    BY <1>1, <1>2, FinishOK
  <2>2. Take(q, e) = Finish(read, 200)
    BY <1>3, <1>4
  <2>q. QED  BY <1>1, <2>1, <2>2
<1>5. CASE After(read) # None
  <2>1. After(read).what \in Whats
    BY <1>5, AfterPages DEF Whats
  <2>2. Take(q, e) = Ask(read, After(read))
    BY <1>3, <1>5
  <2>3. \A key : key.what \in Whats =>
          CallOK(Ask(read, key)) /\ Ask(read, key).pc \in {"get", "fetch"}
          /\ Ask(read, key).parts = read.parts
    BY <1>1, <1>2, AskOK
  <2>q. QED  BY <1>1, <2>1, <2>2, <2>3
<1>q. QED  BY <1>4, <1>5

-----------------------------------------------------------------------------
\* Steps of requests.

\* The calls when one of them has been replaced.
LEMMA OneCall ==
  ASSUME TypeOK, UNCHANGED <<clock, since>>, NEW c \in Callers, NEW q, CallOK(q), Become(c, q)
  PROVE  TypeOK' /\ call'[c] = q /\ \A d \in Callers \ {c} : call'[d] = call[d]
<1>1. call'[c] = q /\ \A d \in Callers \ {c} : call'[d] = call[d]
  BY DEF TypeOK, CallsOK, Become
<1>2. call' = [d \in Callers |-> call'[d]]
  BY DEF TypeOK, CallsOK, Become
<1>3. \A d \in Callers : CallOK(call'[d])
  BY <1>1 DEF TypeOK, CallsOK
<1>4. SinceOK'
  BY DEF TypeOK, SinceOK, Published
<1>5. \A p : CallOK(p)' <=> CallOK(p)
  BY DEF CallOK, Typed, NotReplacedBefore, edition
<1>q. QED  BY <1>1, <1>2, <1>3, <1>4, <1>5 DEF TypeOK, CallsOK

\* A request or an operation of a round starts with nothing read.
LEMMA FirstOK ==
  ASSUME TypeOK, NEW c \in Callers, NEW q, Typed(q), q.began =< clock, q.parts = <<>>,
         NEW op \in Ops \cup Range(WarmOps), Become(c, Ask(q, First(op))),
         UNCHANGED <<clock, since>>
  PROVE  /\ TypeOK' /\ \A d \in Callers \ {c} : call'[d] = call[d]
         /\ call'[c].pc \in {"get", "fetch"} /\ call'[c].parts = <<>>
<1>1. First(op).what \in Whats
  BY CatalogAssumption DEF CatalogAssumption, First, Key, Whats, Verbs
<1>2. \E S : q.parts \in Seq(S)
  <2>1. <<>> \in Seq({})
    OBVIOUS
  <2>q. QED  BY <2>1
<1>3. clock \in Nat
  BY DEF TypeOK
<1>4. /\ CallOK(Ask(q, First(op))) /\ Ask(q, First(op)).pc \in {"get", "fetch"}
      /\ Ask(q, First(op)).parts = <<>>
  <2>1. \A key : key.what \in Whats =>
          CallOK(Ask(q, key)) /\ Ask(q, key).pc \in {"get", "fetch"}
          /\ Ask(q, key).parts = q.parts
    BY <1>2, <1>3, AskOK
  <2>q. QED  BY <1>1, <2>1
<1>q. QED  BY <1>4, OneCall

LEMMA StartingOK ==
  ASSUME clock \in Nat, NEW q, q \in [pc : {"idle"}, inst : {q.inst}, op : {q.op},
           key : {None}, ed : {0}, began : {clock}, start : {0}, parts : {<<>>}, gone : {q.gone},
           status : {0}]
  PROVE  Typed(q) /\ q.began =< clock /\ q.parts = <<>>
<1>1. q.pc = "idle" /\ q.began = clock /\ q.start = 0 /\ q.status = 0 /\ q.parts = <<>>
  OBVIOUS
<1>2. q.pc \in Busy \cup {"idle", "done"}
  BY <1>1
<1>q. QED  BY <1>1, <1>2 DEF Typed

LEMMA WarmStep ==
  ASSUME TypeOK, NEW i \in Instances, Warm(i)
  PROVE  /\ TypeOK' /\ \A d \in Callers \ {Warmer(i)} : call'[d] = call[d]
         /\ call'[Warmer(i)].pc \in {"get", "fetch"} /\ call'[Warmer(i)].parts = <<>>
<1> DEFINE w == Warmer(i)
           over == {n \in DOMAIN WarmOps : call[w].op = WarmOps[n]}
           n == IF over = {} THEN 1 ELSE (Max(over) % Len(WarmOps)) + 1
           q == [Idle EXCEPT !.inst = i, !.op = WarmOps[n], !.began = clock, !.gone = call[w].gone]
<1>1. w \in Callers
  BY DEF Callers
<1>2. PICK l \in Nat \ {0} : l = Len(WarmOps) /\ DOMAIN WarmOps = 1..l
  BY CatalogAssumption DEF CatalogAssumption
<1>3. PICK k \in 1..l : k = n
  <2>1. CASE over = {}
    BY <2>1
  <2>2. CASE over # {}
    <3>1. over \in SUBSET (1..l)
      BY <1>2
    <3>2. PICK m \in 1..l : m = Max(over)
      <4> HIDE DEF over
      <4>q. QED  BY <2>2, <3>1, LargestMember
    <3>3. m % l \in 0..(l - 1)
      OBVIOUS
    <3>4. n = (m % l) + 1
      <4> HIDE DEF over
      <4>q. QED  BY <1>2, <2>2, <3>2
    <3>q. QED
      <4> HIDE DEF n
      <4>q. QED  BY <3>3, <3>4
  <2>q. QED  BY <2>1, <2>2
<1>4. Become(w, Ask([Idle EXCEPT !.inst = i, !.op = WarmOps[k], !.began = clock,
                                 !.gone = call[w].gone], First(WarmOps[k])))
      /\ UNCHANGED <<clock, since>>
  BY <1>3 DEF Warm
<1> DEFINE p == [Idle EXCEPT !.inst = i, !.op = WarmOps[k], !.began = clock,
                             !.gone = call[w].gone]
<1>5. Typed(p) /\ p.began =< clock /\ p.parts = <<>>
  <2>1. PICK gone : gone = call[w].gone
    OBVIOUS
  <2>2. p = [Idle EXCEPT !.inst = i, !.op = WarmOps[k], !.began = clock, !.gone = gone]
    BY <2>1
  <2>3. PICK op : op = WarmOps[k]
    OBVIOUS
  <2>4. ASSUME NEW r, r = [Idle EXCEPT !.inst = i, !.op = op, !.began = clock, !.gone = gone]
        PROVE  Typed(r) /\ r.began =< clock /\ r.parts = <<>>
    BY <2>4, StartingOK DEF TypeOK, Idle
  <2>q. QED  BY <2>2, <2>3, <2>4
<1>6. WarmOps[k] \in Range(WarmOps)
  BY <1>2 DEF Range
<1> HIDE DEF w, n, over, q, p
<1>7. Become(w, Ask(p, First(WarmOps[k])))
  BY <1>4 DEF p
<1>8. /\ TypeOK' /\ \A d \in Callers \ {w} : call'[d] = call[d]
      /\ call'[w].pc \in {"get", "fetch"} /\ call'[w].parts = <<>>
  BY <1>1, <1>4, <1>5, <1>6, <1>7, FirstOK
<1>q. QED  BY <1>8 DEF w

LEMMA BeginStep ==
  ASSUME TypeOK, NEW c \in Clients, NEW i \in Entries, NEW op \in Ops, Begin(c, i, op)
  PROVE  /\ TypeOK' /\ \A d \in Callers \ {c} : call'[d] = call[d]
         /\ call'[c].pc \in {"get", "fetch"} /\ call'[c].parts = <<>>
<1> DEFINE q == [Idle EXCEPT !.inst = i, !.op = op, !.began = clock]
<1>1. Typed(q) /\ q.began =< clock /\ q.parts = <<>>
  <2>1. ASSUME NEW r, r = [Idle EXCEPT !.inst = i, !.op = op, !.began = clock]
        PROVE  Typed(r) /\ r.began =< clock /\ r.parts = <<>>
    BY <2>1, StartingOK DEF TypeOK, Idle
  <2>q. QED  BY <2>1
<1>2. Become(c, Ask(q, First(op))) /\ UNCHANGED <<clock, since>>
  BY DEF Begin
<1>3. c \in Callers
  BY DEF Callers
<1> HIDE DEF q
<1>q. QED  BY <1>1, <1>2, <1>3, FirstOK

\* A request that takes what Redis has.
TakesFromStore(c) ==
  LET key == call[c].key IN
  Live(key) /\ Become(c, Take(call[c], store[key].ed)) /\ UNCHANGED store

\* A look-up answers from the store or moves on; so does the flight's own.
LEMMA LookStep ==
  ASSUME TypeOK, NEW c \in Callers, Get(c) \/ Wait(c) \/ Lead(c) \/ Sample(c) \/ Go(c)
  PROVE  /\ TypeOK' /\ \A d \in Callers \ {c} : call'[d] = call[d]
         /\ \/ TakesFromStore(c) /\ Cached(call[c].key) /\ call'[c] = Take(call[c], store[call[c].key].ed)
            \/ call'[c].pc # "done" /\ call'[c].parts = call[c].parts
         /\ UNCHANGED <<clock, since, store>>
<1>0. /\ UNCHANGED <<clock, since, store>> /\ CallOK(call[c]) /\ clock \in Nat
      /\ Typed(call[c])
  BY DEF TypeOK, CallsOK, CallOK, Get, Wait, Lead, Sample, Go
<1>1. CASE TakesFromStore(c) /\ (Get(c) \/ Lead(c))
  <2>1. CallOK(Take(call[c], store[call[c].key].ed))
    <3>1. call[c].began =< clock /\ \E S : call[c].parts \in Seq(S)
      BY <1>0 DEF CallOK
    <3>2. \A e : CallOK(Take(call[c], e))
      BY <1>0, <3>1, TakeOK
    <3>q. QED  BY <3>2
  <2>2. Cached(call[c].key)
    BY <1>0, <1>1 DEF Get, Lead, At, CallOK, Waits
  <2>q. QED  BY <1>0, <1>1, <2>1, <2>2, OneCall DEF TakesFromStore
<1>2. ASSUME NEW q, Become(c, q), CallOK(q), q.pc # "done", q.parts = call[c].parts
      PROVE  /\ TypeOK' /\ \A d \in Callers \ {c} : call'[d] = call[d]
             /\ call'[c].pc # "done" /\ call'[c].parts = call[c].parts
  BY <1>0, <1>2, OneCall
<1>3. ASSUME call[c].pc \in Waits, NEW here \in {"join", "wait"},
             Become(c, [call[c] EXCEPT !.pc = here])
      PROVE  /\ TypeOK' /\ \A d \in Callers \ {c} : call'[d] = call[d]
             /\ call'[c].pc # "done" /\ call'[c].parts = call[c].parts
  <2> DEFINE q == [call[c] EXCEPT !.pc = here]
  <2>1. CallOK(q) /\ q.pc = here /\ q.parts = call[c].parts
    BY <1>0, <1>3 DEF CallOK, Typed, Waits, Asks, Busy
  <2> HIDE DEF q
  <2>q. QED  BY <1>2, <1>3, <2>1 DEF q
<1>4. CASE Get(c) /\ ~TakesFromStore(c)
  BY <1>0, <1>3, <1>4 DEF Get, At, Waits, TakesFromStore, Shows
<1>5. CASE Wait(c)
  BY <1>0, <1>3, <1>5 DEF Wait, At, Waits
<1>6. CASE Lead(c) /\ ~TakesFromStore(c)
  <2>1. Become(c, Fetching(c)) /\ call[c].pc = "join"
    BY <1>0, <1>6 DEF Lead, At, TakesFromStore, Shows
  <2>2. CallOK(Fetching(c)) /\ Fetching(c).pc = "fetch" /\ Fetching(c).parts = call[c].parts
    <3>0. Timeout \in Nat
      BY CatalogAssumption DEF CatalogAssumption
    <3>1. ASSUME NEW q, q = Fetching(c)
          PROVE  CallOK(q) /\ q.pc = "fetch" /\ q.parts = call[c].parts
      <4>1. q = [call[c] EXCEPT !.pc = "fetch", !.start = clock]
        BY <3>1 DEF Fetching
      <4>2. /\ q.pc = "fetch" /\ q.start = clock /\ q.began = call[c].began
            /\ q.key = call[c].key /\ q.parts = call[c].parts
        BY <1>0, <4>1 DEF Typed
      <4>3. Typed(q)
        BY <1>0, <4>1 DEF Typed, Busy, Asks
      <4>q. QED  BY <1>0, <2>1, <3>0, <4>2, <4>3 DEF CallOK, Waits, Asks, Busy
    <3>q. QED  BY <3>1
  <2>q. QED  BY <1>0, <1>2, <2>1, <2>2
<1>7. CASE Sample(c)
  <2> DEFINE q == [call[c] EXCEPT !.pc = "reply", !.ed = edition]
  <2>1. NotReplacedBefore(edition, call[c].start)
    <3>1. PICK n \in Nat : n = edition
      BY EditionIs DEF TypeOK, SinceOK
    <3>q. QED  BY <3>1 DEF NotReplacedBefore
  <2>2. call[c].pc = "fetch" /\ Become(c, q)
    BY <1>7 DEF Sample, At
  <2>3. CallOK(q) /\ q.pc = "reply" /\ q.parts = call[c].parts
    BY <1>0, <2>1, <2>2 DEF CallOK, Typed, Waits, Asks, Busy
  <2> HIDE DEF q
  <2>q. QED  BY <1>0, <1>2, <2>2, <2>3
<1>8. CASE Go(c)
  <2> DEFINE q == [call[c] EXCEPT !.gone = TRUE]
  <2>1. CallOK(q) /\ q.pc = call[c].pc /\ q.parts = call[c].parts
    BY <1>0 DEF CallOK, Typed
  <2>2. Become(c, q) /\ call[c].pc # "done"
    BY <1>8 DEF Go
  <2> HIDE DEF q
  <2>q. QED  BY <1>0, <1>2, <2>1, <2>2
<1>q. QED  BY <1>0, <1>1, <1>4, <1>5, <1>6, <1>7, <1>8

\* A flight ends for all that are in it.
LEMMA LandStep ==
  ASSUME TypeOK, UNCHANGED <<clock, since>>, NEW c \in Callers, NEW status, Land(c, status)
  PROVE  /\ TypeOK'
         /\ \A d \in Callers : d \in Waiting(c) \cup {c} =>
              call'[d] = Outcome(call[d], status, call[c].ed)
         /\ \A d \in Callers \ (Waiting(c) \cup {c}) : call'[d] = call[d]
<1>1. /\ \A d \in Callers : d \in Waiting(c) \cup {c} =>
           call'[d] = Outcome(call[d], status, call[c].ed)
      /\ \A d \in Callers \ (Waiting(c) \cup {c}) : call'[d] = call[d]
      /\ call' = [d \in Callers |-> call'[d]]
  BY DEF Land
<1>2. ASSUME NEW d \in Callers
      PROVE  CallOK(Outcome(call[d], status, call[c].ed))
  <2>1. /\ clock \in Nat /\ Typed(call[d]) /\ call[d].began =< clock
        /\ \E S : call[d].parts \in Seq(S)
    BY DEF TypeOK, CallsOK, CallOK
  <2>2. \A e : CallOK(Take(call[d], e))
    BY <2>1, TakeOK
  <2>3. \A s : CallOK(Finish(call[d], s))
    BY <2>1, FinishOK
  <2>q. QED  BY <2>2, <2>3 DEF Outcome
<1>3. \A d \in Callers : CallOK(call'[d])
  BY <1>1, <1>2 DEF TypeOK, CallsOK
<1>4. SinceOK'
  BY DEF TypeOK, SinceOK, Published
<1>5. \A p : CallOK(p)' <=> CallOK(p)
  BY DEF CallOK, Typed, NotReplacedBefore, edition
<1>q. QED  BY <1>1, <1>3, <1>4, <1>5 DEF TypeOK, CallsOK

-----------------------------------------------------------------------------
\* Every step of the catalogue, as one caller sees it.

MovesOn(d) == call'[d].pc # "done" /\ call'[d].parts \in {call[d].parts, <<>>}

Hits(d) ==
  LET key == call[d].key IN
  Live(key) /\ Cached(key) /\ call'[d] = Take(call[d], store[key].ed)

\* What d hears at the end of the flight of c.
Hears(d, c) ==
  /\ call[c].pc \in Asks /\ (d = c \/ d \in Waiting(c))
  /\ \/ call[c].pc = "reply" /\ call'[d] = Take(call[d], call[c].ed)
     \/ \E error \in {"rejected", "down", "cancelled"} :
          /\ call'[d] = Finish(call[d], Status(error))
          /\ error # "cancelled" => ~call[c].gone

Changes(d) ==
  call'[d] = call[d] \/ MovesOn(d) \/ Hits(d) \/ \E c \in Callers : Hears(d, c)

LEMMA StepChanges ==
  ASSUME TypeOK, NEW c \in Callers, Step(c) \/ Go(c)
  PROVE  TypeOK' /\ (\A d \in Callers : Changes(d)) /\ UNCHANGED <<clock, since>>
<1>1. CASE Get(c) \/ Wait(c) \/ Lead(c) \/ Sample(c) \/ Go(c)
  <2>1. /\ TypeOK' /\ \A d \in Callers \ {c} : call'[d] = call[d]
        /\ Hits(c) \/ MovesOn(c)
        /\ UNCHANGED <<clock, since>>
    BY <1>1, LookStep DEF TakesFromStore, Hits, MovesOn
  <2>q. QED  BY <2>1 DEF Changes
<1>2. CASE Deliver(c)
  <2>1. Land(c, 200) /\ UNCHANGED <<clock, since>> /\ call[c].pc = "reply"
    BY <1>2 DEF Deliver, At
  <2>2. /\ TypeOK' /\ \A d \in Callers \ (Waiting(c) \cup {c}) : call'[d] = call[d]
        /\ \A d \in Callers : d \in Waiting(c) \cup {c} =>
             call'[d] = Outcome(call[d], 200, call[c].ed)
    BY <2>1, LandStep
  <2>3. \A d \in Callers : d \in Waiting(c) \cup {c} => Hears(d, c)
    BY <2>1, <2>2 DEF Hears, Asks, Outcome
  <2>q. QED  BY <2>1, <2>2, <2>3 DEF Changes
<1>3. ASSUME NEW error \in {"rejected", "down", "cancelled"}, Fail(c, error)
      PROVE  TypeOK' /\ (\A d \in Callers : Changes(d)) /\ UNCHANGED <<clock, since>>
  <2>1. /\ Land(c, Status(error)) /\ UNCHANGED <<clock, since>> /\ call[c].pc \in Asks
        /\ error # "cancelled" => ~call[c].gone
    BY <1>3 DEF Fail, Asks
  <2>2. /\ TypeOK' /\ \A d \in Callers \ (Waiting(c) \cup {c}) : call'[d] = call[d]
        /\ \A d \in Callers : d \in Waiting(c) \cup {c} =>
             call'[d] = Outcome(call[d], Status(error), call[c].ed)
    BY <2>1, LandStep
  <2>3. \A d \in Callers : d \in Waiting(c) \cup {c} => Hears(d, c)
    BY <2>1, <2>2 DEF Hears, Outcome, Status
  <2>q. QED  BY <2>1, <2>2, <2>3 DEF Changes
<1>q. QED  BY <1>1, <1>2, <1>3 DEF Step

\* Time passes.
LEMMA TickStep ==
  ASSUME CacheInv, Tick
  PROVE  CacheInv' /\ call' = call
<1>1. clock \in Nat /\ clock' = clock + 1 /\ since' = since /\ call' = call
  BY DEF CacheInv, TypeOK, Tick
<1>2. SinceOK'
  BY <1>1 DEF CacheInv, TypeOK, SinceOK, Published
<1>3. \A e, t : NotReplacedBefore(e, t)' <=> NotReplacedBefore(e, t)
  BY <1>1 DEF NotReplacedBefore, edition
<1>4. ASSUME NEW c \in Callers
      PROVE  CallOK(call[c])'
  <2>1. CallOK(call[c]) /\ Typed(call[c])
    BY DEF CacheInv, TypeOK, CallsOK, CallOK
  <2>2. PICK q : q = call[c]
    OBVIOUS
  <2>3. q.pc \in Asks => clock < q.start + Timeout
    BY <2>2 DEF Tick, Asks
  <2>4. Timeout \in Nat /\ q.began \in Nat /\ q.start \in Nat
    BY <2>1, <2>2, CatalogAssumption DEF CatalogAssumption, Typed
  <2>5. q.began =< clock' /\ (q.pc \in Asks => q.start =< clock' /\ clock' =< q.start + Timeout)
    BY <1>1, <2>1, <2>2, <2>3, <2>4 DEF CallOK
  <2>6. (q.pc = "reply" => NotReplacedBefore(q.ed, q.start)')
    BY <1>3, <2>1, <2>2 DEF CallOK
  <2>7. /\ Typed(q) /\ \E S : q.parts \in Seq(S)
        /\ q.pc \in Busy => q.key.what \in Whats
        /\ q.pc \in Waits => Cached(q.key)
        /\ q.pc \in Asks => q.began =< q.start
    BY <2>1, <2>2 DEF CallOK
  <2>8. call'[c] = q
    BY <1>1, <2>2
  <2>q. QED  BY <2>5, <2>6, <2>7, <2>8 DEF CallOK, NotReplacedBefore, Typed
<1>5. CallsOK'
  BY <1>1, <1>4 DEF CacheInv, TypeOK, CallsOK
<1>6. StoreOK'
  <2>1. /\ DOMAIN store' = {k \in DOMAIN store : clock' < store[k].until}
        /\ \A k \in DOMAIN store' : store'[k] = store[k]
    BY DEF Tick, Restrict
  <2>2. ASSUME NEW k \in DOMAIN store'
        PROVE  KeyOK(store[k])'
    <3>1. k \in DOMAIN store /\ store'[k] = store[k] /\ clock' < store[k].until
      BY <2>1
    <3>2. PICK v : v = store[k]
      OBVIOUS
    <3>3. KeyOK(v) /\ clock' < v.until /\ store'[k] = v
      BY <3>1, <3>2 DEF CacheInv, StoreOK
    <3>4. Longest \in Nat
      BY DeltaIs
    <3>5. v.until \in Nat /\ v.until =< clock' + Longest
      BY <1>1, <3>3, <3>4 DEF KeyOK
    <3>6. NotReplacedBefore(v.ed, v.until - Stale)'
      BY <1>3, <3>3 DEF KeyOK
    <3>q. QED  BY <3>3, <3>5, <3>6 DEF KeyOK, NotReplacedBefore
  <2>q. QED  BY <2>2 DEF StoreOK
<1>q. QED  BY <1>1, <1>2, <1>5, <1>6 DEF CacheInv, TypeOK

\* An edition is replaced now: whatever was fetched before is not older than that.
LEMMA PublishStep ==
  ASSUME CacheInv, Publish
  PROVE  CacheInv' /\ call' = call
<1>1. PICK n \in Nat : Published(n)
  BY DEF CacheInv, TypeOK, SinceOK
<1>2. edition = n
  BY <1>1, EditionIs
<1>3. PICK l \in Nat \ {0} : l = Len(Editions) /\ DOMAIN Editions = 1..l
  BY CatalogAssumption DEF CatalogAssumption
<1>4. /\ n \in 1..l /\ n + 1 \in 1..l /\ since' = [since EXCEPT ![n + 1] = clock]
      /\ clock' = clock /\ call' = call /\ store' = store /\ clock \in Nat /\ clock # Never
  <2>1. n < l /\ since' = [since EXCEPT ![n + 1] = clock]
    BY <1>2, <1>3 DEF Publish
  <2>2. n \in 1..l
    BY <1>1, <1>3 DEF Published
  <2>3. clock' = clock /\ call' = call /\ store' = store /\ clock \in Nat
    BY DEF Publish, CacheInv, TypeOK
  <2>4. clock # Never
    BY <2>3, CatalogAssumption DEF CatalogAssumption
  <2>q. QED  BY <2>1, <2>2, <2>3, <2>4
<1>5. /\ DOMAIN since = 1..l /\ since'[n + 1] = clock
      /\ \A e \in 1..l : e # n + 1 => since'[e] = since[e]
      /\ \A e \in 1..l : since[e] # Never <=> e =< n
  BY <1>1, <1>3, <1>4 DEF CacheInv, TypeOK, SinceOK, Published
<1>6. \A e \in DOMAIN Editions : since'[e] # Never <=> e =< n + 1
  <2>1. TAKE e \in DOMAIN Editions
  <2>2. CASE e = n + 1
    BY <1>4, <1>5, <2>2
  <2>3. CASE e # n + 1
    BY <1>3, <1>4, <1>5, <2>3
  <2>q. QED  BY <2>2, <2>3
<1>7. edition' = n + 1
  <2>1. n + 1 \in DOMAIN Editions
    BY <1>3, <1>4
  <2>2. PICK m \in DOMAIN Editions : m = n + 1
    BY <2>1
  <2>3. \A e \in DOMAIN Editions : since'[e] # Never <=> e =< m
    BY <1>6, <2>2
  <2>4. Max({e \in DOMAIN Editions : since'[e] # Never}) = m
    BY <2>3, LastPublished
  <2>q. QED  BY <2>2, <2>4 DEF edition
<1>8. SinceOK'
  <2>1. Published(n + 1)'
    BY <1>3, <1>4, <1>6 DEF Published
  <2>2. DOMAIN since' = DOMAIN Editions
    BY <1>3, <1>4, <1>5
  <2>3. \A e \in DOMAIN Editions : since'[e] = Never \/ (since'[e] \in Nat /\ since'[e] =< clock)
    BY <1>3, <1>4, <1>5 DEF CacheInv, TypeOK, SinceOK
  <2>q. QED  BY <1>4, <2>1, <2>2, <2>3 DEF SinceOK
<1>9. ASSUME NEW e, NEW t \in Int, t =< clock, NotReplacedBefore(e, t)
      PROVE  NotReplacedBefore(e, t)'
  <2>1. e \in Nat /\ e =< n /\ (e < n => since[e + 1] >= t)
    BY <1>2, <1>9 DEF NotReplacedBefore
  <2>2. CASE e = n
    BY <1>4, <1>5, <1>7, <1>9, <2>1, <2>2 DEF NotReplacedBefore
  <2>3. CASE e < n
    <3>1. since'[e + 1] = since[e + 1]
      BY <1>4, <1>5, <2>1, <2>3
    <3>q. QED  BY <1>7, <2>1, <2>3, <3>1 DEF NotReplacedBefore
  <2>q. QED  BY <2>1, <2>2, <2>3
<1>10. ASSUME NEW c \in Callers
       PROVE  CallOK(call[c])'
  <2>1. PICK q : q = call[c]
    OBVIOUS
  <2>2. CallOK(q) /\ Typed(q) /\ call'[c] = q
    BY <1>4, <2>1 DEF CacheInv, TypeOK, CallsOK, CallOK
  <2>3. q.pc = "reply" => NotReplacedBefore(q.ed, q.start)'
    BY <1>9, <2>2 DEF CallOK, Typed, Asks
  <2>q. QED  BY <1>4, <2>2, <2>3 DEF CallOK, NotReplacedBefore, Typed
<1>11. StoreOK'
  <2>1. ASSUME NEW k \in DOMAIN store
        PROVE  KeyOK(store[k])'
    <3>1. PICK v : v = store[k]
      OBVIOUS
    <3>2. KeyOK(v) /\ store'[k] = v
      BY <1>4, <3>1 DEF CacheInv, StoreOK
    <3>3. Longest \in Nat /\ Stale = Timeout + Longest /\ Timeout \in Nat
      BY DeltaIs, CatalogAssumption DEF CatalogAssumption
    <3>4. v.until - Stale \in Int /\ v.until - Stale =< clock
      BY <1>4, <3>2, <3>3 DEF KeyOK
    <3>5. NotReplacedBefore(v.ed, v.until - Stale)'
      BY <1>9, <3>2, <3>4 DEF KeyOK
    <3>q. QED  BY <1>4, <3>2, <3>5 DEF KeyOK, NotReplacedBefore
  <2>q. QED  BY <1>4, <2>1 DEF StoreOK
<1>q. QED  BY <1>4, <1>8, <1>10, <1>11 DEF CacheInv, TypeOK, CallsOK

\* A value that is stored was fetched within the timeout.
LEMMA FillStep ==
  ASSUME CacheInv, NEW c \in Callers, Deliver(c)
  PROVE  StoreOK'
<1> DEFINE key == call[c].key
           kept == [ed |-> call[c].ed, until |-> clock + jitterTTL(key)]
<1>1. /\ clock' = clock /\ since' = since /\ call[c].pc = "reply" /\ clock \in Nat
      /\ CallOK(call[c]) /\ Typed(call[c])
  BY DEF Deliver, At, CacheInv, TypeOK, CallsOK, CallOK
<1>2. \A v : KeyOK(v)' <=> KeyOK(v)
  BY <1>1 DEF KeyOK, NotReplacedBefore, edition
<1>3. CASE store' = store
  BY <1>2, <1>3 DEF CacheInv, StoreOK
<1>4. CASE Cached(key) /\ store' = With(store, key, kept)
  <2>1. PICK ttl \in Nat : ttl = jitterTTL(key) /\ ttl > 0 /\ ttl =< Longest
    <3>1. key.what \in Whats
      BY <1>1 DEF CallOK, Busy, Asks
    <3>2. BaseTTL > 0
      BY <1>4 DEF Cached
    <3>q. QED  BY <3>1, <3>2, LifetimeIs
  <2>2. PICK q : q = call[c]
    OBVIOUS
  <2>3. PICK v : v = [ed |-> q.ed, until |-> clock + ttl]
    OBVIOUS
  <2>4. /\ NotReplacedBefore(q.ed, q.start) /\ clock =< q.start + Timeout /\ q.start \in Nat
    BY <1>1, <2>2 DEF CallOK, Asks, Typed
  <2>5. Longest \in Nat /\ Stale = Timeout + Longest /\ Timeout \in Nat
    BY DeltaIs, CatalogAssumption DEF CatalogAssumption
  <2>6. NotReplacedBefore(v.ed, v.until - Stale)
    <3>1. PICK n \in DOMAIN Editions : Published(n) /\ edition = n
      BY EditionIs DEF CacheInv, TypeOK, SinceOK, Published
    <3>2. q.ed \in Nat /\ q.ed =< n /\ (q.ed < n => since[q.ed + 1] >= q.start)
      BY <2>4, <3>1 DEF NotReplacedBefore
    <3>3. CASE q.ed < n
      <4>1. PICK e \in DOMAIN Editions : e = q.ed + 1
        BY SMTT(30), <3>1, <3>2, <3>3, CatalogAssumption DEF CatalogAssumption
      <4>2. e =< n
        BY <3>2, <3>3, <4>1, CatalogAssumption DEF CatalogAssumption
      <4>3. since[e] \in Nat
        BY <3>1, <4>2 DEF CacheInv, TypeOK, SinceOK, Published
      <4>4. since[e] >= v.until - Stale
        BY <1>1, <2>1, <2>3, <2>4, <2>5, <3>2, <3>3, <4>1, <4>3
      <4>q. QED  BY <2>3, <3>1, <3>2, <4>1, <4>4 DEF NotReplacedBefore
    <3>4. CASE q.ed = n
      BY <2>3, <3>1, <3>2, <3>4 DEF NotReplacedBefore
    <3>5. n \in Nat
      BY <3>1, CatalogAssumption DEF CatalogAssumption
    <3>q. QED  BY <3>2, <3>3, <3>4, <3>5
  <2>7. KeyOK(v)
    BY <1>1, <2>1, <2>3, <2>5, <2>6 DEF KeyOK
  <2>8. kept = v
    BY <2>1, <2>2, <2>3
  <2>9. ASSUME NEW k \in DOMAIN store'
        PROVE  KeyOK(store'[k])
    <3> HIDE DEF key, kept
    <3>1. CASE k = key
      BY <1>4, <2>7, <2>8, <3>1 DEF With
    <3>2. CASE k # key
      BY <1>4, <3>2 DEF With, CacheInv, StoreOK
    <3>q. QED  BY <3>1, <3>2
  <2>q. QED  BY <1>2, <2>9 DEF StoreOK
<1>q. QED  BY <1>3, <1>4 DEF Deliver, Fill

LEMMA CacheStep ==
  ASSUME CacheInv, [Next]_vars
  PROVE  CacheInv' /\ \A d \in Callers : Changes(d)
<1>1. ASSUME UNCHANGED <<clock, since, store>>
      PROVE  StoreOK'
  <2>1. \A v : KeyOK(v)' <=> KeyOK(v)
    BY <1>1 DEF KeyOK, NotReplacedBefore, edition
  <2>q. QED  BY <1>1, <2>1 DEF CacheInv, StoreOK
<1>2. ASSUME NEW c \in Callers, Step(c) \/ Go(c)
      PROVE  CacheInv' /\ \A d \in Callers : Changes(d)
  <2>1. TypeOK' /\ (\A d \in Callers : Changes(d)) /\ UNCHANGED <<clock, since>>
    BY <1>2, StepChanges DEF CacheInv
  <2>2. CASE Deliver(c)
    BY <2>1, <2>2, FillStep DEF CacheInv
  <2>3. CASE ~Deliver(c)
    <3>1. store' = store
      BY <1>2, <2>3 DEF Step, Go, Get, Wait, Lead, Sample, Fail
    <3>q. QED  BY <1>1, <2>1, <3>1 DEF CacheInv
  <2>q. QED  BY <2>2, <2>3
<1>3. ASSUME NEW c \in Clients, NEW i \in Entries, NEW op \in Ops, Begin(c, i, op)
      PROVE  CacheInv' /\ \A d \in Callers : Changes(d)
  <2>1. UNCHANGED <<clock, since, store>> /\ c \in Callers
    BY <1>3 DEF Begin, Callers
  <2>2. /\ TypeOK' /\ \A d \in Callers \ {c} : call'[d] = call[d]
        /\ call'[c].pc \in {"get", "fetch"} /\ call'[c].parts = <<>>
    BY <1>3, BeginStep DEF CacheInv
  <2>q. QED  BY <1>1, <2>1, <2>2 DEF CacheInv, Changes, MovesOn
<1>4. ASSUME NEW i \in Instances, Warm(i)
      PROVE  CacheInv' /\ \A d \in Callers : Changes(d)
  <2>1. UNCHANGED <<clock, since, store>> /\ Warmer(i) \in Callers
    BY <1>4 DEF Warm, Callers
  <2>2. PICK w : w = Warmer(i)
    OBVIOUS
  <2>3. /\ TypeOK' /\ \A d \in Callers \ {w} : call'[d] = call[d]
        /\ call'[w].pc \in {"get", "fetch"} /\ call'[w].parts = <<>>
    BY <1>4, <2>2, WarmStep DEF CacheInv
  <2>q. QED  BY <1>1, <2>1, <2>2, <2>3 DEF CacheInv, Changes, MovesOn
<1>5. CASE Publish
  BY <1>5, PublishStep DEF Changes
<1>6. CASE Tick
  BY <1>6, TickStep DEF Changes
<1>7. CASE UNCHANGED vars
  <2>1. clock' = clock /\ since' = since /\ store' = store /\ call' = call
    BY <1>7 DEF vars
  <2>2. \A p : CallOK(p)' <=> CallOK(p)
    BY <2>1 DEF CallOK, Typed, NotReplacedBefore, edition
  <2>3. TypeOK'
    BY <2>1, <2>2 DEF CacheInv, TypeOK, CallsOK, SinceOK, Published
  <2>q. QED  BY <1>1, <2>1, <2>3 DEF CacheInv, Changes
<1>q. QED  BY <1>2, <1>3, <1>4, <1>5, <1>6, <1>7 DEF Next

LEMMA CacheInit ==
  Init => CacheInv
<1> SUFFICES ASSUME Init
             PROVE  CacheInv
  OBVIOUS
<1>1. PICK l \in Nat \ {0} : l = Len(Editions) /\ DOMAIN Editions = 1..l
  BY CatalogAssumption DEF CatalogAssumption
<1>2. 0 # Never
  BY CatalogAssumption DEF CatalogAssumption
<1>3. clock = 0 /\ store = <<>> /\ since = [e \in 1..l |-> IF e = 1 THEN 0 ELSE Never]
  BY <1>1 DEF Init
<1>4. SinceOK
  <2>1. Published(1)
    BY <1>1, <1>2, <1>3 DEF Published
  <2>q. QED  BY <1>1, <1>2, <1>3, <2>1 DEF SinceOK
<1>5. CallOK(Idle)
  <2>1. <<>> \in Seq({})
    OBVIOUS
  <2>2. /\ Idle.pc = "idle" /\ Idle.began = 0 /\ Idle.start = 0 /\ Idle.parts = <<>>
        /\ Idle.status = 0
    BY DEF Idle
  <2>3. Typed(Idle)
    BY DEF Typed, Idle
  <2>q. QED  BY <1>3, <2>1, <2>2, <2>3 DEF CallOK, Busy, Waits, Asks
<1>6. CallsOK
  BY <1>5 DEF CallsOK, Init
<1>7. StoreOK
  BY <1>3 DEF StoreOK
<1>q. QED  BY <1>3, <1>4, <1>6, <1>7 DEF CacheInv, TypeOK

\* What the requests, the flights and Redis hold fits at all times: the lifetime
\* of a cached value runs out within Stale of the time it was replaced at ClawHub.
THEOREM CacheIsKept ==
  Spec => []CacheInv
<1>1. Init => CacheInv
  BY CacheInit
<1>2. CacheInv /\ [Next]_vars => CacheInv'
  BY CacheStep
<1>q. QED  BY <1>1, <1>2, PTL DEF Spec

-----------------------------------------------------------------------------
\* What the requests are told.

\* What a request has read when it has taken an answer, and how it may have ended.
LEMMA TakeOf ==
  ASSUME TypeOK, NEW c \in Callers, NEW e
  PROVE  /\ Take(call[c], e).pc = "done" => Take(call[c], e).status = 200
         /\ Take(call[c], e).parts = Append(call[c].parts, [key |-> call[c].key, ed |-> e])
<1>1. /\ clock \in Nat /\ Typed(call[c]) /\ call[c].began =< clock
      /\ \E S : call[c].parts \in Seq(S)
  BY DEF TypeOK, CallsOK, CallOK
<1>2. \A x : /\ Take(call[c], x).pc = "done" => Take(call[c], x).status = 200
             /\ Take(call[c], x).parts = Append(call[c].parts, [key |-> call[c].key, ed |-> x])
  BY <1>1, TakeOK
<1>q. QED  BY <1>2

\* Theorem: no request fails because of Redis, nor because of a failure that is
\* over: it fails when its own call to ClawHub fails or the one it waits for, which
\* is then the flight of its key on its instance, and with ClawHub's refusal only
\* when the client that led the flight was still there to be refused.
THEOREM FailuresComeFromClawHub ==
  Spec => ErrorHasCause
<1> DEFINE Cause(c, d) ==
             /\ d = c \/ (At(c, "wait") /\ d \in Leaders(call[c].inst, call[c].key))
             /\ call[d].pc \in {"fetch", "reply"}
             /\ call'[c].status = 404 => ~call[d].gone
<1>1. ASSUME CacheInv, [Next]_vars, NEW c \in Callers, Fails(c)
      PROVE  \E d \in Callers : Cause(c, d)
  <2>1. call[c].pc # "done" /\ call'[c].pc = "done" /\ call'[c].status # 200
    BY <1>1 DEF Fails, At
  <2>2. Changes(c) /\ TypeOK
    BY <1>1, CacheStep DEF CacheInv
  <2>3. \A e : Take(call[c], e).pc = "done" => Take(call[c], e).status = 200
    <3>1. \A e : /\ Take(call[c], e).pc = "done" => Take(call[c], e).status = 200
                 /\ Take(call[c], e).parts =
                      Append(call[c].parts, [key |-> call[c].key, ed |-> e])
      BY <2>2, TakeOf
    <3>q. QED  BY <3>1
  <2>4. PICK d \in Callers : Hears(c, d)
    BY <2>1, <2>2, <2>3 DEF Changes, MovesOn, Hits
  <2>5. PICK error \in {"rejected", "down", "cancelled"} :
          /\ call'[c] = Finish(call[c], Status(error))
          /\ error # "cancelled" => ~call[d].gone
    BY <2>1, <2>3, <2>4 DEF Hears
  <2>6. call'[c].status = Status(error)
    <3>1. \A s : Finish(call[c], s).status = s
      <4>1. clock \in Nat /\ Typed(call[c]) /\ \E S : call[c].parts \in Seq(S)
        BY <2>2 DEF TypeOK, CallsOK, CallOK
      <4>q. QED  BY <4>1, FinishOK
    <3>q. QED  BY <2>5, <3>1
  <2>7. call[d].pc \in {"fetch", "reply"} /\ (call'[c].status = 404 => ~call[d].gone)
    BY <2>4, <2>5, <2>6 DEF Hears, Asks, Status
  <2>8. d = c \/ (At(c, "wait") /\ d \in Leaders(call[c].inst, call[c].key))
    <3>1. CASE c \in Waiting(d)
      <4>1. /\ call[c].pc = "wait" /\ call[c].inst = call[d].inst
            /\ call[c].key = call[d].key
        BY <3>1 DEF Waiting, At
      <4>2. Cached(call[c].key)
        BY <2>2, <4>1 DEF TypeOK, CallsOK, CallOK, Waits
      <4>q. QED  BY <2>7, <4>1, <4>2 DEF Leaders, At
    <3>q. QED  BY <2>4, <3>1 DEF Hears
  <2>q. QED  BY <2>7, <2>8
<1>2. CacheInv /\ [Next]_vars => [\A c \in Callers : Fails(c) => \E d \in Callers : Cause(c, d)]_call
  BY <1>1
<1>q. QED  BY <1>2, CacheIsKept, PTL DEF Spec, ErrorHasCause

\* Theorem: with the cache on, what a request reads was not replaced at ClawHub the
\* longest lifetime and the timeout of a call ago, on whatever instance and at
\* whatever moment of the flight; a verdict was not replaced when it was asked for.
\* With the cache off the bound is the timeout itself, which is reached.
THEOREM AnswersAreFresh ==
  ASSUME BaseTTL > 0
  PROVE  Spec => StalenessBounded
<1> DEFINE Fresh(c) ==
             Len(call'[c].parts) > Len(call[c].parts) =>
               LET part == Last(call'[c].parts) IN
               part.ed < edition =>
                 IF part.key.what = "verdict" THEN since[part.ed + 1] >= call[c].began
                 ELSE clock - since[part.ed + 1] < Stale
<1>t. Timeout \in Nat \ {0} /\ Longest \in Nat \ {0} /\ Stale = Timeout + Longest
  BY DeltaIs, CatalogAssumption DEF CatalogAssumption
<1>1. ASSUME CacheInv, [Next]_vars, NEW c \in Callers
      PROVE  Fresh(c)
  <2>1. Changes(c) /\ TypeOK /\ CallOK(call[c]) /\ clock \in Nat /\ StoreOK
    BY <1>1, CacheStep DEF CacheInv, TypeOK, CallsOK
  <2>2. PICK q : q = call[c]
    OBVIOUS
  <2>3. PICK S : q.parts \in Seq(S)
    BY <2>1, <2>2 DEF CallOK
  <2>n. PICK n \in DOMAIN Editions : n \in Nat /\ Published(n) /\ edition = n
    BY <2>1, EditionIs, CatalogAssumption DEF TypeOK, SinceOK, Published, CatalogAssumption
  \* When an answer has been taken from edition e:
  <2>4. ASSUME NEW e, call'[c] = Take(call[c], e),
               \/ NotReplacedBefore(e, clock - Stale + 1) /\ q.key.what # "verdict"
               \/ NotReplacedBefore(e, clock - Timeout) /\ NotReplacedBefore(e, q.began)
        PROVE  Fresh(c)
    <3>1. PICK part : part = [key |-> q.key, ed |-> e]
      OBVIOUS
    <3>2. call'[c].parts = Append(q.parts, part)
      BY <2>1, <2>2, <2>4, <3>1, TakeOf
    <3>3. Last(call'[c].parts) = part
      <4>1. \A s \in Seq(S \cup {part}) : Last(Append(s, part)) = part
        BY DEF Last
      <4>2. q.parts \in Seq(S \cup {part})
        BY <2>3
      <4>q. QED  BY <3>2, <4>1, <4>2
    <3>4. ASSUME part.ed < edition
          PROVE  IF part.key.what = "verdict" THEN since[part.ed + 1] >= q.began
                 ELSE clock - since[part.ed + 1] < Stale
      <4>1. PICK k \in DOMAIN Editions : k = e + 1 /\ k =< n
        BY <2>4, <2>n, <3>1, <3>4, CatalogAssumption DEF NotReplacedBefore, CatalogAssumption
      <4>2. since[k] \in Nat
        BY <2>1, <2>n, <4>1 DEF TypeOK, SinceOK, Published
      <4>3. \/ since[k] >= clock - Stale + 1 /\ q.key.what # "verdict"
            \/ since[k] >= clock - Timeout /\ since[k] >= q.began
        BY <2>4, <3>1, <3>4, <4>1 DEF NotReplacedBefore
      <4>4. clock - since[k] < Stale
        BY <1>t, <2>1, <4>2, <4>3
      <4>q. QED  BY <3>1, <4>1, <4>3, <4>4
    <3>q. QED  BY <2>2, <3>3, <3>4
  <2>5. CASE Len(call'[c].parts) > Len(q.parts) /\ MovesOn(c)
    <3>1. Len(q.parts) \in Nat /\ Len(<<>>) = 0
      BY <2>3
    <3>q. QED  BY <2>2, <2>5, <3>1 DEF MovesOn
  <2>6. CASE Hits(c)
    <3>1. PICK v : v = store[q.key]
      OBVIOUS
    <3>2. KeyOK(v) /\ call'[c] = Take(call[c], v.ed) /\ q.key.what # "verdict"
      BY <2>1, <2>2, <2>6, <3>1 DEF Hits, Live, StoreOK, Cached
    <3>3. NotReplacedBefore(v.ed, clock - Stale + 1)
      <4>1. v.until - Stale >= clock - Stale + 1
        BY <1>t, <2>1, <3>2 DEF KeyOK
      <4>2. /\ v.ed \in Nat /\ v.ed =< n
            /\ v.ed < n => since[v.ed + 1] >= v.until - Stale
        BY <2>n, <3>2 DEF KeyOK, NotReplacedBefore
      <4>3. ASSUME v.ed < n
            PROVE  since[v.ed + 1] >= clock - Stale + 1
        <5>1. PICK k \in DOMAIN Editions : k = v.ed + 1 /\ k =< n
          BY SMTT(30), <2>n, <4>2, <4>3, CatalogAssumption DEF CatalogAssumption
        <5>2. since[k] \in Nat
          BY <2>1, <2>n, <5>1 DEF TypeOK, SinceOK, Published
        <5>q. QED  BY <1>t, <2>1, <3>2, <4>1, <4>2, <4>3, <5>1, <5>2 DEF KeyOK
      <4>q. QED  BY <2>n, <4>2, <4>3 DEF NotReplacedBefore
    <3>q. QED  BY <2>4, <3>2, <3>3
  <2>7. ASSUME NEW d \in Callers, Hears(c, d), call[d].pc = "reply",
               call'[c] = Take(call[c], call[d].ed)
        PROVE  Fresh(c)
    <3>1. PICK r : r = call[d]
      OBVIOUS
    <3>2. /\ NotReplacedBefore(r.ed, r.start) /\ clock =< r.start + Timeout /\ r.start =< clock
          /\ r.began =< r.start /\ r.start \in Nat /\ r.began \in Nat
      BY <2>1, <2>7, <3>1 DEF TypeOK, CallsOK, CallOK, Asks, Typed
    <3>3. ASSUME NEW t \in Int, t =< r.start
          PROVE  NotReplacedBefore(r.ed, t)
      <4>1. /\ r.ed \in Nat /\ r.ed =< n /\ (r.ed < n => since[r.ed + 1] >= r.start)
        BY <2>n, <3>2 DEF NotReplacedBefore
      <4>2. ASSUME r.ed < n
            PROVE  since[r.ed + 1] >= t
        <5>1. PICK k \in DOMAIN Editions : k = r.ed + 1 /\ k =< n
          BY SMTT(30), <2>n, <4>1, <4>2, CatalogAssumption DEF CatalogAssumption
        <5>2. since[k] \in Nat
          BY <2>1, <2>n, <5>1 DEF TypeOK, SinceOK, Published
        <5>q. QED  BY <3>2, <3>3, <4>1, <4>2, <5>1, <5>2
      <4>q. QED  BY <2>n, <4>1, <4>2 DEF NotReplacedBefore
    <3>4. CASE c = d
      <4>1. NotReplacedBefore(r.ed, clock - Timeout) /\ NotReplacedBefore(r.ed, q.began)
        BY <1>t, <2>1, <2>2, <3>1, <3>2, <3>3, <3>4
      <4>q. QED  BY <2>4, <2>7, <3>1, <4>1
    <3>5. CASE c \in Waiting(d)
      <4>1. q.key.what # "verdict"
        BY <2>1, <2>2, <3>5 DEF Waiting, At, CallOK, Waits, Cached
      <4>2. clock - Stale + 1 \in Int /\ clock - Stale + 1 =< r.start
        BY <1>t, <2>1, <3>2
      <4>q. QED  BY <2>4, <2>7, <3>1, <3>3, <4>1, <4>2
    <3>q. QED  BY <2>7, <3>4, <3>5 DEF Hears
  <2>8. ASSUME NEW d \in Callers, NEW status, call'[c] = Finish(call[c], status)
        PROVE  Fresh(c)
    <3>1. \A s : Finish(call[c], s).parts = call[c].parts
      <4>1. Typed(call[c]) /\ \E T : call[c].parts \in Seq(T)
        BY <2>1 DEF CallOK
      <4>q. QED  BY <2>1, <4>1, FinishOK
    <3>2. call'[c].parts = call[c].parts /\ Len(call[c].parts) \in Nat
      BY <2>2, <2>3, <2>8, <3>1
    <3>q. QED  BY <3>2
  <2>9. CASE call'[c] = call[c]
    BY <2>2, <2>3, <2>9
  <2>q. QED
    <3>1. MovesOn(c) => Fresh(c)
      BY <2>2, <2>5
    <3>2. \A d \in Callers : Hears(c, d) => Fresh(c)
      BY <2>7, <2>8 DEF Hears
    <3> HIDE DEF Fresh
    <3>q. QED  BY <2>1, <2>6, <2>9, <3>1, <3>2 DEF Changes
<1>2. CacheInv /\ [Next]_vars => [\A c \in Callers : Fresh(c)]_call
  BY <1>1
<1>q. QED  BY <1>2, CacheIsKept, PTL DEF Spec, StalenessBounded
=============================================================================
