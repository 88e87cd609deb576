-------------------------------- MODULE Catalog --------------------------------
(***************************************************************************)
(* The skill and plugin catalogue of ClawHub as the gateway serves it:     *)
(* the read-through cache in Redis with one flight per key and instance,   *)
(* the lists, categories and verdicts computed from its raw responses, and *)
(* the warmer that asks for the same things in the background.             *)
(*                                                                         *)
(* A raw response is known by its key and by the edition of the catalogue  *)
(* ClawHub answered from.  A flight starts with its second look at Redis   *)
(* and ends with its SET, each in one step.  Redis calls take no time on a *)
(* clock whose unit is that of the timeout of ClawHub.                     *)
(* ----------------------------------------------------------------------- *)
(* Bounds: Clients, MaxInFlight, MaxRounds, MaxFaults, MaxTime, Editions.  *)
(***************************************************************************)
EXTENDS Versions, SequencesExt

CONSTANTS
  Instances, Clients,
  Entries,      \* the instances that clients are sent to
  Ops,          \* what clients ask for: [family, verb, cc]
  WarmOps,      \* a round of the warmer, in order
  Editions,     \* the catalogue over time: [skill, plugin], each [dict, items]
  PageSize,     \* categoriesPageSize (100)
  MaxPages,     \* categoriesMaxPages (1000)
  BaseTTL,      \* cache_ttl (5m); 0 disables the cache
  JitterCap,    \* the most a lifetime may differ from BaseTTL (30s)
  JitterPart,   \* and the part of it by which it may (10)
  Hash,         \* a number for each kind of key
  Timeout,      \* of a call to ClawHub (10s)
  MaxInFlight,  \* bound on the requests served at a time, the warmers' included
  MaxRounds,    \* bound on the rounds of the warmers
  MaxFaults,    \* bound on the failures
  MaxTime,      \* bound on the clock
  Events,       \* environment events explored, a subset of AllEvents
  Never         \* the time of an edition still to come

\* redis: Redis fails; hub: ClawHub fails; cancel: a client or the warmer goes.
AllEvents == {"redis", "hub", "cancel"}

\* What is kept in the cache or asked of ClawHub, and what is asked for.
Whats == {"list", "dict", "page", "verdict"}
Verbs == {"list", "categories", "verdict"}

ASSUME CatalogAssumption ==
  /\ {PageSize, MaxPages, Timeout} \subseteq Nat \ {0} /\ JitterPart \in Nat \ {0, 1}
  /\ {BaseTTL, JitterCap, MaxInFlight, MaxRounds, MaxFaults, MaxTime}
       \subseteq Nat
  /\ \A what \in Whats : Hash[what] \in Nat
  /\ \A op \in Ops \cup Range(WarmOps) : op.verb \in Verbs
  /\ Len(WarmOps) \in Nat \ {0} /\ DOMAIN WarmOps = 1..Len(WarmOps)
  /\ Len(Editions) \in Nat \ {0} /\ DOMAIN Editions = 1..Len(Editions)
  /\ Events \subseteq AllEvents /\ Never \notin Nat

VARIABLES
  clock,
  since,    \* when each edition was published, or Never
  store,    \* gw:hub:{key}: [ed, until], for the keys that have not expired
  call,     \* the requests and warmers: program counter and Go locals
  rounds,   \* rounds the warmers have begun
  faults    \* calls to Redis and ClawHub that have failed, and callers gone

vars == <<clock, since, store, call, rounds, faults>>

Families == {"skill", "plugin"}
Key(family, what, cursor) == [family |-> family, what |-> what, cursor |-> cursor]
Cursors == {PageSize * n : n \in 0..(MaxPages - 1)}
Keys == {Key(f, w, 0) : f \in Families, w \in {"list", "dict", "verdict"}}
        \cup {Key(f, "page", n) : f \in Families, n \in Cursors}

edition == Max({e \in DOMAIN Editions : since[e] # Never})

\* The warmer of an instance is a caller of its own.
Warmer(i) == <<"warmer", i>>
Callers == Clients \cup {Warmer(i) : i \in Instances}

Idle == [pc |-> "idle", inst |-> None, op |-> None, key |-> None, ed |-> 0,
         began |-> 0, start |-> 0, parts |-> <<>>, gone |-> FALSE, status |-> 0]

Init ==
  /\ clock = 0
  /\ since = [e \in DOMAIN Editions |-> IF e = 1 THEN 0 ELSE Never]
  /\ store = <<>>
  /\ call = [c \in Callers |-> Idle]
  /\ rounds = 0
  /\ faults = 0

-----------------------------------------------------------------------------
\* Raw responses.

Raw(key, e) == Editions[e][key.family]

\* A page of a list; ClawHub sends a cursor with it while there is more.
Page(key, e) ==
  LET items == Raw(key, e).items IN
  SubSeq(items, key.cursor + 1, Min({key.cursor + PageSize, Len(items)}))
NextCursor(key, e) ==
  IF key.cursor + PageSize < Len(Raw(key, e).items) THEN key.cursor + PageSize ELSE None

-----------------------------------------------------------------------------
\* Categories.

Other == "other"

Compatible(family, needs, cc) ==
  IF family = "skill" THEN compatibleSkill(needs, cc) ELSE compatiblePackage(needs, cc)

activeSlugSet(dict) == {dict[n].slug : n \in {m \in DOMAIN dict : ~dict[m].archived}}

\* Mutant of resolveCategorySlug: what has no category is in none.
resolveCategorySlug_Raw(slug, active) == slug

\* What has no category, or one that is not shown, is in the last one.
resolveCategorySlug(slug, active) == IF slug \in active THEN slug ELSE Other

\* The items that a request has read, by part and place, that it may see.
ItemsRead(q) ==
  {at \in (2..Len(q.parts)) \X (1..PageSize) :
     LET part == q.parts[at[1]]
         page == Page(part.key, part.ed) IN
     at[2] \in DOMAIN page /\ Compatible(part.key.family, page[at[2]].needs, q.op.cc)}

\* Each of them with its category in the dictionary it has read.
Placed(q) ==
  LET active == activeSlugSet(Raw(q.parts[1].key, q.parts[1].ed).dict)
      category(at) == Page(q.parts[at[1]].key, q.parts[at[1]].ed)[at[2]].category IN
  {<<at, resolveCategorySlug(category(at), active)>> : at \in ItemsRead(q)}

\* The categories that are shown, in the order the operators gave them.
Ordered(dict, shown) ==
  LET before(m, n) == dict[m].order < dict[n].order \/ (dict[m].order = dict[n].order /\ m < n)
      sorted == SetToSortSeq({n \in DOMAIN dict : dict[n].slug \in shown}, before) IN
  [n \in DOMAIN sorted |-> dict[sorted[n]].slug]

buildCategoriesResponse(q) ==
  LET dict == Raw(q.parts[1].key, q.parts[1].ed).dict
      ids == Append(Ordered(dict, activeSlugSet(dict) \ {Other}), Other)
      placed == Placed(q) IN
  [n \in DOMAIN ids |->
     [id |-> ids[n], count |-> Cardinality({item \in placed : item[2] = ids[n]})]]

-----------------------------------------------------------------------------
\* The cache.

\* The security verdicts are never cached.
Cached(key) == BaseTTL > 0 /\ key.what # "verdict"

Delta == Min({JitterCap, BaseTTL \div JitterPart})

\* The lifetime is longer or shorter by an amount fixed for the key.
jitterTTL(key) == IF Delta = 0 THEN BaseTTL ELSE BaseTTL + (Hash[key.what] % (2 * Delta)) - Delta

Live(key) == key \in DOMAIN store

At(c, here)  == call[c].pc = here
Become(c, q) == call' = [call EXCEPT ![c] = q]

\* An uncached key goes to ClawHub at once.
Ask(q, key) ==
  IF Cached(key) THEN [q EXCEPT !.pc = "get", !.key = key, !.ed = 0, !.start = 0]
  ELSE [q EXCEPT !.pc = "fetch", !.key = key, !.start = clock]

Finish(q, status) ==
  [q EXCEPT !.pc = "done", !.status = status, !.inst = None, !.key = None, !.ed = 0,
            !.began = 0, !.start = 0]

\* Mutant of After: the pages all at the first cursor.
After_First(q) ==
  LET last == q.parts[Len(q.parts)] IN
  CASE q.op.verb # "categories"   -> None
    [] last.key.what = "dict"     -> Key(q.op.family, "page", 0)
    [] NextCursor(last.key, last.ed) # None /\ Len(q.parts) <= MaxPages
                                  -> Key(q.op.family, "page", 0)
    [] OTHER                      -> None

\* What a request goes on to read, None when it has all: the categories need
\* the dictionary and then the pages of the list, as far as the cursors lead.
After(q) ==
  LET last == q.parts[Len(q.parts)] IN
  CASE q.op.verb # "categories"   -> None
    [] last.key.what = "dict"     -> Key(q.op.family, "page", 0)
    [] NextCursor(last.key, last.ed) # None /\ Len(q.parts) <= MaxPages
                                  -> Key(q.op.family, "page", NextCursor(last.key, last.ed))
    [] OTHER                      -> None

First(op) ==
  Key(op.family, IF op.verb = "categories" THEN "dict" ELSE op.verb, 0)

\* A request whose current key has been answered from edition e.
Take(q, e) ==
  LET read == [q EXCEPT !.parts = Append(@, [key |-> q.key, ed |-> e])]
      next == After(read) IN
  IF next = None THEN Finish(read, 200) ELSE Ask(read, next)

\* Statuses of writeClawHubError: ClawHub's own refusals are passed on, and all
\* else, another client's cancellation among it, is a bad gateway.
Status(error) == IF error = "rejected" THEN 404 ELSE 502

\* The call that leads the flight of a key on an instance, if there is one.
Leaders(i, key) ==
  {c \in Callers : call[c].pc \in {"fetch", "reply"} /\ call[c].inst = i /\ call[c].key = key
                   /\ Cached(key)}

\* The callers that wait for the flight of c.
Waiting(c) ==
  {d \in Callers : At(d, "wait") /\ call[d].inst = call[c].inst /\ call[d].key = call[c].key}

Outcome(q, status, e) == IF status = 200 THEN Take(q, e) ELSE Finish(q, status)

\* Mutant of Land: those that wait are forgotten.
Land_Alone(c, status) == Become(c, Outcome(call[c], status, call[c].ed))

\* The flight of c ends: everybody in it gets the same value or error.
Land(c, status) ==
  call' = [d \in Callers |-> IF d \in Waiting(c) \cup {c}
                             THEN Outcome(call[d], status, call[c].ed) ELSE call[d]]

-----------------------------------------------------------------------------
\* Requests and rounds begin.

Serving == {c \in Callers : call[c].pc \notin {"idle", "done"}}

Begin(c, i, op) ==
  /\ At(c, "idle")
  /\ c = CHOOSE d \in Clients : At(d, "idle")     \* they are all alike
  /\ Cardinality(Serving) < MaxInFlight
  /\ Become(c, Ask([Idle EXCEPT !.inst = i, !.op = op, !.began = clock], First(op)))
  /\ UNCHANGED <<clock, since, store, rounds, faults>>

\* The next operation of a round; neither a failure nor the end of the context
\* keeps it from the others, and Run may prefer a tick to that end.
Warm(i) ==
  LET w == Warmer(i)
      done == {n \in DOMAIN WarmOps : call[w].op = WarmOps[n]}
      n == IF done = {} THEN 1 ELSE (Max(done) % Len(WarmOps)) + 1 IN
  /\ call[w].pc \in {"idle", "done"}
  /\ Cardinality(Serving) < MaxInFlight
  /\ n = 1 => rounds < MaxRounds
  /\ rounds' = IF n = 1 THEN rounds + 1 ELSE rounds
  /\ Become(w, Ask([Idle EXCEPT !.inst = i, !.op = WarmOps[n], !.began = clock,
                               !.gone = call[w].gone], First(WarmOps[n])))
  /\ UNCHANGED <<clock, since, store, faults>>

-----------------------------------------------------------------------------
\* cachedGet.

\* One more failure, of a kind that is explored.
Fault(kind) == kind \in Events /\ faults < MaxFaults /\ faults' = faults + 1

\* GET tells c that the key is there; without a context it fails like Redis.
Shows(c, key) == Live(key) /\ ~call[c].gone

\* Mutant of Get: an error of Redis is the client's.
Get_FailClosed(c) ==
  LET key == call[c].key IN
  /\ At(c, "get")
  /\ \/ /\ Shows(c, key) /\ UNCHANGED faults
        /\ Become(c, Take(call[c], store[key].ed))
     \/ /\ ~Shows(c, key) /\ UNCHANGED faults
        /\ Become(c, [call[c] EXCEPT !.pc = "join"])
     \/ /\ Fault("redis")
        /\ Become(c, Finish(call[c], 502))
  /\ UNCHANGED <<clock, since, store, rounds>>

\* A hit is the answer; a miss or an error goes on to the flight.
Get(c) ==
  LET key == call[c].key IN
  /\ At(c, "get")
  /\ \/ /\ Shows(c, key) /\ UNCHANGED faults
        /\ Become(c, Take(call[c], store[key].ed))
     \/ /\ IF Shows(c, key) THEN Fault("redis") ELSE UNCHANGED faults
        /\ Become(c, [call[c] EXCEPT !.pc = "join"])
  /\ UNCHANGED <<clock, since, store, rounds>>

\* Whoever comes while a flight is under way waits for it.
Wait(c) ==
  /\ At(c, "join")
  /\ Leaders(call[c].inst, call[c].key) # {}
  /\ Become(c, [call[c] EXCEPT !.pc = "wait"])
  /\ UNCHANGED <<clock, since, store, rounds, faults>>

Fetching(c) == [call[c] EXCEPT !.pc = "fetch", !.start = clock]
\* Another flight may have filled the key since the miss.
Lead(c) ==
  LET key == call[c].key IN
  /\ At(c, "join")
  /\ Leaders(call[c].inst, key) = {}
  /\ \/ /\ Shows(c, key)
        /\ Become(c, Take(call[c], store[key].ed))
        /\ UNCHANGED faults
     \/ /\ IF Shows(c, key) THEN Fault("redis") ELSE UNCHANGED faults
        /\ Become(c, Fetching(c))
  /\ UNCHANGED <<clock, since, store, rounds>>

\* ClawHub answers from the edition it has now; the answer is under way.
Sample(c) ==
  /\ At(c, "fetch") /\ ~call[c].gone
  /\ Become(c, [call[c] EXCEPT !.pc = "reply", !.ed = edition])
  /\ UNCHANGED <<clock, since, store, rounds, faults>>

With(f, key, value) == [k \in DOMAIN f \cup {key} |-> IF k = key THEN value ELSE f[k]]

\* Mutant of Fill: what is fetched is kept for good.
Fill_Forever(c, key, e) ==
  /\ store' = With(store, key, [ed |-> e, until |-> MaxTime + 1])
  /\ UNCHANGED faults

\* SET, whose errors are only logged.
Fill(c, key, e) ==
  \/ /\ ~call[c].gone /\ UNCHANGED faults
     /\ store' = With(store, key, [ed |-> e, until |-> clock + jitterTTL(key)])
  \/ /\ IF call[c].gone THEN UNCHANGED faults ELSE Fault("redis")
     /\ UNCHANGED store

\* The answer arrives, is stored and given to the whole flight.
Deliver(c) ==
  LET key == call[c].key IN
  /\ At(c, "reply")
  /\ Land(c, 200)
  /\ IF Cached(key) THEN Fill(c, key, call[c].ed) ELSE UNCHANGED <<store, faults>>
  /\ UNCHANGED <<clock, since, rounds>>

\* ClawHub refuses, fails or times out, or the context of the leader ends it:
\* nothing is stored, and the whole flight fails.
Fail(c, error) ==
  /\ call[c].pc \in {"fetch", "reply"}
  /\ IF error = "cancelled" THEN call[c].gone /\ UNCHANGED faults
     ELSE ~call[c].gone /\ Fault("hub")
  /\ Land(c, Status(error))
  /\ UNCHANGED <<clock, since, store, rounds>>

-----------------------------------------------------------------------------
\* The environment.

\* A client disconnects, or the instance shuts down and stops its warmer.
Go(c) ==
  /\ call[c].pc \notin {"idle", "done"} /\ ~call[c].gone
  /\ Fault("cancel")
  /\ Become(c, [call[c] EXCEPT !.gone = TRUE])
  /\ UNCHANGED <<clock, since, store, rounds>>

Publish ==
  /\ edition < Len(Editions)
  /\ since' = [since EXCEPT ![edition + 1] = clock]
  /\ UNCHANGED <<clock, store, call, rounds, faults>>

\* Time passes while ClawHub is asked, up to its timeout, and between requests.
Tick ==
  /\ clock < MaxTime
  /\ \A c \in Callers :
       /\ call[c].pc \notin {"get", "join"}
       /\ call[c].pc \in {"fetch", "reply"} => clock < call[c].start + Timeout /\ ~call[c].gone
  /\ clock' = clock + 1
  /\ store' = Restrict(store, {k \in DOMAIN store : clock' < store[k].until})
  /\ UNCHANGED <<since, call, rounds, faults>>

Step(c) ==
  \/ Get(c) \/ Wait(c) \/ Lead(c) \/ Sample(c) \/ Deliver(c)
  \/ \E error \in {"rejected", "down", "cancelled"} : Fail(c, error)

Next ==
  \/ \E c \in Callers : Step(c) \/ Go(c)
  \/ \E c \in Clients, i \in Entries, op \in Ops : Begin(c, i, op)
  \/ \E i \in Instances : Warm(i)
  \/ Publish \/ Tick

\* As long as goroutines can run, some of them do, and calls to ClawHub end.
Spec == Init /\ [][Next]_vars /\ WF_vars(\E c \in Callers : Step(c))
=============================================================================
