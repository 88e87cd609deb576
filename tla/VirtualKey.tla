------------------------------ MODULE VirtualKey ------------------------------
(***************************************************************************)
(* The litellm virtual key of one user: get-or-create before every proxied *)
(* call and after login, and the one-time healing when litellm refuses the *)
(* key.  Every call to Redis, Postgres or litellm is one step, so requests *)
(* of the user interleave between them.  Users share nothing (the row, the *)
(* cache entry and the lock are keyed by user), hence one user is modelled.*)
(*                                                                         *)
(* Left out: DeleteForUser, which nothing calls, and with it the branches  *)
(* that only a missing or inactive row would reach during a healing.       *)
(* ----------------------------------------------------------------------- *)
(* Bounds: Keys that litellm generates, Requests, MaxInFlight.             *)
(***************************************************************************)
EXTENDS Naturals, FiniteSets

CONSTANTS
  Keys,         \* keys litellm may generate
  Requests,     \* proxied calls and eager provisionings
  MaxInFlight,  \* bound on the requests being served at a time
  Events,       \* environment events explored, a subset of AllEvents
  NoKey

\* drop: litellm loses a key; deny: it refuses a good one; slow: a lock holder
\* outlasts the 3s that others wait; lapse: it outlasts its 10s TTL; error: a
\* call reports an error, whether it did its work or not; leak: the deletion of
\* a key at litellm does not happen.
AllEvents == {"drop", "deny", "slow", "lapse", "error", "leak", "crash"}

ASSUME KeysAssumption ==
  /\ NoKey \notin Keys
  /\ MaxInFlight \in Nat
  /\ Events \subseteq AllEvents

VARIABLES
  row,      \* litellm_key of the user's row in user_virtual_keys, or NoKey
  cache,    \* vkey:{uuid} in Redis, or NoKey
  lock,     \* whether lock:vkey:{uuid} exists
  live,     \* keys litellm accepts
  req,      \* the requests: program counter and Go locals
  \* history: keys generated and deleted by the gateway, keys refused to each
  \* request, what each healing signed; keys that a failed call or a crash lost
  \* track of; keys that a fill put or left in the cache though the row names another
  minted, deleted, refused, healed, astray, stale

stores  == <<row, cache, lock, live>>
history == <<minted, deleted, refused, healed, astray, stale>>
vars    == <<stores, req, history>>

Steps == {"cache", "lookup", "lock", "recheck", "evict", "readOld", "sign", "create",
          "replace", "deleteOwn", "reread", "deleteOld", "fill", "unlock", "call"}
Over     == {"done", "dead"}
InFlight == {r \in Requests : req[r].pc \in Steps}

\* A request, or its healing, that has read and done nothing yet.
Fresh(here, n, heals) ==
  [pc |-> here, round |-> n, healing |-> heals, key |-> NoKey, old |-> NoKey,
   held |-> FALSE, reply |-> "none"]

Idle == Fresh("new", 0, FALSE)

Init ==
  /\ row = NoKey /\ cache = NoKey /\ lock = FALSE /\ live = {}
  /\ req = [r \in Requests |-> Idle]
  /\ minted = {} /\ deleted = {} /\ astray = {} /\ stale = {}
  /\ refused = [r \in Requests |-> {}]
  /\ healed = [r \in Requests |-> NoKey]

-----------------------------------------------------------------------------
\* Moves of one request.

At(r, here)    == req[r].pc = here
Become(r, q)   == req' = [req EXCEPT ![r] = q]
Goto(r, there) == Become(r, [req[r] EXCEPT !.pc = there])

\* After get-or-create: the eager call (round 0) is over, a proxied one goes
\* upstream.  After a healing: the second and last round starts.
Ended(q) == [Idle EXCEPT !.pc = "done", !.round = q.round, !.reply = q.reply]

Onward(q) ==
  CASE q.reply # "none" \/ (q.round = 0 /\ ~q.healing) -> Ended(q)
    [] q.reply = "none" /\ q.healing -> Fresh("cache", 2, FALSE)
    [] OTHER -> [q EXCEPT !.pc = "call"]

\* A function that took the lock releases it on its way out.
Leave(r, q) == Become(r, IF q.held THEN [q EXCEPT !.pc = "unlock"] ELSE Onward(q))

\* A failed get-or-create is a 502; a failed healing hands on litellm's refusal.
Failed(q) == [q EXCEPT !.reply = IF q.healing THEN "refused" ELSE "unavailable"]

\* best-effort calls may fail unnoticed.
Faulty == "error" \in Events

CanBegin(r) ==
  /\ req[r].pc = "new"
  /\ r = CHOOSE s \in Requests : req[s].pc = "new"
  /\ Cardinality(InFlight) < MaxInFlight

\* ChatCompletions (round 1), or the goroutine a login starts (round 0).
Arrive(r, n) ==
  /\ CanBegin(r)
  /\ Become(r, Fresh("cache", n, FALSE))
  /\ UNCHANGED <<stores, history>>

-----------------------------------------------------------------------------
\* GetOrCreateVirtualKey.

CacheGet(r) ==
  /\ At(r, "cache")
  /\ \/ cache # NoKey /\ Leave(r, [req[r] EXCEPT !.key = cache])
     \/ (cache = NoKey \/ Faulty) /\ Goto(r, "lookup")
  /\ UNCHANGED <<stores, history>>

\* A row that is there goes into the cache; otherwise the caller goes on.
UseRow(r, otherwise) ==
  IF row # NoKey
    THEN Become(r, [req[r] EXCEPT !.pc = "fill", !.key = row])
    ELSE Goto(r, otherwise)

Lookup(r) ==
  /\ At(r, "lookup")
  /\ UseRow(r, "lock")
  /\ UNCHANGED <<stores, history>>

\* Under the lock: someone else may have signed meanwhile.
Recheck(r) ==
  /\ At(r, "recheck")
  /\ UseRow(r, "sign")
  /\ UNCHANGED <<stores, history>>

\* litellm signs a key.
Mint(r, k) ==
  /\ At(r, "sign")
  /\ k \notin minted /\ k = CHOOSE x \in Keys : x \notin minted
  /\ minted' = minted \cup {k}
  /\ live' = live \cup {k}

\* resolveTeamID and GenerateKey.
Sign(r, k) ==
  /\ Mint(r, k)
  /\ healed' = IF req[r].healing THEN [healed EXCEPT ![r] = k] ELSE healed
  /\ Become(r, [req[r] EXCEPT !.pc = IF req[r].healing THEN "replace" ELSE "create", !.key = k])
  /\ UNCHANGED <<row, cache, lock, deleted, refused, astray, stale>>

\* The answer is late, cut off or unreadable: the key is there and nobody knows it.
SignUnheard(r, k) ==
  /\ Faulty
  /\ Mint(r, k)
  /\ astray' = astray \cup {k}
  /\ Leave(r, Failed(req[r]))
  /\ UNCHANGED <<row, cache, lock, deleted, refused, healed, stale>>

\* Mutant of Create: ON CONFLICT DO UPDATE.
Create_Upsert(r) ==
  /\ At(r, "create")
  /\ row' = req[r].key
  /\ Goto(r, IF row = NoKey THEN "fill" ELSE "deleteOwn")
  /\ UNCHANGED <<cache, lock, live, history>>

\* persistFirst: INSERT ... ON CONFLICT DO NOTHING.
Create(r) ==
  /\ At(r, "create")
  /\ \/ row = NoKey /\ row' = req[r].key /\ Goto(r, "fill")
     \/ row # NoKey /\ Goto(r, "deleteOwn") /\ UNCHANGED row
  /\ UNCHANGED <<cache, lock, live, history>>

\* deleteOrphan is best effort.
DeleteKey(k) ==
  \/ live' = live \ {k} /\ deleted' = deleted \cup {k} /\ UNCHANGED astray
  \/ "leak" \in Events /\ astray' = astray \cup {k} /\ UNCHANGED <<live, deleted>>

\* Mutant of DeleteOwn: a conflict is taken for a success.
DeleteOwn_Skipped(r) ==
  /\ At(r, "deleteOwn")
  /\ IF req[r].reply = "none" THEN Goto(r, "reread") ELSE Leave(r, req[r])
  /\ UNCHANGED <<stores, history>>

\* The key just signed found no place: delete it, then use the row's or fail.
DeleteOwn(r) ==
  /\ At(r, "deleteOwn")
  /\ DeleteKey(req[r].key)
  /\ IF req[r].reply = "none" THEN Goto(r, "reread") ELSE Leave(r, req[r])
  /\ UNCHANGED <<row, cache, lock, minted, refused, healed, stale>>

Reread(r) ==
  /\ At(r, "reread")
  /\ row # NoKey
  /\ UseRow(r, "reread")
  /\ UNCHANGED <<stores, history>>

\* The cache is filled with what was read or signed, however long ago.
Fill(r) ==
  /\ At(r, "fill")
  /\ \/ cache' = req[r].key
     \/ Faulty /\ UNCHANGED cache
  /\ stale' = stale \cup ({cache'} \ {row, NoKey})
  /\ Leave(r, req[r])
  /\ UNCHANGED <<row, lock, live, minted, deleted, refused, healed, astray>>

-----------------------------------------------------------------------------
\* tryLock and the deferred Release.

Locked(r, got) ==
  Become(r, [req[r] EXCEPT !.held = got,
                           !.pc = IF req[r].healing THEN "evict" ELSE "recheck"])

Lock(r) ==
  /\ At(r, "lock")
  /\ ~lock
  /\ lock' = TRUE
  /\ Locked(r, TRUE)
  /\ UNCHANGED <<row, cache, live, history>>

\* After 3s, or on an error of Redis, the request goes on without the lock, which
\* an unheard SET may have taken.
Degrade(r) ==
  /\ At(r, "lock")
  /\ \/ /\ lock /\ ("slow" \in Events \/ \A s \in Requests : ~req[s].held)
        /\ UNCHANGED lock
     \/ Faulty /\ lock' \in {lock, TRUE}
  /\ Locked(r, FALSE)
  /\ UNCHANGED <<row, cache, live, history>>

\* DEL, whoever owns the lock by now.
Unlock(r) ==
  /\ At(r, "unlock")
  /\ \/ lock' = FALSE
     \/ Faulty /\ UNCHANGED lock
  /\ Become(r, Onward([req[r] EXCEPT !.held = FALSE]))
  /\ UNCHANGED <<row, cache, live, history>>

-----------------------------------------------------------------------------
\* The proxied call and RevokeAndRegenerate.

Healing == Fresh("lock", 1, TRUE)

\* Mutant of Call: heals on any status but 200.
Call_AnyStatus(r) ==
  /\ At(r, "call")
  /\ \/ req[r].key \in live /\ Become(r, Ended([req[r] EXCEPT !.reply = "served"]))
     \/ req[r].round = 1 /\ Become(r, Healing)
  /\ UNCHANGED <<stores, history>>

\* Mutant of Call: a second refusal is retried with the same key.
Call_Again(r) ==
  LET k == req[r].key IN
  /\ At(r, "call")
  /\ \/ /\ k \in live
        /\ Become(r, Ended([req[r] EXCEPT !.reply = "served"]))
        /\ UNCHANGED refused
     \/ /\ k \notin live \/ "deny" \in Events
        /\ refused' = [refused EXCEPT ![r] = @ \cup {k}]
        /\ Become(r, IF req[r].round = 1 THEN Healing ELSE req[r])
  /\ UNCHANGED <<stores, minted, deleted, healed, astray, stale>>

\* 401 or 403 heals once; the second answer is the client's.
Call(r) ==
  LET k == req[r].key IN
  /\ At(r, "call")
  /\ \/ /\ k \in live
        /\ Become(r, Ended([req[r] EXCEPT !.reply = "served"]))
        /\ UNCHANGED refused
     \/ /\ k \notin live \/ "deny" \in Events
        /\ refused' = [refused EXCEPT ![r] = @ \cup {k}]
        /\ Become(r, IF req[r].round = 1
                       THEN Healing
                       ELSE Ended([req[r] EXCEPT !.reply = "refused"]))
  /\ UNCHANGED <<stores, minted, deleted, healed, astray, stale>>

Evict(r) ==
  /\ At(r, "evict")
  /\ \/ cache' = NoKey
     \/ Faulty /\ UNCHANGED cache
  /\ Goto(r, "readOld")
  /\ UNCHANGED <<row, lock, live, history>>

ReadOld(r) ==
  /\ At(r, "readOld")
  /\ Become(r, [req[r] EXCEPT !.pc = "sign", !.old = row])
  /\ UNCHANGED <<stores, history>>

\* Mutant of Replace: the UPDATE matches no row.
Replace_Missed(r) ==
  /\ At(r, "replace")
  /\ Goto(r, "deleteOld")
  /\ UNCHANGED <<stores, history>>

\* The row is overwritten, whatever it holds by now.
Replace(r) ==
  /\ At(r, "replace")
  /\ row' = req[r].key
  /\ Goto(r, "deleteOld")
  /\ UNCHANGED <<cache, lock, live, history>>

\* The key read before signing is deleted upstream.
DeleteOld(r) ==
  /\ At(r, "deleteOld")
  /\ DeleteKey(req[r].old)
  /\ Goto(r, "fill")
  /\ UNCHANGED <<row, cache, lock, minted, refused, healed, stale>>

-----------------------------------------------------------------------------
\* The environment.

\* A write to the row reports an error, but has happened: the key just stored is
\* about to be deleted, and the one it replaced will not be.
StoreUnheard(r) ==
  /\ Faulty
  /\ At(r, "replace") \/ (At(r, "create") /\ row = NoKey)
  /\ row' = req[r].key
  /\ astray' = astray \cup ({row, row'} \ {NoKey})
  /\ Become(r, [Failed(req[r]) EXCEPT !.pc = "deleteOwn"])
  /\ UNCHANGED <<cache, lock, live, minted, deleted, refused, healed, stale>>

\* A call to Postgres or litellm fails and does nothing.  A key that could not be
\* stored is deleted before the request gives up.
CallFails(r) ==
  /\ Faulty
  /\ \/ /\ req[r].pc \in {"lookup", "recheck", "readOld", "sign", "reread"}
        /\ Leave(r, Failed(req[r]))
     \/ /\ req[r].pc \in {"create", "replace"}
        /\ Become(r, [Failed(req[r]) EXCEPT !.pc = "deleteOwn"])
     \/ /\ req[r].pc = "call"
        /\ Become(r, Ended(Failed(req[r])))
  /\ UNCHANGED <<stores, history>>

\* The key that request r has still to store or to delete.
InCharge(r) ==
  CASE req[r].pc \in {"create", "replace", "deleteOwn"} -> {req[r].key}
    [] req[r].pc = "deleteOld" -> {req[r].old}
    [] OTHER -> {}

\* The instance dies.
Abandon(r) ==
  /\ "crash" \in Events
  /\ req[r].pc \in Steps
  /\ astray' = astray \cup InCharge(r)
  /\ Become(r, Fresh("dead", 0, FALSE))
  /\ UNCHANGED <<stores, minted, deleted, refused, healed, stale>>

LockExpires ==
  /\ lock
  /\ "lapse" \in Events \/ \A r \in Requests : ~req[r].held
  /\ lock' = FALSE
  /\ UNCHANGED <<row, cache, live, req, history>>

CacheExpires ==
  /\ cache # NoKey
  /\ cache' = NoKey
  /\ UNCHANGED <<row, lock, live, req, history>>

\* litellm loses a key, say deleted by hand in its console.
Drop(k) ==
  /\ "drop" \in Events
  /\ k \in live
  /\ live' = live \ {k}
  /\ UNCHANGED <<row, cache, lock, req, history>>

-----------------------------------------------------------------------------
Resolve(r) ==
  \/ CacheGet(r) \/ Lookup(r) \/ Recheck(r)
  \/ \E k \in Keys : Sign(r, k)
  \/ Create(r) \/ DeleteOwn(r) \/ Reread(r) \/ Fill(r)

Heal(r) == Evict(r) \/ ReadOld(r) \/ Replace(r) \/ DeleteOld(r)

Serve(r) == Resolve(r) \/ Heal(r) \/ Lock(r) \/ Degrade(r) \/ Unlock(r) \/ Call(r)

Environment ==
  \/ \E r \in Requests : CallFails(r) \/ StoreUnheard(r) \/ Abandon(r)
  \/ \E r \in Requests, k \in Keys : SignUnheard(r, k)
  \/ LockExpires \/ CacheExpires
  \/ \E k \in Keys : Drop(k)

Finished == (\A r \in Requests : req[r].pc \in Over) /\ UNCHANGED vars

Next ==
  \/ \E r \in Requests, n \in {0, 1} : Arrive(r, n)
  \/ \E r \in Requests : Serve(r)
  \/ Environment
  \/ Finished

Spec == Init /\ [][Next]_vars

\* Goroutines keep running and Redis expires the lock; nothing is assumed of
\* clients, litellm, errors or crashes.
Fairness ==
  /\ \A r \in Requests : WF_vars(Serve(r))
  /\ WF_vars(LockExpires)

FairSpec == Spec /\ Fairness
=============================================================================
