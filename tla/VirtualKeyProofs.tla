--------------------------- MODULE VirtualKeyProofs ---------------------------
(***************************************************************************)
(* Proofs about VirtualKey, for any number of keys and requests, any number*)
(* of them in flight and any environment events.                           *)
(***************************************************************************)
EXTENDS VirtualKeyProperties, TLAPS

\* What a function hands its request on as.
LEMMA OnwardType ==
  ASSUME NEW q \in RequestRecords
  PROVE  /\ Onward(q) \in RequestRecords /\ Ended(q) \in RequestRecords
         /\ Onward(q).pc \in {"done", "cache", "call"} /\ Ended(q).pc = "done"
         /\ Onward(q).old \in {q.old, NoKey} /\ Ended(q).old = NoKey
         /\ Onward(q).key \in {q.key, NoKey} /\ Ended(q).key = NoKey
         /\ ~Onward(q).healing /\ ~Ended(q).healing
         /\ Onward(q).pc = "call" => /\ Onward(q).key = q.key /\ q.reply = "none"
                                     /\ Onward(q).round = q.round
         /\ Onward(q).pc = "cache" => Onward(q).key = NoKey /\ q.reply = "none" /\ q.healing
<1>1. Idle \in RequestRecords /\ Idle.old = NoKey /\ Idle.key = NoKey
  BY DEF Idle, Fresh, RequestRecords, KeyOrNone
<1>2. /\ Ended(q) \in RequestRecords /\ Ended(q).pc = "done" /\ ~Ended(q).healing
      /\ Ended(q).old = NoKey /\ Ended(q).key = NoKey
  BY <1>1 DEF Ended, Idle, Fresh, RequestRecords, Over, KeyOrNone
<1>3. CASE q.reply # "none" \/ (q.round = 0 /\ ~q.healing)
  <2>1. Onward(q) = Ended(q)  BY <1>3 DEF Onward, RequestRecords
  <2>q. QED  BY <1>2, <2>1
<1>4. CASE q.reply = "none" /\ q.healing
  <2>1. Onward(q) = Fresh("cache", 2, FALSE)
    BY <1>4 DEF Onward, RequestRecords
  <2>2. /\ Onward(q) \in RequestRecords /\ Onward(q).pc = "cache" /\ Onward(q).old = NoKey
        /\ ~Onward(q).healing /\ Onward(q).key = NoKey
    BY <2>1 DEF Fresh, RequestRecords, KeyOrNone, Steps
  <2>q. QED  BY <1>2, <1>4, <2>2
<1>5. CASE q.reply = "none" /\ ~q.healing /\ q.round # 0
  <2>1. Onward(q) = [q EXCEPT !.pc = "call"]
    BY <1>5 DEF Onward, RequestRecords
  <2>2. /\ Onward(q) \in RequestRecords /\ Onward(q).pc = "call" /\ Onward(q).round = q.round
        /\ Onward(q).old = q.old /\ Onward(q).key = q.key /\ ~Onward(q).healing
    BY <1>5, <2>1 DEF RequestRecords, Steps
  <2>q. QED  BY <1>2, <1>5, <2>2
<1>q. QED  BY <1>3, <1>4, <1>5 DEF RequestRecords

\* The keys that request r may hand around: its own one only when it is not about
\* to store it.
Known(r) == {NoKey, row, cache} \cup (IF Minting(req[r]) THEN {} ELSE {req[r].key})

\* Keys that a step of request r may delete: nobody is about to store them, and if
\* the row names one the gateway does not know.
Disposes(r) ==
  \A k \in deleted' :
    \/ k \in deleted
    \/ /\ k \in minted /\ (k = row => k \in astray)
       /\ \A s \in Requests \ {r} : Minting(req[s]) => req[s].key # k

\* A key about to be stored is known to nobody but the one who stores it.
LEMMA MintedUnknown ==
  ASSUME KeyCustody, NEW r \in Requests, NEW s \in Requests, r # s, Minting(req[s])
  PROVE  req[s].key \notin Known(r)
<1>1. req[s].key # NoKey  BY DEF KeyCustody, TypeOK, Keyed, Minting
<1>q. QED  BY <1>1 DEF KeyCustody, InOneHand, Known

\* A request that moves on with keys it knows, and leaves the row alone, leaves
\* every key in the hand it was in.
LEMMA QuietMove ==
  ASSUME KeyCustody, NEW r \in Requests, NEW q \in RequestRecords, Become(r, q),
         Keyed(q), Healer(q), row = NoKey => ~HandedOut(q), q.pc # "deleteOld", ~Minting(q),
         q.old \in {NoKey, req[r].old, row}, q.key \in Known(r) \cup {req[r].key},
         Unstored(q) => Unstored(req[r]) /\ q.key = req[r].key,
         cache' \in Known(r), row = NoKey => cache' = NoKey, lock' \in BOOLEAN,
         refused' \in [Requests -> SUBSET Keys],
         \A s \in Requests : refused'[s] \subseteq refused[s] \cup (Known(r) \ {NoKey}),
         minted \subseteq minted', minted' \subseteq Keys, live' \subseteq minted',
         deleted' = deleted \/ Disposes(r),
         astray \subseteq astray', astray' \subseteq Keys, stale' \subseteq Keys,
         healed' \in [Requests -> KeyOrNone], row' = row
  PROVE  KeyCustody'
<1>1. /\ req'[r] = q
      /\ \A s \in Requests : s # r => req'[s] = req[s]
      /\ req' \in [Requests -> RequestRecords]
  BY DEF Become, KeyCustody, TypeOK
<1>2. Known(r) \subseteq minted \cup {NoKey} /\ minted \subseteq Keys
  BY DEF KeyCustody, TypeOK, Known
<1>3. \A s \in Requests :
        /\ Keyed(req'[s]) /\ Healer(req'[s])
        /\ row = NoKey => ~HandedOut(req'[s])
        /\ req'[s].old \in {NoKey, req[s].old, row}
        /\ req'[s].pc = "deleteOld" => req[s].pc = "deleteOld" /\ req'[s].old = req[s].old
        /\ Unstored(req'[s]) => Unstored(req[s]) /\ req'[s].key = req[s].key
        /\ Minting(req'[s]) => s # r /\ req'[s] = req[s]
  BY <1>1 DEF KeyCustody, TypeOK
<1>4. deleted' \subseteq minted' /\ (row \in deleted' => row \in astray')
  BY DEF KeyCustody, TypeOK, OnlyAstrayDeleted, Disposes
<1>5. TypeOK'
  BY <1>1, <1>2, <1>3, <1>4 DEF KeyCustody, TypeOK, KeyOrNone
<1>6. ASSUME NEW s \in Requests
      PROVE  /\ {req'[s].key, req'[s].old} \subseteq minted' \cup {NoKey}
             /\ refused'[s] \subseteq minted'
  <2>1. req'[s].key \in Known(r) \cup {req[s].key}
    BY <1>1
  <2>q. QED  BY <1>2, <1>3, <2>1 DEF KeyCustody
<1>7. ASSUME NEW s \in Requests, Minting(req'[s])
      PROVE  /\ req'[s].key \notin deleted' \cup {row', cache'}
             /\ \A u \in Requests : /\ req'[u].old # req'[s].key
                                    /\ req'[s].key \notin refused'[u]
                                    /\ u # s => req'[u].key # req'[s].key
  <2>1. s # r /\ req'[s] = req[s] /\ InOneHand(s)
    BY <1>3, <1>7 DEF KeyCustody
  <2>2. req[s].key \notin Known(r)
    BY <1>7, <2>1, MintedUnknown
  <2>3. req[s].key \notin deleted'
    BY <1>7, <2>1 DEF InOneHand, Disposes
  <2>4. \A u \in Requests : /\ req[u].old # req[s].key /\ req[s].key \notin refused[u]
                            /\ u # s => req[u].key # req[s].key
    BY <1>7, <2>1 DEF InOneHand
  <2>5. ASSUME NEW u \in Requests, u # s
        PROVE  req'[u].key # req[s].key
    BY <1>1, <2>1, <2>2, <2>4, <2>5
  <2>6. req[s].key # NoKey /\ req[s].key # row /\ req[s].key # cache'
    BY <2>2 DEF Known
  <2>7. \A u \in Requests : req'[u].old # req[s].key
    BY <1>3, <2>4, <2>6
  <2>q. QED  BY <2>1, <2>2, <2>3, <2>4, <2>5, <2>6, <2>7
<1>8. ASSUME NEW s \in Requests, Unstored(req'[s])
      PROVE  req'[s].key # row' \/ req'[s].key \in astray'
  BY <1>3, <1>8 DEF KeyCustody, InOneHand
<1>9. \A s \in Requests : InOneHand(s)'
  BY <1>7, <1>8 DEF InOneHand, Unstored, Minting
<1>10. \A s \in Requests : /\ Healer(req[s])' /\ (row' = NoKey => ~HandedOut(req[s])')
                           /\ At(s, "deleteOld")' => req'[s].old # row'
  BY <1>3 DEF KeyCustody, Healer, HandedOut, At
<1>11. {row', cache'} \subseteq minted' \cup {NoKey}
  BY <1>2 DEF KeyCustody
<1>12. OnlyAstrayDeleted' /\ (row' = NoKey => cache' = NoKey)
  BY <1>4 DEF OnlyAstrayDeleted
<1>q. QED
  BY <1>5, <1>6, <1>9, <1>10, <1>11, <1>12 DEF KeyCustody

\* So does a request on its way out of a function, through the release if it
\* took the lock.
LEMMA LeaveMove ==
  ASSUME KeyCustody, NEW r \in Requests, NEW q \in RequestRecords, Leave(r, q),
         q.reply = "none" => q.key # NoKey,
         row = NoKey => q.reply # "none" /\ ~q.healing,
         q.old \in {NoKey, req[r].old}, q.key \in Known(r) \cup {req[r].key},
         cache' \in Known(r), row = NoKey => cache' = NoKey,
         minted \subseteq minted', minted' \subseteq Keys, live' \subseteq minted',
         deleted' = deleted \/ Disposes(r),
         astray \subseteq astray', astray' \subseteq Keys, stale' \subseteq Keys,
         UNCHANGED <<row, lock, refused, healed>>
  PROVE  KeyCustody'
<1>1. /\ lock' \in BOOLEAN /\ refused' \in [Requests -> SUBSET Keys]
      /\ healed' \in [Requests -> KeyOrNone] /\ refused' = refused
  BY DEF KeyCustody, TypeOK
<1>2. CASE q.held
  <2> DEFINE p == [q EXCEPT !.pc = "unlock"]
  <2>1. /\ p \in RequestRecords /\ p.pc = "unlock" /\ p.old = q.old
        /\ p.key = q.key /\ p.reply = q.reply /\ p.healing = q.healing
    BY DEF RequestRecords, Steps
  <2>2. Become(r, p)  BY <1>2 DEF Leave
  <2>3. /\ Keyed(p) /\ Healer(p) /\ (row = NoKey => ~HandedOut(p)) /\ ~Unstored(p)
        /\ ~Minting(p)
    BY <2>1 DEF Keyed, Healer, HandedOut, Unstored, Minting
  <2> HIDE DEF p
  <2>q. QED  BY <1>1, <2>1, <2>2, <2>3, QuietMove
<1>3. CASE ~q.held
  <2> DEFINE p == Onward(q)
  <2>1. Become(r, p)  BY <1>3 DEF Leave
  <2>2. /\ p \in RequestRecords /\ p.pc \in {"done", "cache", "call"}
        /\ p.old \in {q.old, NoKey} /\ ~p.healing /\ p.key \in {q.key, NoKey}
        /\ p.pc = "call" => p.key = q.key /\ q.reply = "none"
    BY OnwardType
  <2>3. /\ Keyed(p) /\ Healer(p) /\ (row = NoKey => ~HandedOut(p)) /\ ~Unstored(p)
        /\ ~Minting(p) /\ NoKey \in Known(r)
    BY <2>2 DEF Keyed, Healer, HandedOut, Unstored, Minting, Known
  <2> HIDE DEF p
  <2>q. QED  BY <1>1, <2>1, <2>2, <2>3, QuietMove
<1>q. QED  BY <1>2, <1>3

-----------------------------------------------------------------------------
(* The steps that only move. *)

\* What the lemmas below need of the state, and of a step that changes no store.
LEMMA Plain ==
  ASSUME KeyCustody, NEW r \in Requests
  PROVE  /\ req[r] \in RequestRecords /\ Healer(req[r]) /\ Keyed(req[r])
         /\ row = NoKey => ~HandedOut(req[r]) /\ cache = NoKey
         /\ cache \in KeyOrNone /\ row \in KeyOrNone /\ lock \in BOOLEAN
         /\ refused \in [Requests -> SUBSET Keys] /\ healed \in [Requests -> KeyOrNone]
         /\ minted \subseteq Keys /\ live \subseteq minted
         /\ astray \subseteq Keys /\ stale \subseteq Keys
         /\ {NoKey, row, cache} \subseteq Known(r) /\ req[r].key \in KeyOrNone
         /\ ~Minting(req[r]) => req[r].key \in Known(r)
BY DEF KeyCustody, TypeOK, Known, RequestRecords

\* A bare change of the program counter.
LEMMA GotoMove ==
  ASSUME KeyCustody, NEW r \in Requests, NEW there \in {"lookup", "lock", "readOld"},
         Goto(r, there), there = "readOld" => At(r, "evict"),
         cache' \in {NoKey, cache},
         UNCHANGED <<row, lock, live, history>>
  PROVE  KeyCustody'
<1> DEFINE q == [req[r] EXCEPT !.pc = there]
<1>1. /\ q \in RequestRecords /\ q.pc = there /\ q.old = req[r].old
      /\ q.healing = req[r].healing /\ q.key = req[r].key
  BY Plain DEF RequestRecords, Steps
<1>2. Become(r, q)  BY DEF Goto
<1>3. /\ Keyed(q) /\ Healer(q) /\ (row = NoKey => ~HandedOut(q)) /\ ~Unstored(q)
      /\ ~Minting(q)
  BY <1>1, Plain DEF Keyed, Healer, HandedOut, Unstored, Minting, At
<1> HIDE DEF q
<1>q. QED  BY <1>1, <1>2, <1>3, Plain, QuietMove DEF history

\* The row's key is taken to the cache.
LEMMA TakeMove ==
  ASSUME KeyCustody, NEW r \in Requests, row # NoKey,
         Become(r, [req[r] EXCEPT !.pc = "fill", !.key = row]),
         UNCHANGED <<stores, history>>
  PROVE  KeyCustody'
<1> DEFINE q == [req[r] EXCEPT !.pc = "fill", !.key = row]
<1>1. q \in RequestRecords /\ q.pc = "fill" /\ q.key = row /\ q.old = req[r].old
  BY Plain DEF RequestRecords, Steps
<1>2. Keyed(q) /\ Healer(q) /\ ~Unstored(q) /\ ~Minting(q)
  BY <1>1 DEF Keyed, Healer, Unstored, Minting
<1> HIDE DEF q
<1>3. Become(r, q)  BY DEF q
<1>q. QED  BY <1>1, <1>2, <1>3, Plain, QuietMove DEF stores, history

\* Reading cache and row, and filling the cache.
LEMMA ResolveStep ==
  ASSUME KeyCustody, NEW r \in Requests,
         CacheGet(r) \/ Lookup(r) \/ Recheck(r) \/ Reread(r) \/ Fill(r)
  PROVE  KeyCustody'
<1>1. CASE CacheGet(r)
  <2>1. CASE cache # NoKey /\ Leave(r, [req[r] EXCEPT !.key = cache])
    <3> DEFINE q == [req[r] EXCEPT !.key = cache]
    <3>1. q \in RequestRecords /\ q.key = cache /\ q.old = req[r].old
      BY Plain DEF RequestRecords
    <3>2. Leave(r, q) /\ row # NoKey  BY <2>1, Plain
    <3> HIDE DEF q
    <3>q. QED  BY <1>1, <2>1, <3>1, <3>2, Plain, LeaveMove DEF CacheGet, stores, history
  <2>2. CASE Goto(r, "lookup")
    BY <1>1, <2>2, GotoMove DEF CacheGet, stores
  <2>q. QED  BY <1>1, <2>1, <2>2 DEF CacheGet
<1>2. CASE Lookup(r)
  BY <1>2, TakeMove, GotoMove DEF Lookup, UseRow, stores
<1>3. CASE Recheck(r)
  <2>1. CASE row # NoKey
    BY <1>3, <2>1, TakeMove DEF Recheck, UseRow
  <2>2. CASE row = NoKey
    <3> DEFINE q == [req[r] EXCEPT !.pc = "sign"]
    <3>1. /\ q \in RequestRecords /\ q.pc = "sign" /\ q.old = req[r].old /\ ~q.healing
          /\ q.key = req[r].key
      BY <1>3, Plain DEF RequestRecords, Steps, Recheck, At, Healer
    <3>2. Become(r, q)  BY <1>3, <2>2 DEF Recheck, UseRow, Goto
    <3>3. Keyed(q) /\ Healer(q) /\ ~HandedOut(q) /\ ~Unstored(q) /\ ~Minting(q)
      BY <3>1 DEF Keyed, Healer, HandedOut, Unstored, Minting
    <3> HIDE DEF q
    <3>q. QED  BY <1>3, <3>1, <3>2, <3>3, Plain, QuietMove DEF Recheck, stores, history
  <2>q. QED  BY <2>1, <2>2
<1>4. CASE Reread(r)
  BY <1>4, TakeMove DEF Reread, UseRow
<1>5. CASE Fill(r)
  <2>1. /\ Leave(r, req[r]) /\ cache' \in {cache, req[r].key} /\ req[r].pc = "fill"
        /\ stale' = stale \cup ({cache'} \ {row, NoKey})
        /\ UNCHANGED <<row, lock, live, minted, deleted, refused, healed, astray>>
    BY <1>5 DEF Fill, At
  <2>2. row # NoKey /\ req[r].key # NoKey /\ ~Minting(req[r])
    BY <2>1, Plain DEF HandedOut, Keyed, Minting
  <2>3. cache' \in Known(r) /\ stale' \subseteq Keys
    BY <2>1, <2>2, Plain DEF KeyOrNone
  <2>q. QED  BY <2>1, <2>2, <2>3, Plain, LeaveMove
<1>q. QED  BY <1>1, <1>2, <1>3, <1>4, <1>5

\* The lock, the proxied call and the quiet half of a healing.
LEMMA HealStep ==
  ASSUME KeyCustody, NEW r \in Requests,
         \/ Lock(r) \/ Degrade(r) \/ Unlock(r)
         \/ Call(r) \/ Evict(r) \/ ReadOld(r)
  PROVE  KeyCustody'
<1>1. ASSUME NEW got \in BOOLEAN, Locked(r, got), lock' \in BOOLEAN,
             UNCHANGED <<row, cache, live, history>>
      PROVE  KeyCustody'
  <2> DEFINE q == [req[r] EXCEPT !.held = got,
                                 !.pc = IF req[r].healing THEN "evict" ELSE "recheck"]
  <2>1. /\ q \in RequestRecords /\ q.old = req[r].old /\ q.healing = req[r].healing
        /\ q.pc = IF req[r].healing THEN "evict" ELSE "recheck"
        /\ q.key = req[r].key
    BY Plain DEF RequestRecords, Steps
  <2>2. Become(r, q)  BY <1>1 DEF Locked
  <2>3. /\ Keyed(q) /\ Healer(q) /\ (row = NoKey => ~HandedOut(q)) /\ ~Unstored(q)
        /\ q.pc # "deleteOld" /\ ~Minting(q)
    BY <2>1, Plain DEF Keyed, Healer, HandedOut, Unstored, Minting
  <2> HIDE DEF q
  <2>q. QED  BY <1>1, <2>1, <2>2, <2>3, Plain, QuietMove DEF history
<1>2. CASE Lock(r)  BY <1>1, <1>2 DEF Lock
<1>3. CASE Degrade(r)
  BY <1>1, <1>3, Plain DEF Degrade
<1>4. CASE Unlock(r)
  <2> DEFINE p == [req[r] EXCEPT !.held = FALSE]
  <2>1. /\ p \in RequestRecords /\ p.old = req[r].old /\ p.healing = req[r].healing
        /\ p.key = req[r].key /\ p.reply = req[r].reply
    BY Plain DEF RequestRecords
  <2>3. Become(r, Onward(p))  BY <1>4 DEF Unlock
  <2> HIDE DEF p
  <2> DEFINE q == Onward(p)
  <2>2. /\ q \in RequestRecords /\ q.pc \in {"done", "cache", "call"}
        /\ q.old \in {p.old, NoKey} /\ ~q.healing /\ q.key \in {p.key, NoKey}
        /\ q.pc = "call" => q.key = p.key /\ p.reply = "none"
    BY <2>1, OnwardType
  <2>4. /\ Keyed(q) /\ Healer(q) /\ (row = NoKey => ~HandedOut(q)) /\ ~Unstored(q)
        /\ ~Minting(q)
    BY <1>4, <2>1, <2>2, Plain DEF Keyed, Healer, HandedOut, Unstored, Minting, Unlock, At
  <2>5. lock' \in BOOLEAN  BY <1>4, Plain DEF Unlock
  <2>6. Become(r, q)  BY <2>3
  <2> HIDE DEF q
  <2>q. QED  BY <1>4, <2>1, <2>2, <2>4, <2>5, <2>6, Plain, QuietMove DEF Unlock, history
<1>5. CASE Call(r)
  <2>1. row # NoKey /\ req[r].key # NoKey /\ ~Minting(req[r])
    BY <1>5, Plain DEF Call, At, HandedOut, Keyed, Minting
  <2>2. ASSUME NEW q \in RequestRecords, Become(r, q), q.old = NoKey, q.key = NoKey,
               q.pc \in {"done", "lock"}
        PROVE  KeyCustody'
    <3>1. Keyed(q) /\ Healer(q) /\ ~Unstored(q) /\ ~Minting(q)
      BY <2>2 DEF Keyed, Healer, Unstored, Minting
    <3>2. refused' \in {refused, [refused EXCEPT ![r] = @ \cup {req[r].key}]}
      BY <1>5 DEF Call
    <3>3. /\ refused' \in [Requests -> SUBSET Keys]
          /\ \A s \in Requests : refused'[s] \subseteq refused[s] \cup (Known(r) \ {NoKey})
      BY <2>1, <3>2, Plain DEF KeyOrNone
    <3>q. QED  BY <1>5, <2>1, <2>2, <3>1, <3>3, Plain, QuietMove DEF Call, stores
  <2>3. /\ Healing \in RequestRecords /\ Healing.old = NoKey /\ Healing.key = NoKey
        /\ Healing.pc = "lock"
    BY DEF Healing, Fresh, RequestRecords, KeyOrNone, Steps
  <2>4. ASSUME NEW a \in {"served", "refused"}
        PROVE  LET q == Ended([req[r] EXCEPT !.reply = a]) IN
               q \in RequestRecords /\ q.old = NoKey /\ q.key = NoKey /\ q.pc = "done"
    <3>1. [req[r] EXCEPT !.reply = a] \in RequestRecords  BY Plain DEF RequestRecords
    <3>q. QED  BY <3>1, OnwardType
  <2>q. QED  BY <1>5, <2>2, <2>3, <2>4 DEF Call
<1>6. CASE Evict(r)
  BY <1>6, GotoMove DEF Evict
<1>7. CASE ReadOld(r)
  <2> DEFINE q == [req[r] EXCEPT !.pc = "sign", !.old = row]
  <2>1. /\ q \in RequestRecords /\ q.pc = "sign" /\ q.old = row /\ q.healing = req[r].healing
        /\ q.key = req[r].key
    BY Plain DEF RequestRecords, Steps
  <2>2. Become(r, q) /\ row # NoKey
    BY <1>7, Plain DEF ReadOld, At, Healer, HandedOut
  <2>3. Keyed(q) /\ Healer(q) /\ ~Unstored(q) /\ ~Minting(q)
    BY <2>1, <2>2 DEF Keyed, Healer, Unstored, Minting
  <2> HIDE DEF q
  <2>q. QED  BY <1>7, <2>1, <2>2, <2>3, Plain, QuietMove DEF ReadOld, stores, history
<1>q. QED  BY <1>2, <1>3, <1>4, <1>5, <1>6, <1>7

-----------------------------------------------------------------------------
(* The steps that sign, store and delete. *)

\* A key just generated is in nobody's hand but the signer's.
LEMMA SignStep ==
  ASSUME KeyCustody, KeysAssumption, NEW r \in Requests, NEW k \in Keys, Sign(r, k)
  PROVE  KeyCustody'
<1> DEFINE q == [req[r] EXCEPT !.pc = IF req[r].healing THEN "replace" ELSE "create",
                               !.key = k]
<1>1. At(r, "sign") /\ (row = NoKey => ~req[r].healing)
  BY Plain DEF Sign, Mint, HandedOut
<1>2. /\ q \in RequestRecords /\ q.old = req[r].old /\ q.key = k
      /\ q.healing = req[r].healing /\ Minting(q) /\ Unstored(q)
      /\ q.pc = IF req[r].healing THEN "replace" ELSE "create"
  BY Plain DEF RequestRecords, Steps, KeyOrNone, Minting, Unstored
<1>3. k # NoKey /\ k \notin minted
  BY DEF KeysAssumption, Sign, Mint
<1>4. Keyed(q) /\ Healer(q) /\ (row = NoKey => ~HandedOut(q))
  BY <1>1, <1>2, <1>3, Plain DEF Keyed, Healer, HandedOut, At
<1>5. /\ Become(r, q) /\ minted' = minted \cup {k} /\ live' = live \cup {k}
      /\ healed' \in {healed, [healed EXCEPT ![r] = k]}
      /\ UNCHANGED <<row, cache, lock, refused, deleted, astray, stale>>
  BY DEF Sign, Mint
<1> HIDE DEF q
<1>6. /\ req' \in [Requests -> RequestRecords] /\ req'[r] = q
      /\ \A s \in Requests : s # r => req'[s] = req[s]
  BY <1>2, <1>5 DEF Become, KeyCustody, TypeOK
<1>7. TypeOK'
  BY <1>4, <1>5, <1>6 DEF KeyCustody, TypeOK, KeyOrNone
<1>8. \A s \in Requests :
        /\ req'[s].old = req[s].old /\ req[s].old \in minted \cup {NoKey}
        /\ s # r => req'[s].key = req[s].key /\ req[s].key \in minted \cup {NoKey}
        /\ refused[s] \subseteq minted
  BY <1>2, <1>6 DEF KeyCustody
<1>9. {row, cache} \subseteq minted \cup {NoKey} /\ deleted \subseteq minted
  BY DEF KeyCustody, TypeOK
<1>10. ASSUME NEW s \in Requests
       PROVE  InOneHand(s)'
  <2>1. CASE s = r
    BY <1>2, <1>3, <1>5, <1>6, <1>8, <1>9, <2>1 DEF InOneHand
  <2>2. CASE s # r
    <3>1. req'[s] = req[s] /\ InOneHand(s)
      BY <1>6, <2>2 DEF KeyCustody
    <3>2. Minting(req[s]) => req[s].key # k
      BY <1>3, <1>8, <2>2 DEF KeyCustody, TypeOK, Keyed, Minting
    <3>q. QED  BY <1>2, <1>5, <1>6, <1>8, <2>2, <3>1, <3>2 DEF InOneHand
  <2>q. QED  BY <2>1, <2>2
<1>11. \A s \in Requests : /\ Healer(req[s])' /\ (row' = NoKey => ~HandedOut(req[s])')
                           /\ At(s, "deleteOld")' => req'[s].old # row'
  BY <1>2, <1>4, <1>5, <1>6 DEF KeyCustody, Healer, HandedOut, At, Minting
<1>12. \A s \in Requests : /\ {req'[s].key, req'[s].old} \subseteq minted' \cup {NoKey}
                           /\ refused'[s] \subseteq minted'
  BY <1>2, <1>5, <1>6, <1>8
<1>13. /\ OnlyAstrayDeleted' /\ (row' = NoKey => cache' = NoKey)
       /\ {row', cache'} \subseteq minted' \cup {NoKey}
  BY <1>5, <1>9 DEF KeyCustody, OnlyAstrayDeleted
<1>q. QED
  BY <1>7, <1>10, <1>11, <1>12, <1>13 DEF KeyCustody

\* A key goes from its signer's hand into the row, whether the signer hears of it
\* or not.
LEMMA StoreMove ==
  ASSUME KeyCustody, NEW r \in Requests, NEW q \in RequestRecords, Become(r, q),
         Minting(req[r]), q.pc \in {"fill", "deleteOld", "deleteOwn"},
         q.pc = "deleteOld" => At(r, "replace"),
         q.key = req[r].key, q.old = req[r].old, q.healing = req[r].healing,
         row' = req[r].key, astray \subseteq astray', astray' \subseteq Keys,
         q.pc = "deleteOwn" => row' \in astray',
         UNCHANGED <<cache, lock, live, minted, deleted, refused, healed, stale>>
  PROVE  KeyCustody'
<1>1. Keyed(q) /\ Healer(q) /\ ~Minting(q) /\ InOneHand(r)
  BY Plain DEF KeyCustody, Keyed, Healer, Minting, At
<1>2. /\ req' \in [Requests -> RequestRecords] /\ req'[r] = q
      /\ \A s \in Requests : s # r => req'[s] = req[s]
  BY DEF Become, KeyCustody, TypeOK
<1>3. /\ row' \in minted \ deleted /\ row' # NoKey /\ row' \in KeyOrNone
      /\ \A s \in Requests : req[s].old # row'
      /\ \A s \in Requests \ {r} : req[s].key # row'
  BY DEF KeyCustody, TypeOK, InOneHand, Keyed, Minting, RequestRecords, KeyOrNone
<1>4. TypeOK'
  BY <1>1, <1>2, <1>3 DEF KeyCustody, TypeOK
<1>5. \A s \in Requests : /\ Healer(req[s])' /\ req'[s].old = req[s].old
                          /\ req'[s].key = req[s].key
                          /\ {req'[s].key, req'[s].old} \subseteq minted' \cup {NoKey}
                          /\ refused'[s] \subseteq minted'
  BY <1>1, <1>2 DEF KeyCustody, Healer
<1>6. ASSUME NEW s \in Requests
      PROVE  InOneHand(s)'
  <2>1. CASE s = r
    BY <1>1, <1>2, <2>1 DEF InOneHand, Unstored, Minting
  <2>2. CASE s # r
    <3>1. req'[s] = req[s] /\ InOneHand(s) /\ req[s].key # row'
      BY <1>2, <1>3, <2>2 DEF KeyCustody
    <3>q. QED  BY <1>5, <3>1 DEF InOneHand
  <2>q. QED  BY <2>1, <2>2
<1>7. {row', cache'} \subseteq minted' \cup {NoKey} /\ OnlyAstrayDeleted'
  BY <1>3 DEF KeyCustody, OnlyAstrayDeleted
<1>q. QED
  BY <1>3, <1>4, <1>5, <1>6, <1>7 DEF KeyCustody, At

\* Storing the key just signed, or finding that another one came first.
LEMMA StoreStep ==
  ASSUME KeyCustody, NEW r \in Requests, Create(r) \/ Replace(r) \/ StoreUnheard(r)
  PROVE  KeyCustody'
<1>1. Minting(req[r])
  BY DEF Create, Replace, StoreUnheard, At, Minting
<1>2. ASSUME NEW there \in {"fill", "deleteOld", "deleteOwn"}
      PROVE  LET q == [req[r] EXCEPT !.pc = there] IN
             /\ q \in RequestRecords /\ q.pc = there /\ q.old = req[r].old
             /\ q.key = req[r].key /\ q.healing = req[r].healing
  BY Plain DEF RequestRecords, Steps
<1>3. CASE Create(r) /\ row = NoKey
  BY <1>1, <1>2, <1>3, Plain, StoreMove DEF Create, Goto, history
<1>4. CASE Create(r) /\ row # NoKey
  <2> DEFINE q == [req[r] EXCEPT !.pc = "deleteOwn"]
  <2>1. /\ q \in RequestRecords /\ q.pc = "deleteOwn" /\ q.old = req[r].old
        /\ q.key = req[r].key
    BY <1>2
  <2>2. Become(r, q) /\ At(r, "create") /\ UNCHANGED <<stores, history>>
    BY <1>4 DEF Create, Goto, stores
  <2>3. Keyed(q) /\ Healer(q) /\ Unstored(req[r]) /\ ~Minting(q)
    BY <2>1, <2>2, Plain DEF Keyed, Healer, Unstored, Minting, At
  <2> HIDE DEF q
  <2>q. QED  BY <1>4, <2>1, <2>2, <2>3, Plain, QuietMove DEF stores, history
<1>5. CASE Replace(r)
  BY <1>1, <1>2, <1>5, Plain, StoreMove DEF Replace, Goto, history
<1>6. CASE StoreUnheard(r)
  <2> DEFINE q == [Failed(req[r]) EXCEPT !.pc = "deleteOwn"]
  <2>1. /\ q \in RequestRecords /\ q.pc = "deleteOwn" /\ q.old = req[r].old
        /\ q.key = req[r].key /\ q.healing = req[r].healing
    BY Plain DEF Failed, RequestRecords, Steps
  <2>2. /\ Become(r, q) /\ row' = req[r].key /\ row' # NoKey /\ row' \in KeyOrNone
        /\ astray' = astray \cup ({row, row'} \ {NoKey})
        /\ UNCHANGED <<cache, lock, live, minted, deleted, refused, healed, stale>>
    BY <1>1, <1>6, Plain DEF StoreUnheard, Keyed, Minting
  <2>3. astray' \subseteq Keys /\ row' \in astray'
    BY <2>2, Plain DEF KeyOrNone
  <2> HIDE DEF q
  <2>q. QED  BY <1>1, <2>1, <2>2, <2>3, StoreMove
<1>q. QED  BY <1>3, <1>4, <1>5, <1>6

\* Deleting the key that found no place, and deleting the one rotated away.
LEMMA DeleteStep ==
  ASSUME KeyCustody, NEW r \in Requests, DeleteOwn(r) \/ DeleteOld(r)
  PROVE  KeyCustody'
<1>1. ASSUME NEW k \in minted, DeleteKey(k), k = row => k \in astray,
             \A s \in Requests \ {r} : Minting(req[s]) => req[s].key # k, minted' = minted
      PROVE  /\ live' \subseteq minted' /\ (deleted' = deleted \/ Disposes(r))
             /\ astray \subseteq astray' /\ astray' \subseteq Keys
  BY <1>1, Plain DEF DeleteKey, Disposes
<1>2. CASE DeleteOwn(r)
  <2>1. At(r, "deleteOwn") /\ UNCHANGED <<row, cache, lock, minted, refused, healed, stale>>
    BY <1>2 DEF DeleteOwn
  <2>2. ~Minting(req[r]) /\ req[r].key # NoKey /\ Unstored(req[r])
    BY <2>1, Plain DEF Minting, At, Keyed, Unstored
  <2>3. /\ req[r].key \in minted /\ (req[r].key = row => req[r].key \in astray)
        /\ \A s \in Requests \ {r} : Minting(req[s]) => req[s].key # req[r].key
    BY <2>2 DEF KeyCustody, InOneHand
  <2>4. /\ live' \subseteq minted' /\ (deleted' = deleted \/ Disposes(r))
        /\ astray \subseteq astray' /\ astray' \subseteq Keys
    BY <1>1, <1>2, <2>1, <2>3 DEF DeleteOwn
  <2>5. CASE req[r].reply = "none"
    <3> DEFINE q == [req[r] EXCEPT !.pc = "reread"]
    <3>1. /\ q \in RequestRecords /\ q.pc = "reread" /\ q.old = req[r].old
          /\ q.healing = req[r].healing /\ q.key = req[r].key
      BY Plain DEF RequestRecords, Steps
    <3>2. Become(r, q)  BY <1>2, <2>5 DEF DeleteOwn, Goto
    <3>3. /\ Keyed(q) /\ Healer(q) /\ ~Unstored(q) /\ (row = NoKey => ~HandedOut(q))
          /\ ~Minting(q)
      BY <3>1, Plain DEF Keyed, Healer, Unstored, HandedOut, Minting
    <3> HIDE DEF q
    <3>q. QED  BY <2>1, <2>4, <3>1, <3>2, <3>3, Plain, QuietMove
  <2>6. CASE req[r].reply # "none"
    <3>1. Leave(r, req[r])  BY <1>2, <2>6 DEF DeleteOwn
    <3>2. row = NoKey => ~req[r].healing  BY Plain DEF HandedOut
    <3>q. QED  BY <2>1, <2>4, <2>6, <3>1, <3>2, Plain, LeaveMove
  <2>q. QED  BY <2>5, <2>6
<1>3. CASE DeleteOld(r)
  <2> DEFINE q == [req[r] EXCEPT !.pc = "fill"]
  <2>1. At(r, "deleteOld") /\ UNCHANGED <<row, cache, lock, minted, refused, healed, stale>>
    BY <1>3 DEF DeleteOld
  <2>2. row # NoKey /\ req[r].key # NoKey /\ req[r].old # NoKey
    BY <2>1, Plain DEF Healer, HandedOut, Keyed, At
  <2>3. /\ req[r].old \in minted /\ req[r].old # row
        /\ \A s \in Requests \ {r} : Minting(req[s]) => req[s].key # req[r].old
    BY <2>1, <2>2 DEF KeyCustody, InOneHand
  <2>4. /\ live' \subseteq minted' /\ (deleted' = deleted \/ Disposes(r))
        /\ astray \subseteq astray' /\ astray' \subseteq Keys
    BY <1>1, <1>3, <2>1, <2>3 DEF DeleteOld
  <2>5. q \in RequestRecords /\ q.pc = "fill" /\ q.old = req[r].old /\ q.key = req[r].key
    BY Plain DEF RequestRecords, Steps
  <2>6. Become(r, q)  BY <1>3 DEF DeleteOld, Goto
  <2>7. Keyed(q) /\ Healer(q) /\ ~Unstored(q) /\ ~Minting(q)
    BY <2>2, <2>5 DEF Keyed, Healer, Unstored, Minting
  <2> HIDE DEF q
  <2>q. QED  BY <2>1, <2>2, <2>4, <2>5, <2>6, <2>7, Plain, QuietMove
<1>q. QED  BY <1>2, <1>3

-----------------------------------------------------------------------------
(* Arrivals and the environment. *)

\* A request that starts afresh, gives up or dies has no key to lose.
LEMMA RequestEvent ==
  ASSUME KeyCustody, NEW r \in Requests,
         CallFails(r) \/ Abandon(r) \/ \E n \in {0, 1} : Arrive(r, n)
  PROVE  KeyCustody'
<1>1. /\ UNCHANGED <<stores, minted, deleted, refused, healed, stale>>
      /\ astray \subseteq astray' /\ astray' \subseteq Keys
  <2>1. CASE Abandon(r)
    <3>1. InCharge(r) \subseteq Keys
      <4>1. req[r].pc \in {"create", "replace", "deleteOwn"} => req[r].key \in Keys
        BY Plain DEF Keyed, KeyOrNone
      <4>2. req[r].pc = "deleteOld" => req[r].old \in Keys
        BY Plain DEF Healer, KeyOrNone, RequestRecords
      <4>q. QED  BY <4>1, <4>2 DEF InCharge
    <3>q. QED  BY <2>1, <3>1, Plain DEF Abandon
  <2>2. CASE CallFails(r) \/ \E n \in {0, 1} : Arrive(r, n)
    BY <2>2, Plain DEF CallFails, Arrive, history
  <2>q. QED  BY <2>1, <2>2
<1>3. ASSUME NEW q \in RequestRecords, Become(r, q), q.old = NoKey, q.key = NoKey, ~q.healing,
             q.pc \in {"cache", "done", "dead"}
      PROVE  KeyCustody'
  <2>1. Keyed(q) /\ Healer(q) /\ ~HandedOut(q) /\ ~Unstored(q) /\ ~Minting(q)
    BY <1>3 DEF Keyed, Healer, HandedOut, Unstored, Minting
  <2>q. QED  BY <1>1, <1>3, <2>1, Plain, QuietMove DEF stores
<1>4. CASE Abandon(r)
  <2> DEFINE q == Fresh("dead", 0, FALSE)
  <2>1. q \in RequestRecords /\ q.old = NoKey /\ q.key = NoKey /\ q.pc = "dead" /\ ~q.healing
    BY DEF Fresh, RequestRecords, KeyOrNone, Over
  <2>2. Become(r, q)  BY <1>4 DEF Abandon
  <2> HIDE DEF q
  <2>q. QED  BY <1>3, <2>1, <2>2
<1>5. ASSUME NEW n \in {0, 1}, Arrive(r, n)
      PROVE  KeyCustody'
  <2> DEFINE q == Fresh("cache", n, FALSE)
  <2>1. q \in RequestRecords /\ q.old = NoKey /\ q.key = NoKey /\ q.pc = "cache" /\ ~q.healing
    BY DEF Fresh, RequestRecords, KeyOrNone, Steps
  <2>2. Become(r, q)  BY <1>5 DEF Arrive
  <2> HIDE DEF q
  <2>q. QED  BY <1>3, <2>1, <2>2
<1>6. CASE CallFails(r)
  <2> DEFINE p == Failed(req[r])
  <2>1. /\ p \in RequestRecords /\ p.reply # "none" /\ p.old = req[r].old
        /\ p.key = req[r].key /\ p.healing = req[r].healing
    BY Plain DEF Failed, RequestRecords
  <2> HIDE DEF p
  <2>2. CASE Leave(r, p)
    <3>1. row = NoKey => ~p.healing  BY <2>1, Plain DEF HandedOut
    <3>q. QED  BY <1>1, <2>1, <2>2, <3>1, Plain, LeaveMove DEF stores
  <2>3. CASE req[r].pc \in {"create", "replace"} /\ Become(r, [p EXCEPT !.pc = "deleteOwn"])
    <3> DEFINE q == [p EXCEPT !.pc = "deleteOwn"]
    <3>1. /\ q \in RequestRecords /\ q.pc = "deleteOwn" /\ q.old = req[r].old
          /\ q.key = req[r].key /\ q.healing = req[r].healing
      BY <2>1 DEF RequestRecords, Steps
    <3>2. /\ Keyed(q) /\ Healer(q) /\ Unstored(req[r]) /\ (row = NoKey => ~HandedOut(q))
          /\ ~Minting(q)
      BY <2>3, <3>1, Plain DEF Keyed, Healer, Unstored, HandedOut, Minting
    <3>3. Become(r, q)  BY <2>3
    <3> HIDE DEF q
    <3>q. QED  BY <1>1, <3>1, <3>2, <3>3, Plain, QuietMove DEF stores
  <2>4. CASE Become(r, Ended(p))
    BY <1>3, <2>1, <2>4, OnwardType
  <2>q. QED  BY <1>6, <2>2, <2>3, <2>4 DEF CallFails, p
<1>q. QED  BY <1>4, <1>5, <1>6

\* A key that nobody heard of is in nobody's hand.
LEMMA UnheardEvent ==
  ASSUME KeyCustody, NEW r \in Requests, NEW k \in Keys, SignUnheard(r, k)
  PROVE  KeyCustody'
<1> DEFINE p == Failed(req[r])
<1>1. /\ p \in RequestRecords /\ p.reply # "none" /\ p.old = req[r].old
      /\ p.key = req[r].key /\ p.healing = req[r].healing
  BY Plain DEF Failed, RequestRecords
<1>2. /\ Leave(r, p) /\ minted' = minted \cup {k} /\ live' = live \cup {k}
      /\ astray' = astray \cup {k}
      /\ UNCHANGED <<row, cache, lock, deleted, refused, healed, stale>>
  BY DEF SignUnheard, Mint
<1>3. row = NoKey => ~p.healing
  BY <1>1, Plain DEF HandedOut
<1> HIDE DEF p
<1>q. QED  BY <1>1, <1>2, <1>3, Plain, LeaveMove

\* What expires or is lost at litellm is in no request's hand.
LEMMA StoreEvent ==
  ASSUME KeyCustody, LockExpires \/ CacheExpires \/ \E k \in Keys : Drop(k)
  PROVE  KeyCustody'
<1>1. /\ lock' \in BOOLEAN /\ cache' \in {cache, NoKey} /\ live' \subseteq live
      /\ UNCHANGED <<row, req, minted, deleted, refused, healed, astray, stale>>
  BY DEF KeyCustody, TypeOK, LockExpires, CacheExpires, Drop, history
<1>2. TypeOK'  BY <1>1 DEF KeyCustody, TypeOK, KeyOrNone
<1>3. \A r \in Requests : Minting(req[r]) => req[r].key # NoKey
  BY DEF KeyCustody, TypeOK, Keyed, Minting
<1>4. \A r \in Requests : InOneHand(r)'
  BY <1>1, <1>3 DEF KeyCustody, InOneHand
<1>q. QED  BY <1>1, <1>2, <1>4 DEF KeyCustody, OnlyAstrayDeleted, At

-----------------------------------------------------------------------------
\* No step of any request or of the environment breaks the custody of keys.
LEMMA CustodyStep ==
  ASSUME KeysAssumption, KeyCustody, [Next]_vars
  PROVE  KeyCustody'
<1>1. CASE \E r \in Requests, n \in {0, 1} : Arrive(r, n)
  BY <1>1, RequestEvent
<1>2. ASSUME NEW r \in Requests, Serve(r)
      PROVE  KeyCustody'
  <2>1. CASE Resolve(r)
    BY <2>1, ResolveStep, SignStep, StoreStep, DeleteStep DEF Resolve
  <2>2. CASE Heal(r)
    BY <2>2, HealStep, StoreStep, DeleteStep DEF Heal
  <2>q. QED  BY <1>2, <2>1, <2>2, HealStep DEF Serve
<1>3. CASE Environment
  BY <1>3, RequestEvent, StoreStep, UnheardEvent, StoreEvent DEF Environment
<1>4. CASE UNCHANGED vars
  <2>1. /\ UNCHANGED <<row, cache, lock, live, req>>
        /\ UNCHANGED <<minted, refused, deleted, healed, astray, stale>>
    BY <1>4 DEF vars, stores, history
  <2>q. QED  BY <2>1 DEF KeyCustody, TypeOK, OnlyAstrayDeleted, InOneHand, At
<1>q. QED  BY <1>1, <1>2, <1>3, <1>4 DEF Next, Finished

\* Custody of keys holds from the start.
LEMMA CustodyInit == Init => KeyCustody
<1> SUFFICES ASSUME Init PROVE KeyCustody
  OBVIOUS
<1>1. /\ Idle \in RequestRecords /\ Idle.pc = "new" /\ ~Idle.healing
      /\ Idle.old = NoKey /\ Idle.key = NoKey
  BY DEF Idle, Fresh, RequestRecords, KeyOrNone
<1>2. \A r \in Requests : req[r] = Idle
  BY DEF Init
<1>3. Keyed(Idle) /\ Healer(Idle) /\ ~HandedOut(Idle) /\ ~Unstored(Idle) /\ ~Minting(Idle)
  BY <1>1 DEF Keyed, Healer, HandedOut, Unstored, Minting
<1>4. TypeOK
  BY <1>1, <1>2, <1>3 DEF Init, TypeOK, KeyOrNone
<1>q. QED
  BY <1>1, <1>2, <1>3, <1>4 DEF Init, KeyCustody, OnlyAstrayDeleted, InOneHand, At

\* Whoever races, fails, lapses or dies, and whether failing calls did their work or
\* not: a key just signed stays in its signer's hand until it is stored, and a key
\* about to be deleted has left the row or was stored unheard (virtual_key_service.go).
THEOREM CustodyHolds == Spec => []KeyCustody
<1>1. KeyCustody /\ [Next]_vars => KeyCustody'
  BY CustodyStep, KeysAssumption
<1>q. QED  BY CustodyInit, <1>1, PTL DEF Spec

\* The gateway deletes the key that the user's row names in one case only: the write
\* that stored it reported an error.  No race, lapse of the lock, crash or other
\* failing call makes it do so.
THEOREM RowKeyKept == Spec => []OnlyAstrayDeleted
<1>1. KeyCustody => OnlyAstrayDeleted
  BY DEF KeyCustody
<1>q. QED  BY CustodyHolds, <1>1, PTL

\* The types hold throughout, and no request acts on a key it has not got.
THEOREM KeyTypes == Spec => []TypeOK
<1>1. KeyCustody => TypeOK
  BY DEF KeyCustody
<1>q. QED  BY CustodyHolds, <1>1, PTL

-----------------------------------------------------------------------------
(* What may make the gateway forget a key.                                 *)

\* Where a request has not signed a key for its healing yet.
Unhealed(q) ==
  \/ q.pc = "new"
  \/ q.pc \in Steps /\ ~q.healing /\ q.round # 2
  \/ q.healing /\ q.pc \in {"lock", "evict", "readOld", "sign"}

\* Where a healing can be.
Heals(q) ==
  q.healing => /\ q.pc \in {"lock", "evict", "readOld", "sign", "replace", "deleteOwn",
                            "deleteOld", "fill", "unlock"}
               /\ q.pc = "deleteOwn" => q.reply # "none"

Outrun(q) == q.healing /\ q.pc \in {"sign", "replace"} /\ q.old # row

\* A healing signs one key.  When the row has moved on from the old key that it
\* read, another healing moved it, and that one's key is what the row holds.
HealingsOK ==
  \A r \in Requests :
    /\ Heals(req[r])
    /\ Unhealed(req[r]) => healed[r] = NoKey
    /\ At(r, "replace") => healed[r] = req[r].key
    /\ Outrun(req[r]) => \E s \in Requests : s # r /\ healed[s] = row

\* What becomes of the record p of a request that neither signs nor stores.
Follows(p, q) ==
  \/ q.pc \in Over /\ ~q.healing
  \/ p.pc = "new" /\ q.pc = "cache" /\ ~q.healing
  \/ p.healing /\ q.pc = "cache" /\ q.round = 2 /\ ~q.healing
  \/ p.pc = "call" /\ p.round = 1 /\ q = Healing
  \/ /\ p.pc \in Steps /\ q.healing = p.healing /\ q.round = p.round
     /\ q.pc = "unlock"
  \/ /\ p.pc \in Steps /\ ~p.healing /\ ~q.healing /\ q.round = p.round
     /\ q.pc \in {"lookup", "fill", "lock", "recheck", "sign", "deleteOwn", "reread", "call"}
  \/ /\ p.pc \in Steps /\ p.healing /\ q.healing /\ q.round = p.round
     /\ \/ p.pc = "lock" /\ q.pc = "evict"
        \/ p.pc = "evict" /\ q.pc = "readOld"
        \/ p.pc = "deleteOld" /\ q.pc = "fill"
  \/ p.pc = "readOld" /\ p.healing /\ q.healing /\ q.pc = "sign" /\ q.old = row
  \/ p.pc = "replace" /\ p.healing /\ q.healing /\ q.pc = "deleteOwn" /\ q.reply # "none"

\* What a request becomes on its way out of a function.
LEMMA LeaveFollows ==
  ASSUME NEW r \in Requests, NEW p \in RequestRecords, NEW q \in RequestRecords, Leave(r, q),
         p.pc \in Steps, q.healing = p.healing, q.round = p.round
  PROVE  \E x \in RequestRecords : Become(r, x) /\ Follows(p, x)
<1>1. CASE q.held
  <2> DEFINE x == [q EXCEPT !.pc = "unlock"]
  <2>1. x \in RequestRecords /\ x.pc = "unlock" /\ x.healing = p.healing /\ x.round = p.round
    BY DEF RequestRecords, Steps
  <2>2. Become(r, x)
    BY <1>1 DEF Leave
  <2> HIDE DEF x
  <2>q. QED  BY <2>1, <2>2 DEF Follows
<1>2. CASE ~q.held
  <2>1. Become(r, Onward(q)) /\ Onward(q) \in RequestRecords
    BY <1>2, OnwardType DEF Leave
  <2>2. CASE q.reply # "none" \/ (q.round = 0 /\ ~q.healing)
    <3>1. Onward(q) = Ended(q) /\ Ended(q).pc = "done" /\ ~Ended(q).healing
      BY <2>2, OnwardType DEF Onward, RequestRecords
    <3>q. QED  BY <2>1, <3>1 DEF Follows, Over
  <2>3. CASE q.reply = "none" /\ q.healing
    <3>1. Onward(q) = Fresh("cache", 2, FALSE)
      BY <2>3 DEF Onward, RequestRecords
    <3>2. Onward(q).pc = "cache" /\ Onward(q).round = 2 /\ ~Onward(q).healing
      BY <3>1 DEF Fresh
    <3>q. QED  BY <2>1, <2>3, <3>2 DEF Follows
  <2>4. CASE q.reply = "none" /\ ~q.healing /\ q.round # 0
    <3>1. Onward(q) = [q EXCEPT !.pc = "call"]
      BY <2>4 DEF Onward, RequestRecords
    <3>2. Onward(q).pc = "call" /\ ~Onward(q).healing /\ Onward(q).round = q.round
      BY <2>4, <3>1 DEF RequestRecords
    <3>q. QED  BY <2>1, <2>4, <3>2 DEF Follows
  <2>q. QED  BY <2>2, <2>3, <2>4
<1>q. QED  BY <1>1, <1>2

\* Quiet steps keep HealingsOK.
LEMMA QuietHealings ==
  ASSUME KeyCustody, HealingsOK, NEW r \in Requests, NEW q \in RequestRecords, Become(r, q),
         Follows(req[r], q), UNCHANGED <<row, healed>>
  PROVE  HealingsOK'
<1>1. req'[r] = q /\ \A s \in Requests : s # r => req'[s] = req[s]
  BY DEF Become, KeyCustody, TypeOK
<1>2. /\ Heals(q) /\ ~Outrun(q)
      /\ q.pc # "replace"
      /\ Unhealed(q) => Unhealed(req[r])
  BY DEF HealingsOK, Follows, Heals, Outrun, Unhealed, Healing, Fresh, Steps, Over
<1>q. QED  BY <1>1, <1>2 DEF HealingsOK, Heals, Outrun, Unhealed, At

\* Reading, filling and locking only move a request along.
LEMMA ResolveFollows ==
  ASSUME KeyCustody, HealingsOK, NEW r \in Requests,
         \/ CacheGet(r) \/ Lookup(r) \/ Recheck(r) \/ Reread(r) \/ Fill(r)
         \/ Lock(r) \/ Degrade(r) \/ Unlock(r) \/ Evict(r) \/ ReadOld(r)
  PROVE  /\ \E q \in RequestRecords : Become(r, q) /\ Follows(req[r], q)
         /\ UNCHANGED <<row, healed>>
<1>1. /\ req[r] \in RequestRecords /\ Heals(req[r]) /\ Healer(req[r])
      /\ cache \in KeyOrNone /\ row \in KeyOrNone
      /\ UNCHANGED <<row, healed>>
  BY DEF KeyCustody, HealingsOK, TypeOK, stores, history, CacheGet, Lookup, Recheck, Reread, Fill,
         Lock, Degrade, Unlock, Evict, ReadOld
<1>2. ASSUME NEW k \in KeyOrNone, Leave(r, [req[r] EXCEPT !.key = k]), req[r].pc \in Steps
      PROVE  \E q \in RequestRecords : Become(r, q) /\ Follows(req[r], q)
  <2> DEFINE q == [req[r] EXCEPT !.key = k]
  <2>1. q \in RequestRecords /\ q.healing = req[r].healing /\ q.round = req[r].round
    BY <1>1 DEF RequestRecords
  <2>2. Leave(r, q)
    BY <1>2
  <2> HIDE DEF q
  <2>q. QED  BY <1>1, <1>2, <2>1, <2>2, LeaveFollows
<1>3. ASSUME NEW there \in {"lookup", "lock", "sign", "reread", "readOld"}, Goto(r, there),
             req[r].pc \in Steps,
             there = "readOld" => req[r].healing /\ At(r, "evict"),
             there # "readOld" => ~req[r].healing
      PROVE  \E q \in RequestRecords : Become(r, q) /\ Follows(req[r], q)
  <2> DEFINE q == [req[r] EXCEPT !.pc = there]
  <2>1. /\ q \in RequestRecords /\ q.healing = req[r].healing /\ q.round = req[r].round
        /\ q.pc = there
    BY <1>1 DEF RequestRecords, Steps
  <2>2. Become(r, q)
    BY <1>3 DEF Goto
  <2> HIDE DEF q
  <2>q. QED  BY <1>3, <2>1, <2>2 DEF Follows, At
<1>4. ASSUME NEW there \in {"lock", "sign", "reread"}, UseRow(r, there),
             req[r].pc \in Steps, ~req[r].healing
      PROVE  \E q \in RequestRecords : Become(r, q) /\ Follows(req[r], q)
  <2>1. CASE row # NoKey
    <3> DEFINE q == [req[r] EXCEPT !.pc = "fill", !.key = row]
    <3>1. /\ q \in RequestRecords /\ q.healing = req[r].healing /\ q.round = req[r].round
          /\ q.pc = "fill"
      BY <1>1 DEF RequestRecords, Steps
    <3>2. Become(r, q)
      BY <1>4, <2>1 DEF UseRow
    <3> HIDE DEF q
    <3>q. QED  BY <1>4, <3>1, <3>2 DEF Follows
  <2>2. CASE row = NoKey
    BY <1>3, <1>4, <2>2 DEF UseRow
  <2>q. QED  BY <2>1, <2>2
<1>5. CASE CacheGet(r)
  BY <1>1, <1>2, <1>3, <1>5 DEF CacheGet, At, Heals, Steps
<1>6. CASE Lookup(r)
  BY <1>1, <1>4, <1>6 DEF Lookup, At, Heals, Steps
<1>7. CASE Recheck(r)
  BY <1>1, <1>4, <1>7 DEF Recheck, At, Heals, Steps
<1>8. CASE Reread(r)
  BY <1>1, <1>4, <1>8 DEF Reread, At, Heals, Steps
<1>9. CASE Fill(r)
  <2>1. req[r] = [req[r] EXCEPT !.key = req[r].key] /\ req[r].key \in KeyOrNone
    BY <1>1 DEF RequestRecords
  <2>q. QED  BY <1>1, <1>2, <1>9, <2>1 DEF Fill, At, Steps
<1>10. CASE Lock(r) \/ Degrade(r)
  <2>1. PICK got \in BOOLEAN : Locked(r, got) /\ At(r, "lock")
    BY <1>10 DEF Lock, Degrade
  <2> DEFINE q == [req[r] EXCEPT !.held = got, !.pc = IF req[r].healing THEN "evict" ELSE "recheck"]
  <2>2. /\ q \in RequestRecords /\ q.healing = req[r].healing /\ q.round = req[r].round
        /\ q.pc = IF req[r].healing THEN "evict" ELSE "recheck"
    BY <1>1 DEF RequestRecords, Steps
  <2>3. Become(r, q)
    BY <2>1 DEF Locked
  <2> HIDE DEF q
  <2>4. Follows(req[r], q)
    <3>1. CASE req[r].healing
      <4>1. q.healing /\ q.pc = "evict"
        BY <2>2, <3>1
      <4>q. QED  BY <2>1, <2>2, <3>1, <4>1 DEF Follows, At, Steps
    <3>2. CASE ~req[r].healing
      <4>1. ~q.healing /\ q.pc = "recheck"
        BY <2>2, <3>2
      <4>q. QED  BY <2>1, <2>2, <3>2, <4>1 DEF Follows, At, Steps
    <3>q. QED  BY <3>1, <3>2
  <2>q. QED  BY <1>1, <2>2, <2>3, <2>4
<1>11. CASE Unlock(r)
  <2> DEFINE q == [req[r] EXCEPT !.held = FALSE]
  <2>1. /\ q \in RequestRecords /\ q.healing = req[r].healing /\ q.round = req[r].round
        /\ ~q.held
    BY <1>1 DEF RequestRecords
  <2>2. Become(r, Onward(q)) /\ req[r].pc \in Steps
    BY <1>11 DEF Unlock, At, Steps
  <2>3. Leave(r, q)
    BY <2>1, <2>2 DEF Leave
  <2> HIDE DEF q
  <2>q. QED  BY <1>1, <2>1, <2>2, <2>3, LeaveFollows
<1>12. CASE Evict(r)
  BY <1>1, <1>3, <1>12 DEF Evict, At, Healer, Steps
<1>13. CASE ReadOld(r)
  <2> DEFINE q == [req[r] EXCEPT !.pc = "sign", !.old = row]
  <2>1. /\ q \in RequestRecords /\ q.healing = req[r].healing /\ q.pc = "sign" /\ q.old = row
    BY <1>1 DEF RequestRecords, Steps
  <2>2. Become(r, q) /\ At(r, "readOld") /\ req[r].healing
    BY <1>1, <1>13 DEF ReadOld, At, Healer
  <2> HIDE DEF q
  <2>3. q.healing
    BY <2>1, <2>2
  <2>4. Follows(req[r], q)
    BY <2>1, <2>2, <2>3 DEF Follows, At
  <2>q. QED  BY <1>1, <2>1, <2>2, <2>4
<1>q. QED
  BY <1>1, <1>5, <1>6, <1>7, <1>8, <1>9, <1>10, <1>11, <1>12, <1>13

\* So do the answer of litellm, the deletions, and failures and arrivals.
LEMMA OtherFollows ==
  ASSUME KeyCustody, HealingsOK, NEW r \in Requests,
         \/ Call(r) \/ DeleteOwn(r) \/ DeleteOld(r) \/ CallFails(r) \/ Abandon(r)
         \/ \E n \in {0, 1} : Arrive(r, n)
         \/ Create(r) /\ row # NoKey
         \/ \E k \in Keys : SignUnheard(r, k)
  PROVE  /\ \E q \in RequestRecords : Become(r, q) /\ Follows(req[r], q)
         /\ UNCHANGED <<row, healed>>
<1>1. /\ req[r] \in RequestRecords /\ Heals(req[r]) /\ Healer(req[r])
      /\ UNCHANGED <<row, healed>>
  BY DEF KeyCustody, HealingsOK, TypeOK, stores, history, Call, DeleteOwn, DeleteOld, CallFails,
         Abandon, Arrive, Create, SignUnheard
<1>2. ASSUME NEW q \in RequestRecords, Become(r, q), q.pc \in Over, ~q.healing
      PROVE  \E x \in RequestRecords : Become(r, x) /\ Follows(req[r], x)
  BY <1>2 DEF Follows
<1>3. ASSUME NEW a \in {"served", "refused", "unavailable"}, Become(r, Ended([req[r] EXCEPT !.reply = a]))
      PROVE  \E x \in RequestRecords : Become(r, x) /\ Follows(req[r], x)
  <2>1. [req[r] EXCEPT !.reply = a] \in RequestRecords
    BY <1>1 DEF RequestRecords
  <2>q. QED  BY <1>2, <1>3, <2>1, OnwardType DEF Over
<1>4. CASE Call(r)
  <2>1. CASE Become(r, Healing) /\ req[r].round = 1 /\ At(r, "call")
    <3>1. Healing \in RequestRecords
      BY DEF Healing, Fresh, RequestRecords, KeyOrNone, Steps
    <3>q. QED  BY <1>1, <2>1, <3>1 DEF Follows, At
  <2>q. QED  BY <1>1, <1>3, <1>4, <2>1 DEF Call
<1>5. ASSUME NEW there \in {"fill", "reread", "deleteOwn"}, Goto(r, there), req[r].pc \in Steps,
             there = "fill" => At(r, "deleteOld"), there # "fill" => ~req[r].healing
      PROVE  \E x \in RequestRecords : Become(r, x) /\ Follows(req[r], x)
  <2> DEFINE q == [req[r] EXCEPT !.pc = there]
  <2>1. /\ q \in RequestRecords /\ q.healing = req[r].healing /\ q.round = req[r].round
        /\ q.pc = there
    BY <1>1 DEF RequestRecords, Steps
  <2>2. Become(r, q)
    BY <1>5 DEF Goto
  <2> HIDE DEF q
  <2>q. QED  BY <1>1, <1>5, <2>1, <2>2 DEF Follows, At, Healer
<1>6. CASE DeleteOwn(r)
  <2>1. CASE req[r].reply = "none"
    BY <1>1, <1>5, <1>6, <2>1 DEF DeleteOwn, At, Heals, Steps
  <2>2. CASE req[r].reply # "none"
    <3>1. Leave(r, req[r]) /\ req[r].pc \in Steps
      BY <1>6, <2>2 DEF DeleteOwn, At, Steps
    <3>q. QED  BY <1>1, <3>1, LeaveFollows
  <2>q. QED  BY <2>1, <2>2
<1>7. CASE DeleteOld(r)
  BY <1>1, <1>5, <1>7 DEF DeleteOld, At, Steps
<1>8. CASE Create(r) /\ row # NoKey
  BY <1>1, <1>5, <1>8 DEF Create, At, Heals, Steps
<1>9. CASE Abandon(r)
  <2>1. Fresh("dead", 0, FALSE) \in RequestRecords
    BY DEF Fresh, RequestRecords, KeyOrNone, Over
  <2>2. Fresh("dead", 0, FALSE).pc = "dead" /\ ~Fresh("dead", 0, FALSE).healing
    BY DEF Fresh
  <2>q. QED  BY <1>1, <1>2, <1>9, <2>1, <2>2 DEF Abandon, Over
<1>10. ASSUME NEW n \in {0, 1}, Arrive(r, n)
       PROVE  \E x \in RequestRecords : Become(r, x) /\ Follows(req[r], x)
  <2> DEFINE q == Fresh("cache", n, FALSE)
  <2>1. q \in RequestRecords /\ q.pc = "cache" /\ ~q.healing
    BY DEF Fresh, RequestRecords, KeyOrNone, Steps
  <2>2. Become(r, q) /\ req[r].pc = "new"
    BY <1>10 DEF Arrive, CanBegin
  <2> HIDE DEF q
  <2>q. QED  BY <2>1, <2>2 DEF Follows
<1>11. CASE CallFails(r)
  <2> DEFINE p == Failed(req[r])
  <2>1. /\ p \in RequestRecords /\ p.reply # "none" /\ p.healing = req[r].healing
        /\ p.round = req[r].round /\ p.pc = req[r].pc
    BY <1>1 DEF Failed, RequestRecords
  <2> HIDE DEF p
  <2>2. CASE Leave(r, p) /\ req[r].pc \in Steps
    BY <1>1, <2>1, <2>2, LeaveFollows
  <2>3. CASE req[r].pc \in {"create", "replace"} /\ Become(r, [p EXCEPT !.pc = "deleteOwn"])
    <3> DEFINE q == [p EXCEPT !.pc = "deleteOwn"]
    <3>1. /\ q \in RequestRecords /\ q.pc = "deleteOwn" /\ q.healing = req[r].healing
          /\ q.reply # "none" /\ q.round = req[r].round
      BY <2>1 DEF RequestRecords, Steps
    <3>2. Become(r, q)
      BY <2>3
    <3>3. req[r].healing <=> req[r].pc = "replace"
      BY <1>1, <2>3 DEF Heals, Healer
    <3> HIDE DEF q
    <3>4. Follows(req[r], q)
      <4>1. CASE req[r].healing
        <5>1. q.healing
          BY <3>1, <4>1
        <5>q. QED  BY <3>1, <3>3, <4>1, <5>1 DEF Follows
      <4>2. CASE ~req[r].healing
        <5>1. ~q.healing /\ req[r].pc \in Steps
          BY <2>3, <3>1, <4>2 DEF Steps
        <5>q. QED  BY <3>1, <4>2, <5>1 DEF Follows
      <4>q. QED  BY <4>1, <4>2
    <3>q. QED  BY <1>1, <3>1, <3>2, <3>4
  <2>4. CASE Become(r, Ended(p))
    BY <1>1, <1>2, <2>1, <2>4, OnwardType DEF Over
  <2>5. \/ Leave(r, p) /\ req[r].pc \in Steps
        \/ req[r].pc \in {"create", "replace"} /\ Become(r, [p EXCEPT !.pc = "deleteOwn"])
        \/ Become(r, Ended(p))
    BY <1>11 DEF CallFails, p, Steps
  <2>q. QED  BY <2>2, <2>3, <2>4, <2>5
<1>12. ASSUME NEW k \in Keys, SignUnheard(r, k)
       PROVE  \E x \in RequestRecords : Become(r, x) /\ Follows(req[r], x)
  <2> DEFINE p == Failed(req[r])
  <2>1. p \in RequestRecords /\ p.healing = req[r].healing /\ p.round = req[r].round
    BY <1>1 DEF Failed, RequestRecords
  <2>2. Leave(r, p) /\ req[r].pc \in Steps
    BY <1>12 DEF SignUnheard, Mint, At, Steps
  <2> HIDE DEF p
  <2>q. QED  BY <1>1, <2>1, <2>2, LeaveFollows
<1>q. QED
  BY <1>1, <1>4, <1>6, <1>7, <1>8, <1>9, <1>10, <1>11, <1>12

\* A step of a request signs, stores, or only moves it along.
LEMMA ServeCases ==
  ASSUME KeyCustody, HealingsOK, [Next]_vars
  PROVE  \/ \E r \in Requests, k \in Keys : Sign(r, k)
         \/ \E r \in Requests : Create(r) /\ row = NoKey
         \/ \E r \in Requests : Replace(r) \/ StoreUnheard(r)
         \/ \E r \in Requests, q \in RequestRecords : Become(r, q) /\ Follows(req[r], q)
                                                       /\ UNCHANGED <<row, healed>>
         \/ UNCHANGED <<row, req, healed>>
<1> DEFINE Quiet == \E r \in Requests, q \in RequestRecords :
                      Become(r, q) /\ Follows(req[r], q) /\ UNCHANGED <<row, healed>>
<1>1. ASSUME NEW r \in Requests, NEW n \in {0, 1}, Arrive(r, n)
      PROVE  Quiet
  BY <1>1, OtherFollows
<1>2. ASSUME NEW r \in Requests, Resolve(r), \A k \in Keys : ~Sign(r, k), ~(Create(r) /\ row = NoKey)
      PROVE  Quiet
  BY <1>2, ResolveFollows, OtherFollows DEF Resolve
<1>3. ASSUME NEW r \in Requests, Heal(r), ~Replace(r)
      PROVE  Quiet
  BY <1>3, ResolveFollows, OtherFollows DEF Heal
<1>4. ASSUME NEW r \in Requests, Lock(r) \/ Degrade(r) \/ Unlock(r) \/ Call(r)
      PROVE  Quiet
  BY <1>4, ResolveFollows, OtherFollows
<1>5. ASSUME NEW r \in Requests, CallFails(r) \/ Abandon(r) \/ \E k \in Keys : SignUnheard(r, k)
      PROVE  Quiet
  BY <1>5, OtherFollows
<1>6. CASE LockExpires \/ CacheExpires \/ \E k \in Keys : Drop(k)
  BY <1>6 DEF LockExpires, CacheExpires, Drop, history
<1>7. CASE UNCHANGED vars
  BY <1>7 DEF vars, stores, history
<1> HIDE DEF Quiet
<1>q. QED
  BY <1>1, <1>2, <1>3, <1>4, <1>5, <1>6, <1>7 DEF Next, Serve, Environment, Finished, Quiet

\* What signing a key leaves behind.
LEMMA SignGives ==
  ASSUME KeyCustody, HealingsOK, NEW r \in Requests, NEW k \in Keys, Sign(r, k)
  PROVE  /\ \A s \in Requests : s # r => req'[s] = req[s] /\ healed'[s] = healed[s]
         /\ req[r].pc = "sign" /\ req'[r].key = k /\ req'[r].old = req[r].old
         /\ req'[r].healing = req[r].healing /\ req'[r].round = req[r].round
         /\ req[r].healing => req'[r].pc = "replace" /\ healed'[r] = k /\ healed[r] = NoKey
         /\ ~req[r].healing => req'[r].pc = "create" /\ healed' = healed
<1> DEFINE q == [req[r] EXCEPT !.pc = IF req[r].healing THEN "replace" ELSE "create", !.key = k]
<1>1. req[r] \in RequestRecords /\ req[r].pc = "sign" /\ req[r].healing \in BOOLEAN
  BY DEF KeyCustody, TypeOK, RequestRecords, Sign, Mint, At
<1>2. /\ q.key = k /\ q.old = req[r].old /\ q.healing = req[r].healing /\ q.round = req[r].round
      /\ q.pc = IF req[r].healing THEN "replace" ELSE "create"
  BY <1>1 DEF RequestRecords
<1>3. Become(r, q)
  BY DEF Sign
<1>4. req'[r] = q /\ \A s \in Requests : s # r => req'[s] = req[s]
  BY <1>3 DEF Become, KeyCustody, TypeOK
<1>5. healed' = IF req[r].healing THEN [healed EXCEPT ![r] = k] ELSE healed
  BY DEF Sign
<1>6. req[r].healing => healed[r] = NoKey
  BY <1>1 DEF HealingsOK, Unhealed
<1> HIDE DEF q
<1>7. CASE req[r].healing
  <2>1. healed' = [healed EXCEPT ![r] = k]
    BY <1>5, <1>7
  <2>2. healed'[r] = k /\ \A s \in Requests : s # r => healed'[s] = healed[s]
    BY <2>1 DEF KeyCustody, TypeOK
  <2>q. QED  BY <1>1, <1>2, <1>4, <1>6, <1>7, <2>2
<1>8. CASE ~req[r].healing
  BY <1>1, <1>2, <1>4, <1>5, <1>8
<1>q. QED  BY <1>1, <1>7, <1>8

\* What storing a key leaves behind.
LEMMA StoreGives ==
  ASSUME KeyCustody, NEW r \in Requests, NEW there \in {"fill", "deleteOld"}, Goto(r, there)
  PROVE  /\ \A s \in Requests : s # r => req'[s] = req[s]
         /\ req'[r].pc = there /\ req'[r].key = req[r].key /\ req'[r].old = req[r].old
         /\ req'[r].healing = req[r].healing /\ req'[r].round = req[r].round
BY DEF Goto, Become, KeyCustody, TypeOK, RequestRecords

\* So does a write that is not heard of.
LEMMA UnheardGives ==
  ASSUME KeyCustody, NEW r \in Requests, StoreUnheard(r)
  PROVE  /\ \A s \in Requests : s # r => req'[s] = req[s]
         /\ req'[r].pc = "deleteOwn" /\ req'[r].key = req[r].key /\ req'[r].old = req[r].old
         /\ req'[r].healing = req[r].healing /\ req'[r].round = req[r].round
         /\ req'[r].reply # "none" /\ row' = req[r].key /\ healed' = healed
         /\ req[r].pc = "replace" \/ (req[r].pc = "create" /\ row = NoKey)
BY DEF StoreUnheard, Failed, Become, At, KeyCustody, TypeOK, RequestRecords

\* Every step keeps HealingsOK.
LEMMA HealingsStep ==
  ASSUME KeysAssumption, KeyCustody, HealingsOK, [Next]_vars
  PROVE  HealingsOK'
<1>1. ASSUME NEW r \in Requests, NEW k \in Keys, Sign(r, k)
      PROVE  HealingsOK'
  <2>1. row' = row
    BY <1>1 DEF Sign
  <2>2. \A s \in Requests : healed[s] = row /\ row # NoKey => s = r \/ healed'[s] = row
    BY <1>1, SignGives
  <2>3. \A s \in Requests : Outrun(req[s]) => row # NoKey
    BY DEF KeyCustody, HandedOut, Outrun
  <2>4. ASSUME NEW s \in Requests, Outrun(req'[s])
        PROVE  \E u \in Requests : u # s /\ healed'[u] = row
    <3>1. Outrun(req[s])
      <4>1. CASE s = r
        BY <1>1, <2>1, <2>4, <4>1, SignGives DEF Outrun
      <4>2. CASE s # r
        BY <1>1, <2>1, <2>4, <4>2, SignGives DEF Outrun
      <4>q. QED  BY <4>1, <4>2
    <3>2. PICK u \in Requests : u # s /\ healed[u] = row
      BY <3>1 DEF HealingsOK
    <3>3. healed'[u] = row
      <4>1. CASE u = r
        <5>1. healed[r] # NoKey
          BY <2>3, <3>1, <3>2, <4>1
        <5>q. QED  BY <1>1, <3>2, <4>1, <5>1, SignGives DEF KeyCustody, TypeOK, RequestRecords
      <4>2. CASE u # r
        BY <2>2, <2>3, <3>1, <3>2, <4>2
      <4>q. QED  BY <4>1, <4>2
    <3>q. QED  BY <3>2, <3>3
  <2>5. ASSUME NEW s \in Requests
        PROVE  /\ Heals(req'[s])
               /\ Unhealed(req'[s]) => healed'[s] = NoKey
               /\ req'[s].pc = "replace" => healed'[s] = req'[s].key
    <3>1. CASE s # r
      BY <1>1, <3>1, SignGives DEF HealingsOK, At
    <3>2. CASE s = r /\ req[r].healing
      BY <1>1, <3>2, SignGives DEF Heals, Unhealed, Steps
    <3>3. CASE s = r /\ ~req[r].healing
      <4>1. ~req'[r].healing /\ req'[r].pc = "create" /\ healed'[r] = healed[r]
        BY <1>1, <3>3, SignGives
      <4>2. Unhealed(req'[r]) => Unhealed(req[r])
        BY <1>1, <3>3, <4>1, SignGives DEF Unhealed, Steps
      <4>q. QED  BY <3>3, <4>1, <4>2 DEF HealingsOK, Heals
    <3>q. QED  BY <3>1, <3>2, <3>3
  <2>q. QED  BY <2>1, <2>4, <2>5 DEF HealingsOK, Heals, Unhealed, Outrun, At
<1>2. ASSUME NEW r \in Requests, Create(r), row = NoKey
      PROVE  HealingsOK'
  <2>1. healed' = healed /\ Goto(r, "fill") /\ req[r].pc = "create"
    BY <1>2 DEF Create, At, history
  <2>2. \A s \in Requests : ~req[s].healing
    BY <1>2 DEF KeyCustody, HandedOut
  <2>3. \A s \in Requests : ~req'[s].healing
    BY <2>1, <2>2, StoreGives
  <2>4. \A s \in Requests : Unhealed(req'[s]) => Unhealed(req[s])
    BY <2>1, <2>2, <2>3, StoreGives DEF Unhealed, Steps
  <2>5. \A s \in Requests : req'[s].pc = "replace" => req'[s] = req[s]
    BY <2>1, StoreGives
  <2>q. QED  BY <2>1, <2>3, <2>4, <2>5 DEF HealingsOK, Heals, Unhealed, Outrun, At
<1>3. ASSUME NEW r \in Requests, Replace(r)
      PROVE  HealingsOK'
  <2>1. /\ healed' = healed /\ Goto(r, "deleteOld") /\ req[r].pc = "replace" /\ row' = req[r].key
        /\ req[r].healing /\ healed[r] = req[r].key
    BY <1>3 DEF Replace, At, history, KeyCustody, Healer, HealingsOK
  <2>2. req'[r].pc = "deleteOld" /\ \A s \in Requests : s # r => req'[s] = req[s]
    BY <2>1, StoreGives
  <2>3. \A s \in Requests : Outrun(req[s])' => s # r
    BY <2>2 DEF Outrun
  <2>4. ASSUME NEW s \in Requests
        PROVE  /\ Heals(req'[s])
               /\ Unhealed(req'[s]) => healed'[s] = NoKey
               /\ req'[s].pc = "replace" => healed'[s] = req'[s].key
    <3>1. CASE s # r
      BY <2>1, <2>2, <3>1 DEF HealingsOK, At
    <3>2. CASE s = r
      <4>1. req'[r].healing
        BY <2>1, StoreGives
      <4>q. QED  BY <2>2, <3>2, <4>1 DEF Heals, Unhealed, Steps
    <3>q. QED  BY <3>1, <3>2
  <2>5. \A s \in Requests : Outrun(req[s])' => healed'[r] = row' /\ r # s
    BY <2>1, <2>3
  <2>q. QED  BY <2>4, <2>5 DEF HealingsOK, Heals, Unhealed, At
<1>4. ASSUME NEW r \in Requests, NEW q \in RequestRecords, Become(r, q), Follows(req[r], q),
             UNCHANGED <<row, healed>>
      PROVE  HealingsOK'
  BY <1>4, QuietHealings
<1>5. CASE UNCHANGED <<row, req, healed>>
  BY <1>5 DEF HealingsOK, Heals, Unhealed, Outrun, At
<1>6. ASSUME NEW r \in Requests, StoreUnheard(r), req[r].healing
      PROVE  HealingsOK'
  <2>1. req[r].pc = "replace" /\ healed[r] = req[r].key
    BY <1>6, UnheardGives DEF HealingsOK, At, KeyCustody, HandedOut
  <2>2. /\ healed' = healed /\ row' = healed[r] /\ Heals(req'[r])
        /\ ~Unhealed(req'[r]) /\ ~Outrun(req[r])' /\ req'[r].pc # "replace"
    BY <1>6, <2>1, UnheardGives DEF Heals, Unhealed, Outrun
  <2>3. \A s \in Requests : s # r => req'[s] = req[s]
    BY <1>6, UnheardGives
  <2>4. \A s \in Requests : Outrun(req[s])' => healed'[r] = row' /\ r # s
    BY <2>2
  <2>q. QED  BY <2>2, <2>3, <2>4 DEF HealingsOK, Heals, Unhealed, At
<1>7. ASSUME NEW r \in Requests, StoreUnheard(r), ~req[r].healing
      PROVE  HealingsOK'
  <2>1. req[r].pc = "create" /\ row = NoKey
    BY <1>7, UnheardGives DEF KeyCustody, Healer
  <2>2. \A s \in Requests : ~req[s].healing
    BY <2>1 DEF KeyCustody, HandedOut
  <2>3. \A s \in Requests : ~req'[s].healing
    BY <1>7, <2>2, UnheardGives
  <2>4. \A s \in Requests : Unhealed(req'[s]) => Unhealed(req[s])
    BY <1>7, <2>1, <2>2, <2>3, UnheardGives DEF Unhealed, Steps
  <2>5. healed' = healed /\ \A s \in Requests : req'[s].pc = "replace" => req'[s] = req[s]
    BY <1>7, UnheardGives
  <2>q. QED  BY <2>3, <2>4, <2>5 DEF HealingsOK, Heals, Unhealed, Outrun, At
<1>q. QED  BY <1>1, <1>2, <1>3, <1>4, <1>5, <1>6, <1>7, ServeCases

\* A healing's key, once signed, is what that healing will be known by.
LEMMA HealedStays ==
  ASSUME KeyCustody, HealingsOK, [Next]_vars, NEW s \in Requests, healed[s] # NoKey
  PROVE  healed'[s] = healed[s]
<1>1. ASSUME NEW r \in Requests, NEW k \in Keys, Sign(r, k)
      PROVE  healed'[s] = healed[s]
  BY <1>1, SignGives
<1>2. ASSUME NEW r \in Requests, (Create(r) /\ row = NoKey) \/ Replace(r) \/ StoreUnheard(r)
      PROVE  healed'[s] = healed[s]
  BY <1>2 DEF Create, Replace, StoreUnheard, history
<1>q. QED  BY <1>1, <1>2, ServeCases

\* Short of a crash or a failed deletion, a request that has a key in hand puts
\* it in the row, keeps it in hand, or deletes it.
LEMMA HandKept ==
  ASSUME KeyCustody, [Next]_vars, NEW r \in Requests, NEW k \in live', k \in InCharge(r)
  PROVE  k = row' \/ k \in InCharge(r)' \/ k \in astray'
<1>0. req[r] \in RequestRecords /\ req \in [Requests -> RequestRecords]
  BY DEF KeyCustody, TypeOK
<1> DEFINE D == k = row' \/ k \in InCharge(r)' \/ k \in astray'
<1>1. ASSUME NEW s \in Requests, NEW q, Become(s, q), s # r
      PROVE  D
  <2>1. req'[r] = req[r]
    BY <1>0, <1>1 DEF Become
  <2>q. QED  BY <2>1 DEF InCharge
<1>2. ASSUME Create(r)
      PROVE  D
  BY <1>0, <1>2 DEF Create, Goto, Become, InCharge, At, RequestRecords
<1>3. ASSUME Replace(r) \/ StoreUnheard(r)
      PROVE  D
  BY <1>3 DEF Replace, StoreUnheard, At, InCharge
<1>4. ASSUME DeleteOwn(r) \/ DeleteOld(r)
      PROVE  D
  BY <1>4 DEF DeleteOwn, DeleteOld, DeleteKey, At, InCharge
<1>5. ASSUME CallFails(r)
      PROVE  D
  <2>1. Become(r, [Failed(req[r]) EXCEPT !.pc = "deleteOwn"]) /\ req[r].key = k
    BY <1>5 DEF CallFails, InCharge
  <2> DEFINE q == [Failed(req[r]) EXCEPT !.pc = "deleteOwn"]
  <2>2. q.key = k /\ q.pc = "deleteOwn"
    BY <1>0, <2>1 DEF Failed, RequestRecords
  <2>3. req'[r] = q
    BY <1>0, <2>1 DEF Become
  <2>q. QED  BY <2>2, <2>3 DEF InCharge
<1>6. ASSUME NEW n \in {0, 1}, Arrive(r, n)
      PROVE  FALSE
  BY <1>6 DEF Arrive, CanBegin, InCharge
<1>7. ASSUME CacheGet(r) \/ Lookup(r) \/ Recheck(r) \/ Reread(r) \/ Fill(r) \/ Lock(r)
               \/ Degrade(r) \/ Unlock(r) \/ Evict(r) \/ ReadOld(r) \/ Call(r)
               \/ \E x \in Keys : Sign(r, x) \/ SignUnheard(r, x)
      PROVE  FALSE
  BY <1>7 DEF CacheGet, Lookup, Recheck, Reread, Fill, Lock, Degrade, Unlock, Evict, ReadOld, Call,
              Sign, SignUnheard, Mint, At, InCharge
<1>8. ASSUME UNCHANGED req
      PROVE  D
  BY <1>8 DEF InCharge
<1>13. ASSUME Abandon(r)
       PROVE  D
  BY <1>13 DEF Abandon
<1> DEFINE Moves(s) == \/ Serve(s) \/ CallFails(s) \/ StoreUnheard(s) \/ Abandon(s)
                       \/ \E x \in Keys : SignUnheard(s, x)
                       \/ \E n \in {0, 1} : Arrive(s, n)
<1>9. ASSUME NEW s \in Requests, s # r, Moves(s)
      PROVE  \E q : Become(s, q)
  BY <1>9 DEF Serve, Resolve, Heal, CacheGet, Lookup, Recheck, Reread, Fill, Lock, Degrade, Unlock,
              Evict, ReadOld, Call, Sign, SignUnheard, Create, DeleteOwn, Replace, DeleteOld, CallFails,
              StoreUnheard, Abandon, Arrive, UseRow, Locked, Goto, Leave
<1>10. UNCHANGED req \/ \E s \in Requests : Moves(s)
  BY DEF Next, Environment, LockExpires, CacheExpires, Drop, Finished, vars
<1> HIDE DEF D
<1>11. ASSUME NEW s \in Requests, s # r, Moves(s)
       PROVE  D
  BY <1>1, <1>9, <1>11
<1>12. ASSUME Moves(r)
       PROVE  D
  BY <1>2, <1>3, <1>4, <1>5, <1>6, <1>7, <1>12, <1>13 DEF Serve, Resolve, Heal
<1> HIDE DEF Moves
<1>q. QED  BY <1>8, <1>10, <1>11, <1>12 DEF D

\* A key that leaves the row is taken in hand, or was put there by a healing
\* that overlapped another one, or the write that replaced it reported an error.
LEMMA RowKept ==
  ASSUME KeysAssumption, KeyCustody, HealingsOK, [Next]_vars, NEW k, k = row, k # row', k # NoKey
  PROVE  (\E r \in Requests : k \in InCharge(r)') \/ Overhealed(k)' \/ k \in astray'
<1>1. PICK r \in Requests : Replace(r) \/ StoreUnheard(r)
  BY ServeCases DEF Sign
<1>2. CASE StoreUnheard(r)
  BY <1>2 DEF StoreUnheard
<1>3. CASE Replace(r)
  <2>1. /\ Goto(r, "deleteOld") /\ req[r].pc = "replace" /\ req[r].healing
        /\ healed[r] = req[r].key /\ req[r].key # NoKey
    BY <1>3 DEF Replace, At, KeyCustody, TypeOK, Healer, Keyed, HealingsOK
  <2>2. CASE req[r].old = k
    <3>1. req'[r].old = k /\ req'[r].pc = "deleteOld"
      BY <2>1, <2>2, StoreGives
    <3>q. QED  BY <3>1 DEF InCharge
  <2>3. CASE req[r].old # k
    <3>1. PICK s \in Requests : s # r /\ healed[s] = k
      BY <2>1, <2>3 DEF HealingsOK, Outrun
    <3>2. healed'[s] = k /\ healed'[r] # NoKey
      BY <2>1, <3>1, HealedStays
    <3>q. QED  BY <3>1, <3>2 DEF Overhealed
  <2>q. QED  BY <2>2, <2>3
<1>q. QED  BY <1>1, <1>2, <1>3

\* What goes astray stays so, and a key that appears was signed.
LEMMA LiveGrows ==
  ASSUME KeyCustody, [Next]_vars
  PROVE  /\ astray \subseteq astray'
         /\ \A k \in live' \ live : \/ \E r \in Requests : k \in Keys /\ Sign(r, k)
                                   \/ k \in astray'
<1>1. ASSUME NEW r \in Requests, Serve(r), \A k \in Keys : ~Sign(r, k)
      PROVE  astray \subseteq astray' /\ live' \subseteq live
  BY <1>1 DEF Serve, Resolve, Heal, CacheGet, Lookup, Recheck, Reread, Fill, Lock, Degrade, Unlock,
              Evict, ReadOld, Call, Create, DeleteOwn, Replace, DeleteOld, DeleteKey, stores, history
<1>2. ASSUME NEW r \in Requests, NEW k \in Keys, Sign(r, k)
      PROVE  astray' = astray /\ live' = live \cup {k}
  BY <1>2 DEF Sign, Mint
<1>3. ASSUME NEW r \in Requests, NEW k \in Keys, SignUnheard(r, k)
      PROVE  astray' = astray \cup {k} /\ live' = live \cup {k}
  BY <1>3 DEF SignUnheard, Mint
<1>4. ASSUME NEW r \in Requests,
             CallFails(r) \/ StoreUnheard(r) \/ Abandon(r) \/ \E n \in {0, 1} : Arrive(r, n)
      PROVE  astray \subseteq astray' /\ live' = live
  BY <1>4 DEF CallFails, StoreUnheard, Abandon, Arrive, stores, history
<1>5. CASE LockExpires \/ CacheExpires \/ (\E k \in Keys : Drop(k)) \/ UNCHANGED vars
  BY <1>5 DEF LockExpires, CacheExpires, Drop, vars, stores, history
<1>q. QED
  BY <1>1, <1>2, <1>3, <1>4, <1>5 DEF Next, Environment, Finished

\* A key just signed is in its signer's hand; the others are where they were.
LEMMA OrphansStep ==
  ASSUME KeysAssumption, KeyCustody, HealingsOK, NoOrphans, [Next]_vars
  PROVE  NoOrphans'
<1> SUFFICES ASSUME NEW k \in live'
             PROVE  Accounted(k)' \/ k \in astray' \/ Overhealed(k)'
  BY DEF NoOrphans
<1>1. CASE k \notin live
  <2>1. CASE \E r \in Requests : k \in Keys /\ Sign(r, k)
    <3>1. PICK r \in Requests : k \in Keys /\ Sign(r, k)
      BY <2>1
    <3>2. req[r].healing \in BOOLEAN
      BY DEF KeyCustody, TypeOK, RequestRecords
    <3>3. req'[r].key = k /\ req'[r].pc \in {"create", "replace"}
      BY <3>1, <3>2, SignGives
    <3>q. QED  BY <3>3 DEF Accounted, InCharge
  <2>q. QED  BY <1>1, <2>1, LiveGrows
<1>2. CASE k \in live /\ (Overhealed(k) \/ k \in astray)
  <2>1. k # NoKey
    BY <1>2 DEF KeyCustody, TypeOK, KeysAssumption
  <2>q. QED  BY <1>2, <2>1, HealedStays, LiveGrows DEF Overhealed
<1>3. CASE k \in live /\ Accounted(k)
  <2>1. CASE k = row
    <3>1. k # NoKey
      BY <1>3 DEF KeyCustody, TypeOK, KeysAssumption
    <3>q. QED  BY <2>1, <3>1, RowKept DEF Accounted
  <2>2. ASSUME NEW r \in Requests, k \in InCharge(r)
        PROVE  Accounted(k)' \/ k \in astray'
    BY <2>2, HandKept DEF Accounted
  <2>q. QED  BY <1>3, <2>1, <2>2 DEF Accounted
<1>q. QED  BY <1>1, <1>2, <1>3 DEF NoOrphans

\* A key is forgotten at litellm for one of three reasons only: a call about it
\* failed, the instance that had it in hand died, or a healing signed it and another
\* healing replaced it.  The race for a user's first key forgets none, for any number
\* of requests, with or without the lock (persistFirst).
THEOREM KeysAreKept == Spec => []NoOrphans
<1>1. Init => HealingsOK /\ NoOrphans
  BY DEF Init, HealingsOK, NoOrphans, Idle, Fresh, Heals, Unhealed, Outrun, At, Steps
<1>2. KeyCustody /\ HealingsOK /\ NoOrphans /\ [Next]_vars => HealingsOK' /\ NoOrphans'
  BY HealingsStep, OrphansStep, KeysAssumption
<1>q. QED  BY <1>1, <1>2, CustodyHolds, PTL DEF Spec

-----------------------------------------------------------------------------
(* Where the retry after a healing may find a refused key.                 *)

\* A healing that has stored its key, and one that has been to the cache since.
Renewed(q)  == q.healing /\ (q.pc \in {"deleteOld", "fill"} \/ (q.pc = "unlock" /\ q.reply = "none"))
Retrying(q) == q.pc \in Steps /\ q.round = 2
Refilled(q) == Retrying(q) \/ (q.healing /\ q.pc = "unlock" /\ q.reply = "none")

\* From then on the row names no key refused to that request, and neither the cache
\* nor the request has one unless a fill put or left it there behind the row.
RetryOK(r) ==
  /\ Renewed(req[r]) \/ Retrying(req[r]) => row \notin refused[r]
  /\ Refilled(req[r]) => cache \notin refused[r] \ stale
  /\ Retrying(req[r]) => req[r].key \notin refused[r] \ stale

RetriesOK == \A r \in Requests : RetryOK(r)

\* What a step of a request may do to the others: the row gets a key that nobody was
\* refused, the cache the row's key or one that counts as stale.
Harmless ==
  /\ row' = row \/ \A s \in Requests : row' \notin refused[s]
  /\ cache' = cache \/ cache' \in {NoKey, row} \cup stale'
  /\ stale \subseteq stale'

\* A step of one request is judged by what it leaves that request with.
LEMMA RetryMove ==
  ASSUME KeysAssumption, KeyCustody, RetriesOK, NEW r \in Requests, NEW q, Become(r, q), Harmless,
         refused' \in [Requests -> SUBSET Keys],
         \A s \in Requests \ {r} : refused'[s] = refused[s],
         Renewed(q) \/ Retrying(q) => row' \notin refused'[r],
         Refilled(q) => cache' \notin refused'[r] \ stale',
         Retrying(q) => q.key \notin refused'[r] \ stale'
  PROVE  RetriesOK'
<1>1. req'[r] = q /\ \A s \in Requests : s # r => req'[s] = req[s]
  BY DEF Become, KeyCustody, TypeOK
<1>2. RetryOK(r)'
  BY <1>1 DEF RetryOK
<1>3. ASSUME NEW s \in Requests, s # r
      PROVE  RetryOK(s)'
  <2>1. req'[s] = req[s] /\ refused'[s] = refused[s] /\ RetryOK(s)
    BY <1>1, <1>3 DEF RetriesOK
  <2>2. NoKey \notin refused[s]
    BY DEF KeysAssumption, KeyCustody, TypeOK
  <2>3. Refilled(req[s]) => Renewed(req[s]) \/ Retrying(req[s])
    BY DEF Refilled, Renewed
  <2>q. QED  BY <2>1, <2>2, <2>3 DEF RetryOK, Harmless
<1>q. QED  BY <1>2, <1>3 DEF RetriesOK

\* On its way out of a function.
LEMMA LeaveRetry ==
  ASSUME KeysAssumption, KeyCustody, RetriesOK, NEW r \in Requests, NEW q \in RequestRecords,
         Leave(r, q), Harmless, UNCHANGED <<row, refused>>,
         (q.healing /\ q.reply = "none") \/ q.round = 2 =>
           row \notin refused[r] /\ cache' \notin refused[r] \ stale',
         q.round = 2 => q.key \notin refused[r] \ stale'
  PROVE  RetriesOK'
<1>1. refused \in [Requests -> SUBSET Keys] /\ NoKey \notin refused[r]
  BY DEF KeysAssumption, KeyCustody, TypeOK
<1>2. CASE q.held
  <2> DEFINE x == [q EXCEPT !.pc = "unlock"]
  <2>1. /\ x.pc = "unlock" /\ x.healing = q.healing /\ x.round = q.round /\ x.key = q.key
        /\ x.reply = q.reply
    BY DEF RequestRecords
  <2>2. Become(r, x)
    BY <1>2 DEF Leave
  <2> HIDE DEF x
  <2>3. /\ Renewed(x) \/ Refilled(x) => (q.healing /\ q.reply = "none") \/ q.round = 2
        /\ Retrying(x) => q.round = 2
    BY <2>1 DEF Renewed, Refilled, Retrying
  <2>q. QED  BY <1>1, <2>1, <2>2, <2>3, RetryMove DEF Refilled
<1>3. CASE ~q.held
  <2> DEFINE x == Onward(q)
  <2>1. Become(r, x)
    BY <1>3 DEF Leave
  <2>2. /\ x.pc \in {"done", "cache", "call"} /\ ~x.healing
        /\ x.pc = "call" => x.key = q.key /\ x.round = q.round
        /\ x.pc = "cache" => x.key = NoKey /\ q.reply = "none" /\ q.healing
    BY OnwardType
  <2> HIDE DEF x
  <2>3. /\ Renewed(x) \/ Refilled(x) => (q.healing /\ q.reply = "none") \/ q.round = 2
        /\ Retrying(x) => x.key = NoKey \/ (x.key = q.key /\ q.round = 2)
    BY <2>2 DEF Renewed, Refilled, Retrying, Steps
  <2>q. QED  BY <1>1, <2>1, <2>2, <2>3, RetryMove DEF Refilled
<1>q. QED  BY <1>2, <1>3

\* What a request in its last round, or one that has renewed the key, may rely on.
LEMMA RetryFacts ==
  ASSUME KeysAssumption, KeyCustody, HealingsOK, RetriesOK, NEW r \in Requests
  PROVE  /\ RetryOK(r) /\ Heals(req[r]) /\ Healer(req[r]) /\ req[r] \in RequestRecords
         /\ refused \in [Requests -> SUBSET Keys] /\ NoKey \notin refused[r]
         /\ refused[r] \subseteq minted
         /\ Refilled(req[r]) => Renewed(req[r]) \/ Retrying(req[r])
         /\ cache \in KeyOrNone /\ row \in KeyOrNone /\ req[r].key \in KeyOrNone
         /\ Minting(req[r]) => \A s \in Requests : req[r].key \notin refused[s]
BY DEF KeysAssumption, KeyCustody, TypeOK, RetriesOK, HealingsOK, Refilled, Renewed, InOneHand, RequestRecords

\* Steps on which a request keeps its key, and is no further than it was.
LEMMA GotoRetry ==
  ASSUME KeysAssumption, KeyCustody, HealingsOK, RetriesOK, NEW r \in Requests, NEW q, Become(r, q),
         req[r].pc \in Steps, Harmless, UNCHANGED <<row, refused>>, cache' \in {cache, NoKey},
         q.round = req[r].round, q.key \in {req[r].key, row},
         q.pc = "unlock" => ~q.healing \/ q.reply # "none",
         q.pc \in {"deleteOld", "fill"} /\ q.healing => Renewed(req[r])
  PROVE  RetriesOK'
<1>1. Renewed(q) => Renewed(req[r])
  BY DEF Renewed
<1>2. Retrying(q) => Retrying(req[r])
  BY DEF Retrying
<1>3. Refilled(q) => Retrying(q)
  BY DEF Refilled
<1>q. QED  BY <1>1, <1>2, <1>3, RetryFacts, RetryMove DEF RetryOK, Refilled, Harmless

\* Reading the cache and the row, the lock, and the quiet half of a healing.
LEMMA ResolveRetry ==
  ASSUME KeysAssumption, KeyCustody, HealingsOK, RetriesOK, NEW r \in Requests,
         \/ CacheGet(r) \/ Lookup(r) \/ Recheck(r) \/ Reread(r)
         \/ Lock(r) \/ Degrade(r) \/ Evict(r) \/ ReadOld(r) \/ DeleteOld(r)
         \/ Create(r) /\ row # NoKey
  PROVE  RetriesOK'
<1>1. /\ Harmless /\ UNCHANGED <<row, refused>> /\ cache' \in {cache, NoKey} /\ req[r].pc \in Steps
  BY DEF Harmless, CacheGet, Lookup, Recheck, Reread, Lock, Degrade, Evict, ReadOld, DeleteOld, Create,
         At, Steps, stores, history
<1>2. ASSUME NEW there \in {"lookup", "lock", "sign", "reread", "readOld", "fill", "deleteOwn"},
             Goto(r, there), there = "fill" => Renewed(req[r])
      PROVE  RetriesOK'
  <2> DEFINE x == [req[r] EXCEPT !.pc = there]
  <2>1. x.pc = there /\ x.round = req[r].round /\ x.key = req[r].key
    BY RetryFacts DEF RequestRecords
  <2>2. Become(r, x)
    BY <1>2 DEF Goto
  <2> HIDE DEF x
  <2>q. QED  BY <1>1, <1>2, <2>1, <2>2, GotoRetry
<1>3. ASSUME NEW there \in {"lock", "sign", "reread"}, UseRow(r, there), ~req[r].healing
      PROVE  RetriesOK'
  <2>1. CASE row # NoKey
    <3> DEFINE x == [req[r] EXCEPT !.pc = "fill", !.key = row]
    <3>1. x.pc = "fill" /\ x.round = req[r].round /\ x.key = row /\ ~x.healing
      BY <1>3, RetryFacts DEF RequestRecords
    <3>2. Become(r, x)
      BY <1>3, <2>1 DEF UseRow
    <3> HIDE DEF x
    <3>q. QED  BY <1>1, <3>1, <3>2, GotoRetry
  <2>q. QED  BY <1>2, <1>3, <2>1 DEF UseRow
<1>4. CASE CacheGet(r)
  <2>1. CASE Leave(r, [req[r] EXCEPT !.key = cache])
    <3> DEFINE x == [req[r] EXCEPT !.key = cache]
    <3>1. /\ x \in RequestRecords /\ x.key = cache /\ x.healing = req[r].healing
          /\ x.round = req[r].round
      BY RetryFacts DEF RequestRecords
    <3>2. Leave(r, x) /\ ~req[r].healing /\ UNCHANGED <<stores, history>>
      BY <1>4, <2>1, RetryFacts DEF CacheGet, At, Heals
    <3>3. req[r].round = 2 => Retrying(req[r])
      BY <1>1 DEF Retrying
    <3> HIDE DEF x
    <3>q. QED  BY <1>1, <3>1, <3>2, <3>3, RetryFacts, LeaveRetry DEF RetryOK, Refilled, stores, history
  <2>q. QED  BY <1>2, <1>4, <2>1 DEF CacheGet
<1>5. CASE Lookup(r) \/ Recheck(r) \/ Reread(r)
  <2>1. ~req[r].healing
    BY <1>5, RetryFacts DEF Lookup, Recheck, Reread, At, Heals
  <2>q. QED  BY <1>3, <1>5, <2>1 DEF Lookup, Recheck, Reread
<1>6. CASE Lock(r) \/ Degrade(r)
  <2>1. PICK got \in BOOLEAN : Locked(r, got)
    BY <1>6 DEF Lock, Degrade
  <2> DEFINE x == [req[r] EXCEPT !.held = got, !.pc = IF req[r].healing THEN "evict" ELSE "recheck"]
  <2>2. x.pc \in {"evict", "recheck"} /\ x.round = req[r].round /\ x.key = req[r].key
    BY RetryFacts DEF RequestRecords
  <2>3. Become(r, x)
    BY <2>1 DEF Locked
  <2> HIDE DEF x
  <2>q. QED  BY <1>1, <2>2, <2>3, GotoRetry
<1>7. CASE Evict(r)
  BY <1>2, <1>7 DEF Evict
<1>8. CASE ReadOld(r)
  <2> DEFINE x == [req[r] EXCEPT !.pc = "sign", !.old = row]
  <2>1. x.pc = "sign" /\ x.round = req[r].round /\ x.key = req[r].key
    BY RetryFacts DEF RequestRecords
  <2>2. Become(r, x)
    BY <1>8 DEF ReadOld
  <2> HIDE DEF x
  <2>q. QED  BY <1>1, <2>1, <2>2, GotoRetry
<1>9. CASE DeleteOld(r)
  BY <1>2, <1>9, RetryFacts DEF DeleteOld, At, Renewed, Healer
<1>10. CASE Create(r) /\ row # NoKey
  BY <1>2, <1>10 DEF Create
<1>q. QED  BY <1>4, <1>5, <1>6, <1>7, <1>8, <1>9, <1>10

\* Signing, storing and filling the cache.
LEMMA StoreRetry ==
  ASSUME KeysAssumption, KeyCustody, HealingsOK, RetriesOK, NEW r \in Requests,
         \/ \E k \in Keys : Sign(r, k) \/ SignUnheard(r, k)
         \/ Create(r) /\ row = NoKey
         \/ Replace(r) \/ StoreUnheard(r) \/ Fill(r)
  PROVE  RetriesOK'
<1>1. ASSUME NEW k \in Keys, Sign(r, k)
      PROVE  RetriesOK'
  <2> DEFINE x == [req[r] EXCEPT !.pc = IF req[r].healing THEN "replace" ELSE "create", !.key = k]
  <2>1. x.pc \in {"create", "replace"} /\ x.round = req[r].round /\ x.key = k
    BY RetryFacts DEF RequestRecords
  <2>2. /\ Become(r, x) /\ req[r].pc \in Steps /\ k \notin refused[r]
        /\ UNCHANGED <<row, cache, refused, stale>>
    BY <1>1, RetryFacts DEF Sign, Mint, At, Steps
  <2> HIDE DEF x
  <2>3. ~Renewed(x) /\ (Retrying(x) => Retrying(req[r])) /\ (Refilled(x) => Retrying(x))
    BY <2>1, <2>2 DEF Renewed, Retrying, Refilled
  <2>q. QED  BY <2>1, <2>2, <2>3, RetryFacts, RetryMove DEF Harmless, RetryOK, Refilled
<1>2. ASSUME NEW k \in Keys, SignUnheard(r, k)
      PROVE  RetriesOK'
  <2> DEFINE p == Failed(req[r])
  <2>1. /\ p \in RequestRecords /\ p.reply # "none" /\ p.key = req[r].key
        /\ p.round = req[r].round
    BY RetryFacts DEF Failed, RequestRecords
  <2>2. Leave(r, p) /\ UNCHANGED <<row, cache, refused, stale>> /\ req[r].pc \in Steps
    BY <1>2 DEF SignUnheard, Mint, At, Steps
  <2>3. req[r].round = 2 => Retrying(req[r])
    BY <2>2 DEF Retrying
  <2> HIDE DEF p
  <2>q. QED  BY <2>1, <2>2, <2>3, RetryFacts, LeaveRetry DEF Harmless, RetryOK, Refilled
<1>3. CASE (Create(r) /\ row = NoKey) \/ Replace(r)
  <2>1. PICK there \in {"fill", "deleteOld"} : Goto(r, there)
    BY <1>3 DEF Create, Replace
  <2> DEFINE x == [req[r] EXCEPT !.pc = there]
  <2>2. x.pc \in {"fill", "deleteOld"} /\ x.round = req[r].round /\ x.key = req[r].key
    BY RetryFacts DEF RequestRecords
  <2>3. /\ Become(r, x) /\ row' = req[r].key /\ Minting(req[r]) /\ req[r].pc \in Steps
        /\ UNCHANGED <<cache, refused, stale>>
    BY <1>3, <2>1 DEF Create, Replace, Goto, At, Minting, Steps, history
  <2> HIDE DEF x
  <2>4. (Retrying(x) => Retrying(req[r])) /\ (Refilled(x) => Retrying(x))
    BY <2>2, <2>3 DEF Retrying, Refilled
  <2>q. QED  BY <2>2, <2>3, <2>4, RetryFacts, RetryMove DEF Harmless, RetryOK, Refilled
<1>4. CASE StoreUnheard(r)
  <2> DEFINE x == [Failed(req[r]) EXCEPT !.pc = "deleteOwn"]
  <2>1. x.pc = "deleteOwn" /\ x.round = req[r].round /\ x.key = req[r].key
    BY RetryFacts DEF Failed, RequestRecords
  <2>2. /\ Become(r, x) /\ row' = req[r].key /\ Minting(req[r]) /\ req[r].pc \in Steps
        /\ UNCHANGED <<cache, refused, stale>>
    BY <1>4 DEF StoreUnheard, At, Minting, Steps
  <2> HIDE DEF x
  <2>3. ~Renewed(x) /\ (Retrying(x) => Retrying(req[r])) /\ (Refilled(x) => Retrying(x))
    BY <2>1, <2>2 DEF Renewed, Retrying, Refilled
  <2>q. QED  BY <2>1, <2>2, <2>3, RetryFacts, RetryMove DEF Harmless, RetryOK, Refilled
<1>5. CASE Fill(r)
  <2>1. /\ Leave(r, req[r]) /\ req[r].pc = "fill" /\ UNCHANGED <<row, refused>>
        /\ stale \subseteq stale' /\ cache' \in {NoKey, row} \cup stale'
    BY <1>5 DEF Fill, At
  <2>2. /\ req[r].healing => Renewed(req[r])
        /\ req[r].round = 2 => Retrying(req[r])
    BY <2>1 DEF Renewed, Retrying, Steps
  <2>q. QED  BY <2>1, <2>2, RetryFacts, LeaveRetry DEF Harmless, RetryOK
<1>q. QED  BY <1>1, <1>2, <1>3, <1>4, <1>5

\* Releasing the lock, the answer of litellm, deleting a key that found no place, and
\* failures and arrivals.
LEMMA OtherRetry ==
  ASSUME KeysAssumption, KeyCustody, HealingsOK, RetriesOK, NEW r \in Requests,
         \/ Unlock(r) \/ Call(r) \/ DeleteOwn(r) \/ CallFails(r) \/ Abandon(r)
         \/ \E n \in {0, 1} : Arrive(r, n)
  PROVE  RetriesOK'
<1>1. Harmless /\ UNCHANGED <<row, cache, stale>> /\ (~Call(r) => refused' = refused)
  BY DEF Harmless, Unlock, Call, DeleteOwn, CallFails, Abandon, Arrive, stores, history
<1>2. req[r].pc \in Steps /\ req[r].round = 2 => Retrying(req[r])
  BY DEF Retrying
\* A request that is over, or that starts afresh, has nothing to rely on.
<1>3. ASSUME NEW q, Become(r, q), ~q.healing \/ q.pc = "lock", q.pc \in Over \/ q.round # 2,
             refused' \in [Requests -> SUBSET Keys],
             \A s \in Requests \ {r} : refused'[s] = refused[s]
      PROVE  RetriesOK'
  <2>1. ~Renewed(q) /\ ~Retrying(q) /\ ~Refilled(q)
    BY <1>3 DEF Renewed, Retrying, Refilled, Over, Steps
  <2>q. QED  BY <1>1, <1>3, <2>1, RetryMove
<1>4. CASE Unlock(r)
  <2> DEFINE q == [req[r] EXCEPT !.held = FALSE]
  <2>1. /\ q \in RequestRecords /\ q.healing = req[r].healing /\ q.round = req[r].round
        /\ q.key = req[r].key /\ q.reply = req[r].reply /\ ~q.held
    BY RetryFacts DEF RequestRecords
  <2>2. Become(r, Onward(q)) /\ req[r].pc = "unlock" /\ req[r].pc \in Steps /\ ~Call(r)
    BY <1>4 DEF Unlock, Call, At, Steps
  <2>3. Leave(r, q)
    BY <2>1, <2>2 DEF Leave
  <2>4. (req[r].healing /\ req[r].reply = "none") \/ req[r].round = 2 => Refilled(req[r])
    BY <1>2, <2>2 DEF Refilled
  <2> HIDE DEF q
  <2>q. QED  BY <1>1, <1>2, <2>1, <2>2, <2>3, <2>4, RetryFacts, LeaveRetry DEF RetryOK
<1>5. CASE Call(r)
  <2>1. refused' \in {refused, [refused EXCEPT ![r] = @ \cup {req[r].key}]} /\ req[r].key # NoKey
    BY <1>5 DEF Call, At, KeyCustody, TypeOK, Keyed
  <2>2. /\ refused' \in [Requests -> SUBSET Keys]
        /\ \A s \in Requests \ {r} : refused'[s] = refused[s]
    BY <2>1, RetryFacts DEF KeyOrNone
  <2>3. Healing.pc = "lock" /\ Healing.round = 1
    BY DEF Healing, Fresh
  <2>4. ASSUME NEW a \in {"served", "refused"}
        PROVE  LET q == Ended([req[r] EXCEPT !.reply = a]) IN q.pc \in Over /\ ~q.healing
    <3>1. [req[r] EXCEPT !.reply = a] \in RequestRecords  BY RetryFacts DEF RequestRecords
    <3>q. QED  BY <3>1, OnwardType DEF Over
  <2>q. QED  BY <1>3, <1>5, <2>2, <2>3, <2>4 DEF Call
<1>6. CASE DeleteOwn(r)
  <2>1. req[r].pc = "deleteOwn" /\ req[r].pc \in Steps /\ refused' = refused
    BY <1>6 DEF DeleteOwn, At, Steps
  <2>2. CASE req[r].reply = "none"
    <3> DEFINE x == [req[r] EXCEPT !.pc = "reread"]
    <3>1. x.pc = "reread" /\ x.round = req[r].round /\ x.key = req[r].key
      BY RetryFacts DEF RequestRecords
    <3>2. Become(r, x)
      BY <1>6, <2>2 DEF DeleteOwn, Goto
    <3> HIDE DEF x
    <3>q. QED  BY <1>1, <2>1, <3>1, <3>2, GotoRetry
  <2>3. CASE req[r].reply # "none"
    <3>1. Leave(r, req[r])
      BY <1>6, <2>3 DEF DeleteOwn
    <3>q. QED  BY <1>1, <1>2, <2>1, <2>3, <3>1, RetryFacts, LeaveRetry DEF RetryOK, Refilled
  <2>q. QED  BY <2>2, <2>3
<1>7. CASE CallFails(r)
  <2> DEFINE p == Failed(req[r])
  <2>1. /\ p \in RequestRecords /\ p.reply # "none" /\ p.key = req[r].key
        /\ p.round = req[r].round
    BY RetryFacts DEF Failed, RequestRecords
  <2>2. refused' = refused /\ req[r].pc \in Steps
    BY <1>7 DEF CallFails, stores, history, Steps
  <2>3. CASE Leave(r, p)
    <3> HIDE DEF p
    <3>q. QED  BY <1>1, <1>2, <2>1, <2>2, <2>3, RetryFacts, LeaveRetry DEF RetryOK, Refilled
  <2>4. CASE Become(r, [p EXCEPT !.pc = "deleteOwn"])
    <3> DEFINE x == [p EXCEPT !.pc = "deleteOwn"]
    <3>1. x.pc = "deleteOwn" /\ x.round = req[r].round /\ x.key = req[r].key
      BY <2>1 DEF RequestRecords
    <3>2. Become(r, x)
      BY <2>4
    <3> HIDE DEF x, p
    <3>q. QED  BY <1>1, <2>2, <3>1, <3>2, GotoRetry
  <2>5. CASE Become(r, Ended(p))
    <3>1. Ended(p).pc \in Over /\ ~Ended(p).healing
      BY <2>1, OnwardType DEF Over
    <3>q. QED  BY <1>3, <2>2, <2>5, <3>1, RetryFacts
  <2>q. QED  BY <1>7, <2>3, <2>4, <2>5 DEF CallFails
<1>8. CASE Abandon(r)
  <2>1. Fresh("dead", 0, FALSE).pc \in Over /\ ~Fresh("dead", 0, FALSE).healing
    BY DEF Fresh, Over
  <2>q. QED  BY <1>3, <1>8, <2>1, RetryFacts DEF Abandon
<1>9. ASSUME NEW n \in {0, 1}, Arrive(r, n)
      PROVE  RetriesOK'
  <2>1. Fresh("cache", n, FALSE).round # 2 /\ ~Fresh("cache", n, FALSE).healing
    BY DEF Fresh
  <2>q. QED  BY <1>3, <1>9, <2>1, RetryFacts DEF Arrive, history
<1>q. QED  BY <1>4, <1>5, <1>6, <1>7, <1>8, <1>9

\* Every step keeps RetriesOK.
LEMMA RetriesStep ==
  ASSUME KeysAssumption, KeyCustody, HealingsOK, RetriesOK, [Next]_vars
  PROVE  RetriesOK'
<1>1. ASSUME NEW r \in Requests, Serve(r)
      PROVE  RetriesOK'
  BY <1>1, ResolveRetry, StoreRetry, OtherRetry DEF Serve, Resolve, Heal
<1>2. ASSUME NEW r \in Requests, NEW n \in {0, 1}, Arrive(r, n)
      PROVE  RetriesOK'
  BY <1>2, OtherRetry
<1>3. ASSUME NEW r \in Requests,
             CallFails(r) \/ StoreUnheard(r) \/ Abandon(r) \/ \E k \in Keys : SignUnheard(r, k)
      PROVE  RetriesOK'
  BY <1>3, StoreRetry, OtherRetry
<1>4. CASE LockExpires \/ CacheExpires \/ (\E k \in Keys : Drop(k)) \/ UNCHANGED vars
  <2>1. UNCHANGED <<row, req, refused, stale>> /\ cache' \in {cache, NoKey}
    BY <1>4 DEF LockExpires, CacheExpires, Drop, vars, stores, history
  <2>2. \A r \in Requests : RetryOK(r)'
    BY <2>1, RetryFacts DEF RetryOK
  <2>q. QED  BY <2>2 DEF RetriesOK
<1>q. QED  BY <1>1, <1>2, <1>3, <1>4 DEF Next, Environment, Finished

\* The retry after a healing presents a key refused to it before only if a fill of the
\* cache put or left that key there while the row named another: for any number of
\* requests healing at once, early or late, and whatever fails (RevokeAndRegenerate).
THEOREM RetriesAvoidRefused == Spec => []RefusedOnlyIfStale
<1>1. Init => HealingsOK /\ RetriesOK
  BY DEF Init, HealingsOK, RetriesOK, RetryOK, Renewed, Retrying, Refilled, Idle, Fresh, Heals, Unhealed,
         Outrun, At, Steps
<1>2. KeyCustody /\ HealingsOK /\ RetriesOK /\ [Next]_vars => HealingsOK' /\ RetriesOK'
  BY HealingsStep, RetriesStep, KeysAssumption
<1>3. RetriesOK => RefusedOnlyIfStale
  BY DEF RetriesOK, RetryOK, RefusedOnlyIfStale, Retrying, At, Steps
<1>q. QED  BY <1>1, <1>2, <1>3, CustodyHolds, PTL DEF Spec
-----------------------------------------------------------------------------
(* What a healing may replace.                                             *)

\* The row still has the key that the user got first, which no healing signed.
FirstKey == row # NoKey /\ \A s \in Requests : healed[s] # row

\* A request that has been given a key to go upstream with.
Serves(q) == q.pc \in {"fill", "call"} \/ (q.pc = "unlock" /\ q.reply = "none")

\* Until a healing replaces it, the first key is the only one there is to use, and
\* whoever heals was refused that very key.
Loyal(r) ==
  /\ ~Renewed(req[r])
  /\ Serves(req[r]) => req[r].key = row
  /\ req[r].healing => row \in refused[r]

FirstOK == FirstKey => cache \in {row, NoKey} /\ \A r \in Requests : Loyal(r)

\* What a request knows while the first key stands.
LEMMA FirstFacts ==
  ASSUME KeyCustody, HealingsOK, FirstOK, NEW r \in Requests
  PROVE  /\ req[r] \in RequestRecords /\ Heals(req[r]) /\ Healer(req[r])
         /\ refused \in [Requests -> SUBSET Keys] /\ healed \in [Requests -> KeyOrNone]
         /\ cache \in KeyOrNone /\ row \in KeyOrNone
         /\ FirstKey => Loyal(r) /\ cache \in {row, NoKey}
BY DEF KeyCustody, TypeOK, HealingsOK, FirstOK

\* A step of one request is judged by what it leaves that request with.
LEMMA FirstMove ==
  ASSUME KeyCustody, FirstOK, NEW r \in Requests, NEW q, Become(r, q), UNCHANGED row,
         FirstKey' => FirstKey, FirstKey => cache' \in {cache, row, NoKey},
         \A s \in Requests : refused[s] \subseteq refused'[s],
         FirstKey => /\ ~Renewed(q)
                     /\ Serves(q) => q.key = row
                     /\ q.healing => row \in refused'[r]
  PROVE  FirstOK'
<1> SUFFICES ASSUME FirstKey' PROVE (cache \in {row, NoKey} /\ \A s \in Requests : Loyal(s))'
  BY DEF FirstOK
<1>1. req'[r] = q /\ \A s \in Requests : s # r => req'[s] = req[s]
  BY DEF Become, KeyCustody, TypeOK
<1>2. FirstKey /\ cache \in {row, NoKey} /\ \A s \in Requests : Loyal(s)
  BY DEF FirstOK
<1>3. cache' \in {row', NoKey}
  BY <1>2
<1>4. ASSUME NEW s \in Requests
      PROVE  Loyal(s)'
  <2>1. CASE s = r
    BY <1>1, <1>2, <2>1 DEF Loyal
  <2>2. CASE s # r
    BY <1>1, <1>2, <2>2 DEF Loyal
  <2>q. QED  BY <2>1, <2>2
<1>q. QED  BY <1>3, <1>4

\* A step that leaves the row, the healings and the refusals alone.
Steady == UNCHANGED <<row, healed, refused>>

\* A request that goes on, with the key it has or with the row's.
LEMMA GotoFirst ==
  ASSUME KeyCustody, HealingsOK, FirstOK, NEW r \in Requests, NEW q, Become(r, q), Steady,
         FirstKey => cache' \in {cache, row, NoKey},
         q.healing = req[r].healing,
         q.pc \in {"deleteOld", "fill"} => ~q.healing /\ q.key = row,
         q.pc \notin {"call", "unlock"}
  PROVE  FirstOK'
<1>1. FirstKey' => FirstKey
  BY DEF FirstKey, Steady
<1>2. FirstKey => /\ ~Renewed(q)
                  /\ Serves(q) => q.key = row
                  /\ q.healing => row \in refused'[r]
  BY FirstFacts DEF Renewed, Serves, Loyal, Steady
<1>q. QED  BY <1>1, <1>2, FirstMove DEF Steady

\* On its way out of a function.
LEMMA LeaveFirst ==
  ASSUME KeyCustody, HealingsOK, FirstOK, NEW r \in Requests, NEW q \in RequestRecords,
         Leave(r, q), UNCHANGED <<row, refused>>, FirstKey' => FirstKey,
         FirstKey => cache' \in {cache, row, NoKey},
         q.healing = req[r].healing,
         FirstKey /\ q.reply = "none" => q.key = row /\ ~q.healing
  PROVE  FirstOK'
<1>1. CASE q.held
  <2> DEFINE x == [q EXCEPT !.pc = "unlock"]
  <2>1. x.pc = "unlock" /\ x.healing = q.healing /\ x.key = q.key /\ x.reply = q.reply
    BY DEF RequestRecords
  <2>2. Become(r, x)
    BY <1>1 DEF Leave
  <2> HIDE DEF x
  <2>3. FirstKey => /\ ~Renewed(x)
                    /\ Serves(x) => x.key = row
                    /\ x.healing => row \in refused'[r]
    BY <2>1, FirstFacts DEF Renewed, Serves, Loyal
  <2>q. QED  BY <2>2, <2>3, FirstMove
<1>2. CASE ~q.held
  <2> DEFINE x == Onward(q)
  <2>1. Become(r, x)
    BY <1>2 DEF Leave
  <2>2. /\ x.pc \in {"done", "cache", "call"} /\ ~x.healing
        /\ x.pc = "call" => x.key = q.key /\ q.reply = "none"
    BY OnwardType
  <2> HIDE DEF x
  <2>3. FirstKey => /\ ~Renewed(x)
                    /\ Serves(x) => x.key = row
                    /\ x.healing => row \in refused'[r]
    BY <2>2 DEF Renewed, Serves
  <2>q. QED  BY <2>1, <2>3, FirstMove
<1>q. QED  BY <1>1, <1>2

\* Reading the cache and the row, the lock, and a healing before it signs.
LEMMA ResolveFirst ==
  ASSUME KeyCustody, HealingsOK, FirstOK, NEW r \in Requests,
         \/ CacheGet(r) \/ Lookup(r) \/ Recheck(r) \/ Reread(r) \/ Fill(r)
         \/ Lock(r) \/ Degrade(r) \/ Evict(r) \/ ReadOld(r)
  PROVE  FirstOK'
<1>1. Steady /\ (FirstKey' => FirstKey)
  BY DEF Steady, FirstKey, CacheGet, Lookup, Recheck, Reread, Fill, Lock, Degrade, Evict, ReadOld,
         stores, history
<1>2. ASSUME NEW there \in {"lookup", "lock", "sign", "reread", "readOld"}, Goto(r, there),
             cache' \in {cache, NoKey}
      PROVE  FirstOK'
  <2> DEFINE x == [req[r] EXCEPT !.pc = there]
  <2>1. x.pc = there /\ x.healing = req[r].healing
    BY FirstFacts DEF RequestRecords
  <2>2. Become(r, x)
    BY <1>2 DEF Goto
  <2> HIDE DEF x
  <2>q. QED  BY <1>1, <1>2, <2>1, <2>2, GotoFirst
<1>3. CASE CacheGet(r)
  <2>1. UNCHANGED <<row, cache, refused>> /\ ~req[r].healing
    BY <1>3, FirstFacts DEF CacheGet, stores, history, At, Heals
  <2>2. CASE cache # NoKey /\ Leave(r, [req[r] EXCEPT !.key = cache])
    <3> DEFINE x == [req[r] EXCEPT !.key = cache]
    <3>1. x \in RequestRecords /\ x.key = cache /\ x.healing = req[r].healing
      BY FirstFacts DEF RequestRecords
    <3>2. Leave(r, x)
      BY <2>2
    <3> HIDE DEF x
    <3>3. FirstKey => x.key = row
      BY <2>2, <3>1, FirstFacts
    <3>q. QED  BY <1>1, <2>1, <3>1, <3>2, <3>3, LeaveFirst
  <2>q. QED  BY <1>2, <1>3, <2>1, <2>2 DEF CacheGet
<1>4. CASE Lookup(r) \/ Recheck(r) \/ Reread(r)
  <2>1. /\ ~req[r].healing /\ UNCHANGED cache
        /\ \E there \in {"lock", "sign", "reread"} : UseRow(r, there)
    BY <1>4, FirstFacts DEF Lookup, Recheck, Reread, At, Heals, stores
  <2>2. CASE row # NoKey
    <3> DEFINE x == [req[r] EXCEPT !.pc = "fill", !.key = row]
    <3>1. x.pc = "fill" /\ x.key = row /\ x.healing = req[r].healing
      BY FirstFacts DEF RequestRecords
    <3>2. Become(r, x)
      BY <2>1, <2>2 DEF UseRow
    <3> HIDE DEF x
    <3>q. QED  BY <1>1, <2>1, <3>1, <3>2, GotoFirst
  <2>q. QED  BY <1>2, <2>1, <2>2 DEF UseRow
<1>5. CASE Fill(r)
  <2>1. req[r].pc = "fill" /\ Leave(r, req[r]) /\ cache' \in {cache, req[r].key}
    BY <1>5 DEF Fill, At
  <2>2. FirstKey => req[r].key = row /\ ~req[r].healing
    BY <2>1, FirstFacts DEF Loyal, Serves, Renewed
  <2>q. QED  BY <1>1, <2>1, <2>2, FirstFacts, LeaveFirst DEF Steady
<1>6. CASE Lock(r) \/ Degrade(r)
  <2>1. PICK got \in BOOLEAN : Locked(r, got) /\ UNCHANGED cache
    BY <1>6 DEF Lock, Degrade
  <2> DEFINE x == [req[r] EXCEPT !.held = got, !.pc = IF req[r].healing THEN "evict" ELSE "recheck"]
  <2>2. x.pc \in {"evict", "recheck"} /\ x.healing = req[r].healing
    BY FirstFacts DEF RequestRecords
  <2>3. Become(r, x)
    BY <2>1 DEF Locked
  <2> HIDE DEF x
  <2>q. QED  BY <1>1, <2>1, <2>2, <2>3, GotoFirst
<1>7. CASE Evict(r)
  BY <1>2, <1>7 DEF Evict
<1>8. CASE ReadOld(r)
  <2> DEFINE x == [req[r] EXCEPT !.pc = "sign", !.old = row]
  <2>1. x.pc = "sign" /\ x.healing = req[r].healing
    BY FirstFacts DEF RequestRecords
  <2>2. Become(r, x) /\ UNCHANGED cache
    BY <1>8 DEF ReadOld, stores
  <2> HIDE DEF x
  <2>q. QED  BY <1>1, <2>1, <2>2, GotoFirst
<1>q. QED  BY <1>3, <1>4, <1>5, <1>6, <1>7, <1>8

\* What signing changes.
LEMMA SignMoves ==
  ASSUME NEW r \in Requests, NEW k \in Keys, Sign(r, k)
  PROVE  /\ Become(r, [req[r] EXCEPT !.pc = IF req[r].healing THEN "replace" ELSE "create", !.key = k])
         /\ At(r, "sign") /\ UNCHANGED <<row, cache, refused>>
         /\ healed' \in {healed, [healed EXCEPT ![r] = k]} /\ (healed' # healed => req[r].healing)
<1> DEFINE q == [req[r] EXCEPT !.pc = IF req[r].healing THEN "replace" ELSE "create", !.key = k]
<1>1. Become(r, q)
  BY DEF Sign
<1>2. At(r, "sign") /\ UNCHANGED <<row, cache, refused>>
  BY DEF Sign, Mint
<1>3. healed' = IF req[r].healing THEN [healed EXCEPT ![r] = k] ELSE healed
  BY DEF Sign
<1> HIDE DEF q
<1>4. healed' \in {healed, [healed EXCEPT ![r] = k]} /\ (healed' # healed => req[r].healing)
  BY <1>3
<1>q. QED  BY <1>1, <1>2, <1>4 DEF q

\* Signing, storing, and what a healing does after it.
LEMMA StoreFirst ==
  ASSUME KeyCustody, HealingsOK, FirstOK, NEW r \in Requests,
         \/ \E k \in Keys : Sign(r, k) \/ SignUnheard(r, k)
         \/ Create(r) \/ Replace(r) \/ StoreUnheard(r) \/ DeleteOld(r)
  PROVE  FirstOK'
<1>1. ASSUME NEW k \in Keys, Sign(r, k)
      PROVE  FirstOK'
  <2> DEFINE x == [req[r] EXCEPT !.pc = IF req[r].healing THEN "replace" ELSE "create", !.key = k]
  <2>1. x.pc \in {"create", "replace"} /\ x.healing = req[r].healing
    BY FirstFacts DEF RequestRecords
  <2>2. /\ Become(r, x) /\ At(r, "sign") /\ UNCHANGED <<row, cache, refused>>
        /\ healed' \in {healed, [healed EXCEPT ![r] = k]} /\ (healed' # healed => req[r].healing)
    BY <1>1, SignMoves
  <2>3. req[r].healing => healed[r] = NoKey
    BY <2>2 DEF HealingsOK, Unhealed, At
  <2>4. FirstKey' => FirstKey
    BY <2>2, <2>3, FirstFacts DEF FirstKey
  <2> HIDE DEF x
  <2>5. FirstKey => ~Renewed(x) /\ ~Serves(x) /\ (x.healing => row \in refused'[r])
    BY <2>1, <2>2, FirstFacts DEF Renewed, Serves, Loyal
  <2>q. QED  BY <2>2, <2>4, <2>5, FirstMove
<1>2. ASSUME NEW k \in Keys, SignUnheard(r, k)
      PROVE  FirstOK'
  <2> DEFINE p == Failed(req[r])
  <2>1. p \in RequestRecords /\ p.reply # "none" /\ p.healing = req[r].healing
    BY FirstFacts DEF Failed, RequestRecords
  <2>2. Leave(r, p) /\ UNCHANGED <<row, cache, refused, healed>>
    BY <1>2 DEF SignUnheard, Mint
  <2>3. FirstKey' => FirstKey
    BY <2>2 DEF FirstKey
  <2> HIDE DEF p
  <2>q. QED  BY <2>1, <2>2, <2>3, LeaveFirst
<1>3. CASE Create(r) /\ row # NoKey
  <2> DEFINE x == [req[r] EXCEPT !.pc = "deleteOwn"]
  <2>1. x.pc = "deleteOwn" /\ x.healing = req[r].healing
    BY FirstFacts DEF RequestRecords
  <2>2. Become(r, x) /\ UNCHANGED cache /\ Steady
    BY <1>3 DEF Create, Goto, Steady, history
  <2> HIDE DEF x
  <2>q. QED  BY <2>1, <2>2, GotoFirst
\* The first key is stored: nobody has another.
<1>4. ASSUME NEW q, Become(r, q), row = NoKey, row' = req[r].key, Minting(req[r]),
             UNCHANGED <<cache, refused>>, q.key = req[r].key, ~q.healing
      PROVE  FirstOK'
  <2>1. req'[r] = q /\ \A s \in Requests : s # r => req'[s] = req[s]
    BY <1>4 DEF Become, KeyCustody, TypeOK
  <2>2. cache = NoKey /\ \A s \in Requests : ~HandedOut(req[s])
    BY <1>4 DEF KeyCustody
  <2>3. ASSUME NEW s \in Requests
        PROVE  Loyal(s)'
    BY <1>4, <2>1, <2>2 DEF Loyal, Renewed, Serves, HandedOut
  <2>q. QED  BY <1>4, <2>2, <2>3 DEF FirstOK
<1>5. CASE Create(r) /\ row = NoKey
  <2> DEFINE x == [req[r] EXCEPT !.pc = "fill"]
  <2>1. x.key = req[r].key /\ x.healing = req[r].healing
    BY FirstFacts DEF RequestRecords
  <2>2. Become(r, x) /\ row' = req[r].key /\ Minting(req[r]) /\ UNCHANGED <<cache, refused>>
    BY <1>5 DEF Create, Goto, At, Minting, history
  <2>3. ~req[r].healing
    BY <1>5 DEF KeyCustody, HandedOut
  <2> HIDE DEF x
  <2>q. QED  BY <1>4, <1>5, <2>1, <2>2, <2>3
\* A healing has stored its key: the first one is gone.
<1>6. ASSUME At(r, "replace"), row' = req[r].key, UNCHANGED healed
      PROVE  FirstOK'
  <2>1. healed'[r] = row'
    BY <1>6 DEF HealingsOK
  <2>q. QED  BY <2>1 DEF FirstOK, FirstKey
<1>7. CASE Replace(r)
  BY <1>6, <1>7 DEF Replace, history
<1>8. CASE StoreUnheard(r)
  <2>1. row' = req[r].key /\ UNCHANGED <<cache, healed, refused>>
    BY <1>8 DEF StoreUnheard
  <2>2. CASE At(r, "create") /\ row = NoKey
    <3> DEFINE x == [Failed(req[r]) EXCEPT !.pc = "deleteOwn"]
    <3>1. x.key = req[r].key /\ x.healing = req[r].healing
      BY FirstFacts DEF Failed, RequestRecords
    <3>2. Become(r, x) /\ Minting(req[r])
      BY <1>8, <2>2 DEF StoreUnheard, At, Minting
    <3>3. ~req[r].healing
      BY <2>2 DEF KeyCustody, HandedOut
    <3> HIDE DEF x
    <3>q. QED  BY <1>4, <2>1, <2>2, <3>1, <3>2, <3>3
  <2>q. QED  BY <1>6, <1>8, <2>1, <2>2 DEF StoreUnheard
<1>9. CASE DeleteOld(r)
  <2>1. ~FirstKey
    BY <1>9, FirstFacts DEF DeleteOld, At, Loyal, Renewed, Healer
  <2>2. UNCHANGED <<row, healed>>
    BY <1>9 DEF DeleteOld
  <2>q. QED  BY <2>1, <2>2 DEF FirstOK, FirstKey
<1>q. QED  BY <1>1, <1>2, <1>3, <1>5, <1>7, <1>8, <1>9

\* Releasing the lock, the answer of litellm, deleting a key that found no place, and
\* failures and arrivals.
LEMMA OtherFirst ==
  ASSUME KeyCustody, HealingsOK, FirstOK, NEW r \in Requests,
         \/ Unlock(r) \/ Call(r) \/ DeleteOwn(r) \/ CallFails(r) \/ Abandon(r)
         \/ \E n \in {0, 1} : Arrive(r, n)
  PROVE  FirstOK'
<1>1. UNCHANGED <<row, cache, healed>> /\ (~Call(r) => refused' = refused)
  BY DEF Unlock, Call, DeleteOwn, CallFails, Abandon, Arrive, stores, history
<1>2. FirstKey' => FirstKey
  BY <1>1 DEF FirstKey
\* A request that is over, or that has only arrived.
<1>3. ASSUME NEW q, Become(r, q), q.pc \in Over \cup {"cache"}, ~q.healing,
             \A s \in Requests : refused[s] \subseteq refused'[s]
      PROVE  FirstOK'
  <2>1. ~Renewed(q) /\ ~Serves(q)
    BY <1>3 DEF Renewed, Serves, Over
  <2>q. QED  BY <1>1, <1>2, <1>3, <2>1, FirstMove
<1>4. CASE Unlock(r)
  <2> DEFINE q == [req[r] EXCEPT !.held = FALSE]
  <2>1. /\ q \in RequestRecords /\ q.healing = req[r].healing /\ q.key = req[r].key
        /\ q.reply = req[r].reply /\ ~q.held
    BY FirstFacts DEF RequestRecords
  <2>2. Become(r, Onward(q)) /\ req[r].pc = "unlock" /\ refused' = refused
    BY <1>4 DEF Unlock, At, history
  <2>3. Leave(r, q)
    BY <2>1, <2>2 DEF Leave
  <2>4. FirstKey /\ req[r].reply = "none" => req[r].key = row /\ ~req[r].healing
    BY <2>2, FirstFacts DEF Loyal, Serves, Renewed
  <2> HIDE DEF q
  <2>q. QED  BY <1>1, <1>2, <2>1, <2>2, <2>3, <2>4, LeaveFirst
<1>5. CASE Call(r)
  <2>1. req[r].pc = "call" /\ refused' \in {refused, [refused EXCEPT ![r] = @ \cup {req[r].key}]}
    BY <1>5 DEF Call, At
  <2>2. \A s \in Requests : refused[s] \subseteq refused'[s]
    BY <2>1, FirstFacts
  <2>3. ASSUME NEW a \in {"served", "refused"}, Become(r, Ended([req[r] EXCEPT !.reply = a]))
        PROVE  FirstOK'
    <3>1. [req[r] EXCEPT !.reply = a] \in RequestRecords  BY FirstFacts DEF RequestRecords
    <3>2. LET q == Ended([req[r] EXCEPT !.reply = a]) IN q.pc \in Over /\ ~q.healing
      BY <3>1, OnwardType DEF Over
    <3>q. QED  BY <1>3, <2>2, <2>3, <3>2
  <2>4. CASE Become(r, Healing) /\ refused' = [refused EXCEPT ![r] = @ \cup {req[r].key}]
    <3>1. Healing.pc = "lock" /\ ~Renewed(Healing) /\ ~Serves(Healing)
      BY DEF Healing, Fresh, Renewed, Serves
    <3>2. FirstKey => row \in refused'[r]
      BY <2>1, <2>4, FirstFacts DEF Loyal, Serves
    <3>q. QED  BY <1>1, <1>2, <2>2, <2>4, <3>1, <3>2, FirstMove
  <2>q. QED  BY <1>5, <2>3, <2>4 DEF Call
<1>6. CASE DeleteOwn(r)
  <2>1. req[r].pc = "deleteOwn" /\ refused' = refused /\ Steady
    BY <1>1, <1>6 DEF DeleteOwn, At, Steady
  <2>2. CASE req[r].reply = "none"
    <3> DEFINE x == [req[r] EXCEPT !.pc = "reread"]
    <3>1. x.pc = "reread" /\ x.healing = req[r].healing
      BY FirstFacts DEF RequestRecords
    <3>2. Become(r, x)
      BY <1>6, <2>2 DEF DeleteOwn, Goto
    <3> HIDE DEF x
    <3>q. QED  BY <1>1, <2>1, <3>1, <3>2, GotoFirst
  <2>3. CASE req[r].reply # "none"
    <3>1. Leave(r, req[r])
      BY <1>6, <2>3 DEF DeleteOwn
    <3>q. QED  BY <1>1, <1>2, <2>1, <2>3, <3>1, FirstFacts, LeaveFirst
  <2>q. QED  BY <2>2, <2>3
<1>7. CASE CallFails(r)
  <2> DEFINE p == Failed(req[r])
  <2>1. p \in RequestRecords /\ p.reply # "none" /\ p.healing = req[r].healing
    BY FirstFacts DEF Failed, RequestRecords
  <2>2. refused' = refused /\ Steady
    BY <1>1, <1>7 DEF CallFails, stores, history, Steady
  <2>3. CASE Leave(r, p)
    <3> HIDE DEF p
    <3>q. QED  BY <1>1, <1>2, <2>1, <2>2, <2>3, LeaveFirst
  <2>4. CASE Become(r, [p EXCEPT !.pc = "deleteOwn"])
    <3> DEFINE x == [p EXCEPT !.pc = "deleteOwn"]
    <3>1. x.pc = "deleteOwn" /\ x.healing = req[r].healing
      BY <2>1 DEF RequestRecords
    <3>2. Become(r, x)
      BY <2>4
    <3> HIDE DEF x, p
    <3>q. QED  BY <1>1, <2>2, <3>1, <3>2, GotoFirst
  <2>5. CASE Become(r, Ended(p))
    <3>1. Ended(p).pc \in Over /\ ~Ended(p).healing
      BY <2>1, OnwardType DEF Over
    <3>q. QED  BY <1>3, <2>2, <2>5, <3>1
  <2>q. QED  BY <1>7, <2>3, <2>4, <2>5 DEF CallFails
<1>8. CASE Abandon(r)
  <2>1. /\ Become(r, Fresh("dead", 0, FALSE)) /\ refused' = refused
        /\ Fresh("dead", 0, FALSE).pc \in Over /\ ~Fresh("dead", 0, FALSE).healing
    BY <1>8 DEF Abandon, Fresh, Over
  <2>q. QED  BY <1>3, <2>1
<1>9. ASSUME NEW n \in {0, 1}, Arrive(r, n)
      PROVE  FirstOK'
  <2>1. /\ Become(r, Fresh("cache", n, FALSE)) /\ refused' = refused
        /\ Fresh("cache", n, FALSE).pc = "cache" /\ ~Fresh("cache", n, FALSE).healing
    BY <1>9 DEF Arrive, Fresh, history
  <2>q. QED  BY <1>3, <2>1
<1>q. QED  BY <1>4, <1>5, <1>6, <1>7, <1>8, <1>9

\* Every step keeps FirstOK.
LEMMA FirstStep ==
  ASSUME KeyCustody, HealingsOK, FirstOK, [Next]_vars
  PROVE  FirstOK'
<1>1. ASSUME NEW r \in Requests, Serve(r)
      PROVE  FirstOK'
  BY <1>1, ResolveFirst, StoreFirst, OtherFirst DEF Serve, Resolve, Heal
<1>2. ASSUME NEW r \in Requests, NEW n \in {0, 1}, Arrive(r, n)
      PROVE  FirstOK'
  BY <1>2, OtherFirst
<1>3. ASSUME NEW r \in Requests,
             CallFails(r) \/ StoreUnheard(r) \/ Abandon(r) \/ \E k \in Keys : SignUnheard(r, k)
      PROVE  FirstOK'
  BY <1>3, StoreFirst, OtherFirst
<1>4. CASE LockExpires \/ CacheExpires \/ (\E k \in Keys : Drop(k)) \/ UNCHANGED vars
  <2>1. UNCHANGED <<row, req, refused, healed>> /\ cache' \in {cache, NoKey}
    BY <1>4 DEF LockExpires, CacheExpires, Drop, vars, stores, history
  <2>2. (FirstKey' => FirstKey) /\ \A r \in Requests : Loyal(r)' <=> Loyal(r)
    BY <2>1 DEF FirstKey, Loyal
  <2>q. QED  BY <2>1, <2>2 DEF FirstOK
<1>q. QED  BY <1>1, <1>2, <1>3, <1>4 DEF Next, Environment, Finished

\* A step that overwrites the key in the row stores the key of a healing that was
\* refused the key it replaces, or comes after another healing's.
LEMMA ReplaceStep ==
  ASSUME KeyCustody, HealingsOK, FirstOK, [Next]_vars, row' # row, row # NoKey
  PROVE  \E r \in Requests :
           /\ healed[r] = row'
           /\ row \in refused[r] \/ \E s \in Requests \ {r} : healed[s] = row
<1>1. PICK r \in Requests : At(r, "replace") /\ row' = req[r].key
  <2>1. PICK r \in Requests : Replace(r) \/ StoreUnheard(r)
    BY ServeCases DEF Sign
  <2>q. QED  BY <2>1 DEF Replace, StoreUnheard
<1>2. healed[r] = row' /\ req[r].healing
  BY <1>1, FirstFacts DEF HealingsOK, Healer, At
<1>3. CASE FirstKey
  BY <1>2, <1>3, FirstFacts DEF Loyal
<1>4. CASE ~FirstKey
  BY <1>2, <1>4 DEF FirstKey
<1>q. QED  BY <1>2, <1>3, <1>4

\* A healing rotates away only the key that was refused to it, or the key of another
\* healing: a user's first key is not lost to a healing that was not about it, for any
\* number of requests and any failures (RevokeAndRegenerate).
THEOREM FirstKeysStand == Spec => OnlyRefusedReplaced
<1>1. Init => HealingsOK /\ FirstOK
  BY DEF Init, HealingsOK, FirstOK, FirstKey, Idle, Fresh, Heals, Unhealed, Outrun, At, Steps
<1>2. KeyCustody /\ HealingsOK /\ FirstOK /\ [Next]_vars => HealingsOK' /\ FirstOK'
  BY HealingsStep, FirstStep, KeysAssumption
<1>3. KeyCustody /\ HealingsOK /\ FirstOK /\ [Next]_vars =>
        [row' = row \/ row = NoKey \/
           \E r \in Requests :
             /\ healed[r] = row'
             /\ row \in refused[r] \/ \E s \in Requests \ {r} : healed[s] = row]_vars
  BY ReplaceStep
<1>q. QED  BY <1>1, <1>2, <1>3, CustodyHolds, PTL DEF Spec, OnlyRefusedReplaced

=============================================================================
