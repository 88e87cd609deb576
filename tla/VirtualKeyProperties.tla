------------------------- MODULE VirtualKeyProperties -------------------------
(* What VirtualKey is checked for. *)
EXTENDS VirtualKey

KeyOrNone == Keys \cup {NoKey}

RequestRecords ==
  [pc : {"new"} \cup Steps \cup Over, round : 0..2, healing : BOOLEAN, key : KeyOrNone,
   old : KeyOrNone, held : BOOLEAN, reply : {"none", "served", "refused", "unavailable"}]

\* A request that has something to hand on, store or delete has a key for it.
Keyed(q) ==
  /\ q.pc \in {"create", "replace", "deleteOwn", "deleteOld", "fill", "call"} => q.key # NoKey
  /\ q.pc = "unlock" /\ q.reply = "none" => q.key # NoKey

\* Every variable ranges over what the code can store, and no request acts on
\* a key that it has not got.
TypeOK ==
  /\ row \in KeyOrNone /\ cache \in KeyOrNone /\ lock \in BOOLEAN
  /\ live \subseteq minted /\ minted \subseteq Keys
  /\ deleted \subseteq minted /\ astray \subseteq Keys /\ stale \subseteq Keys
  /\ refused \in [Requests -> SUBSET Keys] /\ healed \in [Requests -> KeyOrNone]
  /\ req \in [Requests -> RequestRecords]
  /\ \A r \in Requests : Keyed(req[r])

\* The gateway deletes upstream the key that the user's row names (deleteOrphan,
\* RevokeAndRegenerate) only if it does not know that it is the row's: the write that
\* stored it reported an error after the commit.  Whatever else fails, lapses, races
\* or dies does not get it deleted.
OnlyAstrayDeleted == row \in deleted => row \in astray

\* Keys just signed, and requests that heal or that hold a key handed out.
Unstored(q) == q.pc \in {"create", "replace", "deleteOwn"}

Healer(q) ==
  /\ q.pc \in {"evict", "readOld", "replace", "deleteOld"} => q.healing
  /\ q.pc = "recheck" => ~q.healing
  /\ q.pc \in {"sign", "replace", "deleteOld"} /\ q.healing => q.old # NoKey

HandedOut(q) ==
  \/ q.healing
  \/ q.pc \in {"fill", "call"}
  \/ q.pc = "unlock" /\ q.reply = "none"

\* A request that has just signed a key and not tried to store it yet.
Minting(q) == q.pc \in {"create", "replace"}

InOneHand(r) ==
  LET k == req[r].key IN
  /\ Unstored(req[r]) => k # row \/ k \in astray
  /\ Minting(req[r]) =>
       /\ k \notin deleted \cup {row, cache}
       /\ \A s \in Requests : req[s].old # k /\ k \notin refused[s] /\ (s # r => req[s].key # k)

\* The inductive invariant behind OnlyAstrayDeleted.  Until a key just signed is
\* stored, nobody but its signer has it: it is not in the row or the cache, nobody
\* took it for an old one or presented it.  An old key about to be deleted has left
\* the row for good.  Whoever heals knows an old key, for no key is handed out
\* before the row holds one.
KeyCustody ==
  /\ TypeOK
  /\ OnlyAstrayDeleted
  /\ row = NoKey => cache = NoKey
  /\ {row, cache} \subseteq minted \cup {NoKey}
  /\ \A r \in Requests :
       /\ Healer(req[r])
       /\ row = NoKey => ~HandedOut(req[r])
       /\ {req[r].key, req[r].old} \subseteq minted \cup {NoKey}
       /\ refused[r] \subseteq minted
       /\ At(r, "deleteOld") => req[r].old # row
       /\ InOneHand(r)

\* A key is in the row, or a request has it in hand to store or delete it.
Accounted(k) == k = row \/ \E r \in Requests : k \in InCharge(r)

Overhealed(k) ==
  \E r, s \in Requests : r # s /\ healed[r] = k /\ healed[s] # NoKey

\* A key is forgotten for one of three reasons only, also when requests race for
\* the first one without the lock: a call about it failed, the instance that had it
\* in hand died, or it is a healing's and another healing replaced it.
NoOrphans == \A k \in live : Accounted(k) \/ k \in astray \/ Overhealed(k)

\* A healing rotates away the key that was refused to it, or, coming late, one that
\* another healing signed: never a first key that serves the user's other requests.
OnlyRefusedReplaced ==
  [][row' = row \/ row = NoKey \/
       \E r \in Requests :
         /\ healed[r] = row'
         /\ row \in refused[r] \/ \E s \in Requests \ {r} : healed[s] = row]_vars

\* The retry after a healing goes out with a key refused before only if somebody read
\* the row before the healing and filled the cache after it, or a cache could not be
\* overwritten.  Neither the row nor a healing ever gives the refused key back.
RefusedOnlyIfStale ==
  \A r \in Requests :
    At(r, "call") /\ req[r].round = 2 => req[r].key \notin refused[r] \ stale

\* Every proxied call and every eager provisioning comes to an end: it heals
\* once, waits for the lock for a while and goes on without it.
EveryRequestEnds == \A r \in Requests : req[r].pc \in Steps ~> req[r].pc \in Over
=============================================================================
