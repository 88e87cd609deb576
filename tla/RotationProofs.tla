---------------------------- MODULE RotationProofs ----------------------------
(***************************************************************************)
(* Proofs about RefreshRotation, for any set of devices, tokens, requests  *)
(* and any environment events, but for the lapse of a lock in one theorem: *)
(* lines of tokens, what revocation ends, and the abstract lineage that    *)
(* all of it implements.                                                   *)
(***************************************************************************)
EXTENDS RotationProperties, TLAPS

-----------------------------------------------------------------------------
(* What requests are told. *)

\* The fixed answers are replies that are neither empty nor a pair.
LEMMA Answers ==
  /\ \A a \in {InvalidGrant, ServerError, NotFound, NoContent} :
       a \in Replies /\ a.kind # "none" /\ a.kind # "pair"
  /\ None \in Replies /\ None.kind = "none"
BY DEF InvalidGrant, ServerError, NotFound, NoContent, None, Answer, Replies, Kinds

\* A pair is a reply that carries its refresh token.
LEMMA Pairs ==
  ASSUME NEW t \in Tokens \cup {NoToken}, NEW v \in Nat
  PROVE  /\ Pair(t, v) \in Replies
         /\ Pair(t, v).kind = "pair"
         /\ Pair(t, v).rt = t
         /\ Pair(t, v).ver = v
BY DEF Pair, Replies, Kinds

-----------------------------------------------------------------------------
(* Type correctness: first the moves that end or continue a request. *)

\* A request that is answered at once keeps well-typed locals.
LEMMA FinishType ==
  ASSUME LocalsOK, NEW r \in Requests, NEW a \in Replies, a.kind # "none",
         Finish(r, a), UNCHANGED rt,
         target' \in [Requests -> Devices \cup {NoDevice}]
  PROVE  LocalsOK'
BY DEF LocalsOK, Finish, Over

\* So does one whose answer waits for the release of its lock.
LEMMA UnlockType ==
  ASSUME LocalsOK, NEW r \in Requests, NEW a \in Replies,
         Unlock(r, a), UNCHANGED rt,
         target' \in [Requests -> Devices \cup {NoDevice}]
  PROVE  LocalsOK'
BY DEF LocalsOK, Unlock, Serving, Locked

\* So does one that moves on without an answer.
LEMMA GotoType ==
  ASSUME LocalsOK, NEW r \in Requests, NEW l \in Serving, Goto(r, l), UNCHANGED reply,
         rt' \in [Requests -> Tokens \cup Guesses \cup {NoToken}],
         seen' \in [Requests -> Nat],
         fresh' \in [Requests -> Tokens \cup {NoToken}],
         target' \in [Requests -> Devices \cup {NoDevice}]
  PROVE  LocalsOK'
BY DEF LocalsOK, Goto, Serving, Locked

\* Where a request's target and token lie, by program counter.
LEMMA Bearings ==
  ASSUME RotationInv, NEW r \in Requests
  PROVE  /\ pc[r] \in {"create", "setVersion", "revokeDevice", "bumpDevice"} \cup OnRow =>
              target[r] \in Devices
         /\ pc[r] \in OnRow => rt[r] \in Tokens /\ Issued(rt[r])
         /\ pc[r] \in {"acquire", "find"} =>
              rt[r] \in Guesses \/ (rt[r] \in Tokens /\ device[rt[r]] \in Devices)
         /\ pc[r] = "release" => reply[r].kind # "none"
         /\ r \in Told => target[r] \in Devices
         /\ r \in Told => reply[r].rt \in Tokens /\ device[reply[r].rt] \in Devices
<1>1. RequestOK(r)
  BY DEF RotationInv, Knowledge
<1>2. \A t \in Tokens : Issued(t) => device[t] \in Devices
  BY DEF RotationInv, TypeOK, DbOK, Issued
<1>3. pc[r] \in OnRow => rt[r] \in Tokens /\ Issued(rt[r]) /\ target[r] \in Devices
  BY <1>1, <1>2 DEF RequestOK, Known
<1>4. pc[r] \in {"create", "setVersion", "revokeDevice", "bumpDevice"} => target[r] \in Devices
  BY <1>1 DEF RequestOK
<1>5. /\ pc[r] \in {"acquire", "find"} =>
           rt[r] \in Guesses \/ (rt[r] \in Tokens /\ device[rt[r]] \in Devices)
      /\ pc[r] = "release" => reply[r].kind # "none"
  BY <1>1, <1>2 DEF RequestOK, Known
<1>6. r \in Told => /\ target[r] \in Devices
                   /\ reply[r].rt \in Tokens /\ device[reply[r].rt] \in Devices
  BY <1>1, <1>2 DEF RequestOK, Known, Told
<1>q. QED
  BY <1>3, <1>4, <1>5, <1>6

\* Every step of the endpoint keeps every variable within its type.
LEMMA TypeStep ==
  ASSUME RotationInv, [Next]_vars
  PROVE  TypeOK'
<1> USE DEF RotationInv, TypeOK, db, redis, locals, ghosts
<1>1. ASSUME NEW r \in Requests, NEW d \in Devices, ConsumeCode(r, d)
      PROVE  TypeOK'
  <2>1. LocalsOK'
    BY <1>1, FinishType, GotoType, Answers DEF ConsumeCode, LocalsOK, DbOK, RedisOK, At, Serving
  <2>q. QED  BY <1>1, <2>1 DEF ConsumeCode, DbOK, RedisOK, GhostsOK, At, Serving
<1>2. ASSUME NEW r \in Requests, NEW d \in Devices, ConsumeMiss(r, d)
      PROVE  TypeOK'
  <2>1. LocalsOK'
    BY <1>2, FinishType, Answers DEF ConsumeMiss, LocalsOK, DbOK, RedisOK, At
  <2>q. QED  BY <1>2, <2>1 DEF ConsumeMiss, DbOK, RedisOK, GhostsOK, At
<1>3. ASSUME NEW r \in Requests, NEW n \in Tokens, CreateDevice(r, n)
      PROVE  TypeOK'
  <2>1. LocalsOK'
    BY <1>3, GotoType, Bearings DEF CreateDevice, LocalsOK, DbOK, RedisOK, At, Serving
  <2>q. QED  BY <1>3, <2>1, Bearings DEF CreateDevice, DbOK, RedisOK, GhostsOK, At, Serving
<1>4. ASSUME NEW r \in Requests, SetVersion(r)
      PROVE  TypeOK'
  <2>1. LocalsOK'
    <3>1. /\ Pair(fresh[r], initialTokenVersion) \in Replies
          /\ Pair(fresh[r], initialTokenVersion).kind # "none"
      BY Pairs DEF LocalsOK, initialTokenVersion
    <3>2. Finish(r, Pair(fresh[r], initialTokenVersion)) /\ UNCHANGED <<target, rt>>
      BY <1>4 DEF SetVersion
    <3>q. QED  BY <3>1, <3>2, FinishType DEF LocalsOK
  <2>q. QED  BY <1>4, <2>1, Bearings DEF SetVersion, DbOK, RedisOK, GhostsOK, At, initialTokenVersion
<1>5. ASSUME NEW r \in Requests, NEW t \in Tokens \cup Guesses, Present(r, t)
      PROVE  TypeOK'
  <2>1. LocalsOK'
    BY <1>5, GotoType DEF Present, LocalsOK, DbOK, RedisOK, At, Serving
  <2>q. QED  BY <1>5, <2>1 DEF Present, DbOK, RedisOK, GhostsOK, At, Serving
<1>6. ASSUME NEW r \in Requests, Acquire(r)
      PROVE  TypeOK'
  <2>1. LocalsOK'
    BY <1>6, GotoType, Bearings DEF Acquire, LocalsOK, DbOK, RedisOK, At, Serving, Locked, OnRow
  <2>q. QED  BY <1>6, <2>1, Bearings DEF Acquire, DbOK, RedisOK, GhostsOK, At, Serving, Locked, OnRow
<1>7. ASSUME NEW r \in Requests, AcquireTimeout(r)
      PROVE  TypeOK'
  <2>1. LocalsOK'
    BY <1>7, FinishType, Answers DEF AcquireTimeout, LocalsOK, DbOK, RedisOK, At
  <2>q. QED  BY <1>7, <2>1 DEF AcquireTimeout, DbOK, RedisOK, GhostsOK, At
<1>8. ASSUME NEW r \in Requests, Find(r)
      PROVE  TypeOK'
  <2>1. LocalsOK'
    BY <1>8, UnlockType, GotoType, Answers, Bearings DEF Find, LocalsOK, DbOK, RedisOK, At, Serving, Locked
  <2>q. QED  BY <1>8, <2>1, Bearings DEF Find, DbOK, RedisOK, GhostsOK, At, Serving, Locked
<1>9. ASSUME NEW r \in Requests, ReadVersion(r)
      PROVE  TypeOK'
  <2>1. LocalsOK'
    BY <1>9, UnlockType, GotoType, Answers, Bearings DEF ReadVersion, LocalsOK, DbOK, RedisOK, At, Serving, Locked, OnRow
  <2>q. QED  BY <1>9, <2>1, Bearings DEF ReadVersion, DbOK, RedisOK, GhostsOK, At, Serving, Locked, OnRow
<1>10. ASSUME NEW r \in Requests, NEW n \in Tokens, Rotate(r, n)
      PROVE  TypeOK'
  <2>1. LocalsOK'
    BY <1>10, GotoType, Bearings DEF Rotate, LocalsOK, DbOK, RedisOK, At, Serving, Locked, OnRow
  <2>q. QED  BY <1>10, <2>1, Bearings DEF Rotate, MarkUsedIfUnused, DbOK, RedisOK, GhostsOK, At, OnRow
<1>11. ASSUME NEW r \in Requests, RotateConflict(r)
      PROVE  TypeOK'
  <2>1. LocalsOK'
    BY <1>11, GotoType DEF RotateConflict, LocalsOK, DbOK, RedisOK, At, Serving, Locked
  <2>q. QED  BY <1>11, <2>1 DEF RotateConflict, DbOK, RedisOK, GhostsOK, At, Serving, Locked
<1>12. ASSUME NEW r \in Requests, Fallback(r)
      PROVE  TypeOK'
  <2>1. LocalsOK'
    BY <1>12, UnlockType, Answers, Bearings DEF Fallback, LocalsOK, DbOK, RedisOK, At, OnRow
  <2>q. QED  BY <1>12, <2>1, Bearings DEF Fallback, DbOK, RedisOK, GhostsOK, At, OnRow
<1>13. ASSUME NEW r \in Requests, SavePair(r)
      PROVE  TypeOK'
  <2>1. LocalsOK'
    BY <1>13, UnlockType, Pairs, Bearings DEF SavePair, LocalsOK, DbOK, RedisOK, At, OnRow
  <2>q. QED  BY <1>13, <2>1, Bearings, Pairs DEF SavePair, DbOK, RedisOK, LocalsOK, GhostsOK, At, OnRow
<1>14. ASSUME NEW r \in Requests, ReplayOrTheft(r)
      PROVE  TypeOK'
  <2>1. LocalsOK'
    BY <1>14, UnlockType, GotoType, Bearings DEF ReplayOrTheft, LocalsOK, DbOK, RedisOK, At, Serving, Locked, OnRow
  <2>q. QED  BY <1>14, <2>1, Bearings DEF ReplayOrTheft, DbOK, RedisOK, GhostsOK, At, Serving, Locked, OnRow
<1>15. ASSUME NEW r \in Requests, RevokeFamily(r)
      PROVE  TypeOK'
  <2>1. LocalsOK'
    BY <1>15, GotoType DEF RevokeFamily, LocalsOK, DbOK, RedisOK, At, Serving, Locked, RowsOf
  <2>q. QED  BY <1>15, <2>1 DEF RevokeFamily, DbOK, RedisOK, GhostsOK, At, Serving, Locked, RowsOf
<1>16. ASSUME NEW r \in Requests, BumpFamily(r)
      PROVE  TypeOK'
  <2>1. LocalsOK'
    BY <1>16, UnlockType, Answers, Bearings DEF BumpFamily, LocalsOK, DbOK, RedisOK, At, Bump, OnRow
  <2>q. QED  BY <1>16, <2>1, Bearings DEF BumpFamily, DbOK, RedisOK, GhostsOK, At, Bump, OnRow
<1>17. ASSUME NEW r \in Requests, Release(r)
      PROVE  TypeOK'
  BY <1>17, Answers, Bearings DEF Release, DbOK, RedisOK, LocalsOK, GhostsOK, At, Goto, Over
<1>18. ASSUME NEW r \in Requests, NEW s \in Requests, LogoutByAccess(r, s)
      PROVE  TypeOK'
  <2>1. LocalsOK'
    BY <1>18, GotoType, Bearings DEF LogoutByAccess, LocalsOK, DbOK, RedisOK, At, Serving
  <2>q. QED  BY <1>18, <2>1, Bearings DEF LogoutByAccess, DbOK, RedisOK, GhostsOK, At, Serving
<1>19. ASSUME NEW r \in Requests, NEW t \in Tokens \cup Guesses, LogoutByRefresh(r, t)
      PROVE  TypeOK'
  <2>1. CASE Held(t)
    <3>1. device[t] \in Devices
      BY <2>1, Bearings DEF Held, Told
    <3>2. target' \in [Requests -> Devices \cup {NoDevice}]
      BY <1>19, <3>1 DEF LogoutByRefresh, LocalsOK
    <3>q. QED
      BY <1>19, <3>2, FinishType, GotoType, Answers
         DEF LogoutByRefresh, LocalsOK, DbOK, RedisOK, GhostsOK, Serving
  <2>2. CASE ~Held(t)
    <3>1. LocalsOK'
      BY <1>19, <2>2, FinishType, Answers DEF LogoutByRefresh, LocalsOK
    <3>q. QED
      BY <1>19, <2>2, <3>1 DEF LogoutByRefresh, DbOK, RedisOK, GhostsOK
  <2>q. QED  BY <2>1, <2>2
<1>20. ASSUME NEW r \in Requests, NEW s \in Requests, NEW d \in Devices, DeleteDevice(r, s, d)
      PROVE  TypeOK'
  <2>1. LocalsOK'
    BY SMTT(20), <1>20, FinishType, GotoType, Answers, Bearings DEF DeleteDevice, LocalsOK, DbOK, RedisOK, At, Serving
  <2>q. QED  BY <1>20, <2>1, Bearings DEF DeleteDevice, DbOK, RedisOK, GhostsOK, At, Serving
<1>21. ASSUME NEW r \in Requests, RevokeByDevice(r)
      PROVE  TypeOK'
  <2>1. LocalsOK'
    BY <1>21, GotoType DEF RevokeByDevice, LocalsOK, DbOK, RedisOK, At, Serving, RowsOf
  <2>q. QED  BY <1>21, <2>1 DEF RevokeByDevice, DbOK, RedisOK, GhostsOK, At, Serving, RowsOf
<1>22. ASSUME NEW r \in Requests, BumpDevice(r)
      PROVE  TypeOK'
  <2>1. LocalsOK'
    BY <1>22, FinishType, Answers, Bearings DEF BumpDevice, LocalsOK, DbOK, RedisOK, At, Bump
  <2>q. QED  BY <1>22, <2>1, Bearings DEF BumpDevice, DbOK, RedisOK, GhostsOK, At, Bump
<1>23. ASSUME NEW r \in Requests, StoreError(r)
      PROVE  TypeOK'
  <2>1. LocalsOK'
    BY <1>23, FinishType, UnlockType, Answers DEF StoreError, LocalsOK, DbOK, RedisOK, At
  <2>q. QED  BY <1>23, <2>1 DEF StoreError, DbOK, RedisOK, GhostsOK, At
<1>24. ASSUME NEW r \in Requests, Abandon(r)
      PROVE  TypeOK'
  BY <1>24, Answers DEF Abandon, DbOK, RedisOK, LocalsOK, GhostsOK, Over
<1>25. ASSUME NEW t \in Tokens \cup Guesses, LockExpires(t)
      PROVE  TypeOK'
  BY <1>25, Answers DEF LockExpires, DbOK, RedisOK, LocalsOK, GhostsOK
<1>26. ASSUME NEW t \in Tokens, WindowCloses(t)
      PROVE  TypeOK'
  BY <1>26, Answers DEF WindowCloses, DbOK, RedisOK, LocalsOK, GhostsOK
<1>27. ASSUME NEW t \in Tokens, ReplayExpires(t)
      PROVE  TypeOK'
  BY <1>27, Answers DEF ReplayExpires, DbOK, RedisOK, LocalsOK, GhostsOK
<1>28. ASSUME NEW t \in Tokens, TokenExpires(t)
      PROVE  TypeOK'
  BY <1>28, Answers DEF TokenExpires, DbOK, RedisOK, LocalsOK, GhostsOK
<1>29. CASE UNCHANGED vars
  BY <1>29 DEF vars, DbOK, RedisOK, LocalsOK, GhostsOK
<1>q. QED
  BY <1>1, <1>2, <1>3, <1>4, <1>5, <1>6, <1>7, <1>8, <1>9, <1>10, <1>11, <1>12, <1>13, <1>14, <1>15, <1>16, <1>17, <1>18, <1>19, <1>20, <1>21, <1>22, <1>23, <1>24, <1>25, <1>26, <1>27, <1>28, <1>29
     DEF Next, Arrive, Serve, Exchange, Refresh, Revoke, Environment, Finished

-----------------------------------------------------------------------------
(* Frames: what a step leaves alone. *)

\* Rows are inserted by the code exchange and by rotation only.
LEMMA RowSteps ==
  ASSUME [Next]_vars
  PROVE  \/ UNCHANGED <<device, used, parent>>
         \/ \E r \in Requests, n \in Tokens : CreateDevice(r, n)
         \/ \E r \in Requests, n \in Tokens : Rotate(r, n)
BY DEF Next, Arrive, Serve, Exchange, Refresh, Revoke, Environment, Finished,
       vars, db, redis, locals, ghosts,
       ConsumeCode, ConsumeMiss, SetVersion, Present, Acquire, AcquireTimeout, Find,
       ReadVersion, RotateConflict, Fallback, SavePair, ReplayOrTheft, RevokeFamily,
       BumpFamily, Release, LogoutByAccess, LogoutByRefresh, DeleteDevice,
       RevokeByDevice, BumpDevice, StoreError, Abandon, LockExpires, WindowCloses,
       ReplayExpires, TokenExpires

\* The replay cache is written by SavePair and by expiry only.
LEMMA CacheSteps ==
  ASSUME [Next]_vars
  PROVE  \/ UNCHANGED replay
         \/ \E r \in Requests : SavePair(r)
         \/ \E t \in Tokens : ReplayExpires(t)
BY DEF Next, Arrive, Serve, Exchange, Refresh, Revoke, Environment, Finished,
       vars, db, redis, locals, ghosts,
       ConsumeCode, ConsumeMiss, CreateDevice, SetVersion, Present, Acquire,
       AcquireTimeout, Find, ReadVersion, Rotate, RotateConflict, Fallback,
       ReplayOrTheft, RevokeFamily, BumpFamily, Release, LogoutByAccess,
       LogoutByRefresh, DeleteDevice, RevokeByDevice, BumpDevice, StoreError, Abandon,
       LockExpires, WindowCloses, TokenExpires

\* A row keeps its device and its parent.
LEMMA RowsStay ==
  ASSUME RotationInv, [Next]_vars, NEW t, Known(t)
  PROVE  Known(t)' /\ device'[t] = device[t] /\ parent'[t] = parent[t]
<1> USE DEF Known, Issued
<1>1. CASE UNCHANGED <<device, used, parent>>
  BY <1>1
<1>2. ASSUME NEW r \in Requests, NEW n \in Tokens, CreateDevice(r, n)
      PROVE  Known(t)' /\ device'[t] = device[t] /\ parent'[t] = parent[t]
  BY <1>2 DEF CreateDevice, Mints, ghosts, RotationInv, TypeOK, DbOK, GhostsOK
<1>3. ASSUME NEW r \in Requests, NEW n \in Tokens, Rotate(r, n)
      PROVE  Known(t)' /\ device'[t] = device[t] /\ parent'[t] = parent[t]
  BY <1>3 DEF Rotate, Mints, ghosts, RotationInv, TypeOK, DbOK, GhostsOK
<1>q. QED  BY <1>1, <1>2, <1>3, RowSteps

-----------------------------------------------------------------------------
(* Lines of tokens: the rows alone. *)

\* A used token stays used; a step that adds a row adds one.
LEMMA LinesStep ==
  ASSUME RotationInv, [Next]_vars
  PROVE  Lines' /\ OneHead' /\ SingleSuccessor'
<1> USE DEF Known, Issued, Lines, OneHead, SingleSuccessor
<1>1. CASE UNCHANGED <<device, used, parent>>
  BY <1>1 DEF RotationInv
<1>2. ASSUME NEW r \in Requests, NEW n \in Tokens, CreateDevice(r, n)
      PROVE  Lines' /\ OneHead' /\ SingleSuccessor'
  <2>1. /\ \A t \in Tokens : device[t] # target[r]
        /\ device[n] = NoDevice
        /\ target[r] # NoDevice
        /\ UNCHANGED <<used, parent>>
        /\ device' = [device EXCEPT ![n] = target[r]]
    BY <1>2, ConstantsAssumption
       DEF CreateDevice, At, Mints, ghosts, RotationInv, FirstTokens, RowsOf
  <2>q. QED
    BY <2>1 DEF RotationInv, TypeOK, DbOK
<1>3. ASSUME NEW r \in Requests, NEW n \in Tokens, Rotate(r, n)
      PROVE  Lines' /\ OneHead' /\ SingleSuccessor'
  <2>1. rt[r] \in Tokens /\ device[rt[r]] # NoDevice /\ target[r] = device[rt[r]]
    BY <1>3 DEF Rotate, At, OnRow, RotationInv, Knowledge, RequestOK
  <2>2. /\ rt[r] \notin used
        /\ device[n] = NoDevice
        /\ used' = used \cup {rt[r]}
        /\ device' = [device EXCEPT ![n] = target[r]]
        /\ parent' = [parent EXCEPT ![n] = rt[r]]
    BY <1>3 DEF Rotate, MarkUsedIfUnused, Mints
  <2>3. parent[n] = NoToken /\ n \notin used
    BY <2>2 DEF RotationInv, TypeOK, GhostsOK
  <2>4. Lines'
    BY <2>1, <2>2, <2>3 DEF RotationInv, TypeOK, DbOK, GhostsOK
  <2>5. OneHead'
    BY <2>1, <2>2, <2>3 DEF RotationInv, TypeOK, DbOK
  <2>6. SingleSuccessor'
    BY <2>1, <2>2, <2>3 DEF RotationInv, TypeOK, GhostsOK
  <2>q. QED  BY <2>4, <2>5, <2>6
<1>q. QED  BY <1>1, <1>2, <1>3, RowSteps

\* Consuming a code is what lets one request insert the first row of a device.
LEMMA FirstTokensStep ==
  ASSUME RotationInv, [Next]_vars
  PROVE  FirstTokens'
<1>1. ASSUME NEW r \in Requests, NEW d \in Devices, ConsumeCode(r, d)
      PROVE  FirstTokens'
  <2> USE DEF RotationInv, TypeOK, LocalsOK
  <2>1. /\ d \in codes /\ codes' = codes \ {d} /\ device' = device
        /\ \A q \in Requests : target'[q] = IF q = r THEN d ELSE target[q]
        /\ \A q \in Requests : q # r => pc'[q] = pc[q]
    BY <1>1 DEF ConsumeCode, Finish, Goto, db
  <2>2. \A e \in Devices : RowsOf(e)' = RowsOf(e)
    BY <2>1 DEF RowsOf
  <2>3. \A e \in codes' : RowsOf(e)' = {}
    BY <2>1, <2>2 DEF FirstTokens, RedisOK
  <2>4. \A q \in Requests : pc'[q] = "create" =>
          target'[q] \in Devices \ codes' /\ RowsOf(target[q])' = {}
    BY <2>1, <2>2 DEF FirstTokens, RedisOK
  <2>5. \A q, u \in Requests :
          pc'[q] = "create" /\ pc'[u] = "create" /\ target'[q] = target'[u] => q = u
    BY <2>1 DEF FirstTokens
  <2>q. QED  BY <2>3, <2>4, <2>5 DEF FirstTokens
<1>2. ASSUME NEW r \in Requests, NEW n \in Tokens, CreateDevice(r, n)
      PROVE  FirstTokens'
  BY <1>2 DEF CreateDevice, At, Goto, redis, RowsOf, FirstTokens, RotationInv, TypeOK, LocalsOK, DbOK
<1>3. ASSUME NEW r \in Requests, NEW n \in Tokens, Rotate(r, n)
      PROVE  FirstTokens'
  <2>1. rt[r] \in Tokens /\ target[r] = device[rt[r]]
    BY <1>3 DEF Rotate, At, OnRow, RotationInv, Knowledge, RequestOK, Known
  <2>q. QED
    BY <1>3, <2>1 DEF Rotate, At, Goto, redis, RowsOf, FirstTokens, RotationInv, TypeOK, LocalsOK, DbOK
<1>4. CASE /\ UNCHANGED <<device, codes>>
           /\ \A q \in Requests : pc'[q] = "create" => pc[q] = "create" /\ target'[q] = target[q]
  BY <1>4 DEF FirstTokens, RowsOf, RotationInv
<1>5. \/ \E r \in Requests, d \in Devices : ConsumeCode(r, d)
      \/ \E r \in Requests, n \in Tokens : CreateDevice(r, n) \/ Rotate(r, n)
      \/ /\ UNCHANGED <<device, codes>>
         /\ \A q \in Requests : pc'[q] = "create" => pc[q] = "create" /\ target'[q] = target[q]
  <2>a. CASE \E p \in Requests : Arrive(p)
    BY <2>a DEF vars, db, redis, locals, ghosts, RotationInv, TypeOK, LocalsOK, At,
       Goto, Finish, Unlock, Arrive, ConsumeMiss, Present, LogoutByRefresh,
       LogoutByAccess, DeleteDevice
  <2>b. CASE \E p \in Requests : Exchange(p) \/ Revoke(p)
    BY <2>b DEF vars, db, redis, locals, ghosts, RotationInv, TypeOK, LocalsOK, At,
       Goto, Finish, Unlock, Exchange, Revoke, SetVersion, RevokeByDevice, BumpDevice
  <2>c. CASE \E p \in Requests : Refresh(p)
    BY <2>c DEF vars, db, redis, locals, ghosts, RotationInv, TypeOK, LocalsOK, At,
       Goto, Finish, Unlock, Refresh, Acquire, AcquireTimeout, Find, ReadVersion,
       RotateConflict, Fallback, SavePair, ReplayOrTheft, RevokeFamily, BumpFamily,
       Release
  <2>d. CASE Environment
    BY <2>d DEF vars, db, redis, locals, ghosts, RotationInv, TypeOK, LocalsOK, At,
       Goto, Finish, Unlock, Environment, StoreError, Abandon, LockExpires,
       WindowCloses, ReplayExpires, TokenExpires
  <2>e. CASE Finished \/ UNCHANGED vars
    BY <2>e DEF vars, db, redis, locals, ghosts, RotationInv, TypeOK, LocalsOK, At,
       Goto, Finish, Unlock, Finished
  <2>q. QED  BY <2>a, <2>b, <2>c, <2>d, <2>e DEF Next, Serve
<1>q. QED  BY <1>1, <1>2, <1>3, <1>4, <1>5

-----------------------------------------------------------------------------
(* What requests and the cache know. *)

\* A request keeps what it knows while others move.
LEMMA RequestKept ==
  ASSUME RotationInv, [Next]_vars, NEW q \in Requests,
         pc'[q] = pc[q], target'[q] = target[q], rt'[q] = rt[q],
         fresh'[q] = fresh[q], reply'[q] = reply[q]
  PROVE  RequestOK(q)'
<1>1. RequestOK(q)
  BY DEF RotationInv, Knowledge
<1>2. \A t : Known(t) => Known(t)' /\ device'[t] = device[t] /\ parent'[t] = parent[t]
  BY RowsStay
<1>q. QED
  BY <1>1, <1>2 DEF RequestOK

\* An answer without tokens leaves nothing to know.
LEMMA RefusedKnows ==
  ASSUME LocalsOK, NEW r \in Requests, NEW a, a.kind # "pair", a.kind # "none",
         Finish(r, a) \/ Unlock(r, a)
  PROVE  RequestOK(r)'
BY DEF LocalsOK, Finish, Unlock, RequestOK, OnRow

\* The pair cached under a request's token is one the request may hand out.
LEMMA PairKnows ==
  ASSUME RotationInv, NEW r \in Requests, rt[r] \in Tokens, Known(rt[r]),
         target[r] = device[rt[r]], CacheOK(rt[r]), replay[rt[r]] # None,
         Unlock(r, replay[rt[r]]), UNCHANGED <<device, parent, target, rt>>
  PROVE  RequestOK(r)'
<1> DEFINE pair == replay[rt[r]]
<1>1. pair.kind = "pair" /\ Known(pair.rt) /\ parent[pair.rt] = rt[r]
  BY DEF CacheOK
<1>2. device[pair.rt] = target[r]
  BY <1>1, ConstantsAssumption DEF RotationInv, Lines, Known
<1>3. pc'[r] = "release" /\ reply'[r] = pair
  BY DEF Unlock, RotationInv, TypeOK, LocalsOK
<1>q. QED
  BY <1>1, <1>2, <1>3 DEF RequestOK, OnRow, Known, Issued

\* What SavePair caches for a token names the token's successor, and
\* expiry forgets it.
LEMMA CacheStep ==
  ASSUME RotationInv, [Next]_vars, NEW t \in Tokens
  PROVE  CacheOK(t)'
<1>1. CacheOK(t)
  BY DEF RotationInv, Knowledge
<1>2. \A n : Known(n) => Known(n)' /\ parent'[n] = parent[n]
  BY RowsStay
<1>3. CASE replay'[t] = replay[t] \/ replay'[t] = None
  BY <1>1, <1>2, <1>3 DEF CacheOK
<1>4. ASSUME NEW r \in Requests, SavePair(r), replay'[t] # replay[t]
      PROVE  CacheOK(t)'
  <2>1. Known(fresh[r]) /\ parent[fresh[r]] = rt[r] /\ seen[r] \in Nat
    BY <1>4 DEF SavePair, At, RotationInv, Knowledge, RequestOK, TypeOK, LocalsOK
  <2>2. t = rt[r] /\ replay'[t] = Pair(fresh[r], seen[r])
    BY <1>4 DEF SavePair, RotationInv, TypeOK, RedisOK
  <2>q. QED
    BY <2>1, <2>2, <1>2, Pairs DEF CacheOK, Known
<1>5. ASSUME NEW u \in Tokens, ReplayExpires(u)
      PROVE  replay'[t] = replay[t] \/ replay'[t] = None
  BY <1>5 DEF ReplayExpires, RotationInv, TypeOK, RedisOK
<1>q. QED
  BY <1>3, <1>4, <1>5, CacheSteps

\* Every step leaves each request with locals that fit the rows: the whole
\* handler is walked through, one action at a time.
LEMMA RequestStep ==
  ASSUME RotationInv, [Next]_vars
  PROVE  \A q \in Requests : RequestOK(q)'
<1> USE DEF RotationInv, TypeOK, db, redis, locals, ghosts
<1>a. \A q \in Requests : RequestOK(q)
  BY DEF Knowledge
<1>1. ASSUME NEW r \in Requests, NEW d \in Devices, ConsumeCode(r, d)
      PROVE  \A q \in Requests : RequestOK(q)'
  <2>1. RequestOK(r)'
    <3>1. rt[r] = NoToken /\ reply[r].kind = "none"
      BY <1>a, <1>1 DEF ConsumeCode, CanBegin, RequestOK
    <3>2. CASE Finish(r, InvalidGrant)
      BY <3>2, RefusedKnows, Answers
    <3>3. CASE Goto(r, "create") /\ UNCHANGED <<reply, seen, fresh>>
      BY <1>1, <3>1, <3>3 DEF ConsumeCode, Goto, RequestOK, OnRow, LocalsOK
    <3>q. QED  BY <1>1, <3>2, <3>3 DEF ConsumeCode
  <2>2. ASSUME NEW q \in Requests, q # r PROVE RequestOK(q)'
    BY <1>1, <2>2, RequestKept DEF ConsumeCode, LocalsOK, Goto, Finish
  <2>q. QED  BY <2>1, <2>2
<1>2. ASSUME NEW r \in Requests, NEW d \in Devices, ConsumeMiss(r, d)
      PROVE  \A q \in Requests : RequestOK(q)'
  <2>1. RequestOK(r)'
    BY <1>a, <1>2, RefusedKnows, Answers DEF ConsumeMiss, RequestOK, Known, Issued, OnRow, LocalsOK
  <2>2. ASSUME NEW q \in Requests, q # r PROVE RequestOK(q)'
    BY <1>2, <2>2, RequestKept DEF ConsumeMiss, LocalsOK, Finish
  <2>q. QED  BY <2>1, <2>2
<1>3. ASSUME NEW r \in Requests, NEW n \in Tokens, CreateDevice(r, n)
      PROVE  \A q \in Requests : RequestOK(q)'
  <2>1. RequestOK(r)'
    <3>1. /\ rt[r] = NoToken /\ target[r] \in Devices /\ reply[r].kind = "none"
          /\ target[r] # NoDevice
      BY <1>a, <1>3, ConstantsAssumption DEF CreateDevice, At, RequestOK
    <3>2. /\ pc'[r] = "setVersion" /\ fresh'[r] = n /\ device'[n] = target[r]
          /\ UNCHANGED <<rt, target, reply>>
      BY <1>3 DEF CreateDevice, Goto, LocalsOK, DbOK
    <3>q. QED  BY <3>1, <3>2 DEF RequestOK, Known, Issued, OnRow
  <2>2. ASSUME NEW q \in Requests, q # r PROVE RequestOK(q)'
    BY <1>3, <2>2, RequestKept DEF CreateDevice, LocalsOK, Goto
  <2>q. QED  BY <2>1, <2>2
<1>4. ASSUME NEW r \in Requests, SetVersion(r)
      PROVE  \A q \in Requests : RequestOK(q)'
  <2>1. RequestOK(r)'
    <3>1. rt[r] = NoToken /\ Known(fresh[r]) /\ target[r] = device[fresh[r]]
      BY <1>a, <1>4 DEF SetVersion, At, RequestOK
    <3>2. /\ pc'[r] = "done" /\ reply'[r] = Pair(fresh[r], initialTokenVersion)
          /\ UNCHANGED <<rt, target, device>>
      BY <1>4 DEF SetVersion, Finish, LocalsOK
    <3>3. reply'[r].kind = "pair" /\ reply'[r].rt = fresh[r]
      BY <3>1, <3>2, Pairs DEF Known, initialTokenVersion
    <3>q. QED  BY <3>1, <3>2, <3>3 DEF RequestOK, Known, Issued, OnRow
  <2>2. ASSUME NEW q \in Requests, q # r PROVE RequestOK(q)'
    BY <1>4, <2>2, RequestKept DEF SetVersion, LocalsOK, Finish
  <2>q. QED  BY <2>1, <2>2
<1>5. ASSUME NEW r \in Requests, NEW t \in Tokens \cup Guesses, Present(r, t)
      PROVE  \A q \in Requests : RequestOK(q)'
  <2>1. RequestOK(r)'
    BY <1>a, <1>5, ConstantsAssumption, Bearings DEF Present, RequestOK, Known, Issued, OnRow, LocalsOK, Goto, CanBegin, Held, Told
  <2>2. ASSUME NEW q \in Requests, q # r PROVE RequestOK(q)'
    BY <1>5, <2>2, RequestKept DEF Present, LocalsOK, Goto
  <2>q. QED  BY <2>1, <2>2
<1>6. ASSUME NEW r \in Requests, Acquire(r)
      PROVE  \A q \in Requests : RequestOK(q)'
  <2>1. RequestOK(r)'
    BY <1>a, <1>6 DEF Acquire, RequestOK, Known, Issued, OnRow, LocalsOK, At, Goto
  <2>2. ASSUME NEW q \in Requests, q # r PROVE RequestOK(q)'
    BY <1>6, <2>2, RequestKept DEF Acquire, LocalsOK, Goto
  <2>q. QED  BY <2>1, <2>2
<1>7. ASSUME NEW r \in Requests, AcquireTimeout(r)
      PROVE  \A q \in Requests : RequestOK(q)'
  <2>1. RequestOK(r)'
    BY <1>a, <1>7, RefusedKnows, Answers DEF AcquireTimeout, RequestOK, Known, Issued, OnRow, LocalsOK
  <2>2. ASSUME NEW q \in Requests, q # r PROVE RequestOK(q)'
    BY <1>7, <2>2, RequestKept DEF AcquireTimeout, LocalsOK, Finish
  <2>q. QED  BY <2>1, <2>2
<1>8. ASSUME NEW r \in Requests, Find(r)
      PROVE  \A q \in Requests : RequestOK(q)'
  <2>1. RequestOK(r)'
    BY <1>a, <1>8, RefusedKnows, Answers DEF Find, RequestOK, Known, Issued, OnRow, LocalsOK, At, Goto
  <2>2. ASSUME NEW q \in Requests, q # r PROVE RequestOK(q)'
    BY <1>8, <2>2, RequestKept DEF Find, LocalsOK, Goto, Unlock
  <2>q. QED  BY <2>1, <2>2
<1>9. ASSUME NEW r \in Requests, ReadVersion(r)
      PROVE  \A q \in Requests : RequestOK(q)'
  <2>1. RequestOK(r)'
    BY <1>a, <1>9, RefusedKnows, Answers DEF ReadVersion, RequestOK, Known, Issued, OnRow, LocalsOK, At, Goto
  <2>2. ASSUME NEW q \in Requests, q # r PROVE RequestOK(q)'
    BY <1>9, <2>2, RequestKept DEF ReadVersion, LocalsOK, Goto, Unlock
  <2>q. QED  BY <2>1, <2>2
<1>10. ASSUME NEW r \in Requests, NEW n \in Tokens, Rotate(r, n)
      PROVE  \A q \in Requests : RequestOK(q)'
  <2>1. RequestOK(r)'
    BY <1>a, <1>10 DEF Rotate, RequestOK, Known, Issued, OnRow, LocalsOK, At, Goto, Mints, DbOK, GhostsOK
  <2>2. ASSUME NEW q \in Requests, q # r PROVE RequestOK(q)'
    BY <1>10, <2>2, RequestKept DEF Rotate, LocalsOK, Goto
  <2>q. QED  BY <2>1, <2>2
<1>11. ASSUME NEW r \in Requests, RotateConflict(r)
      PROVE  \A q \in Requests : RequestOK(q)'
  <2>1. RequestOK(r)'
    BY <1>a, <1>11 DEF RotateConflict, RequestOK, Known, Issued, OnRow, LocalsOK, At, Goto
  <2>2. ASSUME NEW q \in Requests, q # r PROVE RequestOK(q)'
    BY <1>11, <2>2, RequestKept DEF RotateConflict, LocalsOK, Goto
  <2>q. QED  BY <2>1, <2>2
<1>12. ASSUME NEW r \in Requests, Fallback(r)
      PROVE  \A q \in Requests : RequestOK(q)'
  <2>1. RequestOK(r)'
    <3>1. rt[r] \in Tokens /\ Known(rt[r]) /\ target[r] = device[rt[r]] /\ CacheOK(rt[r])
      BY <1>a, <1>12 DEF Fallback, At, RequestOK, Known, OnRow, Knowledge
    <3>2. CASE replay[rt[r]] = None
      BY <1>12, <3>2, RefusedKnows, Answers DEF Fallback
    <3>3. CASE replay[rt[r]] # None
      BY <1>12, <3>1, <3>3, PairKnows DEF Fallback
    <3>q. QED  BY <3>2, <3>3
  <2>2. ASSUME NEW q \in Requests, q # r PROVE RequestOK(q)'
    BY <1>12, <2>2, RequestKept DEF Fallback, LocalsOK, Unlock
  <2>q. QED  BY <2>1, <2>2
<1>13. ASSUME NEW r \in Requests, SavePair(r)
      PROVE  \A q \in Requests : RequestOK(q)'
  <2>1. RequestOK(r)'
    BY <1>a, <1>13, Pairs DEF SavePair, RequestOK, Known, Issued, OnRow, LocalsOK, At, Unlock
  <2>2. ASSUME NEW q \in Requests, q # r PROVE RequestOK(q)'
    BY <1>13, <2>2, RequestKept DEF SavePair, LocalsOK, Unlock
  <2>q. QED  BY <2>1, <2>2
<1>14. ASSUME NEW r \in Requests, ReplayOrTheft(r)
      PROVE  \A q \in Requests : RequestOK(q)'
  <2>1. RequestOK(r)'
    <3>1. rt[r] \in Tokens /\ Known(rt[r]) /\ target[r] = device[rt[r]] /\ CacheOK(rt[r])
      BY <1>a, <1>14 DEF ReplayOrTheft, At, RequestOK, Known, OnRow, Knowledge
    <3>2. CASE replay[rt[r]] = None
      BY <1>a, <1>14, <3>1, <3>2
         DEF ReplayOrTheft, At, Goto, RequestOK, Known, Issued, OnRow, LocalsOK
    <3>3. CASE replay[rt[r]] # None
      BY <1>14, <3>1, <3>3, PairKnows DEF ReplayOrTheft
    <3>q. QED  BY <3>2, <3>3
  <2>2. ASSUME NEW q \in Requests, q # r PROVE RequestOK(q)'
    BY <1>14, <2>2, RequestKept DEF ReplayOrTheft, LocalsOK, Goto, Unlock
  <2>q. QED  BY <2>1, <2>2
<1>15. ASSUME NEW r \in Requests, RevokeFamily(r)
      PROVE  \A q \in Requests : RequestOK(q)'
  <2>1. RequestOK(r)'
    BY <1>a, <1>15 DEF RevokeFamily, RequestOK, Known, Issued, OnRow, LocalsOK, At, Goto
  <2>2. ASSUME NEW q \in Requests, q # r PROVE RequestOK(q)'
    BY <1>15, <2>2, RequestKept DEF RevokeFamily, LocalsOK, Goto
  <2>q. QED  BY <2>1, <2>2
<1>16. ASSUME NEW r \in Requests, BumpFamily(r)
      PROVE  \A q \in Requests : RequestOK(q)'
  <2>1. RequestOK(r)'
    BY <1>a, <1>16, RefusedKnows, Answers DEF BumpFamily, RequestOK, Known, Issued, OnRow, LocalsOK
  <2>2. ASSUME NEW q \in Requests, q # r PROVE RequestOK(q)'
    BY <1>16, <2>2, RequestKept DEF BumpFamily, LocalsOK, Unlock
  <2>q. QED  BY <2>1, <2>2
<1>17. ASSUME NEW r \in Requests, Release(r)
      PROVE  \A q \in Requests : RequestOK(q)'
  <2>1. RequestOK(r)'
    BY <1>a, <1>17 DEF Release, RequestOK, Known, Issued, OnRow, LocalsOK, At, Goto
  <2>2. ASSUME NEW q \in Requests, q # r PROVE RequestOK(q)'
    BY <1>17, <2>2, RequestKept DEF Release, LocalsOK, Goto
  <2>q. QED  BY <2>1, <2>2
<1>18. ASSUME NEW r \in Requests, NEW s \in Requests, LogoutByAccess(r, s)
      PROVE  \A q \in Requests : RequestOK(q)'
  <2>1. RequestOK(r)'
    BY <1>a, <1>18, Bearings DEF LogoutByAccess, RequestOK, Known, Issued, OnRow, LocalsOK, Goto, CanBegin
  <2>2. ASSUME NEW q \in Requests, q # r PROVE RequestOK(q)'
    BY <1>18, <2>2, RequestKept DEF LogoutByAccess, LocalsOK, Goto
  <2>q. QED  BY <2>1, <2>2
<1>19. ASSUME NEW r \in Requests, NEW t \in Tokens \cup Guesses, LogoutByRefresh(r, t)
      PROVE  \A q \in Requests : RequestOK(q)'
  <2>1. RequestOK(r)'
    <3>1. CASE Held(t)
      <4>1. device[t] \in Devices /\ reply[r].kind = "none"
        BY <1>a, <1>19, <3>1, Bearings DEF LogoutByRefresh, CanBegin, RequestOK, Held, Told
      <4>q. QED
        BY <1>19, <4>1, RefusedKnows, Answers DEF LogoutByRefresh, Goto, RequestOK, OnRow, LocalsOK
    <3>2. CASE ~Held(t)
      BY <1>19, <3>2, RefusedKnows, Answers DEF LogoutByRefresh
    <3>q. QED  BY <3>1, <3>2
  <2>2. ASSUME NEW q \in Requests, q # r PROVE RequestOK(q)'
    BY <1>19, <2>2, RequestKept DEF LogoutByRefresh, LocalsOK, Goto, Finish
  <2>q. QED  BY <2>1, <2>2
<1>20. ASSUME NEW r \in Requests, NEW s \in Requests, NEW d \in Devices, DeleteDevice(r, s, d)
      PROVE  \A q \in Requests : RequestOK(q)'
  <2>1. RequestOK(r)'
    BY <1>a, <1>20, RefusedKnows, Answers DEF DeleteDevice, RequestOK, Known, Issued, OnRow, LocalsOK, Goto, CanBegin
  <2>2. ASSUME NEW q \in Requests, q # r PROVE RequestOK(q)'
    BY <1>20, <2>2, RequestKept DEF DeleteDevice, LocalsOK, Goto, Finish
  <2>q. QED  BY <2>1, <2>2
<1>21. ASSUME NEW r \in Requests, RevokeByDevice(r)
      PROVE  \A q \in Requests : RequestOK(q)'
  <2>1. RequestOK(r)'
    BY <1>a, <1>21 DEF RevokeByDevice, RequestOK, Known, Issued, OnRow, LocalsOK, At, Goto
  <2>2. ASSUME NEW q \in Requests, q # r PROVE RequestOK(q)'
    BY <1>21, <2>2, RequestKept DEF RevokeByDevice, LocalsOK, Goto
  <2>q. QED  BY <2>1, <2>2
<1>22. ASSUME NEW r \in Requests, BumpDevice(r)
      PROVE  \A q \in Requests : RequestOK(q)'
  <2>1. RequestOK(r)'
    BY <1>a, <1>22, RefusedKnows, Answers DEF BumpDevice, RequestOK, Known, Issued, OnRow, LocalsOK
  <2>2. ASSUME NEW q \in Requests, q # r PROVE RequestOK(q)'
    BY <1>22, <2>2, RequestKept DEF BumpDevice, LocalsOK, Finish
  <2>q. QED  BY <2>1, <2>2
<1>23. ASSUME NEW r \in Requests, StoreError(r)
      PROVE  \A q \in Requests : RequestOK(q)'
  <2>1. RequestOK(r)'
    BY <1>a, <1>23, RefusedKnows, Answers DEF StoreError, RequestOK, Known, Issued, OnRow, LocalsOK
  <2>2. ASSUME NEW q \in Requests, q # r PROVE RequestOK(q)'
    BY <1>23, <2>2, RequestKept DEF StoreError, LocalsOK, Unlock, Finish
  <2>q. QED  BY <2>1, <2>2
<1>24. ASSUME NEW r \in Requests, Abandon(r)
      PROVE  \A q \in Requests : RequestOK(q)'
  <2>1. RequestOK(r)'
    BY <1>a, <1>24, Answers DEF Abandon, RequestOK, Known, Issued, OnRow, LocalsOK
  <2>2. ASSUME NEW q \in Requests, q # r PROVE RequestOK(q)'
    BY <1>24, <2>2, RequestKept DEF Abandon, LocalsOK
  <2>q. QED  BY <2>1, <2>2
<1>25. ASSUME NEW t \in Tokens \cup Guesses, LockExpires(t)
      PROVE  \A q \in Requests : RequestOK(q)'
  BY <1>25, RequestKept DEF LockExpires
<1>26. ASSUME NEW t \in Tokens, WindowCloses(t)
      PROVE  \A q \in Requests : RequestOK(q)'
  BY <1>26, RequestKept DEF WindowCloses
<1>27. ASSUME NEW t \in Tokens, ReplayExpires(t)
      PROVE  \A q \in Requests : RequestOK(q)'
  BY <1>27, RequestKept DEF ReplayExpires
<1>28. ASSUME NEW t \in Tokens, TokenExpires(t)
      PROVE  \A q \in Requests : RequestOK(q)'
  BY <1>28, RequestKept DEF TokenExpires
<1>29. CASE UNCHANGED vars
  BY <1>29, RequestKept DEF vars
<1>q. QED
  BY <1>1, <1>2, <1>3, <1>4, <1>5, <1>6, <1>7, <1>8, <1>9, <1>10, <1>11, <1>12, <1>13, <1>14, <1>15, <1>16, <1>17, <1>18, <1>19, <1>20, <1>21, <1>22, <1>23, <1>24, <1>25, <1>26, <1>27, <1>28, <1>29
     DEF Next, Arrive, Serve, Exchange, Refresh, Revoke, Environment, Finished

-----------------------------------------------------------------------------
(* One answer per token. *)

\* A token that nobody rotated yet: no request saves, no cache holds and no
\* client was told a pair for it.
LEMMA UnusedIsSilent ==
  ASSUME RotationInv, NEW t \in Tokens, t \notin used
  PROVE  /\ replay[t] = None
         /\ \A q \in Requests : pc[q] = "save" => rt[q] # t
         /\ \A q \in Requests : HasPair(q) => rt[q] # t
<1>1. \A n \in Tokens : parent[n] # t
  BY ConstantsAssumption DEF RotationInv, Lines
<1>2. CacheOK(t) /\ \A q \in Requests : RequestOK(q)
  BY DEF RotationInv, Knowledge
<1>q. QED
  BY <1>1, <1>2 DEF CacheOK, RequestOK, Known, HasPair

\* Steps that neither start a save nor hand out a pair nor fill the cache.
Quiet ==
  /\ \A q \in Requests : pc'[q] = "save" => pc[q] = "save" /\ rt'[q] = rt[q]
  /\ \A q \in Requests : HasPair(q)' =>
       HasPair(q) /\ rt'[q] = rt[q] /\ reply'[q] = reply[q]
  /\ \A t \in Tokens : replay'[t] = replay[t] \/ replay'[t] = None

\* Such a step cannot make two answers disagree.
LEMMA QuietStep ==
  ASSUME RotationInv, Quiet
  PROVE  Agreement'
<1>1. \A q \in Requests : (pc[q] = "save" \/ HasPair(q)) => rt[q] \in Tokens
  BY DEF RotationInv, Knowledge, RequestOK, Known, OnRow, HasPair
<1>q. QED
  BY <1>1 DEF Agreement, Quiet, RotationInv

\* A pair handed out from the cache is the one everybody else got.
LEMMA HandOutStep ==
  ASSUME RotationInv, NEW r \in Requests, rt[r] \in Tokens, replay[rt[r]] # None,
         Unlock(r, replay[rt[r]]), UNCHANGED <<replay, rt>>
  PROVE  Agreement'
<1>1. /\ \A q \in Requests : pc'[q] = IF q = r THEN "release" ELSE pc[q]
      /\ \A q \in Requests : reply'[q] = IF q = r THEN replay[rt[r]] ELSE reply[q]
  BY DEF Unlock, RotationInv, TypeOK, LocalsOK
<1>2. \A q \in Requests : HasPair(q)' => (q = r \/ HasPair(q))
  BY <1>1 DEF HasPair
<1>3. \A q \in Requests : pc[q] = "save" => rt[q] # rt[r]
  BY DEF RotationInv, Agreement
<1>q. QED
  BY <1>1, <1>2, <1>3 DEF Agreement, RotationInv

\* All steps but four are quiet.
LEMMA QuietSteps ==
  ASSUME RotationInv, [Next]_vars
  PROVE  \/ \E r \in Requests, n \in Tokens : Rotate(r, n)
         \/ \E r \in Requests : SavePair(r) \/ Fallback(r) \/ ReplayOrTheft(r)
         \/ Quiet
<1> USE DEF Quiet, HasPair, RotationInv, TypeOK, LocalsOK, db, redis, locals, ghosts
<1>a. \A q \in Requests : RequestOK(q)
  BY DEF Knowledge
<1>1. ASSUME NEW r \in Requests, NEW d \in Devices, ConsumeCode(r, d)
      PROVE  Quiet
  BY <1>1, Answers DEF ConsumeCode, Goto, Finish
<1>2. ASSUME NEW r \in Requests, NEW d \in Devices, ConsumeMiss(r, d)
      PROVE  Quiet
  BY <1>2, Answers DEF ConsumeMiss, Finish
<1>3. ASSUME NEW r \in Requests, NEW n \in Tokens, CreateDevice(r, n)
      PROVE  Quiet
  BY <1>3 DEF CreateDevice, Goto
<1>4. ASSUME NEW r \in Requests, SetVersion(r)
      PROVE  Quiet
  BY <1>4, <1>a, Answers DEF SetVersion, Finish, At, RequestOK
<1>5. ASSUME NEW r \in Requests, NEW t \in Tokens \cup Guesses, Present(r, t)
      PROVE  Quiet
  BY <1>5, <1>a DEF Present, Goto, CanBegin, RequestOK
<1>6. ASSUME NEW r \in Requests, Acquire(r)
      PROVE  Quiet
  BY <1>6 DEF Acquire, Goto
<1>7. ASSUME NEW r \in Requests, AcquireTimeout(r)
      PROVE  Quiet
  BY <1>7, Answers DEF AcquireTimeout, Finish
<1>8. ASSUME NEW r \in Requests, Find(r)
      PROVE  Quiet
  BY <1>8, Answers DEF Find, Goto, Unlock
<1>9. ASSUME NEW r \in Requests, ReadVersion(r)
      PROVE  Quiet
  BY <1>9, Answers DEF ReadVersion, Goto, Unlock
<1>10. ASSUME NEW r \in Requests, RotateConflict(r)
      PROVE  Quiet
  BY <1>10 DEF RotateConflict, Goto
<1>11. ASSUME NEW r \in Requests, RevokeFamily(r)
      PROVE  Quiet
  BY <1>11 DEF RevokeFamily, Goto
<1>12. ASSUME NEW r \in Requests, BumpFamily(r)
      PROVE  Quiet
  BY <1>12, Answers DEF BumpFamily, Unlock
<1>13. ASSUME NEW r \in Requests, Release(r)
      PROVE  Quiet
  BY <1>13 DEF Release, Goto
<1>14. ASSUME NEW r \in Requests, NEW s \in Requests, LogoutByAccess(r, s)
      PROVE  Quiet
  BY <1>14 DEF LogoutByAccess, Goto
<1>15. ASSUME NEW r \in Requests, NEW t \in Tokens \cup Guesses, LogoutByRefresh(r, t)
      PROVE  Quiet
  BY <1>15, Answers DEF LogoutByRefresh, Goto, Finish
<1>16. ASSUME NEW r \in Requests, NEW s \in Requests, NEW d \in Devices, DeleteDevice(r, s, d)
      PROVE  Quiet
  BY <1>16, Answers DEF DeleteDevice, Goto, Finish
<1>17. ASSUME NEW r \in Requests, RevokeByDevice(r)
      PROVE  Quiet
  BY <1>17 DEF RevokeByDevice, Goto
<1>18. ASSUME NEW r \in Requests, BumpDevice(r)
      PROVE  Quiet
  BY <1>18, Answers DEF BumpDevice, Finish
<1>19. ASSUME NEW r \in Requests, StoreError(r)
      PROVE  Quiet
  BY <1>19, Answers DEF StoreError, Unlock, Finish
<1>20. ASSUME NEW r \in Requests, Abandon(r)
      PROVE  Quiet
  BY <1>20, Answers DEF Abandon
<1>21. ASSUME NEW t \in Tokens \cup Guesses, LockExpires(t)
      PROVE  Quiet
  BY <1>21 DEF LockExpires
<1>22. ASSUME NEW t \in Tokens, WindowCloses(t)
      PROVE  Quiet
  BY <1>22 DEF WindowCloses
<1>23. ASSUME NEW t \in Tokens, ReplayExpires(t)
      PROVE  Quiet
  BY <1>23 DEF ReplayExpires, RedisOK
<1>24. ASSUME NEW t \in Tokens, TokenExpires(t)
      PROVE  Quiet
  BY <1>24 DEF TokenExpires
<1>25. CASE UNCHANGED vars
  BY <1>25 DEF vars
<1>q. QED
  BY <1>1, <1>2, <1>3, <1>4, <1>5, <1>6, <1>7, <1>8, <1>9, <1>10, <1>11, <1>12, <1>13, <1>14, <1>15, <1>16, <1>17, <1>18, <1>19, <1>20, <1>21, <1>22, <1>23, <1>24, <1>25
     DEF Next, Arrive, Serve, Exchange, Refresh, Revoke, Environment, Finished

\* No step makes two clients that presented one token hear of two pairs.
LEMMA AgreementStep ==
  ASSUME RotationInv, [Next]_vars
  PROVE  Agreement'
<1>1. ASSUME NEW r \in Requests, NEW n \in Tokens, Rotate(r, n)
      PROVE  Agreement'
  <2>1. rt[r] \in Tokens /\ rt[r] \notin used /\ UNCHANGED <<replay, rt, reply>>
    BY <1>1 DEF Rotate, MarkUsedIfUnused, At, OnRow, redis,
                RotationInv, Knowledge, RequestOK, Known
  <2>2. \A q \in Requests : pc'[q] = "save" => q = r \/ pc[q] = "save"
    BY <1>1 DEF Rotate, Goto, RotationInv, TypeOK, LocalsOK
  <2>3. \A q \in Requests : HasPair(q)' <=> HasPair(q)
    BY <2>1 DEF HasPair
  <2>q. QED
    BY <2>1, <2>2, <2>3, UnusedIsSilent DEF Agreement, RotationInv
<1>2. ASSUME NEW r \in Requests, SavePair(r)
      PROVE  Agreement'
  <2> DEFINE pair == Pair(fresh[r], seen[r])
  <2>1. rt[r] \in Tokens /\ pc[r] = "save"
    BY <1>2 DEF SavePair, At, OnRow, RotationInv, Knowledge, RequestOK, Known
  <2>2. /\ \A q \in Requests : pc'[q] = IF q = r THEN "release" ELSE pc[q]
        /\ \A q \in Requests : reply'[q] = IF q = r THEN pair ELSE reply[q]
        /\ \A t \in Tokens : replay'[t] = IF t = rt[r] THEN pair ELSE replay[t]
        /\ rt' = rt
    BY <1>2 DEF SavePair, Unlock, RotationInv, TypeOK, LocalsOK, RedisOK
  <2>3. \A q \in Requests : q # r => (HasPair(q)' <=> HasPair(q))
    BY <2>2 DEF HasPair
  <2>4. \A q \in Requests : HasPair(q) => rt[q] \in Tokens /\ rt[q] # rt[r]
    BY <2>1 DEF RotationInv, Agreement, Knowledge, RequestOK, HasPair
  <2>5. \A q \in Requests : q # r /\ pc[q] = "save" => rt[q] \in Tokens /\ rt[q] # rt[r]
    BY <2>1 DEF RotationInv, Agreement, Knowledge, RequestOK, Known, OnRow
  <2>q. QED
    BY <2>1, <2>2, <2>3, <2>4, <2>5 DEF Agreement, RotationInv
<1>3. ASSUME NEW r \in Requests, Fallback(r) \/ ReplayOrTheft(r)
      PROVE  Agreement'
  <2>1. rt[r] \in Tokens
    BY <1>3 DEF Fallback, ReplayOrTheft, At, OnRow, RotationInv, Knowledge, RequestOK, Known
  <2>2. CASE replay[rt[r]] # None
    BY <1>3, <2>1, <2>2, HandOutStep DEF Fallback, ReplayOrTheft, redis
  <2>3. CASE replay[rt[r]] = None
    <3>1. Quiet
      BY <1>3, <2>3, Answers
         DEF Fallback, ReplayOrTheft, Goto, Unlock, redis, HasPair, Quiet,
             RotationInv, TypeOK, LocalsOK
    <3>q. QED  BY <3>1, QuietStep
  <2>q. QED  BY <2>2, <2>3
<1>q. QED  BY <1>1, <1>2, <1>3, QuietSteps, QuietStep

-----------------------------------------------------------------------------
(* The invariant and what follows from it. *)

\* Before the first request nothing is issued, locked, cached or answered.
LEMMA RotationInit == Init => RotationInv
<1> SUFFICES ASSUME Init PROVE RotationInv
  OBVIOUS
<1> USE DEF Init
<1>1. TypeOK
  BY Answers DEF TypeOK, DbOK, RedisOK, LocalsOK, GhostsOK
<1>2. FirstTokens /\ Lines /\ OneHead /\ SingleSuccessor
  BY ConstantsAssumption DEF FirstTokens, RowsOf, Lines, OneHead, SingleSuccessor, Issued
<1>3. Knowledge /\ Agreement
  BY Answers DEF Knowledge, RequestOK, CacheOK, OnRow, Agreement, HasPair
<1>q. QED  BY <1>1, <1>2, <1>3 DEF RotationInv

\* Requests, rows and cache fit together in every reachable state, whatever
\* interleaving, lock expiry, store error or crash led there.
THEOREM RotationInvariant == Spec => []RotationInv
<1>1. RotationInv /\ [Next]_vars => RotationInv'
  BY TypeStep, FirstTokensStep, LinesStep, RequestStep, CacheStep, AgreementStep
     DEF RotationInv, Knowledge
<1>q. QED  BY <1>1, RotationInit, PTL DEF Spec

\* Every variable keeps its type and no client gets an empty answer.
THEOREM TypeCorrect == Spec => []TypeOK
<1>1. RotationInv => TypeOK
  BY DEF RotationInv
<1>q. QED  BY <1>1, RotationInvariant, PTL

\* A device never has two refresh tokens good for a rotation, and no refresh
\* token is exchanged for two others: MarkUsedIfUnused carries this alone, the
\* lock is not needed for it.
THEOREM LinesStayLinear == Spec => [](OneHead /\ SingleSuccessor)
<1>1. RotationInv => OneHead /\ SingleSuccessor
  BY DEF RotationInv
<1>q. QED  BY <1>1, RotationInvariant, PTL

\* All clients that get a pair for a refresh token get the same pair.
THEOREM SameAnswer == Spec => []OneAnswer
<1>1. RotationInv => OneAnswer
  BY DEF RotationInv, Agreement, HasPair, OneAnswer, Told
<1>q. QED  BY <1>1, RotationInvariant, PTL

-----------------------------------------------------------------------------
(* Rotation implements the lineage of RefreshLineage. *)

\* The heir of a token, and what clients that presented it were told.
Heir(t)   == IF Children(t) = {} THEN NoToken ELSE CHOOSE n \in Children(t) : TRUE
ToldOf(t) == {reply[r].rt : r \in {s \in Told : rt[s] = t}}

\* The initial states and steps of the lineage in these terms.
LEMMA LineageMap ==
  /\ Lineage!Init <=>
       /\ device = [t \in Tokens |-> NoDevice]
       /\ [t \in Tokens |-> Heir(t)] = [t \in Tokens |-> NoToken]
       /\ [t \in Tokens |-> ToldOf(t)] = [t \in Tokens |-> {}]
  /\ \A d \in Devices, n \in Tokens : Lineage!Start(d, n) <=>
       /\ \A t \in Tokens : device[t] # d
       /\ device[n] = NoDevice
       /\ device' = [device EXCEPT ![n] = d]
       /\ [t \in Tokens |-> Heir(t)'] = [t \in Tokens |-> Heir(t)]
       /\ [t \in Tokens |-> ToldOf(t)'] = [t \in Tokens |-> ToldOf(t)]
  /\ \A t, n \in Tokens : Lineage!Exchange(t, n) <=>
       /\ device[t] # NoDevice
       /\ [u \in Tokens |-> Heir(u)][t] = NoToken
       /\ device[n] = NoDevice
       /\ device' = [device EXCEPT ![n] = device[t]]
       /\ [u \in Tokens |-> Heir(u)'] = [[u \in Tokens |-> Heir(u)] EXCEPT ![t] = n]
       /\ [u \in Tokens |-> ToldOf(u)'] = [u \in Tokens |-> ToldOf(u)]
  /\ \A t \in Tokens : Lineage!Tell(t) <=>
       /\ [u \in Tokens |-> Heir(u)][t] # NoToken
       /\ [u \in Tokens |-> ToldOf(u)'] =
            [[u \in Tokens |-> ToldOf(u)] EXCEPT ![t] = @ \cup {[u \in Tokens |-> Heir(u)][t]}]
       /\ device' = device
       /\ [u \in Tokens |-> Heir(u)'] = [u \in Tokens |-> Heir(u)]
BY DEF Lineage!Init, Lineage!Start, Lineage!Exchange, Lineage!Tell, Heir, ToldOf

\* The heir depends on the children alone.
LEMMA SameChildren ==
  ASSUME NEW t \in Tokens, Children(t)' = Children(t)
  PROVE  Heir(t)' = Heir(t)
<1> DEFINE H(S) == IF S = {} THEN NoToken ELSE CHOOSE n \in S : TRUE
<1>1. Heir(t) = H(Children(t)) /\ Heir(t)' = H(Children(t)')
  BY DEF Heir
<1> HIDE DEF H
<1>q. QED  BY <1>1

\* A single child is the heir.
LEMMA OnlyChild ==
  ASSUME NEW t \in Tokens, NEW n \in Tokens, Children(t)' = {n}
  PROVE  Heir(t)' = n
<1> DEFINE H(S) == IF S = {} THEN NoToken ELSE CHOOSE m \in S : TRUE
<1>1. Heir(t)' = H(Children(t)')
  BY DEF Heir
<1>2. H({n}) = n
  OBVIOUS
<1> HIDE DEF H
<1>q. QED  BY <1>1, <1>2

\* A token has at most one child, and that is its heir.
LEMMA HeirIs ==
  RotationInv =>
    \A t \in Tokens :
      /\ (\A n \in Tokens : parent[n] # t) => Heir(t) = NoToken
      /\ \A n \in Tokens : parent[n] = t => Heir(t) = n
<1> SUFFICES ASSUME RotationInv, NEW t \in Tokens
             PROVE  /\ (\A n \in Tokens : parent[n] # t) => Heir(t) = NoToken
                    /\ \A n \in Tokens : parent[n] = t => Heir(t) = n
  OBVIOUS
<1>1. \A m, n \in Children(t) : m = n
  BY ConstantsAssumption DEF Children, RotationInv, SingleSuccessor
<1>2. ASSUME NEW n \in Tokens, parent[n] = t
      PROVE  (CHOOSE m \in Children(t) : TRUE) = n
  <2>1. n \in Children(t)
    BY <1>2 DEF Children
  <2>2. (CHOOSE m \in Children(t) : TRUE) \in Children(t)
    BY <2>1
  <2>q. QED  BY <1>1, <2>1, <2>2
<1>q. QED  BY <1>2 DEF Heir, Children

\* Clients are told by SetVersion, which answers to no token, and when a
\* request that has its answer releases its lock; nobody is told twice.
LEMMA Telling ==
  ASSUME RotationInv, [Next]_vars, NEW q \in Requests
  PROVE  /\ q \in Told => q \in Told' /\ rt'[q] = rt[q] /\ reply'[q] = reply[q]
         /\ q \in Told' /\ q \notin Told =>
              \/ rt'[q] = NoToken
              \/ Release(q) /\ pc[q] = "release" /\ reply[q].kind = "pair"
<1> USE DEF RotationInv, TypeOK, LocalsOK
<1>1. RequestOK(q)
  BY DEF Knowledge
<1>q. QED
  <2>a. CASE \E p \in Requests : Arrive(p)
    BY <1>1, Answers, <2>a DEF RequestOK, Told, Over, Serving, Locked, vars, db, redis,
       locals, ghosts, At, Goto, Finish, Unlock, CanBegin, Arrive, ConsumeCode,
       ConsumeMiss, Present, LogoutByRefresh, LogoutByAccess, DeleteDevice
  <2>b. CASE \E p \in Requests : Exchange(p) \/ Revoke(p)
    BY <1>1, Answers, <2>b DEF RequestOK, Told, Over, Serving, Locked, vars, db, redis,
       locals, ghosts, At, Goto, Finish, Unlock, CanBegin, Exchange, Revoke,
       CreateDevice, SetVersion, RevokeByDevice, BumpDevice
  <2>c. CASE \E p \in Requests : Refresh(p)
    BY <1>1, Answers, <2>c DEF RequestOK, Told, Over, Serving, Locked, vars, db, redis,
       locals, ghosts, At, Goto, Finish, Unlock, CanBegin, Refresh, Acquire,
       AcquireTimeout, Find, ReadVersion, Rotate, RotateConflict, Fallback, SavePair,
       ReplayOrTheft, RevokeFamily, BumpFamily, Release
  <2>d. CASE Environment
    BY <1>1, Answers, <2>d DEF RequestOK, Told, Over, Serving, Locked, vars, db, redis,
       locals, ghosts, At, Goto, Finish, Unlock, CanBegin, Environment, StoreError,
       Abandon, LockExpires, WindowCloses, ReplayExpires, TokenExpires
  <2>e. CASE Finished \/ UNCHANGED vars
    BY <1>1, Answers, <2>e DEF RequestOK, Told, Over, Serving, Locked, vars, db, redis,
       locals, ghosts, At, Goto, Finish, Unlock, CanBegin, Finished
  <2>q. QED  BY <2>a, <2>b, <2>c, <2>d, <2>e DEF Next, Serve

\* So what the clients of a token were told changes by one answer, if at all.
LEMMA ToldSteps ==
  ASSUME RotationInv, [Next]_vars
  PROVE  \/ \A t \in Tokens : ToldOf(t)' = ToldOf(t)
         \/ \E r \in Requests :
              /\ Release(r) /\ reply[r].kind = "pair" /\ rt[r] \in Tokens
              /\ \A t \in Tokens :
                   ToldOf(t)' = IF t = rt[r] THEN ToldOf(t) \cup {reply[r].rt} ELSE ToldOf(t)
<1>0. Told \subseteq Requests /\ Told' \subseteq Requests
  BY DEF Told
<1>1. CASE \E r \in Requests : Release(r) /\ reply[r].kind = "pair" /\ rt[r] \in Tokens
  <2>1. PICK r \in Requests : Release(r) /\ reply[r].kind = "pair" /\ rt[r] \in Tokens
    BY <1>1
  <2>2. Told' = Told \cup {r} /\ rt' = rt /\ reply' = reply
    BY <2>1 DEF Release, Goto, Told, RotationInv, TypeOK, LocalsOK
  <2>3. ASSUME NEW t \in Tokens
        PROVE  ToldOf(t)' = IF t = rt[r] THEN ToldOf(t) \cup {reply[r].rt} ELSE ToldOf(t)
    BY <2>2 DEF ToldOf
  <2>q. QED  BY <2>1, <2>3
<1>2. CASE ~\E r \in Requests : Release(r) /\ reply[r].kind = "pair" /\ rt[r] \in Tokens
  <2>1. ASSUME NEW q \in Told', rt'[q] \in Tokens
        PROVE  q \in Told
    <3>1. Release(q) => rt'[q] = rt[q]
      BY DEF Release
    <3>q. QED  BY <1>0, <1>2, <2>1, <3>1, Telling, ConstantsAssumption
  <2>2. \A q \in Told : q \in Told' /\ rt'[q] = rt[q] /\ reply'[q] = reply[q]
    BY <1>0, Telling
  <2>3. ASSUME NEW t \in Tokens
        PROVE  ToldOf(t)' = ToldOf(t)
    BY <2>1, <2>2 DEF ToldOf
  <2>q. QED  BY <2>3
<1>q. QED  BY <1>1, <1>2

\* Inserting rows happens in requests that tell nothing.
LEMMA RowsTellNothing ==
  ASSUME RotationInv, [Next]_vars,
         \/ \E r \in Requests, n \in Tokens : CreateDevice(r, n)
         \/ \E r \in Requests, n \in Tokens : Rotate(r, n)
  PROVE  \A t \in Tokens : ToldOf(t)' = ToldOf(t)
<1>1. Told' = Told /\ rt' = rt /\ reply' = reply
  BY DEF CreateDevice, Rotate, At, Goto, Told, RotationInv, TypeOK, LocalsOK
<1>q. QED  BY <1>1 DEF ToldOf

\* A code exchange starts a line, a rotation extends one, a release tells the
\* heir, and every other step leaves the lineage alone.
LEMMA LineageStep ==
  ASSUME RotationInv, [Next]_vars
  PROVE  [Lineage!Next]_(Lineage!lineage)
<1> USE DEF RotationInv, TypeOK, DbOK, GhostsOK
<1>1. ASSUME NEW r \in Requests, NEW n \in Tokens, CreateDevice(r, n)
      PROVE  Lineage!Start(target[r], n) /\ target[r] \in Devices
  <2>1. /\ target[r] \in Devices /\ device[n] = NoDevice
        /\ \A t \in Tokens : device[t] # target[r]
        /\ device' = [device EXCEPT ![n] = target[r]] /\ parent' = parent
    BY <1>1 DEF CreateDevice, At, Mints, Issued, ghosts, FirstTokens, RowsOf
  <2>2. \A t \in Tokens : Heir(t)' = Heir(t)
    BY <2>1 DEF Heir, Children
  <2>3. \A t \in Tokens : ToldOf(t)' = ToldOf(t)
    BY <1>1, RowsTellNothing
  <2>q. QED
    BY <2>1, <2>2, <2>3, LineageMap
<1>2. ASSUME NEW r \in Requests, NEW n \in Tokens, Rotate(r, n)
      PROVE  Lineage!Exchange(rt[r], n) /\ rt[r] \in Tokens
  <2>1. /\ rt[r] \in Tokens /\ rt[r] \notin used /\ device[rt[r]] # NoDevice
        /\ device[n] = NoDevice
        /\ device' = [device EXCEPT ![n] = device[rt[r]]]
        /\ parent' = [parent EXCEPT ![n] = rt[r]]
    BY <1>2 DEF Rotate, MarkUsedIfUnused, Mints, Issued, At, OnRow, Knowledge, RequestOK, Known
  <2>2. parent[n] = NoToken /\ \A m \in Tokens : parent[m] # rt[r]
    BY <2>1, ConstantsAssumption DEF Lines, Known, Issued
  <2>7. rt' = rt
    BY <1>2 DEF Rotate
  <2>4. ASSUME NEW t \in Tokens, t = rt[r]
        PROVE  Heir(t) = NoToken /\ Heir(t)' = n
    <3>1. Heir(t) = NoToken
      BY <2>2, <2>4, HeirIs
    <3>2. Children(t)' = {n}
      BY <2>1, <2>2, <2>4 DEF Children
    <3>q. QED  BY <3>1, <3>2, OnlyChild
  <2>5. \A t \in Tokens : t # rt[r] => Heir(t)' = Heir(t)
    <3>1. \A t \in Tokens : t # rt[r] => Children(t)' = Children(t)
      BY <2>1, <2>2, ConstantsAssumption DEF Children
    <3>q. QED  BY <3>1, SameChildren
  <2>6. \A t \in Tokens : ToldOf(t)' = ToldOf(t)
    BY <1>2, RowsTellNothing
  <2>q. QED
    <3>1. [u \in Tokens |-> Heir(u)'] = [[u \in Tokens |-> Heir(u)] EXCEPT ![rt[r]] = n]
      BY <2>1, <2>4, <2>5
    <3>2. [u \in Tokens |-> Heir(u)][rt[r]] = NoToken
      BY <2>1, <2>4
    <3>3. [u \in Tokens |-> ToldOf(u)'] = [u \in Tokens |-> ToldOf(u)]
      BY <2>6
    <3>q. QED  BY <2>1, <3>1, <3>2, <3>3, LineageMap
<1>3. CASE UNCHANGED <<device, used, parent>>
  <2>1. \A t \in Tokens : Heir(t)' = Heir(t)
    BY <1>3 DEF Heir, Children
  <2>2. CASE \A t \in Tokens : ToldOf(t)' = ToldOf(t)
    BY <1>3, <2>1, <2>2 DEF Lineage!lineage, Heir, ToldOf
  <2>3. ASSUME NEW r \in Requests, NEW t \in Tokens, t = rt[r],
               Release(r), reply[r].kind = "pair",
               \A u \in Tokens :
                 ToldOf(u)' = IF u = t THEN ToldOf(u) \cup {reply[r].rt} ELSE ToldOf(u)
        PROVE  Lineage!Tell(t)
    <3>1. Heir(t) = reply[r].rt /\ reply[r].rt # NoToken
      BY <2>3, HeirIs, ConstantsAssumption DEF Knowledge, RequestOK, Known
    <3>2. [u \in Tokens |-> Heir(u)][t] = reply[r].rt
      BY <3>1
    <3>3. [u \in Tokens |-> ToldOf(u)'] =
            [[u \in Tokens |-> ToldOf(u)]
               EXCEPT ![t] = @ \cup {[u \in Tokens |-> Heir(u)][t]}]
      BY <2>3, <3>2
    <3>4. [u \in Tokens |-> Heir(u)'] = [u \in Tokens |-> Heir(u)]
      BY <2>1
    <3>q. QED  BY <1>3, <3>1, <3>2, <3>3, <3>4, LineageMap
  <2>4. CASE \E r \in Requests :
              /\ Release(r) /\ reply[r].kind = "pair" /\ rt[r] \in Tokens
              /\ \A t \in Tokens :
                   ToldOf(t)' = IF t = rt[r] THEN ToldOf(t) \cup {reply[r].rt} ELSE ToldOf(t)
    <3>1. \E r \in Requests, t \in Tokens :
            /\ t = rt[r] /\ Release(r) /\ reply[r].kind = "pair"
            /\ \A u \in Tokens :
                 ToldOf(u)' = IF u = t THEN ToldOf(u) \cup {reply[r].rt} ELSE ToldOf(u)
      BY <2>4
    <3>q. QED  BY <2>3, <3>1 DEF Lineage!Next
  <2>q. QED
    BY <2>2, <2>4, ToldSteps
<1>q. QED
  BY <1>1, <1>2, <1>3, RowSteps DEF Lineage!Next

\* Rotation, with its requests, locks, caches and failures, implements the lines
\* of tokens of RefreshLineage.
THEOREM RotationRefinesLineage == Spec => ImplementsLineage
<1>1. Init => Lineage!Init
  <2> SUFFICES ASSUME Init PROVE Lineage!Init
    OBVIOUS
  <2>1. \A t \in Tokens : Heir(t) = NoToken /\ ToldOf(t) = {}
    BY ConstantsAssumption DEF Init, Heir, Children, ToldOf, Told
  <2>q. QED
    BY <2>1, LineageMap DEF Init
<1>2. RotationInv /\ [Next]_vars => [Lineage!Next]_(Lineage!lineage)
  BY LineageStep
<1>q. QED
  BY <1>1, <1>2, RotationInvariant, PTL DEF Spec, ImplementsLineage, Lineage!Spec

-----------------------------------------------------------------------------
(* What revocation does to the tokens that clients and the replay cache hold, *)
(* and who is taken for a thief.  First: how a request gets somewhere.        *)

\* The presented token of a request at work on it was presented to it: one a
\* client was told, or a guess.
LEMMA PresentMoves ==
  ASSUME RotationInv, [Next]_vars, NEW q \in Requests, pc'[q] \in Presenting
  PROVE  \/ pc[q] \in Presenting /\ rt'[q] = rt[q]
         \/ /\ rt'[q] \in Guesses \/ Held(rt'[q])
            /\ UNCHANGED <<device, replay>>
<1> USE DEF RotationInv, TypeOK, LocalsOK
<1>q. QED
  <2>a. CASE \E p \in Requests : Arrive(p)
    BY <2>a DEF Presenting, OnRow, vars, db, redis, locals, ghosts, At, Goto, Finish,
       Unlock, CanBegin, Arrive, ConsumeCode, ConsumeMiss, Present, LogoutByRefresh,
       LogoutByAccess, DeleteDevice
  <2>b. CASE \E p \in Requests : Exchange(p) \/ Revoke(p)
    BY <2>b DEF Presenting, OnRow, vars, db, redis, locals, ghosts, At, Goto, Finish,
       Unlock, CanBegin, Exchange, Revoke, CreateDevice, SetVersion, RevokeByDevice,
       BumpDevice
  <2>c. CASE \E p \in Requests : Refresh(p)
    BY <2>c DEF Presenting, OnRow, vars, db, redis, locals, ghosts, At, Goto, Finish,
       Unlock, CanBegin, Refresh, Acquire, AcquireTimeout, Find, ReadVersion, Rotate,
       RotateConflict, Fallback, SavePair, ReplayOrTheft, RevokeFamily, BumpFamily,
       Release
  <2>d. CASE Environment
    BY <2>d DEF Presenting, OnRow, vars, db, redis, locals, ghosts, At, Goto, Finish,
       Unlock, CanBegin, Environment, StoreError, Abandon, LockExpires, WindowCloses,
       ReplayExpires, TokenExpires
  <2>e. CASE Finished \/ UNCHANGED vars
    BY <2>e DEF Presenting, OnRow, vars, db, redis, locals, ghosts, At, Goto, Finish,
       Unlock, CanBegin, Finished
  <2>q. QED  BY <2>a, <2>b, <2>c, <2>d, <2>e DEF Next, Serve

\* A pair is answered by the code exchange, the rotation and the two replays.
LEMMA PairMoves ==
  ASSUME RotationInv, [Next]_vars, NEW q \in Requests, reply'[q].kind = "pair"
  PROVE  \/ reply'[q] = reply[q] /\ target'[q] = target[q]
         \/ SetVersion(q) \/ SavePair(q) \/ Fallback(q) \/ ReplayOrTheft(q)
<1> USE DEF RotationInv, TypeOK, LocalsOK
<1>1. RequestOK(q)
  BY DEF Knowledge
<1>q. QED
  <2>a. CASE \E p \in Requests : Arrive(p)
    BY <1>1, Answers, <2>a DEF RequestOK, vars, db, redis, locals, ghosts, At, Goto,
       Finish, Unlock, CanBegin, Arrive, ConsumeCode, ConsumeMiss, Present,
       LogoutByRefresh, LogoutByAccess, DeleteDevice
  <2>b. CASE \E p \in Requests : Exchange(p) \/ Revoke(p)
    BY <1>1, Answers, <2>b DEF RequestOK, vars, db, redis, locals, ghosts, At, Goto,
       Finish, Unlock, CanBegin, Exchange, Revoke, CreateDevice, SetVersion,
       RevokeByDevice, BumpDevice
  <2>c. CASE \E p \in Requests : Refresh(p)
    BY <1>1, Answers, <2>c DEF RequestOK, vars, db, redis, locals, ghosts, At, Goto,
       Finish, Unlock, CanBegin, Refresh, Acquire, AcquireTimeout, Find, ReadVersion,
       Rotate, RotateConflict, Fallback, SavePair, ReplayOrTheft, RevokeFamily,
       BumpFamily, Release
  <2>d. CASE Environment
    BY <1>1, Answers, <2>d DEF RequestOK, vars, db, redis, locals, ghosts, At, Goto,
       Finish, Unlock, CanBegin, Environment, StoreError, Abandon, LockExpires,
       WindowCloses, ReplayExpires, TokenExpires
  <2>e. CASE Finished \/ UNCHANGED vars
    BY <1>1, Answers, <2>e DEF RequestOK, vars, db, redis, locals, ghosts, At, Goto,
       Finish, Unlock, CanBegin, Finished
  <2>q. QED  BY <2>a, <2>b, <2>c, <2>d, <2>e DEF Next, Serve

\* The version that a rotation signs with was read from Redis before.
LEMMA SeenMoves ==
  ASSUME RotationInv, [Next]_vars, NEW q \in Requests,
         pc'[q] \in {"rotate", "fallback", "save"}
  PROVE  \/ /\ pc[q] \in {"rotate", "fallback", "save"}
            /\ seen'[q] = seen[q] /\ target'[q] = target[q]
         \/ ReadVersion(q) /\ seen'[q] = version[target[q]]
<1> USE DEF RotationInv, TypeOK, LocalsOK
<1>q. QED
  <2>a. CASE \E p \in Requests : Arrive(p)
    BY <2>a DEF vars, db, redis, locals, ghosts, At, Goto, Finish, Unlock, CanBegin,
       Arrive, ConsumeCode, ConsumeMiss, Present, LogoutByRefresh, LogoutByAccess,
       DeleteDevice
  <2>b. CASE \E p \in Requests : Exchange(p) \/ Revoke(p)
    BY <2>b DEF vars, db, redis, locals, ghosts, At, Goto, Finish, Unlock, CanBegin,
       Exchange, Revoke, CreateDevice, SetVersion, RevokeByDevice, BumpDevice
  <2>c. CASE \E p \in Requests : Refresh(p)
    BY <2>c DEF vars, db, redis, locals, ghosts, At, Goto, Finish, Unlock, CanBegin,
       Refresh, Acquire, AcquireTimeout, Find, ReadVersion, Rotate, RotateConflict,
       Fallback, SavePair, ReplayOrTheft, RevokeFamily, BumpFamily, Release
  <2>d. CASE Environment
    BY <2>d DEF vars, db, redis, locals, ghosts, At, Goto, Finish, Unlock, CanBegin,
       Environment, StoreError, Abandon, LockExpires, WindowCloses, ReplayExpires,
       TokenExpires
  <2>e. CASE Finished \/ UNCHANGED vars
    BY <2>e DEF vars, db, redis, locals, ghosts, At, Goto, Finish, Unlock, CanBegin,
       Finished
  <2>q. QED  BY <2>a, <2>b, <2>c, <2>d, <2>e DEF Next, Serve

\* A request on its way to SetVersion has just created its device.
LEMMA StartMoves ==
  ASSUME RotationInv, [Next]_vars, NEW q \in Requests, pc'[q] = "setVersion"
  PROVE  \/ pc[q] = "setVersion" /\ target'[q] = target[q]
         \/ \E n \in Tokens : CreateDevice(q, n)
<1> USE DEF RotationInv, TypeOK, LocalsOK
<1>q. QED
  <2>a. CASE \E p \in Requests : Arrive(p)
    BY <2>a DEF vars, db, redis, locals, ghosts, At, Goto, Finish, Unlock, CanBegin,
       Arrive, ConsumeCode, ConsumeMiss, Present, LogoutByRefresh, LogoutByAccess,
       DeleteDevice
  <2>b. CASE \E p \in Requests : Exchange(p) \/ Revoke(p)
    BY <2>b DEF vars, db, redis, locals, ghosts, At, Goto, Finish, Unlock, CanBegin,
       Exchange, Revoke, CreateDevice, SetVersion, RevokeByDevice, BumpDevice
  <2>c. CASE \E p \in Requests : Refresh(p)
    BY <2>c DEF vars, db, redis, locals, ghosts, At, Goto, Finish, Unlock, CanBegin,
       Refresh, Acquire, AcquireTimeout, Find, ReadVersion, Rotate, RotateConflict,
       Fallback, SavePair, ReplayOrTheft, RevokeFamily, BumpFamily, Release
  <2>d. CASE Environment
    BY <2>d DEF vars, db, redis, locals, ghosts, At, Goto, Finish, Unlock, CanBegin,
       Environment, StoreError, Abandon, LockExpires, WindowCloses, ReplayExpires,
       TokenExpires
  <2>e. CASE Finished \/ UNCHANGED vars
    BY <2>e DEF vars, db, redis, locals, ghosts, At, Goto, Finish, Unlock, CanBegin,
       Finished
  <2>q. QED  BY <2>a, <2>b, <2>c, <2>d, <2>e DEF Next, Serve

\* Only SetVersion may put a version back.
LEMMA VersionsGrow ==
  ASSUME RotationInv, [Next]_vars, NEW d \in Devices
  PROVE  \/ version[d] <= version'[d]
         \/ \E r \in Requests : SetVersion(r) /\ target[r] = d
<1>1. CASE UNCHANGED version
  BY <1>1 DEF RotationInv, TypeOK, RedisOK
<1>2. ASSUME NEW r \in Requests, SetVersion(r)
      PROVE  version[d] <= version'[d] \/ target[r] = d
  BY <1>2 DEF SetVersion, RotationInv, TypeOK, RedisOK
<1>3. ASSUME NEW r \in Requests, BumpFamily(r) \/ BumpDevice(r)
      PROVE  version[d] <= version'[d]
  BY <1>3 DEF BumpFamily, BumpDevice, Bump, RotationInv, TypeOK, RedisOK
<1>4. \/ UNCHANGED version
      \/ \E r \in Requests : SetVersion(r) \/ BumpFamily(r) \/ BumpDevice(r)
  BY DEF Next, Arrive, Serve, Exchange, Refresh, Revoke, Environment, Finished,
         vars, db, redis, locals, ghosts,
         ConsumeCode, ConsumeMiss, CreateDevice, Present, Acquire, AcquireTimeout, Find,
         ReadVersion, Rotate, RotateConflict, Fallback, SavePair, ReplayOrTheft, RevokeFamily,
         Release, LogoutByAccess, LogoutByRefresh, DeleteDevice,
         RevokeByDevice, StoreError, Abandon, LockExpires, WindowCloses,
         ReplayExpires, TokenExpires
<1>q. QED  BY <1>1, <1>2, <1>3, <1>4

-----------------------------------------------------------------------------
(* Who presents a revoked token. *)

\* Such a request ends at the row, with an error.
LEMMA LateComersStep ==
  ASSUME RevocationInv, [Next]_vars
  PROVE  LateComers'
<1> SUFFICES ASSUME NEW q \in late'
             PROVE  /\ rt'[q] \in revoked'
                    /\ pc'[q] \in {"acquire", "find", "release"} \cup Over
                    /\ reply'[q].kind # "pair"
  BY DEF LateComers
<1> USE DEF RotationInv, TypeOK, LocalsOK, GhostsOK
<1>0. q \in Requests /\ RequestOK(q) /\ RotationInv
  <2>1. late' \subseteq Requests
    BY TypeStep DEF RevocationInv
  <2>q. QED  BY <2>1 DEF RevocationInv, Knowledge
<1>1. CASE q \in late
  <2>1. /\ rt[q] \in revoked /\ reply[q].kind # "pair"
        /\ pc[q] \in {"acquire", "find", "release"} \cup Over
    BY <1>1 DEF RevocationInv, LateComers
  <2>2. rt[q] \notin Guesses
    BY <2>1, ConstantsAssumption DEF RevocationInv, DbOK
  <2>3. revoked \subseteq revoked'
    BY DEF Next, Arrive, Serve, Exchange, Refresh, Revoke, Environment, Finished,
         vars, db, redis, locals, ghosts,
         ConsumeCode, ConsumeMiss, CreateDevice, SetVersion, Present, Acquire, AcquireTimeout, Find,
         ReadVersion, Rotate, RotateConflict, Fallback, SavePair, ReplayOrTheft, RevokeFamily,
         BumpFamily, Release, LogoutByAccess, LogoutByRefresh, DeleteDevice,
         RevokeByDevice, BumpDevice, StoreError, Abandon, LockExpires, WindowCloses,
         ReplayExpires, TokenExpires
  <2>4. /\ rt'[q] = rt[q]
        /\ pc'[q] \in {"acquire", "find", "release"} \cup Over
        /\ reply'[q].kind # "pair"
    <3>a. CASE \E p \in Requests : Arrive(p)
      BY <1>0, <2>1, <2>2, Answers, <3>a DEF RevocationInv, Over, vars, db, redis,
         locals, ghosts, At, Goto, Finish, Unlock, CanBegin, Arrive, ConsumeCode,
         ConsumeMiss, Present, LogoutByRefresh, LogoutByAccess, DeleteDevice
    <3>b. CASE \E p \in Requests : Exchange(p) \/ Revoke(p)
      BY <1>0, <2>1, <2>2, Answers, <3>b DEF RevocationInv, Over, vars, db, redis,
         locals, ghosts, At, Goto, Finish, Unlock, CanBegin, Exchange, Revoke,
         CreateDevice, SetVersion, RevokeByDevice, BumpDevice
    <3>c. CASE \E p \in Requests : Refresh(p)
      BY <1>0, <2>1, <2>2, Answers, <3>c DEF RevocationInv, Over, vars, db, redis,
         locals, ghosts, At, Goto, Finish, Unlock, CanBegin, Refresh, Acquire,
         AcquireTimeout, Find, ReadVersion, Rotate, RotateConflict, Fallback, SavePair,
         ReplayOrTheft, RevokeFamily, BumpFamily, Release
    <3>d. CASE Environment
      BY <1>0, <2>1, <2>2, Answers, <3>d DEF RevocationInv, Over, vars, db, redis,
         locals, ghosts, At, Goto, Finish, Unlock, CanBegin, Environment, StoreError,
         Abandon, LockExpires, WindowCloses, ReplayExpires, TokenExpires
    <3>e. CASE Finished \/ UNCHANGED vars
      BY <1>0, <2>1, <2>2, Answers, <3>e DEF RevocationInv, Over, vars, db, redis,
         locals, ghosts, At, Goto, Finish, Unlock, CanBegin, Finished
    <3>q. QED  BY <3>a, <3>b, <3>c, <3>d, <3>e DEF Next, Serve
  <2>q. QED  BY <2>1, <2>3, <2>4
<1>2. CASE q \notin late
  <2>1. PICK t \in Tokens \cup Guesses : Present(q, t) /\ t \in revoked
    BY <1>2 DEF Next, Arrive, Serve, Exchange, Refresh, Revoke, Environment, Finished,
         vars, db, redis, locals, ghosts,
         ConsumeCode, ConsumeMiss, CreateDevice, SetVersion, Present, Acquire, AcquireTimeout, Find,
         ReadVersion, Rotate, RotateConflict, Fallback, SavePair, ReplayOrTheft, RevokeFamily,
         BumpFamily, Release, LogoutByAccess, LogoutByRefresh, DeleteDevice,
         RevokeByDevice, BumpDevice, StoreError, Abandon, LockExpires, WindowCloses,
         ReplayExpires, TokenExpires
  <2>q. QED
    BY <1>0, <2>1 DEF Present, CanBegin, Goto, db, RequestOK, RevocationInv
<1>q. QED  BY <1>1, <1>2

-----------------------------------------------------------------------------
(* No access token is ahead of its device. *)

\* A request at work on a token, an answered pair and a cached one concern a
\* device that has a row.
LEMMA Concern ==
  ASSUME RotationInv
  PROVE  /\ \A q \in Requests : pc[q] \in OnRow =>
              rt[q] \in Tokens /\ target[q] = device[rt[q]] /\ target[q] \in Devices
         /\ \A q \in Requests : reply[q].kind = "pair" =>
              reply[q].rt \in Tokens /\ target[q] = device[reply[q].rt] /\ target[q] \in Devices
         /\ \A t \in Tokens : replay[t] # None => Known(t) /\ device[t] \in Devices
<1>1. \A t \in Tokens : Issued(t) => device[t] \in Devices
  BY DEF RotationInv, TypeOK, DbOK, Issued
<1>2. \A q \in Requests : RequestOK(q)
  BY DEF RotationInv, Knowledge
<1>3. \A t \in Tokens : replay[t] # None => Known(t)
  <2> SUFFICES ASSUME NEW t \in Tokens, replay[t] # None
               PROVE  Known(t)
    OBVIOUS
  <2>1. t = parent[replay[t].rt] /\ replay[t].rt \in Tokens
    BY DEF RotationInv, Knowledge, CacheOK, Known
  <2>2. t \in used
    BY <2>1, ConstantsAssumption DEF RotationInv, Lines
  <2>q. QED  BY <2>2 DEF RotationInv, Lines, Known
<1>q. QED  BY <1>1, <1>2, <1>3 DEF RequestOK, Known

\* While a device waits for SetVersion nobody comes by a token of it.
LEMMA UnheardStep ==
  ASSUME RevocationInv, [Next]_vars, NEW q \in Requests,
         pc[q] = "setVersion", pc'[q] = "setVersion", target'[q] = target[q]
  PROVE  Unheard(target[q])'
<1> DEFINE d == target[q]
<1>0. /\ RotationInv /\ Unheard(d) /\ d \in Devices
      /\ fresh[q] \in Tokens /\ device[fresh[q]] = d
  BY DEF RevocationInv, StartsUnheard, RotationInv, Knowledge, RequestOK, Known
<1>1. ASSUME NEW r \in Requests, pc'[r] \in Presenting, rt'[r] \in Tokens
      PROVE  device'[rt'[r]] # d
  <2>1. CASE pc[r] \in Presenting /\ rt'[r] = rt[r]
    <3>1. Known(rt[r]) /\ device[rt[r]] # d
      BY <1>0, <1>1, <2>1, ConstantsAssumption
         DEF Unheard, Presenting, RotationInv, Knowledge, RequestOK
    <3>q. QED  BY <1>0, <2>1, <3>1, RowsStay
  <2>2. CASE (rt'[r] \in Guesses \/ Held(rt'[r])) /\ UNCHANGED <<device, replay>>
    BY <1>0, <1>1, <2>2, ConstantsAssumption, Concern DEF Held, Told, Unheard
  <2>q. QED  BY <1>0, <1>1, <2>1, <2>2, PresentMoves
<1>2. ASSUME NEW r \in Requests, reply'[r].kind = "pair"
      PROVE  target'[r] # d
  <2>1. CASE reply'[r] = reply[r] /\ target'[r] = target[r]
    BY <1>0, <1>2, <2>1 DEF Unheard
  <2>2. CASE SetVersion(r)
    <3>1. r # q
      BY <1>0, <2>2 DEF SetVersion, Finish, RotationInv, TypeOK, LocalsOK
    <3>q. QED
      BY <2>2, <3>1 DEF SetVersion, At, RevocationInv, StartsUnheard
  <2>3. CASE SavePair(r) \/ Fallback(r) \/ ReplayOrTheft(r)
    BY <1>0, <2>3, Concern DEF SavePair, Fallback, ReplayOrTheft, At, OnRow, Unheard, Presenting
  <2>q. QED  BY <1>0, <1>2, <2>1, <2>2, <2>3, PairMoves
<1>3. ASSUME NEW t \in Tokens, device'[t] = d
      PROVE  replay'[t] = None
  <2>1. device[t] = d
    <3>1. CASE UNCHANGED <<device, used, parent>>
      BY <1>3, <3>1
    <3>2. ASSUME NEW r \in Requests, NEW n \in Tokens, CreateDevice(r, n)
          PROVE  device[t] = d
      <4>1. target[r] # d
        BY <1>0, <3>2 DEF CreateDevice, At, RotationInv, FirstTokens, RowsOf
      <4>q. QED  BY <1>3, <3>2, <4>1 DEF CreateDevice, RevocationInv, RotationInv, TypeOK, DbOK
    <3>3. ASSUME NEW r \in Requests, NEW n \in Tokens, Rotate(r, n)
          PROVE  device[t] = d
      <4>1. target[r] # d
        BY <1>0, <3>3, Concern DEF Rotate, At, OnRow, Unheard, Presenting
      <4>q. QED  BY <1>3, <3>3, <4>1 DEF Rotate, RevocationInv, RotationInv, TypeOK, DbOK
    <3>q. QED  BY <1>0, <3>1, <3>2, <3>3, RowSteps
  <2>2. replay[t] = None
    BY <1>0, <2>1 DEF Unheard
  <2>3. ASSUME NEW r \in Requests, SavePair(r)
        PROVE  replay'[t] = replay[t]
    <3>1. rt[r] # t
      BY <1>0, <2>1, <2>3, Concern DEF SavePair, At, OnRow, Unheard, Presenting
    <3>q. QED  BY <1>0, <2>3, <3>1 DEF SavePair, RotationInv, TypeOK, RedisOK
  <2>4. ASSUME NEW u \in Tokens, ReplayExpires(u)
        PROVE  replay'[t] = replay[t] \/ replay'[t] = None
    BY <1>0, <2>4 DEF ReplayExpires, RotationInv, TypeOK, RedisOK
  <2>q. QED  BY <1>0, <2>2, <2>3, <2>4, CacheSteps
<1>q. QED  BY <1>1, <1>2, <1>3 DEF Unheard

\* A device that was just created has no token that anybody knows.
LEMMA CreatedUnheard ==
  ASSUME RevocationInv, NEW q \in Requests, NEW n \in Tokens, CreateDevice(q, n)
  PROVE  Unheard(target[q])'
<1> DEFINE d == target[q]
<1>0. RotationInv
  BY DEF RevocationInv
<1>1. /\ \A t \in Tokens : device[t] # d
      /\ device[n] = NoDevice
      /\ device' = [device EXCEPT ![n] = d]
      /\ UNCHANGED <<rt, reply, target, replay>>
      /\ \A r \in Requests : pc'[r] = IF r = q THEN "setVersion" ELSE pc[r]
  BY <1>0 DEF CreateDevice, At, Mints, Issued, Goto, redis, RotationInv, FirstTokens, RowsOf,
              TypeOK, LocalsOK
<1>2. \A r \in Requests : pc[r] \in Presenting /\ rt[r] \in Tokens => Known(rt[r])
  BY <1>0, ConstantsAssumption DEF Presenting, RotationInv, Knowledge, RequestOK
<1>3. n \notin used
  BY <1>0, <1>1 DEF RotationInv, Lines, Issued
<1>4. replay[n] = None
  BY <1>0, <1>3, UnusedIsSilent
<1>5. \A r \in Requests : reply[r].kind = "pair" => target[r] # d
  BY <1>0, <1>1, Concern
<1>6. \A r \in Requests : pc'[r] \in Presenting => pc[r] \in Presenting
  BY <1>1 DEF Presenting, OnRow
<1>q. QED
  BY <1>0, <1>1, <1>2, <1>4, <1>5, <1>6 DEF Unheard, Known, Issued, RotationInv, TypeOK, DbOK

LEMMA StartsUnheardStep ==
  ASSUME RevocationInv, [Next]_vars
  PROVE  StartsUnheard'
<1>0. RotationInv
  BY DEF RevocationInv
<1>1. ASSUME NEW q \in Requests, pc'[q] = "setVersion"
      PROVE  Unheard(target[q])'
  <2>1. CASE pc[q] = "setVersion" /\ target'[q] = target[q]
    <3>1. Unheard(target[q])'
      BY <1>1, <2>1, UnheardStep
    <3>q. QED  BY <3>1
  <2>2. CASE \E n \in Tokens : CreateDevice(q, n)
    BY <2>2, CreatedUnheard
  <2>q. QED  BY <1>0, <1>1, <2>1, <2>2, StartMoves
<1>2. ASSUME NEW q \in Requests, NEW u \in Requests, pc'[q] = "setVersion",
             pc'[u] = "setVersion", target'[q] = target'[u], q # u
      PROVE  FALSE
  <2>1. \A w \in Requests : pc[w] = "setVersion" =>
          fresh[w] \in Tokens /\ device[fresh[w]] = target[w]
    BY <1>0 DEF RotationInv, Knowledge, RequestOK, Known
  <2>2. ASSUME NEW v \in Requests, NEW w \in Requests, v # w, NEW n \in Tokens, CreateDevice(v, n),
               pc'[w] = "setVersion", target'[v] = target'[w]
        PROVE  FALSE
    <3>1. /\ \A t \in Tokens : device[t] # target[v]
          /\ pc[w] = "setVersion" /\ target' = target
      BY <1>0, <2>2 DEF CreateDevice, At, Goto, RotationInv, FirstTokens, RowsOf, TypeOK, LocalsOK
    <3>q. QED  BY <2>1, <2>2, <3>1
  <2>3. CASE pc[q] = "setVersion" /\ target'[q] = target[q] /\ pc[u] = "setVersion" /\ target'[u] = target[u]
    BY <1>2, <2>3 DEF RevocationInv, StartsUnheard
  <2>q. QED  BY <1>0, <1>2, <2>2, <2>3, StartMoves
<1>q. QED  BY <1>1, <1>2 DEF StartsUnheard

\* What is signed carries a version read before, versions only grow, and where
\* SetVersion puts one back nothing was signed.
LEMMA NoneAheadStep ==
  ASSUME RevocationInv, [Next]_vars
  PROVE  NoneAhead'
<1>0. RotationInv /\ NoneAhead
  BY DEF RevocationInv
<1>a. /\ version \in [Devices -> Nat] /\ version' \in [Devices -> Nat]
      /\ seen \in [Requests -> Nat]
      /\ \A r \in Requests : reply[r].ver \in Nat
      /\ \A t \in Tokens : replay[t].ver \in Nat
  BY <1>0, TypeStep DEF RotationInv, TypeOK, RedisOK, LocalsOK, Replies
\* A version known of a device that is heard of is not overtaken.
<1>b. ASSUME NEW d \in Devices, NEW v \in Nat, v <= version[d],
             \/ \E r \in Requests : pc[r] \in OnRow /\ target[r] = d
             \/ \E r \in Requests : reply[r].kind = "pair" /\ target[r] = d
             \/ \E t \in Tokens : replay[t] # None /\ device[t] = d
      PROVE  v <= version'[d]
  <2>1. \A r \in Requests : SetVersion(r) => target[r] # d
    BY <1>0, <1>b, Concern DEF SetVersion, At, RevocationInv, StartsUnheard, Unheard, Presenting
  <2>q. QED  BY <1>0, <1>a, <1>b, <2>1, VersionsGrow
<1>1. ASSUME NEW q \in Requests, pc'[q] \in {"rotate", "fallback", "save"}
      PROVE  seen'[q] <= version'[target'[q]]
  <2>1. CASE /\ pc[q] \in {"rotate", "fallback", "save"}
             /\ seen'[q] = seen[q] /\ target'[q] = target[q]
    <3>1. pc[q] \in OnRow /\ seen[q] <= version[target[q]] /\ target[q] \in Devices
      BY <1>0, <2>1, Concern DEF NoneAhead, OnRow
    <3>q. QED  BY <1>a, <1>b, <2>1, <3>1
  <2>2. CASE ReadVersion(q) /\ seen'[q] = version[target[q]]
    <3>1. target'[q] = target[q] /\ version' = version /\ target[q] \in Devices
      BY <1>0, <2>2, Concern DEF ReadVersion, At, OnRow, redis
    <3>q. QED  BY <1>a, <2>2, <3>1
  <2>q. QED  BY <1>0, <1>1, <2>1, <2>2, SeenMoves
<1>2. ASSUME NEW q \in Requests, reply'[q].kind = "pair"
      PROVE  reply'[q].ver <= version'[target'[q]]
  <2>1. CASE reply'[q] = reply[q] /\ target'[q] = target[q]
    <3>1. reply[q].ver <= version[target[q]] /\ target[q] \in Devices
      BY <1>0, <1>2, <2>1, Concern DEF NoneAhead
    <3>q. QED  BY <1>a, <1>b, <1>2, <2>1, <3>1
  <2>2. CASE SetVersion(q)
    <3>1. target[q] \in Devices /\ fresh[q] \in Tokens
      BY <1>0, <2>2 DEF SetVersion, At, RotationInv, Knowledge, RequestOK, Known
    <3>2. reply'[q] = Pair(fresh[q], 1) /\ target'[q] = target[q] /\ version'[target[q]] = 1
      BY <1>0, <1>a, <2>2, <3>1
         DEF SetVersion, Finish, initialTokenVersion, RotationInv, TypeOK, LocalsOK
    <3>q. QED  BY <3>1, <3>2, Pairs
  <2>3. CASE SavePair(q)
    <3>1. /\ fresh[q] \in Tokens /\ target[q] \in Devices /\ seen[q] <= version[target[q]]
      BY <1>0, <2>3, Concern DEF SavePair, At, OnRow, NoneAhead, RotationInv, Knowledge, RequestOK, Known
    <3>2. /\ reply'[q] = Pair(fresh[q], seen[q])
          /\ UNCHANGED <<target, version>>
      BY <1>0, <2>3 DEF SavePair, Unlock, RotationInv, TypeOK, LocalsOK
    <3>q. QED  BY <1>a, <3>1, <3>2, Pairs
  <2>4. CASE Fallback(q) \/ ReplayOrTheft(q)
    <3>1. /\ rt[q] \in Tokens /\ target[q] = device[rt[q]]
      BY <1>0, <2>4, Concern DEF Fallback, ReplayOrTheft, At, OnRow
    <3>2. CASE replay[rt[q]] # None /\ reply'[q] = replay[rt[q]]
      BY <1>0, <2>4, <3>1, <3>2 DEF NoneAhead, Fallback, ReplayOrTheft, redis
    <3>3. CASE replay[rt[q]] = None
      <4>1. reply[q].kind # "pair"
        BY <1>0, <2>4 DEF Fallback, ReplayOrTheft, At, RotationInv, Knowledge, RequestOK
      <4>q. QED
        BY <1>0, <1>2, <2>4, <3>3, <4>1, Answers
           DEF Fallback, ReplayOrTheft, Unlock, RotationInv, TypeOK, LocalsOK
    <3>q. QED
      BY <1>0, <2>4, <3>2, <3>3 DEF Fallback, ReplayOrTheft, Unlock, RotationInv, TypeOK, LocalsOK
  <2>q. QED  BY <1>0, <1>2, <2>1, <2>2, <2>3, <2>4, PairMoves
<1>3. ASSUME NEW t \in Tokens, replay'[t] # None
      PROVE  replay'[t].ver <= version'[device'[t]]
  <2>1. CASE replay'[t] = replay[t]
    <3>1. Known(t) /\ device[t] \in Devices /\ replay[t].ver <= version[device[t]]
      BY <1>0, <1>3, <2>1, Concern DEF NoneAhead
    <3>2. device'[t] = device[t]
      BY <1>0, <3>1, RowsStay
    <3>q. QED  BY <1>a, <1>b, <1>3, <2>1, <3>1, <3>2
  <2>2. ASSUME NEW r \in Requests, SavePair(r), replay'[t] # replay[t]
        PROVE  replay'[t].ver <= version'[device'[t]]
    <3>1. /\ fresh[r] \in Tokens /\ target[r] = device[rt[r]] /\ seen[r] <= version[target[r]]
          /\ UNCHANGED <<device, version>>
      BY <1>0, <2>2, Concern
         DEF SavePair, At, OnRow, NoneAhead, db, RotationInv, Knowledge, RequestOK, Known
    <3>2. t = rt[r] /\ replay'[t] = Pair(fresh[r], seen[r])
      BY <1>0, <2>2 DEF SavePair, RotationInv, TypeOK, RedisOK
    <3>q. QED  BY <1>a, <3>1, <3>2, Pairs
  <2>3. ASSUME NEW u \in Tokens, ReplayExpires(u)
        PROVE  replay'[t] = replay[t] \/ replay'[t] = None
    BY <1>0, <2>3 DEF ReplayExpires, RotationInv, TypeOK, RedisOK
  <2>q. QED  BY <1>0, <1>3, <2>1, <2>2, <2>3, CacheSteps
<1>q. QED  BY <1>1, <1>2, <1>3 DEF NoneAhead

-----------------------------------------------------------------------------
(* The invariant and what follows from it. *)

\* Rotation and revocation together keep access tokens behind the versions of
\* their devices and late-comers without tokens.
THEOREM RevocationInvariant == Spec => []RevocationInv
<1>1. Init => StartsUnheard /\ NoneAhead /\ LateComers
  BY Answers DEF Init, StartsUnheard, NoneAhead, LateComers
<1>2. RevocationInv /\ [Next]_vars => RevocationInv'
  <2> SUFFICES ASSUME RevocationInv, [Next]_vars
               PROVE  RevocationInv'
    OBVIOUS
  <2>1. RotationInv'
    BY TypeStep, FirstTokensStep, LinesStep, RequestStep, CacheStep, AgreementStep
       DEF RotationInv, Knowledge, RevocationInv
  <2>q. QED
    BY <2>1, StartsUnheardStep, NoneAheadStep, LateComersStep DEF RevocationInv
<1>3. Init => RevocationInv
  BY <1>1, RotationInit DEF RevocationInv
<1>q. QED  BY <1>2, <1>3, PTL DEF Spec

\* A token that was revoked before it was presented is never exchanged or
\* replayed.
THEOREM RevokedStaysOut == Spec => []RevokedGetsNothing
<1>1. RevocationInv => RevokedGetsNothing
  BY DEF RevocationInv, LateComers, RevokedGetsNothing, Told
<1>q. QED  BY <1>1, RevocationInvariant, PTL

\* A cached pair is the successor's, on the same device, and not ahead of the
\* device's version.
THEOREM CacheHoldsSuccessors == Spec => []ReplayIsSuccessor
<1>1. RevocationInv => ReplayIsSuccessor
  <2> SUFFICES ASSUME RevocationInv, NEW t \in Tokens, replay[t] # None
               PROVE  /\ parent[replay[t].rt] = t
                      /\ device[replay[t].rt] = device[t]
                      /\ replay[t].ver <= version[device[t]]
    BY DEF ReplayIsSuccessor
  <2>1. Known(replay[t].rt) /\ parent[replay[t].rt] = t
    BY DEF RevocationInv, RotationInv, Knowledge, CacheOK
  <2>2. device[replay[t].rt] = device[t]
    BY <2>1, ConstantsAssumption DEF RevocationInv, RotationInv, Lines, Known
  <2>3. replay[t].ver <= version[device[t]]
    BY DEF RevocationInv, NoneAhead
  <2>q. QED  BY <2>1, <2>2, <2>3
<1>q. QED  BY <1>1, RevocationInvariant, PTL

\* The moment a logout, a deletion or a theft verdict has bumped a device, every
\* access token given out for it is refused.
THEOREM BumpEndsAccess == Spec => BumpCutsAccess
<1>1. ASSUME RevocationInv, [Next]_vars, NEW r \in Requests,
             Revoking(r), pc'[r] # pc[r], reply'[r] \in {NoContent, InvalidGrant},
             NEW s \in Told, target[s] = target[r]
      PROVE  ~Accepted(target[s], reply[s].ver)'
  <2> USE DEF RevocationInv, RotationInv, TypeOK, LocalsOK
  <2>1. BumpDevice(r) \/ BumpFamily(r)
    <3>1. r \notin Told /\ reply[r].kind = "none"
      BY <1>1 DEF Revoking, Told, Knowledge, RequestOK
    <3>2. NoContent # ServerError /\ InvalidGrant # ServerError /\ NoContent # None /\ InvalidGrant # None
      BY DEF NoContent, ServerError, InvalidGrant, None, Answer
    <3>q. QED
      <4>a. CASE \E p \in Requests : Arrive(p)
        BY <1>1, <3>1, <3>2, Answers, <4>a DEF Revoking, Over, vars, db, redis, locals,
           ghosts, At, Goto, Finish, Unlock, CanBegin, Arrive, ConsumeCode, ConsumeMiss,
           Present, LogoutByRefresh, LogoutByAccess, DeleteDevice
      <4>b. CASE \E p \in Requests : Exchange(p) \/ Revoke(p)
        BY <1>1, <3>1, <3>2, Answers, <4>b DEF Revoking, Over, vars, db, redis, locals,
           ghosts, At, Goto, Finish, Unlock, CanBegin, Exchange, Revoke, CreateDevice,
           SetVersion, RevokeByDevice, BumpDevice
      <4>c. CASE \E p \in Requests : Refresh(p)
        BY <1>1, <3>1, <3>2, Answers, <4>c DEF Revoking, Over, vars, db, redis, locals,
           ghosts, At, Goto, Finish, Unlock, CanBegin, Refresh, Acquire, AcquireTimeout,
           Find, ReadVersion, Rotate, RotateConflict, Fallback, SavePair, ReplayOrTheft,
           RevokeFamily, BumpFamily, Release
      <4>d. CASE Environment
        BY <1>1, <3>1, <3>2, Answers, <4>d DEF Revoking, Over, vars, db, redis, locals,
           ghosts, At, Goto, Finish, Unlock, CanBegin, Environment, StoreError, Abandon,
           LockExpires, WindowCloses, ReplayExpires, TokenExpires
      <4>e. CASE Finished \/ UNCHANGED vars
        BY <1>1, <3>1, <3>2, Answers, <4>e DEF Revoking, Over, vars, db, redis, locals,
           ghosts, At, Goto, Finish, Unlock, CanBegin, Finished
      <4>q. QED  BY <1>1, <4>a, <4>b, <4>c, <4>d, <4>e DEF Next, Serve
  <2>2. /\ s # r /\ s \in Requests /\ reply[s].ver \in Nat
        /\ target[s] \in Devices /\ reply[s].ver <= version[target[s]]
    BY <1>1, Bearings DEF Revoking, Told, NoneAhead, Replies
  <2>3. /\ target' = target /\ reply'[s] = reply[s]
        /\ version'[target[s]] = version[target[s]] + 1
    BY <1>1, <2>1, <2>2 DEF BumpDevice, BumpFamily, Bump, Finish, Unlock, RedisOK
  <2>4. version[target[s]] \in Nat
    BY <1>1, <2>2 DEF RedisOK
  <2>q. QED  BY <2>2, <2>3, <2>4 DEF Accepted
<1>2. RevocationInv /\ [Next]_vars =>
        [\A r \in Requests :
           /\ Revoking(r) /\ pc'[r] # pc[r]
           /\ reply'[r] \in {NoContent, InvalidGrant}
           =>
           \A s \in Told : target[s] = target[r] => ~Accepted(target[s], reply[s].ver)']_vars
  BY <1>1
<1>q. QED  BY <1>2, RevocationInvariant, PTL DEF BumpCutsAccess, Spec

-----------------------------------------------------------------------------
(* A device that is out. *)

\* A step hands out tokens of a device, or gives it new ones, only where some
\* grant for it was under way.
THEOREM DevicesStayOut == Spec => OutStaysOut
<1>1. ASSUME RevocationInv, [Next]_vars, NEW d \in loggedOut \cup stolen,
             CutOff(d), ~MidGrant(d)
      PROVE  CutOff(d)'
  <2> USE DEF RevocationInv, RotationInv, TypeOK, LocalsOK
  <2>d. d \in Devices
    BY <1>1 DEF GhostsOK
  <2>g. ASSUME NEW r \in Requests, target[r] = d,
               pc[r] \in {"create", "setVersion", "version", "rotate", "save"}
                 \/ (pc[r] = "release" /\ reply[r].kind = "pair")
        PROVE  FALSE
    <3>1. r \notin late
      BY <1>1, <2>g DEF LateComers, Over
    <3>q. QED  BY <1>1, <2>g, <3>1 DEF MidGrant
  <2>1. RowsOf(d)' \subseteq revoked'
    <3> SUFFICES ASSUME NEW t \in Tokens, device'[t] = d
                 PROVE  t \in revoked'
      BY DEF RowsOf
    <3>1. device[t] = d
      <4>1. CASE UNCHANGED <<device, used, parent>>
        BY <4>1
      <4>2. ASSUME NEW r \in Requests, NEW n \in Tokens, CreateDevice(r, n) \/ Rotate(r, n)
            PROVE  device[t] = d
        <5>1. target[r] # d
          BY <2>g, <4>2 DEF CreateDevice, Rotate, At
        <5>q. QED  BY <1>1, <4>2, <5>1 DEF CreateDevice, Rotate, DbOK
      <4>q. QED  BY <1>1, <4>1, <4>2, RowSteps
    <3>2. t \in revoked
      BY <1>1, <3>1 DEF CutOff, RowsOf
    <3>3. revoked \subseteq revoked'
      <4>a. CASE \E p \in Requests : Arrive(p)
        BY <1>1, <4>a DEF vars, db, redis, locals, ghosts, Arrive, ConsumeCode,
           ConsumeMiss, Present, LogoutByRefresh, LogoutByAccess, DeleteDevice
      <4>b. CASE \E p \in Requests : Exchange(p) \/ Revoke(p)
        BY <1>1, <4>b DEF vars, db, redis, locals, ghosts, Exchange, Revoke,
           CreateDevice, SetVersion, RevokeByDevice, BumpDevice
      <4>c. CASE \E p \in Requests : Refresh(p)
        BY <1>1, <4>c DEF vars, db, redis, locals, ghosts, Refresh, Acquire,
           AcquireTimeout, Find, ReadVersion, Rotate, RotateConflict, Fallback,
           SavePair, ReplayOrTheft, RevokeFamily, BumpFamily, Release
      <4>d. CASE Environment
        BY <1>1, <4>d DEF vars, db, redis, locals, ghosts, Environment, StoreError,
           Abandon, LockExpires, WindowCloses, ReplayExpires, TokenExpires
      <4>e. CASE Finished \/ UNCHANGED vars
        BY <1>1, <4>e DEF vars, db, redis, locals, ghosts, Finished
      <4>q. QED  BY <1>1, <4>a, <4>b, <4>c, <4>d, <4>e DEF Next, Serve
    <3>q. QED  BY <3>2, <3>3
  <2>2. ASSUME NEW s \in Told', target'[s] = d
        PROVE  ~Accepted(d, reply[s].ver)'
    <3>0. s \in Requests /\ pc'[s] = "done" /\ reply'[s].kind = "pair"
      BY <2>2 DEF Told
    <3>1. s \in Told /\ target[s] = d /\ reply'[s] = reply[s]
      <4>1. \/ pc[s] = "done" /\ reply'[s] = reply[s] /\ target'[s] = target[s]
            \/ Release(s) /\ reply'[s] = reply[s] /\ target'[s] = target[s]
            \/ SetVersion(s) /\ target'[s] = target[s]
        <5>a. CASE \E p \in Requests : Arrive(p)
          BY <1>1, <3>0, Answers, <5>a DEF vars, db, redis, locals, ghosts, At, Goto,
             Finish, Unlock, CanBegin, Serving, Locked, Arrive, ConsumeCode,
             ConsumeMiss, Present, LogoutByRefresh, LogoutByAccess, DeleteDevice
        <5>b. CASE \E p \in Requests : Exchange(p) \/ Revoke(p)
          BY <1>1, <3>0, Answers, <5>b DEF vars, db, redis, locals, ghosts, At, Goto,
             Finish, Unlock, CanBegin, Serving, Locked, Exchange, Revoke, CreateDevice,
             SetVersion, RevokeByDevice, BumpDevice
        <5>c. CASE \E p \in Requests : Refresh(p)
          BY <1>1, <3>0, Answers, <5>c DEF vars, db, redis, locals, ghosts, At, Goto,
             Finish, Unlock, CanBegin, Serving, Locked, Refresh, Acquire,
             AcquireTimeout, Find, ReadVersion, Rotate, RotateConflict, Fallback,
             SavePair, ReplayOrTheft, RevokeFamily, BumpFamily, Release
        <5>d. CASE Environment
          BY <1>1, <3>0, Answers, <5>d DEF vars, db, redis, locals, ghosts, At, Goto,
             Finish, Unlock, CanBegin, Serving, Locked, Environment, StoreError,
             Abandon, LockExpires, WindowCloses, ReplayExpires, TokenExpires
        <5>e. CASE Finished \/ UNCHANGED vars
          BY <1>1, <3>0, Answers, <5>e DEF vars, db, redis, locals, ghosts, At, Goto,
             Finish, Unlock, CanBegin, Serving, Locked, Finished
        <5>q. QED  BY <1>1, <5>a, <5>b, <5>c, <5>d, <5>e DEF Next, Serve
      <4>2. ~ (SetVersion(s) /\ target'[s] = target[s])
        BY <2>2, <2>g, <3>0 DEF SetVersion, At
      <4>3. ~ (Release(s) /\ reply'[s] = reply[s] /\ target'[s] = target[s])
        BY <2>2, <2>g, <3>0 DEF Release, At
      <4>q. QED  BY <2>2, <3>0, <4>1, <4>2, <4>3 DEF Told
    <3>2. ~Accepted(d, reply[s].ver) /\ reply[s].ver \in Nat /\ reply[s].ver =< version[d]
          /\ version[d] \in Nat
      BY <1>1, <2>d, <3>1 DEF CutOff, Told, NoneAhead, Replies, RedisOK
    <3>3. \/ version'[d] = version[d] \/ version'[d] = version[d] + 1
      <4>1. ASSUME NEW r \in Requests, SetVersion(r)
            PROVE  version'[d] = version[d]
        <5>1. target[r] # d
          BY <2>g, <4>1 DEF SetVersion, At
        <5>q. QED  BY <2>d, <4>1, <5>1 DEF SetVersion, RedisOK
      <4>2. ASSUME NEW r \in Requests, BumpFamily(r) \/ BumpDevice(r)
            PROVE  version'[d] \in {version[d], version[d] + 1}
        BY <1>1, <2>d, <4>2 DEF BumpFamily, BumpDevice, Bump, RedisOK
      <4>3. \/ UNCHANGED version
            \/ \E r \in Requests : SetVersion(r) \/ BumpFamily(r) \/ BumpDevice(r)
        BY <1>1 DEF Next, Arrive, Serve, Exchange, Refresh, Revoke, Environment, Finished,
         vars, db, redis, locals, ghosts,
         ConsumeCode, ConsumeMiss, CreateDevice, Present, Acquire, AcquireTimeout, Find,
         ReadVersion, Rotate, RotateConflict, Fallback, SavePair, ReplayOrTheft, RevokeFamily,
         Release, LogoutByAccess, LogoutByRefresh, DeleteDevice,
         RevokeByDevice, StoreError, Abandon, LockExpires, WindowCloses,
         ReplayExpires, TokenExpires
      <4>q. QED  BY <4>1, <4>2, <4>3
    <3>q. QED  BY <3>1, <3>2, <3>3 DEF Accepted
  <2>q. QED  BY <2>1, <2>2 DEF CutOff
<1>2. RevocationInv /\ [Next]_vars =>
        [\A d \in loggedOut \cup stolen : CutOff(d) /\ ~MidGrant(d) => CutOff(d)']_vars
  BY <1>1
<1>q. QED  BY <1>2, RevocationInvariant, PTL DEF OutStaysOut, Spec

-----------------------------------------------------------------------------
(* Who is taken for a thief. *)

\* Only the holder of a lock works under it.
Exclusive ==
  \A r \in Requests : pc[r] \in Locked =>
    /\ rt[r] \in locks
    /\ \A s \in Requests : pc[s] \in Locked /\ rt[s] = rt[r] => s = r

\* A request that has died or has answered 500; it may have left a rotation
\* without its pair in the cache.
Failed(s) == pc[s] = "dead" \/ reply[s].kind = "server_error"

\* Where the pair of a used token is, if its window is still open.
PairIsSomewhere ==
  \A t \in used :
    \/ t \in closed
    \/ replay[t] # None
    \/ \E s \in Requests : rt[s] = t /\ (pc[s] = "save" \/ Failed(s))

OnlyUsedReplayed == \A r \in Requests : pc[r] = "replay" => rt[r] \in used

TheftInv ==
  /\ RotationInv /\ Exclusive /\ PairIsSomewhere /\ OnlyUsedReplayed /\ TheftOnlyAfterWindow

LEMMA ExclusiveStep ==
  ASSUME RotationInv, Exclusive, "lapse" \notin Events, [Next]_vars
  PROVE  Exclusive'
<1> USE DEF RotationInv, TypeOK, LocalsOK
<1>1. ASSUME NEW q \in Requests, pc'[q] \in Locked
      PROVE  (pc[q] \in Locked /\ rt'[q] = rt[q]) \/ (Acquire(q) /\ rt'[q] = rt[q])
  <2>a. CASE \E p \in Requests : Arrive(p)
    BY <1>1, <2>a DEF vars, db, redis, locals, ghosts, At, Goto, Finish, Unlock,
       CanBegin, Locked, Arrive, ConsumeCode, ConsumeMiss, Present, LogoutByRefresh,
       LogoutByAccess, DeleteDevice
  <2>b. CASE \E p \in Requests : Exchange(p) \/ Revoke(p)
    BY <1>1, <2>b DEF vars, db, redis, locals, ghosts, At, Goto, Finish, Unlock,
       CanBegin, Locked, Exchange, Revoke, CreateDevice, SetVersion, RevokeByDevice,
       BumpDevice
  <2>c. CASE \E p \in Requests : Refresh(p)
    BY <1>1, <2>c DEF vars, db, redis, locals, ghosts, At, Goto, Finish, Unlock,
       CanBegin, Locked, Refresh, Acquire, AcquireTimeout, Find, ReadVersion, Rotate,
       RotateConflict, Fallback, SavePair, ReplayOrTheft, RevokeFamily, BumpFamily,
       Release
  <2>d. CASE Environment
    BY <1>1, <2>d DEF vars, db, redis, locals, ghosts, At, Goto, Finish, Unlock,
       CanBegin, Locked, Environment, StoreError, Abandon, LockExpires, WindowCloses,
       ReplayExpires, TokenExpires
  <2>e. CASE Finished \/ UNCHANGED vars
    BY <1>1, <2>e DEF vars, db, redis, locals, ghosts, At, Goto, Finish, Unlock,
       CanBegin, Locked, Finished
  <2>q. QED  BY <2>a, <2>b, <2>c, <2>d, <2>e DEF Next, Serve
<1>2. \/ UNCHANGED locks
      \/ \E q \in Requests : Acquire(q)
      \/ \E q \in Requests : Release(q)
      \/ \E t \in Tokens \cup Guesses : LockExpires(t)
  BY DEF Next, Arrive, Serve, Exchange, Refresh, Revoke, Environment, Finished,
         vars, db, redis, locals, ghosts,
         ConsumeCode, ConsumeMiss, CreateDevice, SetVersion, Present, AcquireTimeout, Find,
         ReadVersion, Rotate, RotateConflict, Fallback, SavePair, ReplayOrTheft, RevokeFamily,
         BumpFamily, LogoutByAccess, LogoutByRefresh, DeleteDevice,
         RevokeByDevice, BumpDevice, StoreError, Abandon, WindowCloses,
         ReplayExpires, TokenExpires
<1>3. ASSUME NEW q \in Requests, Acquire(q)
      PROVE  Exclusive'
  <2>1. /\ \A r \in Requests : pc[r] \in Locked => rt[r] # rt[q]
        /\ locks' = locks \cup {rt[q]} /\ rt' = rt
        /\ \A r \in Requests \ {q} : pc'[r] = pc[r]
    BY <1>3 DEF Acquire, Exclusive, Goto
  <2>q. QED  BY <2>1 DEF Exclusive
<1>4. ASSUME NEW q \in Requests, Release(q)
      PROVE  Exclusive'
  <2>1. /\ locks \ {rt[q]} \subseteq locks' /\ rt' = rt
        /\ pc'[q] \notin Locked /\ \A r \in Requests \ {q} : pc'[r] = pc[r]
        /\ pc[q] \in Locked
    BY <1>4 DEF Release, Goto, At, Locked
  <2>q. QED  BY <2>1 DEF Exclusive
<1>5. ASSUME NEW t \in Tokens \cup Guesses, LockExpires(t)
      PROVE  Exclusive'
  <2>1. /\ locks' = locks \ {t} /\ pc' = pc /\ rt' = rt
        /\ ~\E r \in Requests : rt[r] = t /\ pc[r] \in Locked
    BY <1>5 DEF LockExpires, locals
  <2>q. QED  BY <2>1 DEF Exclusive
<1>6. CASE UNCHANGED locks
  <2>1. CASE \E q \in Requests : Acquire(q)
    BY <1>3, <2>1
  <2>2. CASE ~\E q \in Requests : Acquire(q)
    BY <1>1, <1>6, <2>2 DEF Exclusive
  <2>q. QED  BY <2>1, <2>2
<1>q. QED  BY <1>2, <1>3, <1>4, <1>5, <1>6

\* What a request that failed said, or left unsaid, remains.
LEMMA FailedStays ==
  ASSUME RotationInv, [Next]_vars, NEW s \in Requests, rt[s] # NoToken, Failed(s)
  PROVE  rt'[s] = rt[s] /\ Failed(s)'
<1> USE DEF RotationInv, TypeOK, LocalsOK
<1>1. RequestOK(s)
  BY DEF Knowledge
<1>q. QED
  <2>a. CASE \E p \in Requests : Arrive(p)
    BY <1>1, Answers, <2>a DEF Failed, RequestOK, vars, db, redis, locals, ghosts, At,
       Goto, Finish, Unlock, CanBegin, Serving, Locked, Arrive, ConsumeCode,
       ConsumeMiss, Present, LogoutByRefresh, LogoutByAccess, DeleteDevice
  <2>b. CASE \E p \in Requests : Exchange(p) \/ Revoke(p)
    BY <1>1, Answers, <2>b DEF Failed, RequestOK, vars, db, redis, locals, ghosts, At,
       Goto, Finish, Unlock, CanBegin, Serving, Locked, Exchange, Revoke, CreateDevice,
       SetVersion, RevokeByDevice, BumpDevice
  <2>c. CASE \E p \in Requests : Refresh(p)
    BY <1>1, Answers, <2>c DEF Failed, RequestOK, vars, db, redis, locals, ghosts, At,
       Goto, Finish, Unlock, CanBegin, Serving, Locked, Refresh, Acquire,
       AcquireTimeout, Find, ReadVersion, Rotate, RotateConflict, Fallback, SavePair,
       ReplayOrTheft, RevokeFamily, BumpFamily, Release
  <2>d. CASE Environment
    BY <1>1, Answers, <2>d DEF Failed, RequestOK, vars, db, redis, locals, ghosts, At,
       Goto, Finish, Unlock, CanBegin, Serving, Locked, Environment, StoreError,
       Abandon, LockExpires, WindowCloses, ReplayExpires, TokenExpires
  <2>e. CASE Finished \/ UNCHANGED vars
    BY <1>1, Answers, <2>e DEF Failed, RequestOK, vars, db, redis, locals, ghosts, At,
       Goto, Finish, Unlock, CanBegin, Serving, Locked, Finished
  <2>q. QED  BY <2>a, <2>b, <2>c, <2>d, <2>e DEF Next, Serve

\* A pair that is about to be saved is saved, or the request fails.
LEMMA SaveMoves ==
  ASSUME RotationInv, [Next]_vars, NEW s \in Requests, pc[s] = "save"
  PROVE  \/ SavePair(s)
         \/ rt'[s] = rt[s] /\ (pc'[s] = "save" \/ Failed(s)')
<1> USE DEF RotationInv, TypeOK, LocalsOK
<1>q. QED
  <2>a. CASE \E p \in Requests : Arrive(p)
    BY <2>a DEF Failed, ServerError, Answer, vars, db, redis, locals, ghosts, At, Goto,
       Finish, Unlock, CanBegin, Serving, Locked, Arrive, ConsumeCode, ConsumeMiss,
       Present, LogoutByRefresh, LogoutByAccess, DeleteDevice
  <2>b. CASE \E p \in Requests : Exchange(p) \/ Revoke(p)
    BY <2>b DEF Failed, ServerError, Answer, vars, db, redis, locals, ghosts, At, Goto,
       Finish, Unlock, CanBegin, Serving, Locked, Exchange, Revoke, CreateDevice,
       SetVersion, RevokeByDevice, BumpDevice
  <2>c. CASE \E p \in Requests : Refresh(p)
    BY <2>c DEF Failed, ServerError, Answer, vars, db, redis, locals, ghosts, At, Goto,
       Finish, Unlock, CanBegin, Serving, Locked, Refresh, Acquire, AcquireTimeout,
       Find, ReadVersion, Rotate, RotateConflict, Fallback, SavePair, ReplayOrTheft,
       RevokeFamily, BumpFamily, Release
  <2>d. CASE Environment
    BY <2>d DEF Failed, ServerError, Answer, vars, db, redis, locals, ghosts, At, Goto,
       Finish, Unlock, CanBegin, Serving, Locked, Environment, StoreError, Abandon,
       LockExpires, WindowCloses, ReplayExpires, TokenExpires
  <2>e. CASE Finished \/ UNCHANGED vars
    BY <2>e DEF Failed, ServerError, Answer, vars, db, redis, locals, ghosts, At, Goto,
       Finish, Unlock, CanBegin, Serving, Locked, Finished
  <2>q. QED  BY <2>a, <2>b, <2>c, <2>d, <2>e DEF Next, Serve

\* Used tokens stay used and closed windows closed.
LEMMA WindowsGrow ==
  ASSUME RotationInv, [Next]_vars
  PROVE  used \subseteq used' /\ closed \subseteq closed'
BY DEF MarkUsedIfUnused, Next, Arrive, Serve, Exchange, Refresh, Revoke, Environment, Finished,
         vars, db, redis, locals, ghosts,
         ConsumeCode, ConsumeMiss, CreateDevice, SetVersion, Present, Acquire, AcquireTimeout, Find,
         ReadVersion, Rotate, RotateConflict, Fallback, SavePair, ReplayOrTheft, RevokeFamily,
         BumpFamily, Release, LogoutByAccess, LogoutByRefresh, DeleteDevice,
         RevokeByDevice, BumpDevice, StoreError, Abandon, LockExpires, WindowCloses,
         ReplayExpires, TokenExpires

\* The way into the replay and the verdict.
LEMMA VerdictMoves ==
  ASSUME RotationInv, [Next]_vars, NEW q \in Requests
  PROVE  /\ pc'[q] = "replay" =>
              rt'[q] = rt[q] /\ (pc[q] = "replay" \/ rt[q] \in used)
         /\ pc'[q] = "revokeFamily" =>
              rt'[q] = rt[q] /\ (pc[q] = "revokeFamily" \/ (ReplayOrTheft(q) /\ replay[rt[q]] = None))
<1> USE DEF RotationInv, TypeOK, LocalsOK
<1>q. QED
  <2>a. CASE \E p \in Requests : Arrive(p)
    BY <2>a DEF vars, db, redis, locals, ghosts, At, Goto, Finish, Unlock, CanBegin,
       Arrive, ConsumeCode, ConsumeMiss, Present, LogoutByRefresh, LogoutByAccess,
       DeleteDevice
  <2>b. CASE \E p \in Requests : Exchange(p) \/ Revoke(p)
    BY <2>b DEF vars, db, redis, locals, ghosts, At, Goto, Finish, Unlock, CanBegin,
       Exchange, Revoke, CreateDevice, SetVersion, RevokeByDevice, BumpDevice
  <2>c. CASE \E p \in Requests : Refresh(p)
    BY <2>c DEF vars, db, redis, locals, ghosts, At, Goto, Finish, Unlock, CanBegin,
       Refresh, Acquire, AcquireTimeout, Find, ReadVersion, Rotate, RotateConflict,
       Fallback, SavePair, ReplayOrTheft, RevokeFamily, BumpFamily, Release
  <2>d. CASE Environment
    BY <2>d DEF vars, db, redis, locals, ghosts, At, Goto, Finish, Unlock, CanBegin,
       Environment, StoreError, Abandon, LockExpires, WindowCloses, ReplayExpires,
       TokenExpires
  <2>e. CASE Finished \/ UNCHANGED vars
    BY <2>e DEF vars, db, redis, locals, ghosts, At, Goto, Finish, Unlock, CanBegin,
       Finished
  <2>q. QED  BY <2>a, <2>b, <2>c, <2>d, <2>e DEF Next, Serve

LEMMA PairStep ==
  ASSUME RotationInv, PairIsSomewhere, [Next]_vars
  PROVE  PairIsSomewhere'
<1> USE DEF RotationInv, TypeOK
<1> SUFFICES ASSUME NEW t \in used', t \notin closed', replay'[t] = None
             PROVE  \E s \in Requests : rt'[s] = t /\ (pc'[s] = "save" \/ Failed(s)')
  BY DEF PairIsSomewhere
<1>c. t \notin closed
  BY WindowsGrow
<1>1. CASE t \in used
  <2>t. t \in Tokens /\ t # NoToken
    BY <1>1, ConstantsAssumption DEF DbOK
  <2>1. replay[t] = None
    <3>1. ASSUME NEW u \in Tokens, ReplayExpires(u)
          PROVE  replay'[t] = replay[t]
      BY <1>c, <3>1 DEF ReplayExpires, RedisOK
    <3>2. ASSUME NEW r \in Requests, SavePair(r)
          PROVE  replay'[t] = replay[t] \/ replay'[t] # None
      BY <2>t, <3>2 DEF SavePair, RedisOK, Pair, None, Answer
    <3>q. QED  BY <3>1, <3>2, CacheSteps
  <2>2. PICK s \in Requests : rt[s] = t /\ (pc[s] = "save" \/ Failed(s))
    BY <1>1, <1>c, <2>1 DEF PairIsSomewhere
  <2>3. CASE Failed(s)
    BY <2>2, <2>3, <2>t, FailedStays
  <2>4. CASE pc[s] = "save"
    <3>1. ~SavePair(s)
      BY <2>2, <2>t DEF SavePair, RedisOK, Pair, None, Answer
    <3>q. QED  BY <2>2, <2>4, <3>1, SaveMoves
  <2>q. QED  BY <2>2, <2>3, <2>4
<1>2. CASE t \notin used
  <2>1. PICK r \in Requests, n \in Tokens : Rotate(r, n)
    <3>1. \A r \in Requests, n \in Tokens : CreateDevice(r, n) => used' = used
      BY DEF CreateDevice
    <3>q. QED  BY <1>2, <3>1, RowSteps
  <2>2. rt[r] = t /\ rt' = rt /\ pc'[r] = "save"
    BY <1>2, <2>1 DEF Rotate, MarkUsedIfUnused, Goto, LocalsOK
  <2>q. QED  BY <2>2
<1>q. QED  BY <1>1, <1>2

\* With the lock held until it is released, a pair that is missing inside its
\* window was not merely late.
LEMMA TheftStep ==
  ASSUME TheftInv, [Next]_vars
  PROVE  TheftOnlyAfterWindow'
<1> USE DEF TheftInv
<1> SUFFICES ASSUME NEW r \in Requests, pc'[r] = "revokeFamily"
             PROVE  rt'[r] \in closed' \/ BrokenOff(r)'
  BY DEF TheftOnlyAfterWindow
<1>r. rt'[r] = rt[r]
  BY VerdictMoves
<1>t. rt[r] # NoToken /\ closed \subseteq closed'
  <2>1. pc[r] = "revokeFamily" \/ pc[r] = "replay"
    BY VerdictMoves DEF ReplayOrTheft, At
  <2>q. QED  BY <2>1, WindowsGrow, Bearings, ConstantsAssumption DEF OnRow
<1>s. ASSUME NEW s \in Requests, s # r, rt[s] = rt[r], Failed(s)
      PROVE  BrokenOff(r)'
  BY <1>r, <1>s, <1>t, FailedStays DEF BrokenOff, Failed
<1>1. CASE pc[r] = "revokeFamily"
  BY <1>1, <1>r, <1>s, <1>t DEF TheftOnlyAfterWindow, BrokenOff, Failed
<1>2. CASE ReplayOrTheft(r) /\ replay[rt[r]] = None
  <2>1. pc[r] = "replay" /\ rt[r] \in used
    BY <1>2 DEF ReplayOrTheft, At, OnlyUsedReplayed
  <2>2. CASE rt[r] \in closed
    BY <1>r, <1>t, <2>2
  <2>3. CASE rt[r] \notin closed
    <3>1. PICK s \in Requests : rt[s] = rt[r] /\ (pc[s] = "save" \/ Failed(s))
      BY <1>2, <2>1, <2>3 DEF PairIsSomewhere
    <3>2. pc[s] # "save"
      BY <2>1, <3>1 DEF Exclusive, Locked
    <3>3. s # r
      BY <2>1, <3>1, <3>2 DEF Failed, RotationInv, Knowledge, RequestOK
    <3>q. QED  BY <1>s, <3>1, <3>2, <3>3
  <2>q. QED  BY <2>2, <2>3
<1>q. QED  BY <1>1, <1>2, VerdictMoves

\* As long as no lock outlives its ten seconds under a request still at work,
\* a client that retries in time is never taken for a thief, unless the first
\* attempt broke off.
THEOREM TheftsAreReal ==
  ASSUME "lapse" \notin Events
  PROVE  Spec => []TheftOnlyAfterWindow
<1>1. Init => TheftInv
  <2>1. Init => Exclusive /\ PairIsSomewhere /\ OnlyUsedReplayed /\ TheftOnlyAfterWindow
    BY DEF Init, Exclusive, PairIsSomewhere, OnlyUsedReplayed, TheftOnlyAfterWindow, Locked
  <2>q. QED  BY <2>1, RotationInit DEF TheftInv
<1>2. TheftInv /\ [Next]_vars => TheftInv'
  <2> SUFFICES ASSUME TheftInv, [Next]_vars PROVE TheftInv'
    OBVIOUS
  <2>1. RotationInv'
    BY TypeStep, FirstTokensStep, LinesStep, RequestStep, CacheStep, AgreementStep
       DEF RotationInv, Knowledge, TheftInv
  <2>2. OnlyUsedReplayed'
    BY VerdictMoves, WindowsGrow DEF TheftInv, OnlyUsedReplayed
  <2>q. QED  BY <2>1, <2>2, ExclusiveStep, PairStep, TheftStep DEF TheftInv
<1>3. TheftInv => TheftOnlyAfterWindow
  BY DEF TheftInv
<1>q. QED  BY <1>1, <1>2, <1>3, PTL DEF Spec
=============================================================================
