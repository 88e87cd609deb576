--------------------------- MODULE RefreshRotation ---------------------------
(***************************************************************************)
(* The token endpoint and device revocation of the gateway: exchange of a  *)
(* GW_CODE, rotation of a refresh token, replay inside the grace window,   *)
(* theft verdict outside it, logout and device deletion.  Every read or    *)
(* write of Redis and every Postgres transaction is one step, so requests  *)
(* served by several goroutines or gateway instances interleave between    *)
(* them as they do in the code.                                            *)
(*                                                                         *)
(* A request is used once: the finished ones keep what the client was      *)
(* told, so what clients hold is read off them and needs no variable.      *)
(* A device and a token family are minted together by the code exchange    *)
(* and copied together by every rotation, hence Devices stands for both.   *)
(* ----------------------------------------------------------------------- *)
(* Bounds: Tokens, Requests (one per HTTP call) and MaxInFlight.           *)
(***************************************************************************)
EXTENDS Naturals, FiniteSets

CONSTANTS
  Devices,      \* devices; device d is the one the code exchange of d creates
  Owner,        \* the user each device (and its code) belongs to
  Tokens,       \* refresh tokens that idgen.New("rt") may mint
  Guesses,      \* refresh tokens a client may present that have no row
  Requests,     \* HTTP requests
  MaxInFlight,  \* bound on the requests being served at a time
  Events,       \* environment events explored, a subset of AllEvents
  NoDevice, NoToken

AllEvents == {"error", "crash", "lapse", "expiry"}

ASSUME ConstantsAssumption ==
  /\ NoDevice \notin Devices
  /\ NoToken \notin Tokens \cup Guesses
  /\ Tokens \cap Guesses = {}
  /\ MaxInFlight \in Nat
  /\ Events \subseteq AllEvents

VARIABLES
  \* Postgres, table refresh_tokens
  device,   \* device_uuid of a row, NoDevice when the token has no row
  used,     \* tokens whose row has used = true
  revoked,  \* tokens whose row has revoked = true
  expired,  \* tokens whose expires_at has passed
  \* Redis
  codes,    \* live GW_CODEs, one per device to come
  version,  \* device:{id}:token_version, 0 when the key is missing
  replay,   \* oauth:refresh:replay:{hash}
  locks,    \* oauth:refresh:lock:{hash} keys that exist
  \* the requests: program counter and Go locals
  pc,
  target,   \* the device a request is about
  rt,       \* the refresh token presented
  seen,     \* the token_version rotate read
  fresh,    \* the refresh token rotate or the code exchange minted
  reply,    \* what the client is told
  \* history, read by the properties only
  parent,   \* the token a token was rotated from
  closed,   \* rotated tokens whose grace window is over
  late,     \* requests that presented an already revoked token
  loggedOut,\* devices whose logout or deletion ran to the end
  stolen    \* devices whose family was judged stolen

db     == <<device, used, revoked, expired>>
redis  == <<codes, version, replay, locks>>
locals == <<pc, target, rt, seen, fresh, reply>>
ghosts == <<parent, closed, late, loggedOut, stolen>>
vars   == <<db, redis, locals, ghosts>>

initialTokenVersion == 1

\* What a response says; a pair carries an access JWT (its version) and an RT.
Answer(kind)  == [kind |-> kind, rt |-> NoToken, ver |-> 0]
Pair(t, v)    == [kind |-> "pair", rt |-> t, ver |-> v]
None          == Answer("none")
InvalidGrant  == Answer("invalid_grant")
ServerError   == Answer("server_error")
NotFound      == Answer("not_found")
NoContent     == Answer("no_content")

\* pc values at which a request holds, or believes it holds, its RT's lock.
Locked   == {"find", "version", "rotate", "fallback", "save", "replay",
             "revokeFamily", "bumpFamily", "release"}
Serving  == Locked \cup {"create", "setVersion", "acquire", "revokeDevice", "bumpDevice"}
Over     == {"done", "dead"}
InFlight == {r \in Requests : pc[r] \in Serving}

\* Clients: the pairs they received, the access tokens and RTs in them.
Told      == {r \in Requests : pc[r] = "done" /\ reply[r].kind = "pair"}
Held(t)   == \E r \in Told : reply[r].rt = t
Issued(t) == device[t] # NoDevice
RowsOf(d) == {t \in Tokens : device[t] = d}

\* jwtAuth: an access token of device d is let through iff it carries the
\* current token_version.
Accepted(d, v) == version[d] # 0 /\ version[d] = v

Init ==
  /\ device  = [t \in Tokens |-> NoDevice]
  /\ used = {} /\ revoked = {} /\ expired = {}
  /\ codes   = Devices
  /\ version = [d \in Devices |-> 0]
  /\ replay  = [t \in Tokens |-> None]
  /\ locks   = {}
  /\ pc      = [r \in Requests |-> "new"]
  /\ target  = [r \in Requests |-> NoDevice]
  /\ rt      = [r \in Requests |-> NoToken]
  /\ seen    = [r \in Requests |-> 0]
  /\ fresh   = [r \in Requests |-> NoToken]
  /\ reply   = [r \in Requests |-> None]
  /\ parent  = [t \in Tokens |-> NoToken]
  /\ closed = {} /\ late = {} /\ loggedOut = {} /\ stolen = {}

-----------------------------------------------------------------------------
\* Moves of one request.

\* Names carry no meaning: requests arrive and tokens are minted in one fixed
\* order, so that TLC meets each situation under one naming only.
CanBegin(r) ==
  /\ pc[r] = "new"
  /\ r = CHOOSE s \in Requests : pc[s] = "new"
  /\ Cardinality(InFlight) < MaxInFlight

Mints(n) ==
  /\ ~Issued(n)
  /\ n = CHOOSE t \in Tokens : ~Issued(t)

At(r, here) == pc[r] = here
Goto(r, there) == pc' = [pc EXCEPT ![r] = there]

\* The response of a request without a lock goes out at once; one that
\* acquired a lock runs its deferred release first.
Finish(r, answer) ==
  /\ pc' = [pc EXCEPT ![r] = "done"]
  /\ reply' = [reply EXCEPT ![r] = answer]
  /\ seen' = [seen EXCEPT ![r] = 0]
  /\ fresh' = [fresh EXCEPT ![r] = NoToken]

Unlock(r, answer) ==
  /\ pc' = [pc EXCEPT ![r] = "release"]
  /\ reply' = [reply EXCEPT ![r] = answer]
  /\ seen' = [seen EXCEPT ![r] = 0]
  /\ fresh' = [fresh EXCEPT ![r] = NoToken]

-----------------------------------------------------------------------------
\* grant_type=authorization_code.

\* Mutant of ConsumeCode: GET instead of GETDEL.
ConsumeCode_Get(r, d) ==
  /\ CanBegin(r)
  /\ d \in codes
  /\ target' = [target EXCEPT ![r] = d]
  /\ Goto(r, "create")
  /\ UNCHANGED <<db, redis, rt, seen, fresh, reply, ghosts>>

\* The code is taken by GETDEL before redirect_uri and PKCE are compared: a
\* mismatch burns it.
ConsumeCode(r, d) ==
  /\ CanBegin(r)
  /\ d \in codes
  /\ codes' = codes \ {d}
  /\ target' = [target EXCEPT ![r] = d]
  /\ \/ Goto(r, "create") /\ UNCHANGED <<reply, seen, fresh>>
     \/ Finish(r, InvalidGrant)
  /\ UNCHANGED <<db, version, replay, locks, rt, ghosts>>

\* A code used before, or expired, or never issued.
ConsumeMiss(r, d) ==
  /\ CanBegin(r)
  /\ d \notin codes
  /\ Finish(r, InvalidGrant)
  /\ UNCHANGED <<db, redis, target, rt, ghosts>>

\* One transaction creates the device and its first refresh token.
CreateDevice(r, n) ==
  /\ At(r, "create")
  /\ Mints(n)
  /\ device' = [device EXCEPT ![n] = target[r]]
  /\ fresh' = [fresh EXCEPT ![r] = n]
  /\ Goto(r, "setVersion")
  /\ UNCHANGED <<used, revoked, expired, redis, target, rt, seen, reply, ghosts>>

SetVersion(r) ==
  /\ At(r, "setVersion")
  /\ version' = [version EXCEPT ![target[r]] = initialTokenVersion]
  /\ Finish(r, Pair(fresh[r], initialTokenVersion))
  /\ UNCHANGED <<db, codes, replay, locks, target, rt, ghosts>>

-----------------------------------------------------------------------------
\* grant_type=refresh_token.

Present(r, t) ==
  /\ CanBegin(r)
  /\ Held(t) \/ t \in Guesses
  /\ rt' = [rt EXCEPT ![r] = t]
  /\ late' = IF t \in revoked THEN late \cup {r} ELSE late
  /\ Goto(r, "acquire")
  /\ UNCHANGED <<db, redis, target, seen, fresh, reply, parent, closed, loggedOut, stolen>>

\* Mutant of Acquire: the answer of SETNX is not looked at.
Acquire_Unchecked(r) ==
  /\ At(r, "acquire")
  /\ locks' = locks \cup {rt[r]}
  /\ Goto(r, "find")
  /\ UNCHANGED <<db, codes, version, replay, target, rt, seen, fresh, reply, ghosts>>

\* SETNX; the loop retries every 20ms while the key exists...
Acquire(r) ==
  /\ At(r, "acquire")
  /\ rt[r] \notin locks
  /\ locks' = locks \cup {rt[r]}
  /\ Goto(r, "find")
  /\ UNCHANGED <<db, codes, version, replay, target, rt, seen, fresh, reply, ghosts>>

\* ... and gives up after two seconds.
AcquireTimeout(r) ==
  /\ At(r, "acquire")
  /\ rt[r] \in locks
  /\ Finish(r, ServerError)
  /\ UNCHANGED <<db, redis, target, rt, ghosts>>

\* Mutant of Find: used is looked at before revoked.
Find_UsedFirst(r) ==
  LET t == rt[r] IN
  /\ At(r, "find")
  /\ IF t \in Guesses \/ (t \notin used /\ t \in revoked \cup expired)
       THEN Unlock(r, InvalidGrant) /\ UNCHANGED target
       ELSE /\ target' = [target EXCEPT ![r] = device[t]]
            /\ Goto(r, IF t \in used THEN "replay" ELSE "version")
            /\ UNCHANGED <<seen, fresh, reply>>
  /\ UNCHANGED <<db, redis, rt, ghosts>>

\* Mutant of Find: a revoked row is as good as any.
Find_Revoked(r) ==
  LET t == rt[r] IN
  /\ At(r, "find")
  /\ IF t \in Guesses \/ t \in expired
       THEN Unlock(r, InvalidGrant) /\ UNCHANGED target
       ELSE /\ target' = [target EXCEPT ![r] = device[t]]
            /\ Goto(r, IF t \in used THEN "replay" ELSE "version")
            /\ UNCHANGED <<seen, fresh, reply>>
  /\ UNCHANGED <<db, redis, rt, ghosts>>

\* FindByHash and the checks on the row it returned.
Find(r) ==
  LET t == rt[r] IN
  /\ At(r, "find")
  /\ IF t \in Guesses \/ t \in revoked \/ t \in expired
       THEN Unlock(r, InvalidGrant) /\ UNCHANGED target
       ELSE /\ target' = [target EXCEPT ![r] = device[t]]
            /\ Goto(r, IF t \in used THEN "replay" ELSE "version")
            /\ UNCHANGED <<seen, fresh, reply>>
  /\ UNCHANGED <<db, redis, rt, ghosts>>

ReadVersion(r) ==
  LET v == version[target[r]] IN
  /\ At(r, "version")
  /\ \/ v = 0 /\ Unlock(r, InvalidGrant)
     \/ /\ v # 0
        /\ seen' = [seen EXCEPT ![r] = v]
        /\ Goto(r, "rotate")
        /\ UNCHANGED <<fresh, reply>>
  /\ UNCHANGED <<db, redis, target, rt, ghosts>>

\* Mutant of MarkUsedIfUnused: the UPDATE without "AND used = false".
MarkUsed(t) == used' = used \cup {t}

\* The rotation transaction: MarkUsedIfUnused, then the new row (and the
\* device's last_active_at).  The UPDATE tests used and nothing else.
MarkUsedIfUnused(t) == t \notin used /\ used' = used \cup {t}

Rotate(r, n) ==
  /\ At(r, "rotate")
  /\ Mints(n)
  /\ MarkUsedIfUnused(rt[r])
  /\ device' = [device EXCEPT ![n] = target[r]]
  /\ parent' = [parent EXCEPT ![n] = rt[r]]
  /\ fresh' = [fresh EXCEPT ![r] = n]
  /\ Goto(r, "save")
  /\ UNCHANGED <<revoked, expired, redis, target, rt, seen, reply, closed, late, loggedOut, stolen>>

\* errAlreadyUsed: the transaction rolls back ...
RotateConflict(r) ==
  /\ At(r, "rotate")
  /\ rt[r] \in used
  /\ Goto(r, "fallback")
  /\ UNCHANGED <<db, redis, target, rt, seen, fresh, reply, ghosts>>

\* ... and the request falls back to the pair of whoever rotated, if it is
\* already there.
Fallback(r) ==
  LET pair == replay[rt[r]] IN
  /\ At(r, "fallback")
  /\ Unlock(r, IF pair # None THEN pair ELSE InvalidGrant)
  /\ UNCHANGED <<db, redis, target, rt, ghosts>>

\* Mutant of SavePair: cached under the new token's hash.
SavePair_NewKey(r) ==
  LET pair == Pair(fresh[r], seen[r]) IN
  /\ At(r, "save")
  /\ replay' = [replay EXCEPT ![fresh[r]] = pair]
  /\ Unlock(r, pair)
  /\ UNCHANGED <<db, codes, version, locks, target, rt, ghosts>>

SavePair(r) ==
  LET pair == Pair(fresh[r], seen[r]) IN
  /\ At(r, "save")
  /\ replay' = [replay EXCEPT ![rt[r]] = pair]
  /\ Unlock(r, pair)
  /\ UNCHANGED <<db, codes, version, locks, target, rt, ghosts>>

\* Mutant of ReplayOrTheft: the access token is signed anew.
ReplayOrTheft_Resign(r) ==
  LET pair == replay[rt[r]] IN
  /\ At(r, "replay")
  /\ pair # None
  /\ Unlock(r, Pair(pair.rt, version[target[r]]))
  /\ UNCHANGED <<db, redis, target, rt, ghosts>>

\* Mutant of ReplayOrTheft: waits for the winner's pair.
ReplayOrTheft_Wait(r) ==
  LET pair == replay[rt[r]] IN
  /\ At(r, "replay")
  /\ pair # None
  /\ Unlock(r, pair)
  /\ UNCHANGED <<db, redis, target, rt, ghosts>>

\* The row was used: replay the pair, or take the request for a theft.
ReplayOrTheft(r) ==
  LET pair == replay[rt[r]] IN
  /\ At(r, "replay")
  /\ \/ pair # None /\ Unlock(r, pair) /\ UNCHANGED stolen
     \/ /\ pair = None
        /\ stolen' = stolen \cup {target[r]}
        /\ Goto(r, "revokeFamily")
        /\ UNCHANGED <<seen, fresh, reply>>
  /\ UNCHANGED <<db, redis, target, rt, parent, closed, late, loggedOut>>

RevokeFamily(r) ==
  /\ At(r, "revokeFamily")
  /\ revoked' = revoked \cup RowsOf(target[r])
  /\ Goto(r, "bumpFamily")
  /\ UNCHANGED <<device, used, expired, redis, target, rt, seen, fresh, reply, ghosts>>

\* Mutant of Bump: SET of the initial version.
Bump_Set(d) == version' = [version EXCEPT ![d] = initialTokenVersion]

Bump(d) == version' = [version EXCEPT ![d] = @ + 1]

BumpFamily(r) ==
  /\ At(r, "bumpFamily")
  /\ Bump(target[r])
  /\ Unlock(r, InvalidGrant)
  /\ UNCHANGED <<db, codes, replay, locks, target, rt, ghosts>>

\* The deferred release: DEL, whoever holds the key by now; an error of the
\* DEL is dropped and the key stays.
Release(r) ==
  /\ At(r, "release")
  /\ \/ locks' = locks \ {rt[r]}
     \/ "error" \in Events /\ UNCHANGED locks
  /\ Goto(r, "done")
  /\ UNCHANGED <<db, codes, version, replay, target, rt, seen, fresh, reply, ghosts>>

-----------------------------------------------------------------------------
\* Logout and DELETE /devices/{id}.

\* Any correctly signed access token logs its device out, current or not.
LogoutByAccess(r, s) ==
  /\ CanBegin(r)
  /\ s \in Told
  /\ target' = [target EXCEPT ![r] = target[s]]
  /\ Goto(r, "revokeDevice")
  /\ UNCHANGED <<db, redis, rt, seen, fresh, reply, ghosts>>

\* Without one, the refresh token names the device; an unknown one is a no-op.
LogoutByRefresh(r, t) ==
  /\ CanBegin(r)
  /\ \/ /\ Held(t)
        /\ target' = [target EXCEPT ![r] = device[t]]
        /\ Goto(r, "revokeDevice")
        /\ UNCHANGED <<seen, fresh, reply>>
     \/ t \in Guesses /\ Finish(r, NoContent) /\ UNCHANGED target
  /\ UNCHANGED <<db, redis, rt, ghosts>>

\* Behind jwtAuth; the device must exist and belong to the caller.
DeleteDevice(r, s, d) ==
  /\ CanBegin(r)
  /\ s \in Told
  /\ Accepted(target[s], reply[s].ver)
  /\ \/ /\ RowsOf(d) # {} /\ Owner[d] = Owner[target[s]]
        /\ target' = [target EXCEPT ![r] = d]
        /\ Goto(r, "revokeDevice")
        /\ UNCHANGED <<seen, fresh, reply>>
     \/ /\ RowsOf(d) = {} \/ Owner[d] # Owner[target[s]]
        /\ Finish(r, NotFound)
        /\ UNCHANGED target
  /\ UNCHANGED <<db, redis, rt, ghosts>>

RevokeByDevice(r) ==
  /\ At(r, "revokeDevice")
  /\ revoked' = revoked \cup RowsOf(target[r])
  /\ Goto(r, "bumpDevice")
  /\ UNCHANGED <<device, used, expired, redis, target, rt, seen, fresh, reply, ghosts>>

BumpDevice(r) ==
  /\ At(r, "bumpDevice")
  /\ Bump(target[r])
  /\ Finish(r, NoContent)
  /\ loggedOut' = loggedOut \cup {target[r]}
  /\ UNCHANGED <<db, codes, replay, locks, target, rt, parent, closed, late, stolen>>

-----------------------------------------------------------------------------
\* The environment.

\* A store call returns an error.  Every caller answers 500 except the replay
\* read of the fallback, whose error counts as a miss.
StoreError(r) ==
  /\ "error" \in Events
  /\ pc[r] \in Serving \ {"release"}
  /\ IF pc[r] \in Locked
       THEN Unlock(r, IF pc[r] = "fallback" THEN InvalidGrant ELSE ServerError)
       ELSE Finish(r, ServerError)
  /\ UNCHANGED <<db, redis, target, rt, ghosts>>

\* The instance dies, or the client disconnects and the request context with
\* which everything, the release included, is called is cancelled.
Abandon(r) ==
  /\ "crash" \in Events
  /\ pc[r] \in Serving
  /\ pc' = [pc EXCEPT ![r] = "dead"]
  /\ reply' = [reply EXCEPT ![r] = None]
  /\ seen' = [seen EXCEPT ![r] = 0]
  /\ fresh' = [fresh EXCEPT ![r] = NoToken]
  /\ UNCHANGED <<db, redis, target, rt, ghosts>>

\* The 10s TTL of a lock runs out: of a request that is gone, and, where slow
\* requests are explored ("lapse"), of one that is still at work.
LockExpires(t) ==
  /\ t \in locks
  /\ "lapse" \in Events \/ ~\E r \in Requests : rt[r] = t /\ pc[r] \in Locked
  /\ locks' = locks \ {t}
  /\ UNCHANGED <<db, codes, version, replay, locals, ghosts>>

\* 60s after the rotation of t; its replay entry, written later, outlives that.
WindowCloses(t) ==
  /\ t \in used \ closed
  /\ closed' = closed \cup {t}
  /\ UNCHANGED <<db, redis, locals, parent, late, loggedOut, stolen>>

ReplayExpires(t) ==
  /\ t \in closed
  /\ replay[t] # None
  /\ replay' = [replay EXCEPT ![t] = None]
  /\ UNCHANGED <<db, codes, version, locks, locals, ghosts>>

\* 60 idle days.
TokenExpires(t) ==
  /\ "expiry" \in Events
  /\ Issued(t) /\ t \notin expired
  /\ expired' = expired \cup {t}
  /\ UNCHANGED <<device, used, revoked, redis, locals, ghosts>>

-----------------------------------------------------------------------------
Exchange(r) ==
  \/ \E n \in Tokens : CreateDevice(r, n)
  \/ SetVersion(r)

Refresh(r) ==
  \/ Acquire(r) \/ AcquireTimeout(r)
  \/ Find(r)
  \/ ReadVersion(r)
  \/ \E n \in Tokens : Rotate(r, n)
  \/ RotateConflict(r) \/ Fallback(r)
  \/ SavePair(r)
  \/ ReplayOrTheft(r) \/ RevokeFamily(r) \/ BumpFamily(r)
  \/ Release(r)

Revoke(r) == RevokeByDevice(r) \/ BumpDevice(r)

\* What a server goroutine does by itself once a request has arrived.
Serve(r) == Exchange(r) \/ Refresh(r) \/ Revoke(r)

Arrive(r) ==
  \/ \E d \in Devices : ConsumeCode(r, d) \/ ConsumeMiss(r, d)
  \/ \E t \in Tokens \cup Guesses : Present(r, t) \/ LogoutByRefresh(r, t)
  \/ \E s \in Requests : LogoutByAccess(r, s)
  \/ \E s \in Requests, d \in Devices : DeleteDevice(r, s, d)

Environment ==
  \/ \E r \in Requests : StoreError(r) \/ Abandon(r)
  \/ \E t \in Tokens \cup Guesses : LockExpires(t)
  \/ \E t \in Tokens : WindowCloses(t) \/ ReplayExpires(t) \/ TokenExpires(t)

\* Every request has been answered or lost.
Finished == (\A r \in Requests : pc[r] \in Over) /\ UNCHANGED vars

Next ==
  \/ \E r \in Requests : Arrive(r) \/ Serve(r)
  \/ Environment
  \/ Finished

Spec == Init /\ [][Next]_vars

\* A goroutine that is not killed keeps running and Redis expires its keys;
\* nothing is assumed of clients, errors or crashes.
Fairness ==
  /\ \A r \in Requests : WF_vars(Serve(r))
  /\ \A t \in Tokens \cup Guesses : WF_vars(LockExpires(t))

FairSpec == Spec /\ Fairness
=============================================================================
