-------------------------- MODULE RotationProperties --------------------------
(***************************************************************************)
(* What RefreshRotation is checked for, and the abstract specification it  *)
(* implements.                                                             *)
(***************************************************************************)
EXTENDS RefreshRotation

Kinds == {"none", "pair", "invalid_grant", "server_error", "not_found", "no_content"}
Replies == [kind : Kinds, rt : Tokens \cup {NoToken}, ver : Nat]

DbOK ==
  /\ device \in [Tokens -> Devices \cup {NoDevice}]
  /\ used \subseteq Tokens
  /\ revoked \subseteq Tokens
  /\ expired \subseteq Tokens

RedisOK ==
  /\ codes \subseteq Devices
  /\ version \in [Devices -> Nat]
  /\ replay \in [Tokens -> Replies]
  /\ locks \subseteq Tokens \cup Guesses

LocalsOK ==
  /\ pc \in [Requests -> {"new"} \cup Serving \cup Over]
  /\ target \in [Requests -> Devices \cup {NoDevice}]
  /\ rt \in [Requests -> Tokens \cup Guesses \cup {NoToken}]
  /\ seen \in [Requests -> Nat]
  /\ fresh \in [Requests -> Tokens \cup {NoToken}]
  /\ reply \in [Requests -> Replies]
  /\ \A r \in Requests : pc[r] = "done" => reply[r].kind # "none"

GhostsOK ==
  /\ parent \in [Tokens -> Tokens \cup {NoToken}]
  /\ closed \subseteq Tokens
  /\ late \subseteq Requests
  /\ loggedOut \subseteq Devices
  /\ stolen \subseteq Devices

\* Every variable ranges over what the code can store, and an answered request
\* has been told something.
TypeOK == DbOK /\ RedisOK /\ LocalsOK /\ GhostsOK

\* However requests, lock expiries and failures interleave, a device never has
\* two refresh tokens that are both still good for a rotation
\* (ExchangeAuthorizationCode, rotate, MarkUsedIfUnused).
OneHead ==
  \A t, u \in Tokens :
    /\ Issued(t) /\ t \notin used
    /\ Issued(u) /\ u \notin used
    /\ device[t] = device[u]
    => t = u

\* No refresh token is ever exchanged for two different ones, even when its
\* lock was lost while a request was still rotating it.
SingleSuccessor ==
  \A t, u \in Tokens : parent[t] # NoToken /\ parent[t] = parent[u] => t = u

\* All clients that present the same refresh token and get a pair get the very
\* same pair: retries, racing requests and the errAlreadyUsed fallback alike.
OneAnswer ==
  \A r, s \in Told : rt[r] # NoToken /\ rt[r] = rt[s] => reply[r] = reply[s]

\* A pair in the replay cache hands out the successor of the token it is
\* cached under, for the same device, with an access token that is not ahead
\* of the device's version (a later Bump is then sure to kill it).
ReplayIsSuccessor ==
  \A t \in Tokens :
    LET pair == replay[t] IN
    pair # None =>
      /\ parent[pair.rt] = t
      /\ device[pair.rt] = device[t]
      /\ pair.ver <= version[device[t]]

\* A token that was revoked when it was presented yields no tokens, not even
\* the pair still cached for the grace window.
RevokedGetsNothing == \A r \in late : r \notin Told

Revoking(r) == pc[r] \in {"bumpDevice", "bumpFamily"}

\* When a logout or device deletion answers, or a theft verdict has bumped,
\* no access token a client received for that device so far is let through.
BumpCutsAccess ==
  [][\A r \in Requests :
       /\ Revoking(r) /\ pc'[r] # pc[r]
       /\ reply'[r] \in {NoContent, InvalidGrant}
       =>
       \A s \in Told : target[s] = target[r] => ~Accepted(target[s], reply[s].ver)']_vars

\* The rotation of r's token was broken off by an error or a crash.
BrokenOff(r) ==
  \E s \in Requests \ {r} :
    rt[s] = rt[r] /\ (pc[s] = "dead" \/ reply[s].kind = "server_error")

\* A theft is diagnosed only for a token whose grace window is over, or whose
\* rotation failed before its pair was saved.  Needs the lock to outlive its
\* holder's work.
TheftOnlyAfterWindow ==
  \A r \in Requests : pc[r] = "revokeFamily" => rt[r] \in closed \/ BrokenOff(r)

\* Nothing of a device is good any more: no refresh token and no access token.
CutOff(d) ==
  /\ RowsOf(d) \subseteq revoked
  /\ \A s \in Told : target[s] = d => ~Accepted(d, reply[s].ver)

\* A device that was logged out or deleted (204) stays out.
LogoutIsFinal == \A d \in loggedOut : CutOff(d)

\* A grant whose token was presented in time is still at work.
MidGrant(d) ==
  \E r \in Requests \ late :
    target[r] = d /\ pc[r] \in {"create", "setVersion", "version", "rotate", "save", "release"}

\* A device that is out stays out, such grants excepted: no later request,
\* replay, logout or verdict lets it in again.
OutStaysOut ==
  [][\A d \in loggedOut \cup stolen : CutOff(d) /\ ~MidGrant(d) => CutOff(d)']_vars

\* Every request that arrived is answered or lost: none waits for ever on a
\* lock whose holder died, nor on the winner of a rotation.
EveryRequestEnds == \A r \in Requests : pc[r] \in Serving ~> pc[r] \in Over

\* The lineage behind the rows: the heir of a token is the token that names it
\* as its parent; what was told is what finished refreshes answered.
Children(t) == {n \in Tokens : parent[n] = t}

Lineage == INSTANCE RefreshLineage WITH
  heir <- [t \in Tokens |->
             IF Children(t) = {} THEN NoToken ELSE CHOOSE n \in Children(t) : TRUE],
  told <- [t \in Tokens |-> {reply[r].rt : r \in {s \in Told : rt[s] = t}}]

\* Rotation with all its requests and failures implements the lineage.
ImplementsLineage == Lineage!Spec
-----------------------------------------------------------------------------
(***************************************************************************)
(* The inductive invariant behind OneHead, SingleSuccessor and OneAnswer.  *)
(***************************************************************************)

\* A token that has a row.
Known(t) == t \in Tokens /\ Issued(t)

\* A device has no row until its code was consumed, by one request.
FirstTokens ==
  /\ \A d \in codes : RowsOf(d) = {}
  /\ \A r \in Requests : pc[r] = "create" =>
       target[r] \in Devices \ codes /\ RowsOf(target[r]) = {}
  /\ \A r, s \in Requests :
       pc[r] = "create" /\ pc[s] = "create" /\ target[r] = target[s] => r = s

\* A token was rotated from a used one of its device.
Lines ==
  /\ \A t \in used : Issued(t)
  /\ \A n \in Tokens : parent[n] # NoToken =>
       Known(n) /\ parent[n] \in used /\ device[n] = device[parent[n]]

\* Requests that found the row of their token.
OnRow == {"version", "rotate", "fallback", "save", "replay", "revokeFamily", "bumpFamily"}

\* What a request knows: its locals name rows that exist and fit together.
RequestOK(r) ==
  /\ pc[r] \in {"new", "create", "setVersion"} => rt[r] = NoToken
  /\ pc[r] \in {"create", "setVersion", "revokeDevice", "bumpDevice"} => target[r] \in Devices
  /\ pc[r] \in {"acquire", "find"} => rt[r] \in Guesses \/ Known(rt[r])
  /\ pc[r] \in OnRow => Known(rt[r]) /\ target[r] = device[rt[r]]
  /\ pc[r] \in {"setVersion", "save"} => Known(fresh[r]) /\ target[r] = device[fresh[r]]
  /\ pc[r] = "save" => parent[fresh[r]] = rt[r]
  /\ pc[r] \notin {"release", "done"} => reply[r].kind = "none"
  /\ pc[r] = "release" => reply[r].kind # "none"
  /\ reply[r].kind = "pair" => Known(reply[r].rt) /\ target[r] = device[reply[r].rt]
  /\ reply[r].kind = "pair" /\ rt[r] # NoToken =>
       rt[r] \in Tokens /\ parent[reply[r].rt] = rt[r]

\* A cached pair names the token that the key's token was rotated to.
CacheOK(t) ==
  replay[t] # None =>
    replay[t].kind = "pair" /\ Known(replay[t].rt) /\ parent[replay[t].rt] = t

Knowledge == (\A r \in Requests : RequestOK(r)) /\ (\A t \in Tokens : CacheOK(t))

\* The pair about to be saved, the one in the cache and those answered are one.
HasPair(r) == reply[r].kind = "pair" /\ rt[r] # NoToken

Agreement ==
  /\ \A r, s \in Requests :
       pc[r] = "save" /\ pc[s] = "save" /\ rt[r] = rt[s] => r = s
  /\ \A r \in Requests : pc[r] = "save" => replay[rt[r]] = None
  /\ \A r, s \in Requests : pc[r] = "save" /\ HasPair(s) => rt[s] # rt[r]
  /\ \A r, s \in Requests :
       HasPair(r) /\ HasPair(s) /\ rt[r] = rt[s] => reply[r] = reply[s]
  /\ \A r \in Requests :
       HasPair(r) /\ replay[rt[r]] # None => replay[rt[r]] = reply[r]

\* Everything TLC and the proofs need to know of every reachable state.
RotationInv ==
  /\ TypeOK /\ FirstTokens /\ Lines /\ Knowledge /\ Agreement
  /\ OneHead /\ SingleSuccessor
-----------------------------------------------------------------------------
(***************************************************************************)
(* What RevokedGetsNothing, ReplayIsSuccessor and BumpCutsAccess need on   *)
(* top of that.                                                            *)
(***************************************************************************)

\* Requests that work on the token they presented.
Presenting == {"acquire", "find"} \cup OnRow

\* Nobody has a token of d yet: none is presented, answered or cached.
Unheard(d) ==
  /\ \A r \in Requests : pc[r] \in Presenting /\ rt[r] \in Tokens => device[rt[r]] # d
  /\ \A r \in Requests : reply[r].kind = "pair" => target[r] # d
  /\ \A t \in Tokens : device[t] = d => replay[t] = None

\* SetVersion may put a version back, for a DELETE may have bumped the device
\* before; but then no access token of it is out.
StartsUnheard ==
  /\ \A r \in Requests : pc[r] = "setVersion" => Unheard(target[r])
  /\ \A r, s \in Requests :
       pc[r] = "setVersion" /\ pc[s] = "setVersion" /\ target[r] = target[s] => r = s

\* No access token, signed, cached or about to be signed, is ahead of the
\* version of its device.
NoneAhead ==
  /\ \A r \in Requests :
       pc[r] \in {"rotate", "fallback", "save"} => seen[r] <= version[target[r]]
  /\ \A r \in Requests : reply[r].kind = "pair" => reply[r].ver <= version[target[r]]
  /\ \A t \in Tokens : replay[t] # None => replay[t].ver <= version[device[t]]

\* Who presented a revoked token gets no further than the row.
LateComers ==
  \A r \in late :
    /\ rt[r] \in revoked
    /\ pc[r] \in {"acquire", "find", "release"} \cup Over
    /\ reply[r].kind # "pair"

\* The inductive invariant behind all invariants of rotation and revocation.
RevocationInv == RotationInv /\ StartsUnheard /\ NoneAhead /\ LateComers
=============================================================================
