# Formal verification of vulture-gateway

TLA+ modules of the gateway's core, the TLC configurations that check them on
small instances, and TLAPS proofs of what matters most for instances of any
size. Everything is translated from the Go source under `src/`; where the code
and its documents disagree is said in section 6.

    tlc -config rotation_safety.cfg MCRotation    # one run, see section 4
    tlapm RotationProofs.tla                      # one module of proofs, see section 5

## 1. Inventory

The gateway sits between a desktop client and two upstreams, litellm (LLM
inference) and ClawHub (skills and plugins). Several instances may run; all state
they share is in Postgres and Redis, and every request is a goroutine that calls
the two stores one command or one transaction at a time. Nothing spans both
stores, so what can go wrong lies between two such calls.

| Component | State it keeps | Operations | Interacts with |
|---|---|---|---|
| Token endpoint and refresh rotation (`oauth_service.go`, `refresh_token_dao.go`, `lock.go`, `refresh_replay_store.go`, `gwcode_store.go`) | rows of `refresh_tokens` and `devices`; Redis: GW_CODEs, a lock and a 60 s replay entry per refresh token | code exchange, rotation, replay, theft verdict | login flow (hands it the GW_CODE), token versions |
| Device sessions (`device_service.go`, `jwt_auth.go`, `token_version.go`) | `device:{id}:token_version` in Redis, `revoked` of the rows | logout by access or refresh token, delete a device, accept or refuse an access token | every authenticated endpoint |
| Virtual keys (`virtual_key_service.go`, `virtual_key_cache.go`, `user_virtual_key_dao.go`) | one row per user; Redis: cached key, lock; at litellm: the keys themselves | get or create (before a proxied call, after a login), revoke and regenerate after a 401/403 | LLM proxy, login flow, litellm admin API |
| Usage metering (`metering.go`, `subscription.go`) | one Redis sorted set per user and window | precheck, record | LLM proxy, before and after the upstream call |
| Login flow (`login_handler.go`, `authz_store.go`, `csrf_store.go`, `signin/*`) | Redis: authorization request, CSRF token; rows of users and identities | authorize, render, log in, register, issue a GW_CODE | one-time codes, token endpoint, virtual keys |
| One-time codes and rate limits (`otp_store.go`, `ratelimit.go`, `otp_service.go`) | Redis: code, attempts and resend gate per purpose and destination; failure and send counters | send, verify, lock, reset | login flow, passwords |
| Passwords (`password_service.go`, `password_handler.go`, `password_link_store.go`) | secrets of identities; Redis: one-time links | set initially, reset, forgotten password | one-time codes |
| LLM proxy (`llm_handler.go`, `llm_service.go`, `litellm/*`) | none beyond the request | gates, forward, pump a stream under two timeouts, read usage out of it | virtual keys, metering |
| ClawHub client and its cache (`clawhub/*`, `warmer.go`) | Redis: raw answers; in the process: flights | read through with single flight, warm | catalog services |
| Catalog, distribution, bootstrap (`skill_service.go`, `plugin_service.go`, `compat.go`, `distribution.go`, ...) | none | filter by compatibility, paginate, resolve, compare versions | ClawHub client |
| Telemetry, probes, page templates; process wiring | none that changes | | |

Hard behaviours, and what makes each component correct:

- *Rotation*: requests racing with one token, a lock that lapses under its holder,
  retries inside and outside the grace window, failures between Postgres and Redis,
  logout next to a refresh. Correct: a device has one live refresh token, a token
  is exchanged for one other and everybody who presents it is told that one; a
  theft verdict is passed only on a token whose window is over.
- *Device sessions*: revocation in one store and bump in the other. Correct: a
  bump kills all that was handed out, and a device that is logged out stays out.
- *Virtual keys*: signing is a side effect at litellm outside any transaction, the
  lock is given up after 3 s, an error does not say whether the call did its work.
  Correct: the key in the row is never deleted upstream, no key is forgotten at
  litellm, only refused keys are replaced, a healing helps the request that healed.
  The code keeps none of these without exception; the properties say what it keeps,
  and section 6 what it does not.
- *Metering*: admission is optimistic, two sets are debited one after the other,
  keys expire. Correct: the overshoot is bounded by what is in flight, a window
  forgets nothing it has to count, a debit reaches every window, Retry-After is
  neither too long nor too short.
- *One-time codes*: the attempt limit is read and counted in two steps. Correct:
  a code is accepted once, guesses and failures are bounded, a sent code stands until
  it is used up.
- *Login flow and passwords*: something is consumed first and used later, with
  failures in between. Correct: one authorization request yields one GW_CODE, an
  account password is not replaced without a code.
- *LLM proxy*: two timeouts next to a reader goroutine, a client that may go. Correct:
  chunks arrive in order, the goroutine ends, bodies are closed, the usage is found
  wherever chunks are cut, and what was sent is what is billed.
- *Hub cache*: followers of a flight share the leader's fate, instances share the
  store. Correct: answers are no older than a lifetime, errors are not cached and not
  made up, categories put together from answers of different age add up, nobody is
  left behind in a flight.
- *Releases*: instances with different configurations during a rollout. Correct: a
  desktop is never led back or round in circles, and a 304 hides nothing.

The hazards, each at its line and with the properties that watch it, are in
`PROJECT.json`.

## 2. Plan

| # | Module | Models | Properties, model values, proofs |
|---|---|---|---|
| 1 | `RefreshRotation`, `RefreshLineage` | token endpoint, device sessions; what they promise | `RotationProperties`, `MCRotation`, `RotationProofs` |
| 2 | `VirtualKey` | virtual keys and the healing of a proxied call | `VirtualKeyProperties`, `VirtualKeyProofs` |
| 3 | `UsageMetering` | sliding windows | `MeteringProperties`, `MCMetering`, `MeteringProofs` |
| 4 | `OneTimeCode` | one-time codes, send and failure counters | with 6; `CodeProofs` |
| 5 | `AccountPassword` | initial password, reset, forgotten password, links; extends 4 | with 6 |
| 6 | `LoginFlow` | authorization request, login page, verification, registration, GW_CODE; extends 5; its GW_CODE is the one `RefreshRotation` starts from | `SignInProperties`, `SignInProofs` |
| 7 | `LlmProxy` | gates, retry, stream pump, sniffer, bill; stands on 2 and 3 | `LlmProxyProperties`, `MCLlmProxy`, `LlmProxyProofs` |
| 8 | `Versions`, `Releases` | version comparison and compatibility; distribution and bootstrap | `ReleasesProperties`, `MCReleases`, `ReleasesProofs` |
| 9 | `Catalog` | cache, single flight, warmer, lists and categories; extends `Versions` | `CatalogProperties`, `MCCatalog`, `CatalogProofs` |

All of them are written and checked, and every safety property of a passing run but
`CountsAddUp` is proved, some under a hypothesis on the constants that section 5
explains. Still worth stating: abstract specifications of the metering (a ledger of
debits) and of the virtual keys (one current key), with the refinements that
`RotationProofs` has for tokens.

## 3. The modules

### RefreshRotation

One action per call to a store. `pc[r]` names the call request `r` makes next, the
other functions of a request are Go locals (`rt` the token presented, `seen` the
token version read, `fresh` the token minted, `reply` what the client is told).
Postgres is `device`, `used`, `revoked`, `expired` (one bit each per row), Redis is
`codes`, `version`, `replay`, `locks`. A transaction is one action, its rollback is
`RotateConflict` or `StoreError`.

A device and a token family are minted together by the code exchange and copied
together by each rotation, so one set, `Devices`, stands for both. Hashing is
left out: a token is its hash. The access JWT is its version; its own expiry is
left out, which only lets access tokens live longer than they do.

What clients know is read off finished requests: a client presents a refresh token
only if it was told it (`Held`) or if it guesses one that has no row. The history
variables (`parent`, `closed`, `late`, `loggedOut`, `stolen`) are read by properties
only, except that `closed` holds the replay entry's expiry back: `WindowCloses` marks
the end of the 60 s after the rotation, and the entry, written after the rotation
with the same TTL, cannot be gone before.

`RefreshLineage` is what rotation promises without requests, locks or caches: a
device starts one line of tokens, a token gets at most one heir, and whoever
presents it is told that heir. The mapping reads the heir off `parent` and what was
told off the finished requests.

### VirtualKey

The state of one user (users share nothing): the row, the cache entry, the lock,
the keys litellm accepts, and a record of locals per request. Round 0 is the eager
call a login starts, round 1 a proxied call, round 2 its retry after the one
healing. `GetOrCreateVirtualKey` and `RevokeAndRegenerate` share their calls where
the code does (lock, sign, unlock). Litellm is external: a key is accepted until it
is deleted or lost (`drop`), and a good one may be refused as well (`deny`, a 403
that has other reasons).

A call that reports an error may have done its work or not, and the code cannot tell:
`CallFails` is the error without effect, `SignUnheard` a key signed by a call whose
answer was late, cut off or unreadable, `StoreUnheard` a write of the row that
committed, after which the code deletes the key as an orphan; `Degrade` may leave a
lock behind that nobody holds, and a lost deletion is `leak`. The history keeps apart
what this costs: `astray` has the keys that an unheard call, a lost deletion or a crash
lost track of, `stale` those that a fill put or left in the cache while the row named
another, `refused` and `healed` what each request was refused and signed.

### UsageMetering

One user's windows. A sorted set is a set of debits scored by the second they were
made; a key's TTL is `expiry`. Precheck goes through the capped windows (trim, sum),
Record through all windows (debit, extend). Float prices are fractions of
`PriceUnit`. `Credits`, the loop that adds up the members of a set, is a recursive
function on subsets that takes any member first. The clock moves by `Tick`: never during
a debit, except with the event `slow`, and then by one second. (The code gives the debit
5 s.) A trim or a debit that reports an error may have been done (`CheckFails`,
`DebitFails`), an EXPIRE may have been lost. `written` is what each window ever took,
`torn` the requests whose debit broke off.

### OneTimeCode, AccountPassword, LoginFlow

One identifier seen from one IP, one link and one authorization request: others share
nothing with it. The three modules extend each other, and a request is a record with
one program counter that passes through all of them: `OneTimeCode` has the steps of
sending and verifying a code and of the counters, which the handlers share in the code
(`OTPStore`, `RateLimiter`), `AccountPassword` the hosted page, `LoginFlow` the login
page and what surrounds both. Every Redis command and every transaction is a step;
`Issue`, a pipeline in one transaction, is one.

A code is the request that minted it, a password the request that set it, a user the
request that registered it, so that "which one?" is a comparison. Whether a client
types the right code or password is its free choice; that a password may be right is
only possible when there is one. Keys live out their TTL by actions of their own
(`CodeExpires`, `GateExpires`, `CounterExpires`, `AuthzExpires`), switched on by
`Events`. `fate` and `newest` are history. The background call for a
virtual key that a login starts is round 0 of `VirtualKey`; the GW_CODE is what
`Exchange` of `RefreshRotation` presents.

### LlmProxy

One call. An answer is a sequence of atoms (lines with content or a usage report,
`[DONE]`, LF, CR) that chunks cut anywhere. The handler and the goroutine of
`PumpStream` are two processes with a channel of capacity 1; the idle timer, the
deadline and the client are actions of the environment. `Consume` and `Parse` are the
sniffer, checked against `Reported` and `Content`, which look at the whole of what was
sent. The debit at the end is `Record` of `UsageMetering`, the key and its healing are
`VirtualKey`; here they succeed or fail.

### Versions, Releases

`Versions` has pure operators: a version text is a record of what the code looks at (a
leading v, the segments, whether a segment is a number, the rest). `Releases` is one
desktop that polls `/bootstrap` and `/app/latest` of any instance while instances are
redeployed with other configurations, notices begin and end, and the user installs
updates and switches channels. The ETag, a hash, is its content.

### Catalog

Raw answers of ClawHub are known by their key and the edition of the catalogue they
come from; Redis is `store`, with the end of each entry. A request reads the keys of
its operation one after the other (`After`), each through `cachedGet`: the first look
(`Get`), joining or leading a flight (`Wait`, `Lead` with the second look), ClawHub
(`Sample` when it answers, `Deliver` when the answer arrives), SET (`Fill`) and the end
of the flight for all in it (`Land`). The warmer of an instance is one more caller.
Categories are computed from what was really read (`buildCategoriesResponse`) and
checked against the catalogue. A number from `Hash` stands for the SHA-256 from which a
lifetime's jitter is derived.

### Properties and mutants

`*Properties` modules state what is checked. Each definition named `X_Something` in
the modules is a mutated form of `X`, a plausible bug in that code; every checked
property is violated under at least one of them.
Every component's inductive invariant, in its `*Proofs` module, has the types of the
variables as a conjunct. Those of `RotationInv`, `RevocationInv` and `KeyCustody` are
checked by runs too; elsewhere a value of the wrong type would end a run with an error
of its own.

## 4. Runs

Bounds common to all runs: a request is used once, `MaxInFlight` bounds those
being served together, and requests arrive and tokens (keys) are minted in one
fixed order, which loses nothing because names carry no meaning. Environment events
are switched on by `Events`: a property that fails *because of* an event is checked
without it, or excepts what the event did; why is said below the table.

| Run | Bounds | Shows |
|---|---|---|
| `rotation_safety` | 1 device, 4 tokens, 4 requests, 3 at a time; errors, crashes, lapsing locks | one live token per device, one answer per token, the replay cache holds successors, nothing for a token revoked before it was presented; `RevocationInv`, the inductive invariant of the proofs, with `RotationInv` in it; and rotation implements `RefreshLineage` |
| `rotation_devices` | 2 devices of one user, 4 tokens, 3 requests, 2 at a time; errors, crashes, idle expiry | no theft verdict inside the grace window unless a rotation broke off; a device that is out stays out; a finished bump cuts off every access token held; every request ends |
| `vkey_races` | 4 keys, 2 requests at once; refused keys, slow and lapsing locks, calls that fail with or without effect, lost deletions, crashes | `KeyCustody`, the invariant the proofs use; the row's key is deleted upstream only if a write of it was not heard of; a key is forgotten only by a failed call, a crash or a second healing; a healing replaces only the key refused to it or another healing's; a refused key comes back only from a cache that is behind the row |
| `vkey_ends` | the same; lost keys instead of failing calls | every request ends, even when the lock's holder died |
| `metering_safety` | 2 windows, 3 requests, 2 at a time, clock to 1; slow debits, calls that fail with or without effect, crashes | the overshoot is bounded by the calls in flight and those that were let through unchecked; a debit misses a window only if it broke off before it |
| `metering_exact` | 2 windows, 3 requests, 2 at a time, clock to 7, longer than a key lives; no failures | windows forget nothing, and some window is at its cap as long as a Retry-After lasts |
| `signin_login` | 4 requests, 2 at a time, sends and logins by code; codes, counters and the authorization expire at any time | guesses are bounded, a sent code stands; one GW_CODE per authorization, for the owner, who is the one user that racing registrations leave; who has proved who they are gets in or there is a reason |
| `signin_password` | 3 requests, 2 at a time, of resets by link, forgotten passwords, sends and logins by password; one failing call or crash, the gate reopens | a code is accepted once, failures lock, the old password dies with the answer, a link changes one password, no replacement without a code |
| `llm_proxy` | every operation and kind of answer, streams of up to 6 atoms cut anywhere; errors, hangs, both timeouts, a client that goes | chunks arrive in order, the bill follows what was sent and an estimate stands in only if it has to, bodies are closed, the goroutine and the call end |
| `releases` | 2 instances, 3 deployments, 2 redeployments, 7 version texts, clock to 2 | an offer is newer than what runs (by a reference for the comparison), desktops do not go in circles, a 304 hides nothing |
| `catalog` | 2 instances with their warmers and one client, 2 editions of 2 pages, clock to 3, one failure of Redis or ClawHub or one caller gone | errors have a cause in the flight, answers are no older than a lifetime and a timeout, every item read is in exactly one category or in the last, `other`, and counts are the catalogue's once it rests; every call ends |

`logout_overtakes_refresh` (1 device, 3 tokens, 3 requests, 2 at a time, no events) ends
with the counterexample of section 6.

Why events are off or excepted: `vkey_races` has no lost keys and `vkey_ends` no failing
calls to keep them small (a key that litellm lost is to the gateway a key that it
refuses); `WindowsRemember` needs `EXPIRE` to succeed, for `metering.go:131` drops its
result and a key may then expire with debits that count, and debits that do not cross a
second; `WaitIsNotWasted` rests on it. `signin_login` has no failing calls, because
`GuessesBounded` counts in those that failed to count and there its bound shows itself
sharp. Adding the event to the run shows it. In the catalogue `ErrorHasCause` lets the fate of a flight be
everybody's in it: a client that goes takes those who wait for its flight with it
(`cache.go:60`), and so does the warmer at shutdown (`main.go:71`).

Exceptions that a property makes are written in it and say what the code does not
keep; where it says that it does, see section 6. `NoOrphans` excepts a healing's key that
another healing replaced, `OnlyRefusedReplaced` the same key, `OnlyAstrayDeleted`
a key whose write was not heard of, `RefusedOnlyIfStale` a cache behind the row,
`TheftOnlyAfterWindow` a rotation that broke off, `SentCodeStands` lets a Verify that was comparing an older code delete a newer
one (`otp_store.go:141` deletes the key, whatever it holds), `AcceptedOnce` two that
overlap, `NoReplacementWithoutCode` two first settings that overlap,
`LinkUsedOnce` two submissions that overlap, `FailuresBounded` what was in flight,
`GuessesBounded` that and the guesses that Redis failed to count, `LoginNotInVain` the
loser of two registrations.

Why the bounds are enough: the verdicts on a refresh token need its rotation, a second
presenter and a third party (logout, deletion, theft), which with the exchange is four
requests in `rotation_safety`; two healings are two requests with one key each after the
first, and the fourth key is for one that goes astray; a window needs one debit to
fill it, one to slide out and one request to be refused. A sent code that dies before
its time takes two sends and one verification between them, a registration lost to
another takes two sign-ins and the send before: four requests. On the password side
every exception is between two submissions, and the third request sends the code or
tries the old password. One chunk in the reader's hands, one in the channel and one
being written are the most there are, so six atoms cut anywhere fill all three places.
A flight needs a leader and a follower on one instance and a filler on another; an
entry of lifetime 2 ± 1 begins, ends and is filled again within 3 ticks. What the proofs
cover holds without bounds.

Fairness is assumed of few things: a goroutine that is not killed keeps running
(the Go scheduler; every store call has a timeout or an answer), Redis expires a
lock that has a TTL, timers fire, and calls to ClawHub end (its HTTP client has a
timeout). Nothing is assumed of clients, of litellm, or of errors and crashes, which
are never forced to happen or to stop happening; a stream that hangs is ended by the
idle timer, a JSON answer that hangs by the deadline. The wait for a refresh lock is
weakly fair because both of its outcomes, getting it and giving up, belong to the
waiting goroutine's own step. In `Catalog` fairness is of all goroutines together: some
step is taken as long as one can be. `UpdatesEnd` needs none: nothing can go round.
`catalog` ends when the clock and the requests are used up, so deadlock is not checked
there; `EveryCallEnds` is what would show somebody stuck.

## 5. Proofs

Each theorem holds for all values of the constants that satisfy the assumption of its
module (`ConstantsAssumption`, `KeysAssumption`, `MeteringAssumption`,
`OneTimeCodeAssumption`, `LlmProxyAssumption`, `VersionsAssumption`,
`ReleasesAssumption`, `CatalogAssumption`): null values lie outside the sets, numbers are
numbers, events are among those modelled. `MaxInFlight`, `MaxTime` and their like are
any number; sets of requests, tokens or keys may be infinite. A hypothesis beyond that
is written in the theorem and explained here. In every module the argument is an
inductive invariant: lemmas that the initial states have it, that each action keeps it,
and that it implies the property.

### RotationProofs (`RefreshRotation`)

- `RotationInvariant`, and from it `TypeCorrect`, `LinesStayLinear` (`OneHead`,
  `SingleSuccessor`) and `SameAnswer` (`OneAnswer`), for any events. `OneHead` is not
  inductive: that a rotation cannot add a second live token needs that its own
  transaction marks the old one used, that the code exchange starts a device with no
  rows (`FirstTokens`), and that parents are used and of the same device (`Lines`).
  `OneAnswer` needs to know what a request is about to save or already holds
  (`Knowledge`), and that the pair in the cache, the one about to be saved and those
  answered are one (`Agreement`). The lock plays no part: the conditional UPDATE alone
  carries it.
- `RotationRefinesLineage`: each step is a step of `RefreshLineage` or leaves it alone
  (`ImplementsLineage`), because the heir is read off `parent`, which only a rotation's
  transaction extends, and what is told is read off answers that agree with it.
- `RevocationInvariant` adds that no pair carries a version ahead of its device's
  counter and that a request that came after a revocation holds nothing to answer
  with (`NoneAhead`, `LateComers`). It gives `RevokedStaysOut`
  (`RevokedGetsNothing`), `CacheHoldsSuccessors` (`ReplayIsSuccessor`), `BumpEndsAccess`
  (`BumpCutsAccess`) and `DevicesStayOut` (`OutStaysOut`), for any events.
- `TheftsAreReal` (`TheftOnlyAfterWindow`) for `"lapse" \notin Events`: here the lock is
  what counts, and a lock that lapses under its holder lets a second request see the
  token used before its pair is in the cache (the run's constants say the same).

### VirtualKeyProofs (`VirtualKey`)

All of them for any number of requests and for any events, without the lock.

- `CustodyHolds` (`KeyCustody`), and from it `RowKeyKept` (`OnlyAstrayDeleted`) and
  `KeyTypes`. Deleting a key is safe because a key just signed is in one request's hand,
  was never in the row unless a write of it was not heard of, and is nobody's old key
  (`InOneHand`), and because an old key about to be deleted has left the row, to which no
  key returns.
- `KeysAreKept` (`NoOrphans`): what leaves a request's hand is in the row, deleted, or
  astray; what a healing replaces in the row is the old key that it read and goes on to
  delete, or, if the row has moved on since, the key of another healing (`HealingsOK`).
- `FirstKeysStand` (`OnlyRefusedReplaced`): until a healing has stored its key, the user's
  first key is the only one in the row and the cache and the only one handed out, so
  whoever heals was refused that very key (`FirstOK`).
- `RetriesAvoidRefused` (`RefusedOnlyIfStale`): a request that heals was refused a key
  that is gone from the row for good when its own write is done, and its retry reads the
  row or a cache entry that is the row's, its own, or `stale` (`RetriesOK`).

### SignInProofs, CodeProofs (`OneTimeCode`, `AccountPassword`, `LoginFlow`)

All nine safety properties of the two sign-in runs, for any requests, kinds of
request and events. What a request knows at each step of its handler (`RequestsKnow`)
is the invariant under all of them.

- `SignInProofs`: `OneGrantPerLogin` (`OneGrant`), `ProofGetsIn` (`LoginNotInVain`),
  `NoCodeNoReplacement` (`NoReplacementWithoutCode`), `OldPasswordIsDead`
  (`OldPasswordDies`), `LinksAreOneTime` (`LinkUsedOnce`). They rest on the account's
  history: who registered, whose password is in the row, who took the authorization.
- `CodeProofs`: `CodesAreOneTime` (`AcceptedOnce`), `NewestCodeStands`
  (`SentCodeStands`), and the two bounds, `FailuresAreBounded` and `GuessesAreBounded`.
  Each bound is a balance: what is counted plus the requests that were let past the check
  and are yet to count, which leave that set as they count. For guesses the balance is
  kept per code, and a guess that Redis failed to count is on the other side of it.

### MeteringProofs (`UsageMetering`)

- `OvershootIsBounded` (`OvershootBounded`) for any events and any bound on a single
  charge: what a window counts and what the requests past its check may still debit stay
  within its cap and a charge for each request in flight or let through by a failed
  precheck (`BudgetIsKept`).
- `DebitsGoInOrder` (`DebitsInOrder`) for any events: what a request's counter has passed
  is written, what it has not is not, and a broken-off debit is `torn` (`OrderInv`).
- `NothingForgotten` (`WindowsRemember`) and `WaitsAreNeeded` (`WaitIsNotWasted`) for
  `Events = {}`: a debit whose `EXPIRE` fails or that crosses a second leaves a key that
  expires early. Until, and not at, the second named by Retry-After a window is at its
  cap; that the window has room then is the documents' claim, and not so (section 6). The
  wait needs a second invariant, `WaitInv`: until
  a reset is due, the debits of its window that are not yet out by then reach the cap.
- Sums over sets: the library's induction takes the induction hypothesis as an
  operator, which the provers here cannot be given. `SumsExist` and the lemmas after it
  take a smallest set for which a sum misbehaves and remove a member of it.

### LlmProxyProofs (`LlmProxy`)

- `CallPhases` (types, and what handler, pump and goroutine hold at each step) gives
  `BodiesAreClosed` (`BodiesClosed`) and, with where each chunk is between litellm and
  the client (`StreamFlow`), `ForwardsInOrder` (`ForwardedInOrder`), for streams and cuts
  of any length.
- `BillsWhatWasSent` (`BilledAsSent`) for `LinesApart`: between two lines of data there
  is a blank line, as litellm writes them. Two data lines in one event are parsed as one
  and the usage in them is missed, which is also why the run's streams keep to it. The
  invariant is that the sniffer has found in the chunks what one look at the whole of
  what was sent would have found, and holds back what follows the last blank line.

### ReleasesProofs (`Releases`, `Versions`)

- `NotModifiedMeansCurrent` (`NotModifiedIsCurrent`), for any configurations.
- `OffersLeadForward` (`OfferIsNewer`) for `ShortVersions`: up to three segments, each
  below 100 or no number. The reference against which the property compares versions
  (`Weight`) weighs three segments in a base of a hundred; the comparison of the code has
  no such limit.

### CatalogProofs (`Catalog`)

- `CacheIsKept`: an entry outlives the edition it holds by no more than a lifetime and a
  timeout. `FailuresComeFromClawHub` (`ErrorHasCause`), for any events.
- `AnswersAreFresh` (`StalenessBounded`) for `BaseTTL > 0`: with the cache off the bound,
  which is strict, would be the timeout itself, and an answer can be as old as that.

### Only model-checked

- Liveness (`EveryRequestEnds`, `CallEnds`, `EveryCallEnds`, `UpdatesEnd`): fairness and
  `ENABLED` are out of the prover's reach; `UpdatesEnd`, which needs no fairness, would take an
  induction on how far versions can still rise.
- `CountsAddUp`: categories are put together with a sort that takes its ordering as an
  operator (`SetToSortSeq`) and a fold; what they return for every input would take an
  induction theorem with an operator for a parameter.
- What the recursive functions over sequences return beyond what the theorems above
  need of them.

## 6. Where code and documents disagree

`logout_overtakes_refresh` checks what the documents say and ends with a counterexample,
quoted in `PROJECT.json` under `findings`: logout ends the refresh family of a device
(`docs/flows/auth.md:113`, `:138`), but a rotation in flight commits an unrevoked token
after the logout revoked the device's rows.

The other disagreements show as exceptions: the property states what the code keeps, the
exception what it does not. Without the exception TLC finds each of them.

| Property and its exception | What is said | What the code does |
|---|---|---|
| `OnlyAstrayDeleted`: keys in `astray` | what is deleted after a failed write is an orphan (`virtual_key_service.go:271`) | `Create` (`:181`) or `Replace` (`:99`) may commit and report an error; the key that the row names is then deleted at litellm |
| `NoOrphans`: `Overhealed` keys | lock, constraint and deletion prevent orphans three times over (`virtual_key_service.go:30`) | two healings, one of which went on without the lock, read one old key; the key that the first stored is overwritten and nobody deletes it |
| `OnlyRefusedReplaced`: keys of other healings | healing is for a key in the row that was refused (`virtual_key_service.go:72`) | the row is not compared with the refused key: of two requests refused with one key, the second rotates away what the first has just signed, even with the lock |
| `RefusedOnlyIfStale`: keys in `stale` | the retry gets the key just signed (`llm_service.go:50`) | a request that read the row before the healing may fill the cache after it |
| `DebitsInOrder`: requests in `torn` | a debit is atomic over all windows (`metering.go:116`, `docs/flows/llm-proxy.md:205`) | an error between two sorted sets (`metering.go:127`) leaves it in some windows only, for good |
| `WaitIsNotWasted`: strictly before the reset | at the reset time the oldest debit is out of its window (`metering.go:87`, `docs/flows/llm-proxy.md:191`) | an event at the cutoff still counts (`metering.go:139`), so it is out one second later; a client that retries on time can be refused again |
| `TheftOnlyAfterWindow`: `BrokenOff` tokens | within 60 s a rotated token is answered with its pair (`docs/flows/auth.md:132`, `oauth_service.go:257`) | a rotation that ends between its commit and its replay entry (`oauth_service.go:251`) has no pair: the retry revokes the family |
| `OutStaysOut`: devices with a grant under way | a theft verdict revokes the whole family (`docs/flows/auth.md:133`) | the lock is per token, so a rotation of the newest token survives the verdict on an old one |
| `AcceptedOnce`: overlapping calls | a code is consumed by its first hit (`password_service.go:160`) | `Verify` reads, compares and deletes in steps (`otp_store.go:130`); two calls may both compare first |
| `LinkUsedOnce`: overlapping calls | a link is good for one use (`password_handler.go:188`, `:231`) | the link is only peeked at before the change and taken after it |
| `NoReplacementWithoutCode`: first settings under way | an initial password is written only where there is none (`password_service.go:73`) | the look at the secrets is not repeated in the write (`:83`): of two first settings the later wins |
| `CountsAddUp`: nothing asked of categories with the count 0, nor of the order | categories without visible items do not appear, and the order is that of first appearance (`docs/flows/skill-plugin-lifecycle.md:226`, of the implementation) | every active category of the dictionary appears, with its count of 0, in the dictionary's order (`catalog_types.go:70`, `:74`; its comment at `:56`, "0 计数也输出", says so) |

## 7. Not modelled

- Telemetry, probes, HTML and process wiring: no state beyond the request, or none that
  changes after start. Of the wiring only what the configuration makes of notices,
  releases and the upload limit is in `Releases`.
- `DeleteForUser` of the virtual keys, which nothing calls, so the component is only
  partly modelled.
- Skill and plugin details, version histories, resolution by fingerprint and downloads:
  each passes one answer of ClawHub on, cached like a list (details) or not at all like a
  verdict, without state of the gateway's.
- PKCE, redirect and client checks, password policy, hashing, RSA and JWT: tests of a
  single request that succeed or fail, where they matter as a free choice. The bypass
  code of development environments.
- Delivery of mails and messages; headers that are copied or filtered by the proxies.
- Clocks that differ between instances.
