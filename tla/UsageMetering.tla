----------------------------- MODULE UsageMetering -----------------------------
(***************************************************************************)
(* The sliding usage windows of one user: the precheck in front of a       *)
(* proxied call and the debit after it.  Each window is a Redis sorted set *)
(* of debits scored by the second they were made; every call to Redis is   *)
(* one step, so the requests of the user interleave between them.          *)
(*                                                                         *)
(* Prices are floats in the code and fractions of PriceUnit here.  The     *)
(* clock is one for all instances.  A call that Redis answers with an      *)
(* error may have done its work or not.                                    *)
(* ----------------------------------------------------------------------- *)
(* Bounds: Requests, MaxInFlight, MaxTime, and the finite Usages and       *)
(* Chars.                                                                  *)
(***************************************************************************)
EXTENDS Integers, Sequences, FiniteSetsExt

CONSTANTS
  Windows,          \* the windows in the order they are checked: [size, cap]
  Grace,            \* how much longer than its window a key lives (1h)
  PromptPrice, CompletionPrice, PriceUnit,   \* credits per PriceUnit tokens
  Usages,           \* usages litellm reports: [prompt, completion]
  Chars,            \* character counts an estimate may start from
  Requests,
  MaxInFlight,      \* bound on the requests being served at a time
  MaxTime,          \* bound on the clock
  Events,           \* environment events explored, a subset of AllEvents
  Never             \* expiry of a key without a TTL

\* slow: time passes during a debit; error: Redis fails; crash: an instance dies.
AllEvents == {"slow", "error", "crash"}

W == DOMAIN Windows

ASSUME MeteringAssumption ==
  /\ Windows \in Seq([size : Nat \ {0}, cap : Nat])
  /\ {PromptPrice, CompletionPrice, MaxInFlight, MaxTime} \cup Chars \subseteq Nat
  /\ {Grace, PriceUnit} \subseteq Nat \ {0}
  /\ Usages \subseteq [prompt : Nat, completion : Nat]
  /\ Events \subseteq AllEvents
  /\ Never \notin Nat

VARIABLES
  clock,    \* Unix time
  store,    \* usage:{uuid}:{window}: the debits in each sorted set
  expiry,   \* when each key expires, or Never
  req,      \* the requests: program counter and Go locals
  \* history: the debits each window ever took, whose debit broke off before
  \* it was through with the windows, and who got in unchecked
  written, torn, unchecked

vars == <<clock, store, expiry, req, written, torn, unchecked>>

Checking  == {"trim", "sum"}
Recording == {"debit", "extend"}
Steps     == Checking \cup {"forward"} \cup Recording
Over      == {"done", "refused", "dead"}
InFlight  == {r \in Requests : req[r].pc \in Steps}

\* A request without anything in its locals that matters any longer.
Bare(here) == [pc |-> here, now |-> 0, w |-> 0, resets |-> {}, credits |-> 0]

Idle == Bare("new")

Init ==
  /\ clock = 0
  /\ store = [w \in W |-> {}]
  /\ expiry = [w \in W |-> Never]
  /\ req = [r \in Requests |-> Idle]
  /\ written = [w \in W |-> {}]
  /\ torn = {}
  /\ unchecked = {}

-----------------------------------------------------------------------------
\* Credits.

CeilDiv(a, b) == (a + b - 1) \div b

\* Rounded up; a usage that is not empty costs at least one.
CreditsFor(u) ==
  LET credits == CeilDiv(u.prompt * PromptPrice + u.completion * CompletionPrice, PriceUnit)
  IN  IF credits <= 0 /\ (u.prompt > 0 \/ u.completion > 0) THEN 1 ELSE credits

\* Four characters count as a token.
EstimateUsage(promptChars, completionChars) ==
  [prompt |-> CeilDiv(promptChars, 4), completion |-> CeilDiv(completionChars, 4)]

\* What a served call is charged for: the usage litellm reports, or an estimate.
ChargedUsages ==
  Usages \cup {EstimateUsage(p, c) : p \in Chars, c \in Chars}

-----------------------------------------------------------------------------
\* Windows.

At(r, here)  == req[r].pc = here
Become(r, q) == req' = [req EXCEPT ![r] = q]

Cutoff(w, now) == now - Windows[w].size
Counted(w, now) == {e \in store[w] : e.at >= Cutoff(w, now)}

\* The sum over a set of debits, as a function that can be reasoned about.
Credits(D) ==
  LET sum[E \in SUBSET D] ==
        IF E = {} THEN 0
        ELSE LET e == CHOOSE f \in E : TRUE IN e.credits + sum[E \ {e}]
  IN  sum[D]

Total(w, now) == Credits(Counted(w, now))

\* Mutant of Oldest: sorted the other way.
Oldest_Newest(w, now) == Max({e.at : e \in Counted(w, now)})

Oldest(w, now) == Min({e.at : e \in Counted(w, now)})

Capped == {w \in W : Windows[w].cap > 0}

\* Retry-After of a refused request: the first window to recover.
RetryAfter(q) == Max({0, Min({x.at : x \in q.resets}) - q.now})

\* The precheck goes on with the next capped window, or decides.
CheckFrom(q, w) ==
  LET left == {v \in Capped : v >= w} IN
  CASE left # {}                   -> [q EXCEPT !.pc = "trim", !.w = Min(left)]
    [] left = {} /\ q.resets = {}  -> Bare("forward")
    [] left = {} /\ q.resets # {}  -> [q EXCEPT !.pc = "refused"]

\* The debit goes on with the next window.
DebitFrom(q, w) ==
  IF w \in W THEN [q EXCEPT !.pc = "debit", !.w = w] ELSE Bare("done")

CanBegin(r) ==
  /\ req[r].pc = "new"
  /\ r = CHOOSE s \in Requests : req[s].pc = "new"
  /\ Cardinality(InFlight) < MaxInFlight

-----------------------------------------------------------------------------
\* Precheck.

Begin(r) ==
  /\ CanBegin(r)
  /\ Become(r, CheckFrom([Idle EXCEPT !.now = clock], 1))
  /\ UNCHANGED <<clock, store, expiry, written, torn, unchecked>>

\* Of window w only these debits are kept; an empty set goes with its TTL.
Keep(w, kept) ==
  /\ store' = [store EXCEPT ![w] = kept]
  /\ expiry' = IF kept = {} THEN [expiry EXCEPT ![w] = Never] ELSE expiry

\* Mutant of Trim: the debits at the cutoff go, too.
Trim_Cutoff(r) ==
  LET w == req[r].w IN
  /\ At(r, "trim")
  /\ Keep(w, {e \in store[w] : e.at > Cutoff(w, req[r].now)})
  /\ Become(r, [req[r] EXCEPT !.pc = "sum"])
  /\ UNCHANGED <<clock, written, torn, unchecked>>

\* ZREMRANGEBYSCORE of what has left the window.
Trim(r) ==
  LET w == req[r].w IN
  /\ At(r, "trim")
  /\ Keep(w, Counted(w, req[r].now))
  /\ Become(r, [req[r] EXCEPT !.pc = "sum"])
  /\ UNCHANGED <<clock, written, torn, unchecked>>

\* Mutant of Sum: a window at its cap lets another request through.
Sum_Above(r) ==
  LET q == req[r]
      reset == [window |-> q.w, at |-> Oldest(q.w, q.now) + Windows[q.w].size] IN
  /\ At(r, "sum")
  /\ Become(r, CheckFrom(IF Total(q.w, q.now) > Windows[q.w].cap
                           THEN [q EXCEPT !.resets = @ \cup {reset}]
                           ELSE q,
                         q.w + 1))
  /\ UNCHANGED <<clock, store, expiry, written, torn, unchecked>>

\* ZRANGEBYSCORE: a window at its cap recovers when its oldest debit leaves it.
Sum(r) ==
  LET q == req[r]
      reset == [window |-> q.w, at |-> Oldest(q.w, q.now) + Windows[q.w].size] IN
  /\ At(r, "sum")
  /\ Become(r, CheckFrom(IF Total(q.w, q.now) >= Windows[q.w].cap
                           THEN [q EXCEPT !.resets = @ \cup {reset}]
                           ELSE q,
                         q.w + 1))
  /\ UNCHANGED <<clock, store, expiry, written, torn, unchecked>>

\* A precheck that Redis fails lets the request through.
CheckFails(r) ==
  LET w == req[r].w IN
  /\ "error" \in Events
  /\ req[r].pc \in Checking
  /\ \/ UNCHANGED <<store, expiry>>
     \/ At(r, "trim") /\ Keep(w, Counted(w, req[r].now))
  /\ Become(r, Bare("forward"))
  /\ unchecked' = unchecked \cup {r}
  /\ UNCHANGED <<clock, written, torn>>

-----------------------------------------------------------------------------
\* The upstream call and Record.

\* An upstream error costs nothing.
UpstreamFails(r) ==
  /\ At(r, "forward")
  /\ Become(r, Bare("done"))
  /\ UNCHANGED <<clock, store, expiry, written, torn, unchecked>>

\* An answer without a usage, as those of images are, costs nothing either.
Answer(r, u) ==
  LET q == [req[r] EXCEPT !.now = clock, !.credits = CreditsFor(u)] IN
  /\ At(r, "forward")
  /\ Become(r, IF q.credits > 0 THEN DebitFrom(q, 1) ELSE Bare("done"))
  /\ UNCHANGED <<clock, store, expiry, written, torn, unchecked>>

\* The debit of a request: the same member for every window.
Owed(r) == [at |-> req[r].now, credits |-> req[r].credits, by |-> r]

\* Window w takes it.
Take(w, e) ==
  /\ store' = [store EXCEPT ![w] = @ \cup {e}]
  /\ written' = [written EXCEPT ![w] = @ \cup {e}]

\* Mutant of Debit: only the window that is shown to the client.
Debit_First(r) ==
  /\ At(r, "debit")
  /\ IF req[r].w = 1 THEN Take(1, Owed(r)) ELSE UNCHANGED <<store, written>>
  /\ Become(r, [req[r] EXCEPT !.pc = "extend"])
  /\ UNCHANGED <<clock, expiry, torn, unchecked>>

\* ZADD of a member that is the request's own.
Debit(r) ==
  /\ At(r, "debit")
  /\ Take(req[r].w, Owed(r))
  /\ Become(r, [req[r] EXCEPT !.pc = "extend"])
  /\ UNCHANGED <<clock, expiry, torn, unchecked>>

\* Mutant of Extend: only the first debit gives the key a TTL.
Extend_Once(r) ==
  LET q == req[r] IN
  /\ At(r, "extend")
  /\ expiry' = IF expiry[q.w] = Never
                 THEN [expiry EXCEPT ![q.w] = clock + Windows[q.w].size + Grace]
                 ELSE expiry
  /\ Become(r, DebitFrom(q, q.w + 1))
  /\ UNCHANGED <<clock, store, written, torn, unchecked>>

\* EXPIRE, whose result is not looked at; a key that is gone stays gone.
Extend(r) ==
  LET q == req[r] IN
  /\ At(r, "extend")
  /\ \/ /\ store[q.w] # {}
        /\ expiry' = [expiry EXCEPT ![q.w] = clock + Windows[q.w].size + Grace]
     \/ (store[q.w] = {} \/ "error" \in Events) /\ UNCHANGED expiry
  /\ Become(r, DebitFrom(q, q.w + 1))
  /\ UNCHANGED <<clock, store, written, torn, unchecked>>

\* Mutant of DebitFails: the loop goes on with the next window.
DebitFails_GoesOn(r) ==
  /\ "error" \in Events
  /\ At(r, "debit")
  /\ Become(r, DebitFrom(req[r], req[r].w + 1))
  /\ torn' = torn \cup {r}
  /\ UNCHANGED <<clock, store, expiry, written, unchecked>>

\* A debit that fails, or that Redis only says has failed, ends the loop; the
\* client has its answer already.
DebitFails(r) ==
  /\ "error" \in Events
  /\ At(r, "debit")
  /\ Take(req[r].w, Owed(r)) \/ UNCHANGED <<store, written>>
  /\ Become(r, Bare("done"))
  /\ torn' = torn \cup {r}
  /\ UNCHANGED <<clock, expiry, unchecked>>

-----------------------------------------------------------------------------
\* The environment.

Abandon(r) ==
  /\ "crash" \in Events
  /\ req[r].pc \in Steps
  /\ Become(r, Bare("dead"))
  /\ torn' = IF req[r].pc \in Recording THEN torn \cup {r} ELSE torn
  /\ UNCHANGED <<clock, store, expiry, written, unchecked>>

Expired(w) == expiry[w] # Never /\ expiry[w] <= clock'

\* A debit has 5s: the clock may move during one, but not far.
Tick ==
  /\ clock < MaxTime
  /\ \A r \in Requests : req[r].pc \in Recording => "slow" \in Events /\ req[r].now = clock
  /\ clock' = clock + 1
  /\ store' = [w \in W |-> IF Expired(w) THEN {} ELSE store[w]]
  /\ expiry' = [w \in W |-> IF Expired(w) THEN Never ELSE expiry[w]]
  /\ UNCHANGED <<req, written, torn, unchecked>>

-----------------------------------------------------------------------------
Serve(r) ==
  \/ Begin(r) \/ Trim(r) \/ Sum(r) \/ CheckFails(r)
  \/ UpstreamFails(r) \/ \E u \in ChargedUsages : Answer(r, u)
  \/ Debit(r) \/ Extend(r) \/ DebitFails(r)
  \/ Abandon(r)

Finished ==
  /\ clock = MaxTime
  /\ \A r \in Requests : req[r].pc \in Over
  /\ UNCHANGED vars

Next == (\E r \in Requests : Serve(r)) \/ Tick \/ Finished

Spec == Init /\ [][Next]_vars
=============================================================================
