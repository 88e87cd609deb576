----------------------------- MODULE OneTimeCode -----------------------------
(***************************************************************************)
(* One-time codes and the counters next to them, for one identifier (the   *)
(* destination of codes) seen from one IP: identifiers share nothing.  The *)
(* module has the steps the sign-in handlers share: sending a code,        *)
(* verifying one, counting a failure.  A handler enters them at "resend",  *)
(* "otp" or "count" and goes on at "verified", "refused" or "render";      *)
(* AccountPassword and LoginFlow add those.  Each call to Redis is a step. *)
(*                                                                         *)
(* A code is the request that minted it: two random codes are taken to     *)
(* differ, and whether what the client typed equals the code read is its   *)
(* free choice.                                                            *)
(* The code typed in place of all codes (bypassCode) exists in development *)
(* environments only and is left out.                                      *)
(* ----------------------------------------------------------------------- *)
(* Bounds: MaxRequests, MaxInFlight of them at a time.                     *)
(***************************************************************************)
EXTENDS Naturals, FiniteSets

CONSTANTS
  Kinds,        \* kinds of requests explored, a subset of AllKinds
  MaxRequests, MaxInFlight,
  MaxAttempts,  \* wrong guesses that void a code
  MaxFailures,  \* failures that lock an operation
  SendMax,      \* codes sent per window
  MaxErrors,    \* bound on the requests that fail
  Events,       \* environment events explored, a subset of AllEvents
  None

SendKinds  == {"sendLogin", "sendReset"}
ResetKinds == {"linkSubmit", "forgotSubmit"}
LoginKinds == {"codeLogin", "passwordLogin"}
AllKinds   == SendKinds \cup ResetKinds \cup LoginKinds

\* error: a call fails, or the instance dies; the others: a key lives out its TTL.
AllEvents == {"error", "code", "gate", "counter", "authz"}

ASSUME OneTimeCodeAssumption ==
  /\ {MaxRequests, MaxInFlight, MaxErrors} \subseteq Nat
  /\ {MaxAttempts, MaxFailures, SendMax} \subseteq Nat \ {0}
  /\ Kinds \subseteq AllKinds
  /\ Events \subseteq AllEvents
  /\ None \notin Nat

VARIABLES
  req,       \* the requests: kind, program counter, Go locals, answer
  code,      \* otp:<purpose>:code, 0 when there is none
  attempts,  \* otp:<purpose>:attempts
  gate,      \* whether otp:<purpose>:resend exists
  count,     \* rl:send, rl:login, rl:pwreset; 0 when the key is missing
  timed,     \* whether that counter has a TTL
  newest,    \* history: the newest code
  fate       \* history: what became of each code

codes    == <<code, attempts, gate>>
counters == <<count, timed>>
otpStores == <<codes, counters, newest, fate>>
otpVars   == <<req, otpStores>>

Requests == 1..MaxRequests
Purposes == {"login", "pwreset"}
Counters == {"send", "login", "pwreset"}

Purpose(r) == IF req[r].kind \in {"sendLogin", "codeLogin"} THEN "login" ELSE "pwreset"
Counter(r) == CASE req[r].kind \in SendKinds -> "send"
                [] req[r].kind = "passwordLogin" -> "login"
                [] OTHER -> "pwreset"

At(r, here)     == req[r].pc = here
Goto(r, there)  == req' = [req EXCEPT ![r].pc = there]
End(r, answer)  == req' = [req EXCEPT ![r].pc = "done", ![r].reply = answer]

Begun    == {r \in Requests : ~At(r, "new")}
Finished == {r \in Requests : At(r, "done")}
InFlight == Begun \ Finished

\* Requests arrive in the order of their numbers.
Arrives(r, k) ==
  /\ At(r, "new") /\ k \in Kinds
  /\ \A s \in 1..(r - 1) : s \in Begun
  /\ Cardinality(InFlight) < MaxInFlight

\* Its first step takes request r of kind k to `there`, or answers it at once.
Start(r, k, there, answer) ==
  req' = [req EXCEPT ![r] = [@ EXCEPT !.kind = k, !.pc = there, !.reply = answer,
                                      !.before = Finished]]

OtpInit ==
  /\ req = [r \in Requests |->
              [kind |-> "none", pc |-> "new", reply |-> "none", before |-> {},
               seen |-> 0, proved |-> 0, was |-> None, user |-> None, grant |-> None]]
  /\ code = [p \in Purposes |-> 0]
  /\ attempts = [p \in Purposes |-> 0]
  /\ gate = [p \in Purposes |-> FALSE]
  /\ count = [k \in Counters |-> 0]
  /\ timed = [k \in Counters |-> FALSE]
  /\ newest = [p \in Purposes |-> 0]
  /\ fate = [c \in Requests |-> [wrong |-> 0, uncounted |-> 0,
                              readers |-> {}, lapsed |-> FALSE, kept |-> FALSE]]

-----------------------------------------------------------------------------
\* Counters with a window.

\* RecordFailure, AllowSend: the first increment of a window has to set its end.
AfterCount(r, n) ==
  IF req[r].kind \notin SendKinds THEN Goto(r, "render")
  ELSE IF n <= SendMax THEN Goto(r, "issue") ELSE End(r, "limited")

Incr(r) ==
  LET k == Counter(r)
      n == count[k] + 1
  IN /\ At(r, "count") \/ (At(r, "refused") /\ req[r].kind \in ResetKinds)
     /\ count' = [count EXCEPT ![k] = n]
     /\ IF n = 1 THEN Goto(r, "window") ELSE AfterCount(r, n)
     /\ UNCHANGED <<codes, timed, newest, fate>>

SetWindow(r) ==
  /\ At(r, "window")
  /\ timed' = [timed EXCEPT ![Counter(r)] = count[Counter(r)] > 0]
  /\ AfterCount(r, 1)
  /\ UNCHANGED <<codes, count, newest, fate>>

Locked_Late(r) == count[Counter(r)] > MaxFailures

Locked(r) == count[Counter(r)] >= MaxFailures

Clear(k) ==
  /\ count' = [count EXCEPT ![k] = 0]
  /\ timed' = [timed EXCEPT ![k] = FALSE]

CounterExpires(k) ==
  /\ "counter" \in Events /\ timed[k]
  /\ Clear(k)
  /\ UNCHANGED <<req, codes, newest, fate>>

-----------------------------------------------------------------------------
\* Sending a code: resend gate, quota, issue.  Whether it is delivered changes
\* nothing here, the code is valid either way.

CanResend(r) ==
  /\ At(r, "resend")
  /\ IF gate[Purpose(r)] THEN End(r, "too soon") ELSE Goto(r, "count")
  /\ UNCHANGED otpStores

\* Requests in the middle of Verify, and so holding an older code.
Readers(p) == {s \in InFlight : /\ Purpose(s) = p
                                /\ req[s].pc \in {"attempts", "accept", "miss", "void"}}

Issue_KeepsAttempts(r) ==
  /\ At(r, "issue")
  /\ code' = [code EXCEPT ![Purpose(r)] = r]
  /\ gate' = [gate EXCEPT ![Purpose(r)] = TRUE]
  /\ newest' = [newest EXCEPT ![Purpose(r)] = r]
  /\ fate' = [fate EXCEPT ![r].readers = Readers(Purpose(r))]
  /\ End(r, "sent")
  /\ UNCHANGED <<attempts, counters>>

Issue(r) ==
  LET p == Purpose(r) IN
  /\ At(r, "issue")
  /\ code' = [code EXCEPT ![p] = r]
  /\ attempts' = [attempts EXCEPT ![p] = 0]
  /\ gate' = [gate EXCEPT ![p] = TRUE]
  /\ newest' = [newest EXCEPT ![p] = r]
  /\ fate' = [fate EXCEPT ![r].readers = Readers(p)]
  /\ End(r, "sent")
  /\ UNCHANGED counters

GateExpires(p) ==
  /\ "gate" \in Events /\ gate[p]
  /\ gate' = [gate EXCEPT ![p] = FALSE]
  /\ UNCHANGED <<req, code, attempts, counters, newest, fate>>

\* Code and attempts are stored in one transaction with one TTL.
CodeExpires(p) ==
  /\ "code" \in Events /\ code[p] # 0
  /\ code' = [code EXCEPT ![p] = 0]
  /\ attempts' = [attempts EXCEPT ![p] = 0]
  /\ fate' = [fate EXCEPT ![code[p]].lapsed = TRUE]
  /\ UNCHANGED <<req, gate, counters, newest>>

-----------------------------------------------------------------------------
\* Verify.

ReadCode(r) ==
  /\ At(r, "otp")
  /\ req' = [req EXCEPT ![r].seen = code[Purpose(r)],
                        ![r].pc = IF code[Purpose(r)] = 0 THEN "refused" ELSE "attempts"]
  /\ UNCHANGED otpStores

\* The attempts are read, then the code that was read before is compared.
Compare(r) ==
  /\ At(r, "attempts")
  /\ \/ /\ attempts[Purpose(r)] >= MaxAttempts
        /\ Goto(r, "refused")
        /\ UNCHANGED fate
     \/ /\ attempts[Purpose(r)] < MaxAttempts
        /\ Goto(r, "accept")
        /\ UNCHANGED fate
     \/ /\ attempts[Purpose(r)] < MaxAttempts
        /\ Goto(r, "miss")
        /\ fate' = [fate EXCEPT ![req[r].seen].wrong = @ + 1]
  /\ UNCHANGED <<codes, counters, newest>>

Accept_AttemptsOnly(r) ==
  /\ At(r, "accept")
  /\ req' = [req EXCEPT ![r].pc = "verified", ![r].proved = req[r].seen]
  /\ attempts' = [attempts EXCEPT ![Purpose(r)] = 0]
  /\ UNCHANGED <<code, gate, counters, newest, fate>>

\* The result of this Del is not looked at: the code may stay.
Accept(r) ==
  LET p == Purpose(r) IN
  /\ At(r, "accept")
  /\ req' = [req EXCEPT ![r].pc = "verified", ![r].proved = req[r].seen]
  /\ \/ /\ code' = [code EXCEPT ![p] = 0]
        /\ attempts' = [attempts EXCEPT ![p] = 0]
        /\ UNCHANGED fate
     \/ /\ "error" \in Events
        /\ fate' = [fate EXCEPT ![req[r].seen].kept = TRUE]
        /\ UNCHANGED <<code, attempts>>
  /\ UNCHANGED <<gate, counters, newest>>

Miss_Uncounted(r) ==
  /\ At(r, "miss")
  /\ Goto(r, "refused")
  /\ UNCHANGED otpStores

Miss(r) ==
  LET p == Purpose(r) IN
  /\ At(r, "miss")
  /\ attempts' = [attempts EXCEPT ![p] = @ + 1]
  /\ Goto(r, IF attempts[p] + 1 >= MaxAttempts THEN "void" ELSE "refused")
  /\ UNCHANGED <<code, gate, counters, newest, fate>>

\* This Del names the key, not the code: whatever code is stored now goes.
Void(r) ==
  /\ At(r, "void")
  /\ code' = [code EXCEPT ![Purpose(r)] = 0]
  /\ Goto(r, "refused")
  /\ UNCHANGED <<attempts, gate, counters, newest, fate>>

\* Steps that have changed nothing anybody depends on: a request that fails there
\* might as well not have come.
Harmless == {"csrf", "resend", "count", "otp", "attempts", "lock", "bind", "initial",
             "lookup", "render"}

\* A call of r fails and its answer is an error; or the instance dies, which
\* leaves the stores alike.
Fail(r) ==
  /\ "error" \in Events /\ r \in InFlight /\ req[r].pc \notin Harmless
  /\ Cardinality({s \in Requests : req[s].reply = "error"}) < MaxErrors
  /\ End(r, "error")
  /\ fate' = IF req[r].pc \in {"miss", "void"}
             THEN [fate EXCEPT ![req[r].seen].uncounted = @ + 1] ELSE fate
  /\ UNCHANGED <<codes, count, timed, newest>>

OtpStep(r) ==
  \/ Incr(r) \/ SetWindow(r)
  \/ CanResend(r) \/ Issue(r)
  \/ ReadCode(r) \/ Compare(r) \/ Accept(r) \/ Miss(r) \/ Void(r)

OtpExpiry ==
  \/ \E p \in Purposes : GateExpires(p) \/ CodeExpires(p)
  \/ \E k \in Counters : CounterExpires(k)

=============================================================================
