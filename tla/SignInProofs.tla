---------------------------- MODULE SignInProofs ----------------------------
(***************************************************************************)
(* Proofs about accounts, passwords, links and logins, for any number of   *)
(* requests of any kinds, any limits and any events.  First what a request *)
(* knows by where it is; then, variable by variable, who may change it;    *)
(* then the invariants, each on top of those before it.                    *)
(***************************************************************************)
EXTENDS SignInProperties, FiniteSetTheorems, TLAPS

-----------------------------------------------------------------------------
(* What the requests can be at and know: types and program counters.       *)

Verifying == {"attempts", "accept", "miss", "void"}

\* The program counters that a request of kind k passes through.
Route(k) ==
  CASE k = "none" -> {"new"}
    [] k \in SendKinds -> {"resend", "count", "window", "issue", "done"}
    [] k = "linkSubmit" ->
         {"csrf", "bind", "initial", "lock", "otp", "refused", "window", "render",
          "verified", "write", "clear", "spend", "done"} \cup Verifying
    [] k = "forgotSubmit" ->
         {"lock", "otp", "refused", "window", "render",
          "verified", "write", "clear", "done"} \cup Verifying
    [] k = "codeLogin" ->
         {"csrf", "otp", "refused", "render", "verified", "register", "take", "grant",
          "done"} \cup Verifying
    [] k = "passwordLogin" ->
         {"csrf", "lock", "lookup", "count", "window", "render", "unlock", "take",
          "grant", "done"}

Steps == {"new", "resend", "count", "window", "issue", "csrf", "bind", "initial", "lock",
          "lookup", "otp", "refused", "render", "verified", "register", "write", "clear",
          "spend", "unlock", "take", "grant", "done"} \cup Verifying

Answers == {"none", "too soon", "limited", "sent", "form", "stale", "error", "no account",
            "changed", "conflict", "signed in"}

Numbers == 0..MaxRequests
Names   == Numbers \cup {None}

RequestType ==
  [kind : AllKinds \cup {"none"}, pc : Steps, reply : Answers, before : SUBSET Requests,
   seen : Numbers, proved : Numbers, was : Names, user : Names, grant : Names]

Fates == [wrong : Nat, uncounted : Nat, readers : SUBSET Requests,
          lapsed : BOOLEAN, kept : BOOLEAN]

TypeOK ==
  /\ req \in [Requests -> RequestType]
  /\ code \in [Purposes -> Numbers] /\ newest \in [Purposes -> Numbers]
  /\ attempts \in [Purposes -> Nat] /\ gate \in [Purposes -> BOOLEAN]
  /\ count \in [Counters -> Nat] /\ timed \in [Counters -> BOOLEAN]
  /\ fate \in [Requests -> Fates]
  /\ owner \in Names /\ secret \in Names
  /\ link \in {"none", "live", "gone"} /\ csrf \in [Pages -> BOOLEAN] /\ reused \in BOOLEAN
  /\ authz \in {"none", "live", "taken", "expired"} /\ users \subseteq Numbers

\* Where nothing is proved, read, or written yet.
Unproved == {"new", "resend", "count", "window", "issue", "csrf", "bind", "initial", "lock",
             "lookup", "otp", "refused", "render"} \cup Verifying
Unread   == {"new", "resend", "issue", "csrf", "bind", "initial", "lock", "lookup", "otp",
             "count", "unlock"}
Unwritten == Unproved \cup {"verified", "register", "write"}

\* What a request knows by where it is.
Knows(q) ==
  /\ q.pc \in Route(q.kind)
  /\ q.pc # "done" => q.reply = "none" /\ q.grant = None
  /\ q.pc \in Unproved => q.proved = 0
  /\ q.pc = "verified" => q.proved # 0
  /\ q.pc = "write" /\ q.kind = "forgotSubmit" => q.proved # 0
  /\ q.proved # 0 => q.proved = q.seen
  /\ q.pc \in Unread => q.seen = 0
  /\ q.pc \in Verifying => q.seen # 0
  /\ q.pc \in Unwritten => q.was = None
  /\ q.kind = "codeLogin" => q.was = None
  /\ q.kind \notin ResetKinds \cup {"codeLogin"} => q.seen = 0

KnowledgeOK ==
  \A r \in Requests : Knows(req[r]) /\ req[r].before \subseteq Finished

-----------------------------------------------------------------------------
(* Accounts and passwords. *)

\* A request that has written its password.
Past(r) == req[r].pc \in {"spend", "clear", "done"}

Changed(r) == req[r].pc \in {"spend", "clear"} \/ req[r].reply = "changed"

AccountOK ==
  /\ users = (IF owner = None THEN {} ELSE {owner})
  /\ secret # None => owner # None
  /\ link # "none" => owner # None
  /\ \A r \in Requests :
       /\ req[r].kind = "linkSubmit" /\ req[r].pc # "done" => owner # None
       /\ req[r].pc = "write" => owner # None
       /\ req[r].pc = "write" /\ req[r].proved = 0 =>
            secret = None \/ (secret \in Requests /\ secret \notin req[r].before)

\* A password that was replaced does not come back.
PasswordsOK ==
  /\ secret \in Requests => Past(secret)
  /\ \A r \in Requests :
       /\ req[r].was \in Requests => Past(req[r].was)
       /\ Changed(r) => req[r].was # secret

LinksOK ==
  /\ \A r \in Requests :
       req[r].kind = "linkSubmit" /\ req[r].reply = "changed" => link = "gone" \/ reused
  /\ \A r, s \in Requests :
       /\ req[r].kind = "linkSubmit" /\ req[r].reply = "changed" /\ Precedes(r, s)
       /\ req[s].kind = "linkSubmit"
       => req[s].reply = "stale" \/ reused

-----------------------------------------------------------------------------
(* Logins. *)

Granted(r) == At(r, "grant") \/ req[r].grant # None

GrantsOK ==
  /\ \A r \in Requests :
       /\ req[r].pc \in {"unlock", "take", "grant"} => req[r].user = owner /\ owner # None
       /\ req[r].grant # None => req[r].grant = owner
       /\ Granted(r) => authz = "taken"
       /\ req[r].kind \in LoginKinds /\ ~At(r, "done") => authz # "none"
       /\ At(r, "register") => owner = None \/ (owner \in Requests /\ owner \notin req[r].before)
  /\ \A r, s \in Requests : Granted(r) /\ Granted(s) => r = s


-----------------------------------------------------------------------------
(* One request moves at a time, along its route. *)

Moved(r) ==
  /\ req' \in [Requests -> RequestType]
  /\ ~At(r, "done")
  /\ \A q \in Requests : q # r => req'[q] = req[q]
  /\ Knows(req'[r])
  /\ req'[r].before = req[r].before \/ req'[r].before = Finished

\* The helpers that move a request change only that request.
LEMMA PutMoves ==
  ASSUME TypeOK, NEW r \in Requests, NEW v \in RequestType, ~At(r, "done"),
         Knows(v), v.before = req[r].before \/ v.before = Finished,
         req' = [req EXCEPT ![r] = v]
  PROVE  Moved(r)
BY DEF Moved, TypeOK

\* Going to another program counter moves only the request that goes.
LEMMA GotoMoves ==
  ASSUME TypeOK, KnowledgeOK, NEW r \in Requests, ~At(r, "done"),
         NEW l \in Steps, l # "done", Goto(r, l), l \in Route(req[r].kind),
         l \in Unproved => req[r].proved = 0,
         l = "verified" => req[r].proved # 0,
         l = "write" /\ req[r].kind = "forgotSubmit" => req[r].proved # 0,
         l \in Unread => req[r].seen = 0,
         l \in Verifying => req[r].seen # 0,
         l \in Unwritten => req[r].was = None
  PROVE  Moved(r)
<1> DEFINE v == [req[r] EXCEPT !.pc = l]
<1>1. v \in RequestType /\ Knows(v) /\ v.before = req[r].before
  BY DEF TypeOK, RequestType, KnowledgeOK, Knows, At
<1>2. req' = [req EXCEPT ![r] = v]
  BY DEF Goto, TypeOK, RequestType
<1>q. QED  BY <1>1, <1>2, PutMoves

\* Ending a request moves only the request that ends.
LEMMA EndMoves ==
  ASSUME TypeOK, KnowledgeOK, NEW r \in Requests, ~At(r, "done"), ~At(r, "new"),
         NEW a \in Answers, End(r, a)
  PROVE  Moved(r)
<1> DEFINE v == [req[r] EXCEPT !.pc = "done", !.reply = a]
<1>1. "done" \in Route(req[r].kind)
  BY DEF TypeOK, RequestType, KnowledgeOK, Knows, At, Route, SendKinds, LoginKinds, ResetKinds, AllKinds
<1>0. req[r] \in RequestType /\ "done" \in Steps
  BY DEF TypeOK, Steps
<1>2. v \in RequestType /\ v.before = req[r].before
  BY <1>0 DEF RequestType
<1>3. "done" \notin Unproved \cup Unread \cup Verifying \cup Unwritten \cup {"verified", "write"}
  BY DEF Unproved, Unread, Unwritten, Verifying
<1>4. Knows(v)
  BY <1>1, <1>3 DEF TypeOK, RequestType, KnowledgeOK, Knows
<1>5. req' = [req EXCEPT ![r] = v]
  BY DEF End, TypeOK, RequestType
<1>q. QED  BY <1>2, <1>4, <1>5, PutMoves

\* Which kinds of requests pass through which program counter.
LEMMA Routes ==
  ASSUME NEW k \in AllKinds \cup {"none"}
  PROVE  /\ "new" \in Route(k) <=> k = "none"
         /\ "done" \in Route(k) <=> k # "none"
         /\ "resend" \in Route(k) <=> k \in SendKinds
         /\ "issue" \in Route(k) <=> k \in SendKinds
         /\ "count" \in Route(k) <=> k \in SendKinds \cup {"passwordLogin"}
         /\ "window" \in Route(k) <=> k \notin {"none", "codeLogin"}
         /\ "csrf" \in Route(k) <=> k \in LoginKinds \cup {"linkSubmit"}
         /\ "bind" \in Route(k) <=> k = "linkSubmit"
         /\ "initial" \in Route(k) <=> k = "linkSubmit"
         /\ "spend" \in Route(k) <=> k = "linkSubmit"
         /\ "lock" \in Route(k) <=> k \in ResetKinds \cup {"passwordLogin"}
         /\ "lookup" \in Route(k) <=> k = "passwordLogin"
         /\ "unlock" \in Route(k) <=> k = "passwordLogin"
         /\ \A l \in Verifying \cup {"otp", "refused", "verified"} :
              l \in Route(k) <=> k \in ResetKinds \cup {"codeLogin"}
         /\ "write" \in Route(k) <=> k \in ResetKinds
         /\ "clear" \in Route(k) <=> k \in ResetKinds
         /\ "register" \in Route(k) <=> k = "codeLogin"
         /\ "take" \in Route(k) <=> k \in LoginKinds
         /\ "grant" \in Route(k) <=> k \in LoginKinds
         /\ "render" \in Route(k) <=> k \in ResetKinds \cup LoginKinds
<1>1. CASE k = "none"
  BY <1>1 DEF Route, AllKinds, SendKinds, ResetKinds, LoginKinds, Verifying
<1>2. CASE k \in SendKinds
  BY <1>2 DEF Route, AllKinds, SendKinds, ResetKinds, LoginKinds, Verifying
<1>3. CASE k = "linkSubmit"
  BY <1>3 DEF Route, AllKinds, SendKinds, ResetKinds, LoginKinds, Verifying
<1>4. CASE k = "forgotSubmit"
  BY <1>4 DEF Route, AllKinds, SendKinds, ResetKinds, LoginKinds, Verifying
<1>5. CASE k = "codeLogin"
  BY <1>5 DEF Route, AllKinds, SendKinds, ResetKinds, LoginKinds, Verifying
<1>6. CASE k = "passwordLogin"
  BY <1>6 DEF Route, AllKinds, SendKinds, ResetKinds, LoginKinds, Verifying
<1>q. QED
  BY <1>1, <1>2, <1>3, <1>4, <1>5, <1>6 DEF AllKinds, SendKinds, ResetKinds, LoginKinds

\* The steps of OneTimeCode.
LEMMA OtpMoves ==
  ASSUME TypeOK, KnowledgeOK, NEW r \in Requests, OtpStep(r)
  PROVE  Moved(r)
<1> USE DEF At
<1>0. Knows(req[r]) /\ req[r] \in RequestType
  BY DEF TypeOK, KnowledgeOK
<1>a. req[r].kind \in AllKinds \cup {"none"} /\ req[r].pc \in Route(req[r].kind)
  BY <1>0 DEF RequestType, Knows
<1>b. /\ SendKinds \cap (ResetKinds \cup LoginKinds) = {} /\ ResetKinds \cap LoginKinds = {}
      /\ "passwordLogin" \in LoginKinds /\ "codeLogin" \in LoginKinds
      /\ "none" \notin SendKinds \cup ResetKinds \cup LoginKinds
      /\ AllKinds = SendKinds \cup ResetKinds \cup LoginKinds
      /\ LoginKinds = {"passwordLogin", "codeLogin"}
  BY DEF SendKinds, ResetKinds, LoginKinds, AllKinds
<1> USE DEF Steps, Answers, Unproved, Unread, Unwritten, Verifying
\* Who counts goes on to render the form, to issue a code or to refuse one.
<1>1. ASSUME NEW n, AfterCount(r, n), req[r].pc \in {"count", "window", "refused"},
             req[r].pc = "refused" => req[r].kind \in ResetKinds
      PROVE  Moved(r)
  <2>1. CASE req[r].kind \notin SendKinds /\ Goto(r, "render")
    <3>1. "render" \in Route(req[r].kind)
      BY <1>1, <1>a, <1>b, <2>1, Routes
    <3>q. QED  BY <1>0, <1>1, <2>1, <3>1, GotoMoves DEF Knows
  <2>2. CASE req[r].kind \in SendKinds /\ Goto(r, "issue")
    <3>1. "issue" \in Route(req[r].kind) /\ req[r].seen = 0
      BY <1>0, <1>a, <1>b, <2>2, Routes DEF Knows
    <3>q. QED  BY <1>0, <1>1, <2>2, <3>1, GotoMoves DEF Knows
  <2>3. CASE End(r, "limited")
    BY <1>1, <2>3, EndMoves
  <2>q. QED  BY <1>1, <2>1, <2>2, <2>3 DEF AfterCount
<1>2. CASE Incr(r)
  <2>1. req[r].pc \in {"count", "refused"} /\ (req[r].pc = "refused" => req[r].kind \in ResetKinds)
    BY <1>2 DEF Incr
  <2>2. CASE Goto(r, "window")
    <3>1. "window" \in Route(req[r].kind)
      BY <1>a, <1>b, <2>1, Routes
    <3>q. QED  BY <1>0, <2>1, <2>2, <3>1, GotoMoves DEF Knows
  <2>q. QED  BY <1>1, <1>2, <2>1, <2>2 DEF Incr
<1>3. CASE SetWindow(r)
  <2>1. req[r].pc = "window"
    BY <1>3 DEF SetWindow
  <2>q. QED  BY <1>1, <1>3, <2>1 DEF SetWindow
<1>4. CASE CanResend(r)
  <2>2. req[r].pc = "resend"
    BY <1>4 DEF CanResend
  <2>1. "count" \in Route(req[r].kind) /\ req[r].seen = 0
    <3>1. req[r].kind \in SendKinds
      BY <1>a, <2>2, Routes
    <3>2. req[r].seen = 0
      BY <1>0, <2>2 DEF Knows
    <3>q. QED  BY <1>a, <3>1, <3>2, Routes
  <2>q. QED  BY <1>0, <1>4, <2>1, <2>2, GotoMoves, EndMoves DEF CanResend, Knows
<1>5. CASE Issue(r)
  BY <1>5, EndMoves DEF Issue
<1>6. CASE ReadCode(r)
  <2> DEFINE c == code[Purpose(r)]
             v == [req[r] EXCEPT !.seen = c, !.pc = IF c = 0 THEN "refused" ELSE "attempts"]
  <2>1. req[r].pc = "otp" /\ req[r].kind \in ResetKinds \cup {"codeLogin"} /\ c \in Numbers
    BY <1>a, <1>6, Routes DEF ReadCode, TypeOK, Purpose, Purposes
  <2>2. "refused" \in Route(req[r].kind) /\ "attempts" \in Route(req[r].kind)
    BY <1>a, <1>b, <2>1, Routes
  <2>3. v \in RequestType /\ v.before = req[r].before /\ req' = [req EXCEPT ![r] = v]
    BY <1>0, <1>6, <2>1 DEF ReadCode, RequestType, TypeOK
  <2>4. Knows(v)
    BY <1>0, <2>1, <2>2 DEF Knows, RequestType
  <2>q. QED  BY <2>1, <2>3, <2>4, PutMoves
<1>7. CASE Compare(r)
  <2>1. req[r].pc = "attempts" /\ req[r].kind \in ResetKinds \cup {"codeLogin"}
    BY <1>a, <1>7, Routes DEF Compare
  <2>2. {"refused", "accept", "miss"} \subseteq Route(req[r].kind)
    BY <1>a, <1>b, <2>1, Routes
  <2>q. QED  BY <1>0, <1>7, <2>1, <2>2, GotoMoves DEF Compare, Knows
<1>8. CASE Accept(r)
  <2> DEFINE v == [req[r] EXCEPT !.pc = "verified", !.proved = req[r].seen]
  <2>1. req[r].pc = "accept" /\ req[r].kind \in ResetKinds \cup {"codeLogin"}
    BY <1>a, <1>8, Routes DEF Accept
  <2>2. "verified" \in Route(req[r].kind)
    BY <1>a, <1>b, <2>1, Routes
  <2>3. v \in RequestType /\ v.before = req[r].before /\ req' = [req EXCEPT ![r] = v]
    BY <1>0, <1>8, <2>1 DEF Accept, RequestType, TypeOK
  <2>4. Knows(v)
    BY <1>0, <2>1, <2>2 DEF Knows, RequestType
  <2>q. QED  BY <2>1, <2>3, <2>4, PutMoves
<1>9. CASE Miss(r) \/ Void(r)
  <2>1. req[r].pc \in {"miss", "void"} /\ req[r].kind \in ResetKinds \cup {"codeLogin"}
    BY <1>a, <1>9, Routes DEF Miss, Void
  <2>2. {"refused", "void"} \subseteq Route(req[r].kind)
    BY <1>a, <1>b, <2>1, Routes
  <2>q. QED  BY <1>0, <1>9, <2>1, <2>2, GotoMoves DEF Miss, Void, Knows
<1>q. QED
  BY <1>2, <1>3, <1>4, <1>5, <1>6, <1>7, <1>8, <1>9 DEF OtpStep

\* An arriving request moves only itself.
LEMMA StartMoves ==
  ASSUME TypeOK, KnowledgeOK, NEW r \in Requests, At(r, "new"),
         NEW k \in AllKinds, NEW l \in Steps, NEW a \in Answers, Start(r, k, l, a),
         l \in Route(k), l \notin Verifying \cup {"verified", "write"}, l # "done" => a = "none"
  PROVE  Moved(r)
<1> DEFINE v == [req[r] EXCEPT !.kind = k, !.pc = l, !.reply = a, !.before = Finished]
<1>0. req[r] \in RequestType /\ Knows(req[r]) /\ Finished \subseteq Requests
  BY DEF TypeOK, KnowledgeOK, Finished
<1>1. v \in RequestType /\ v.before = Finished
  BY <1>0 DEF RequestType
<1>2. "new" \in Unproved /\ "new" \in Unread /\ "new" \in Unwritten /\ "new" # "done"
  BY DEF Unproved, Unread, Unwritten
<1>3. /\ req[r].grant = None /\ req[r].proved = 0 /\ req[r].seen = 0 /\ req[r].was = None
  BY <1>0, <1>2 DEF Knows, At
<1>4. Knows(v)
  BY <1>0, <1>3 DEF Knows, RequestType
<1>5. req' = [req EXCEPT ![r] = v]
  BY <1>0 DEF Start, RequestType, TypeOK
<1>q. QED  BY <1>1, <1>4, <1>5, PutMoves DEF At

\* The steps of AccountPassword.
LEMMA PasswordMoves ==
  ASSUME TypeOK, KnowledgeOK, NEW r \in Requests, PasswordStep(r)
  PROVE  Moved(r)
<1> USE DEF At
<1>0. Knows(req[r]) /\ req[r] \in RequestType
  BY DEF TypeOK, KnowledgeOK
<1>a. req[r].kind \in AllKinds \cup {"none"} /\ req[r].pc \in Route(req[r].kind)
  BY <1>0 DEF RequestType, Knows
<1>b. /\ SendKinds \cap (ResetKinds \cup LoginKinds) = {} /\ ResetKinds \cap LoginKinds = {}
      /\ "passwordLogin" \in LoginKinds /\ "codeLogin" \in LoginKinds
      /\ "linkSubmit" \in ResetKinds /\ "forgotSubmit" \in ResetKinds /\ "sendReset" \in SendKinds
      /\ "none" \notin SendKinds \cup ResetKinds \cup LoginKinds
      /\ AllKinds = SendKinds \cup ResetKinds \cup LoginKinds
      /\ LoginKinds = {"passwordLogin", "codeLogin"} /\ ResetKinds = {"linkSubmit", "forgotSubmit"}
  BY DEF SendKinds, ResetKinds, LoginKinds, AllKinds
<1>c. /\ {"resend", "done"} \subseteq Route("sendReset") /\ {"csrf", "done"} \subseteq Route("linkSubmit")
      /\ {"lock", "render"} \subseteq Route("forgotSubmit")
  BY <1>b, Routes
<1> USE DEF Steps, Answers, Unproved, Unread, Unwritten, Verifying
<1>1. CASE SendResetCode(r) \/ sendForgotCode(r)
  BY <1>1, <1>b, <1>c, StartMoves DEF SendResetCode, sendForgotCode, Arrives
<1>2. CASE SubmitPassword(r) \/ SubmitForgotPassword(r)
  BY <1>2, <1>b, <1>c, StartMoves DEF SubmitPassword, SubmitForgotPassword, Arrives
<1>3. CASE RenderAgain(r)
  BY <1>3, EndMoves DEF RenderAgain
<1>4. CASE ConsumeCSRF(r)
  <2>1. req[r].pc = "csrf" /\ req[r].kind \in LoginKinds \cup {"linkSubmit"}
    BY <1>a, <1>4, Routes DEF ConsumeCSRF
  <2>2. CASE Goto(r, "render")
    <3>1. "render" \in Route(req[r].kind)
      BY <1>a, <1>b, <2>1, Routes
    <3>q. QED  BY <1>0, <2>1, <2>2, <3>1, GotoMoves DEF Knows
  <2>3. CASE req[r].kind = "linkSubmit" /\ Goto(r, "bind")
    <3>1. "bind" \in Route(req[r].kind)
      BY <1>a, <2>3, Routes
    <3>q. QED  BY <1>0, <2>1, <2>3, <3>1, GotoMoves DEF Knows
  <2>4. CASE req[r].kind = "codeLogin" /\ Goto(r, "otp")
    <3>1. "otp" \in Route(req[r].kind)
      BY <1>a, <2>4, Routes
    <3>q. QED  BY <1>0, <2>1, <2>4, <3>1, GotoMoves DEF Knows
  <2>5. CASE req[r].kind = "passwordLogin" /\ Goto(r, "lock")
    <3>1. "lock" \in Route(req[r].kind)
      BY <1>a, <2>5, Routes
    <3>q. QED  BY <1>0, <2>1, <2>5, <3>1, GotoMoves DEF Knows
  <2>q. QED  BY <1>4, <1>b, <2>1, <2>2, <2>3, <2>4, <2>5 DEF ConsumeCSRF
<1>5. CASE Binding(r)
  <2>1. req[r].pc = "bind" /\ req[r].kind = "linkSubmit"
    BY <1>a, <1>5, Routes DEF Binding
  <2>2. "initial" \in Route(req[r].kind) /\ "lock" \in Route(req[r].kind)
    BY <1>a, <1>b, <2>1, Routes
  <2>q. QED  BY <1>0, <1>5, <2>1, <2>2, GotoMoves DEF Binding, Knows
<1>6. CASE SetInitialPassword(r)
  <2>1. req[r].pc = "initial" /\ req[r].kind = "linkSubmit"
    BY <1>a, <1>6, Routes DEF SetInitialPassword
  <2>2. "write" \in Route(req[r].kind) /\ "render" \in Route(req[r].kind)
    BY <1>a, <1>b, <2>1, Routes
  <2>q. QED  BY <1>0, <1>6, <2>1, <2>2, GotoMoves DEF SetInitialPassword, Knows
<1>7. CASE CheckLock(r)
  <2>1. req[r].pc = "lock" /\ req[r].kind \in ResetKinds \cup {"passwordLogin"}
    BY <1>a, <1>7, Routes DEF CheckLock
  <2>2. CASE Goto(r, "render")
    <3>1. "render" \in Route(req[r].kind)
      BY <1>a, <1>b, <2>1, Routes
    <3>q. QED  BY <1>0, <2>1, <2>2, <3>1, GotoMoves DEF Knows
  <2>3. CASE req[r].kind = "passwordLogin" /\ Goto(r, "lookup")
    <3>1. "lookup" \in Route(req[r].kind)
      BY <1>a, <2>3, Routes
    <3>q. QED  BY <1>0, <2>1, <2>3, <3>1, GotoMoves DEF Knows
  <2>4. CASE req[r].kind # "passwordLogin" /\ Goto(r, "otp")
    <3>1. "otp" \in Route(req[r].kind)
      BY <1>a, <2>1, <2>4, Routes
    <3>q. QED  BY <1>0, <2>1, <2>4, <3>1, GotoMoves DEF Knows
  <2>q. QED  BY <1>7, <2>2, <2>3, <2>4 DEF CheckLock
<1>8. CASE ForgotPassword(r)
  <2>1. "write" \in Route(req[r].kind)
    BY <1>a, <1>b, <1>8, Routes DEF ForgotPassword
  <2>q. QED  BY <1>0, <1>8, <2>1, GotoMoves, EndMoves DEF ForgotPassword, Knows
<1>9. CASE WriteAccountSecret(r)
  <2> DEFINE v == [req[r] EXCEPT !.was = secret,
                                 !.pc = IF req[r].proved = 0 THEN "spend" ELSE "clear"]
  <2>1. req[r].pc \in {"write", "verified"} /\ req[r].kind \in ResetKinds
    BY <1>a, <1>b, <1>9, Routes DEF WriteAccountSecret
  <2>2. "clear" \in Route(req[r].kind)
    BY <1>a, <1>b, <2>1, Routes
  <2>3. v \in RequestType /\ v.before = req[r].before /\ req' = [req EXCEPT ![r] = v]
    BY <1>0, <1>9, <2>1 DEF WriteAccountSecret, RequestType, TypeOK
  <2>4. req[r].proved = 0 => "spend" \in Route(req[r].kind)
    BY <1>0, <1>a, <1>b, <2>1, Routes DEF Knows
  <2>5. Knows(v)
    <3>1. CASE req[r].proved = 0
      BY ZenonT(40), <1>0, <1>b, <2>1, <2>4, <3>1 DEF Knows, RequestType
    <3>2. CASE req[r].proved # 0
      BY ZenonT(40), <1>0, <1>b, <2>1, <2>2, <3>2 DEF Knows, RequestType
    <3>q. QED  BY <3>1, <3>2
  <2>q. QED  BY <2>1, <2>3, <2>5, PutMoves
<1>10. CASE ResetFailures(r)
  <2>1. CASE req[r].kind = "linkSubmit" /\ Goto(r, "spend")
    <3>1. "spend" \in Route(req[r].kind) /\ req[r].pc = "clear"
      BY <1>a, <1>10, <2>1, Routes DEF ResetFailures
    <3>q. QED  BY <1>0, <2>1, <3>1, GotoMoves DEF Knows
  <2>q. QED  BY <1>10, <2>1, EndMoves DEF ResetFailures
<1>11. CASE TakeLink(r)
  BY <1>11, EndMoves DEF TakeLink
<1>q. QED
  BY <1>1, <1>2, <1>3, <1>4, <1>5, <1>6, <1>7, <1>8, <1>9, <1>10, <1>11 DEF PasswordStep

\* The steps of LoginFlow, and failing.
LEMMA LoginMoves ==
  ASSUME TypeOK, KnowledgeOK, NEW r \in Requests, LoginStep(r) \/ Fail(r)
  PROVE  Moved(r)
<1> USE DEF At
<1>0. Knows(req[r]) /\ req[r] \in RequestType
  BY DEF TypeOK, KnowledgeOK
<1>a. req[r].kind \in AllKinds \cup {"none"} /\ req[r].pc \in Route(req[r].kind)
  BY <1>0 DEF RequestType, Knows
<1>b. /\ "sendLogin" \in SendKinds /\ "none" \notin LoginKinds
      /\ AllKinds = SendKinds \cup ResetKinds \cup LoginKinds
      /\ LoginKinds = {"passwordLogin", "codeLogin"}
  BY DEF SendKinds, ResetKinds, LoginKinds, AllKinds
<1>c. /\ {"resend", "done"} \subseteq Route("sendLogin")
      /\ \A k \in LoginKinds : {"csrf", "done"} \subseteq Route(k)
  BY <1>b, Routes
<1> USE DEF Steps, Answers, Unproved, Unread, Unwritten, Verifying
<1>1. CASE SendCode(r)
  BY <1>1, <1>b, <1>c, StartMoves DEF SendCode, Arrives
<1>2. CASE Login(r)
  <2>1. PICK k \in LoginKinds :
          /\ Arrives(r, k)
          /\ Start(r, k, "csrf", "none") \/ Start(r, k, "done", "stale")
    BY <1>2 DEF Login
  <2>q. QED  BY <1>b, <1>c, <2>1, StartMoves DEF Arrives
<1>3. CASE ComparePassword(r)
  <2>1. req[r].pc = "lookup" /\ req[r].kind = "passwordLogin"
    BY <1>a, <1>3, Routes DEF ComparePassword
  <2>2. "unlock" \in Route(req[r].kind) /\ "count" \in Route(req[r].kind)
    BY <1>a, <1>b, <2>1, Routes
  <2> DEFINE v == [req[r] EXCEPT !.pc = "unlock", !.was = secret, !.user = owner]
  <2>3. CASE req' = [req EXCEPT ![r].pc = "unlock", ![r].was = secret, ![r].user = owner]
    <3>1. v \in RequestType /\ v.before = req[r].before /\ req' = [req EXCEPT ![r] = v]
      BY ZenonT(40), <1>0, <2>3 DEF RequestType, TypeOK
    <3>2. Knows(v)
      BY <1>0, <2>1, <2>2 DEF Knows, RequestType
    <3>q. QED  BY <2>1, <3>1, <3>2, PutMoves
  <2>q. QED  BY <1>0, <1>3, <2>1, <2>2, <2>3, GotoMoves DEF ComparePassword, Knows
<1>4. CASE ResetLogin(r)
  <2>1. req[r].pc = "unlock" /\ "take" \in Route(req[r].kind)
    BY <1>a, <1>b, <1>4, Routes DEF ResetLogin
  <2>q. QED  BY <1>0, <1>4, <2>1, GotoMoves DEF ResetLogin, Knows
<1>5. CASE FindIdentity(r)
  <2> DEFINE v == [req[r] EXCEPT !.user = owner,
                                 !.pc = IF owner = None THEN "register" ELSE "take"]
  <2>1. req[r].pc = "verified" /\ req[r].kind = "codeLogin"
    BY <1>5 DEF FindIdentity
  <2>2. "register" \in Route(req[r].kind) /\ "take" \in Route(req[r].kind)
    BY <1>a, <1>b, <2>1, Routes
  <2>3. v \in RequestType /\ v.before = req[r].before /\ req' = [req EXCEPT ![r] = v]
    BY <1>0, <1>5 DEF FindIdentity, RequestType, TypeOK
  <2>4. Knows(v)
    BY <1>0, <2>1, <2>2 DEF Knows, RequestType
  <2>q. QED  BY <2>1, <2>3, <2>4, PutMoves
<1>6. CASE Register(r)
  <2> DEFINE v == [req[r] EXCEPT !.user = r, !.pc = "take"]
  <2>1. req[r].pc = "register" /\ "take" \in Route(req[r].kind)
    BY <1>a, <1>b, <1>6, Routes DEF Register
  <2>2. CASE req' = [req EXCEPT ![r].user = r, ![r].pc = "take"]
    <3>0. r \in Names
      BY DEF Names, Numbers, Requests
    <3>1. v \in RequestType /\ v.before = req[r].before /\ req' = [req EXCEPT ![r] = v]
      BY ZenonT(40), <1>0, <2>2, <3>0 DEF RequestType, TypeOK
    <3>2. Knows(v)
      BY <1>0, <2>1 DEF Knows, RequestType
    <3>q. QED  BY <2>1, <3>1, <3>2, PutMoves
  <2>q. QED  BY <1>6, <2>1, <2>2, EndMoves DEF Register
<1>7. CASE TakeAuthz(r)
  <2>1. req[r].pc = "take" /\ "grant" \in Route(req[r].kind)
    BY <1>a, <1>b, <1>7, Routes DEF TakeAuthz
  <2>q. QED  BY <1>0, <1>7, <2>1, GotoMoves, EndMoves DEF TakeAuthz, Knows
<1>8. CASE IssueGWCode(r)
  <2> DEFINE v == [req[r] EXCEPT !.grant = req[r].user, !.pc = "done", !.reply = "signed in"]
  <2>0. req[r].pc = "grant"
    BY <1>8 DEF IssueGWCode
  <2>1. req[r].pc = "grant" /\ "done" \in Route(req[r].kind)
    BY <1>a, <1>b, <2>0, Routes
  <2>2. v \in RequestType /\ v.before = req[r].before /\ req' = [req EXCEPT ![r] = v]
    BY <1>0, <1>8 DEF IssueGWCode, RequestType, TypeOK
  <2>3. Knows(v)
    BY <1>0, <2>1 DEF Knows, RequestType
  <2>q. QED  BY <2>1, <2>2, <2>3, PutMoves
<1>9. CASE Fail(r)
  BY <1>9, EndMoves DEF Fail, InFlight, Begun, Finished
<1>q. QED
  BY <1>1, <1>2, <1>3, <1>4, <1>5, <1>6, <1>7, <1>8, <1>9 DEF LoginStep

-----------------------------------------------------------------------------
(* Who did it: what a change of a request tells of the step. *)

Acts(r) ==
  \/ (OtpStep(r) \/ Fail(r)) /\ UNCHANGED <<accountVars, loginVars>>
  \/ PasswordStep(r) /\ UNCHANGED loginVars
  \/ LoginStep(r)

Resting(r) == req'[r] = req[r]

Begins(r) ==
  \/ SendResetCode(r) \/ sendForgotCode(r) \/ SubmitPassword(r) \/ SubmitForgotPassword(r)
  \/ SendCode(r) \/ Login(r)

\* The fields of a request that others read, and the steps that set them.
FieldsOK(r) ==
  /\ ~Begins(r) => req'[r].kind = req[r].kind /\ req'[r].before = req[r].before
  /\ req'[r].seen # req[r].seen => ReadCode(r)
  /\ req'[r].proved # req[r].proved => Accept(r)
  /\ req'[r].was # req[r].was => WriteAccountSecret(r) \/ ComparePassword(r)
  /\ req'[r].user # req[r].user => ComparePassword(r) \/ FindIdentity(r) \/ Register(r)
  /\ req'[r].grant # req[r].grant => IssueGWCode(r)
  /\ req'[r].reply = "changed" => ResetFailures(r) \/ TakeLink(r)

\* The steps that lead to a program counter.
ArrivalsOK(r) ==
  /\ req'[r].pc # "new"
  /\ Begins(r) => At(r, "new") /\ req'[r].pc \in {"resend", "csrf", "lock", "render", "done"}
  /\ req'[r].pc \in {"csrf", "resend"} => Begins(r)
  /\ req'[r].pc = "otp" => CheckLock(r) \/ ConsumeCSRF(r)
  /\ req'[r].pc = "lookup" => CheckLock(r)
  /\ req'[r].pc = "count" => CanResend(r) \/ ComparePassword(r)
  /\ req'[r].pc = "attempts" => ReadCode(r)
  /\ req'[r].pc \in {"accept", "miss"} => Compare(r)
  /\ req'[r].pc = "void" => Miss(r)
  /\ req'[r].pc = "refused" => ReadCode(r) \/ Compare(r) \/ Miss(r) \/ Void(r)
  /\ req'[r].pc = "verified" => Accept(r)
  /\ req'[r].pc = "write" => SetInitialPassword(r) \/ ForgotPassword(r)
  /\ req'[r].pc = "clear" => WriteAccountSecret(r)
  /\ req'[r].pc = "spend" => WriteAccountSecret(r) \/ ResetFailures(r)
  /\ req'[r].pc = "register" => FindIdentity(r)
  /\ req'[r].pc = "unlock" => ComparePassword(r)
  /\ req'[r].pc = "take" => ResetLogin(r) \/ FindIdentity(r) \/ Register(r)
  /\ req'[r].pc = "grant" => TakeAuthz(r)
  /\ req'[r].pc = "done" /\ req'[r].kind \in LoginKinds =>
       \/ RenderAgain(r) \/ IssueGWCode(r) \/ TakeAuthz(r) \/ Register(r) \/ Login(r)
       \/ Fail(r) /\ req'[r].reply = "error"

Same(r) ==
  /\ req'[r].kind = req[r].kind /\ req'[r].before = req[r].before
  /\ req'[r].seen = req[r].seen /\ req'[r].proved = req[r].proved
  /\ req'[r].was = req[r].was /\ req'[r].user = req[r].user
  /\ req'[r].grant = req[r].grant

\* What the record of a request holds after it went elsewhere.
LEMMA GotoGives ==
  ASSUME TypeOK, NEW r \in Requests, NEW l, Goto(r, l)
  PROVE  req'[r].pc = l /\ req'[r].reply = req[r].reply /\ Same(r)
<1>1. req' = [req EXCEPT ![r] = [req[r] EXCEPT !.pc = l]] /\ req[r] \in RequestType
  BY DEF Goto, TypeOK
<1>2. req'[r] = [req[r] EXCEPT !.pc = l]
  BY <1>1 DEF TypeOK
<1>q. QED  BY <1>1, <1>2 DEF RequestType, Same

\* What the record of a request holds after it ended.
LEMMA EndGives ==
  ASSUME TypeOK, NEW r \in Requests, NEW a, End(r, a)
  PROVE  req'[r].pc = "done" /\ req'[r].reply = a /\ Same(r)
<1>1. req' = [req EXCEPT ![r] = [req[r] EXCEPT !.pc = "done", !.reply = a]] /\ req[r] \in RequestType
  BY DEF End, TypeOK, RequestType
<1>2. req'[r] = [req[r] EXCEPT !.pc = "done", !.reply = a]
  BY <1>1 DEF TypeOK
<1>3. req'[r].pc = "done" /\ req'[r].reply = a
  BY ZenonT(40), <1>1, <1>2 DEF RequestType
<1>4. Same(r)
  BY <1>1, <1>2 DEF RequestType, Same
<1>q. QED  BY <1>3, <1>4

\* What the record of a request holds when it arrived.
LEMMA StartGives ==
  ASSUME TypeOK, NEW r \in Requests, NEW k, NEW l, NEW a, Start(r, k, l, a)
  PROVE  /\ req'[r].kind = k /\ req'[r].pc = l /\ req'[r].reply = a /\ req'[r].before = Finished
         /\ req'[r].seen = req[r].seen /\ req'[r].proved = req[r].proved
         /\ req'[r].was = req[r].was /\ req'[r].user = req[r].user
         /\ req'[r].grant = req[r].grant
<1> DEFINE v == [req[r] EXCEPT !.kind = k, !.pc = l, !.reply = a, !.before = Finished]
<1>1. req[r] \in RequestType
  BY DEF TypeOK
<1>2. req' = [req EXCEPT ![r] = v]
  BY <1>1 DEF Start, RequestType, TypeOK
<1>3. req'[r] = v
  BY <1>2 DEF TypeOK
<1>q. QED  BY <1>1, <1>3 DEF RequestType

\* A counted failure leads on to the form, a counted sending to the code.
LEMMA CountGives ==
  ASSUME TypeOK, NEW r \in Requests, NEW n, AfterCount(r, n)
  PROVE  /\ req'[r].pc \in {"render", "issue"} \/ (req'[r].pc = "done" /\ req[r].kind \in SendKinds)
         /\ req'[r].pc = "render" => req[r].kind \notin SendKinds
         /\ req'[r].reply \in {req[r].reply, "limited"} /\ Same(r)
BY GotoGives, EndGives DEF AfterCount

\* A step of the code store changes the fields it may, and arrives where it may.
LEMMA OtpChanges ==
  ASSUME TypeOK, KnowledgeOK, NEW r \in Requests, OtpStep(r)
  PROVE  FieldsOK(r) /\ ArrivalsOK(r)
<1> USE DEF At
<1>0. Knows(req[r]) /\ req[r] \in RequestType /\ req[r].kind \in AllKinds \cup {"none"}
  BY DEF TypeOK, KnowledgeOK, RequestType
<1>a. req[r].pc # "done" => req[r].reply = "none"
  BY <1>0 DEF Knows
<1>b. SendKinds \cap LoginKinds = {} /\ "sendLogin" \in SendKinds /\ "sendReset" \in SendKinds
  BY DEF SendKinds, LoginKinds
<1>n. req[r].pc # "new" => ~Begins(r)
  BY DEF Begins, SendResetCode, sendForgotCode, SubmitPassword, SubmitForgotPassword, SendCode,
         Login, Arrives
<1>1. CASE Incr(r)
  <2>1. req[r].pc \in {"count", "refused"}
    BY <1>1 DEF Incr
  <2>2. CASE Goto(r, "window")
    <3>1. req'[r].pc = "window" /\ req'[r].reply = "none" /\ Same(r)
      BY <2>1, <2>2, <1>a, GotoGives
    <3>q. QED  BY <1>n, <2>1, <3>1 DEF FieldsOK, ArrivalsOK, Same
  <2>3. CASE AfterCount(r, count[Counter(r)] + 1)
    BY <1>a, <1>b, <1>n, <2>1, <2>3, CountGives DEF FieldsOK, ArrivalsOK, Same
  <2>q. QED  BY <1>1, <2>2, <2>3 DEF Incr
<1>2. CASE SetWindow(r)
  <2>1. req[r].pc = "window" /\ AfterCount(r, 1)
    BY <1>2 DEF SetWindow
  <2>q. QED  BY <1>a, <1>b, <1>n, <2>1, CountGives DEF FieldsOK, ArrivalsOK, Same
<1>3. CASE CanResend(r)
  <2>1. req[r].pc = "resend" /\ (End(r, "too soon") \/ Goto(r, "count")) /\ req[r].kind \in SendKinds
    BY ZenonT(40), <1>0, <1>3, Routes DEF CanResend, Knows
  <2>2. req'[r].pc \in {"count", "done"} /\ req'[r].reply \in {"none", "too soon"} /\ Same(r)
    BY <1>a, <2>1, GotoGives, EndGives
  <2>q. QED  BY <1>3, <1>b, <1>n, <2>1, <2>2 DEF FieldsOK, ArrivalsOK, Same
<1>4. CASE Issue(r)
  <2>0. req[r].pc = "issue" /\ End(r, "sent")
    BY <1>4 DEF Issue
  <2>1. req[r].kind \in SendKinds
    BY <1>0, <2>0, Routes DEF Knows
  <2>2. req'[r].pc = "done" /\ req'[r].reply = "sent" /\ Same(r)
    BY <2>0, EndGives
  <2>q. QED  BY <1>b, <1>n, <2>0, <2>1, <2>2 DEF FieldsOK, ArrivalsOK, Same
<1>5. CASE ReadCode(r)
  <2> DEFINE v == [req[r] EXCEPT !.seen = code[Purpose(r)],
                                 !.pc = IF code[Purpose(r)] = 0 THEN "refused" ELSE "attempts"]
  <2>1. req[r].pc = "otp" /\ req'[r] = v
    BY <1>0, <1>5 DEF ReadCode, TypeOK, RequestType
  <2>2. /\ req'[r].pc \in {"refused", "attempts"} /\ req'[r].reply = "none"
        /\ req'[r].kind = req[r].kind /\ req'[r].before = req[r].before
        /\ req'[r].proved = req[r].proved /\ req'[r].was = req[r].was /\ req'[r].user = req[r].user
        /\ req'[r].grant = req[r].grant
    BY <1>0, <1>a, <2>1 DEF RequestType
  <2>q. QED  BY <1>5, <1>n, <2>1, <2>2 DEF FieldsOK, ArrivalsOK
<1>6. CASE Compare(r)
  <2>1. req[r].pc = "attempts" /\ \E l \in {"refused", "accept", "miss"} : Goto(r, l)
    BY <1>6 DEF Compare
  <2>2. req'[r].pc \in {"refused", "accept", "miss"} /\ req'[r].reply = "none" /\ Same(r)
    BY <1>a, <2>1, GotoGives
  <2>q. QED  BY <1>6, <1>n, <2>1, <2>2 DEF FieldsOK, ArrivalsOK, Same
<1>7. CASE Accept(r)
  <2>1. req[r].pc = "accept" /\ req'[r] = [req[r] EXCEPT !.pc = "verified", !.proved = req[r].seen]
    BY <1>0, <1>7 DEF Accept, TypeOK, RequestType
  <2>2. /\ req'[r].pc = "verified" /\ req'[r].reply = "none"
        /\ req'[r].kind = req[r].kind /\ req'[r].before = req[r].before
        /\ req'[r].seen = req[r].seen /\ req'[r].was = req[r].was /\ req'[r].user = req[r].user
        /\ req'[r].grant = req[r].grant
    BY <1>0, <1>a, <2>1 DEF RequestType
  <2>q. QED  BY <1>7, <1>n, <2>1, <2>2 DEF FieldsOK, ArrivalsOK
<1>8. CASE Miss(r) \/ Void(r)
  <2>1. /\ req[r].pc \in {"miss", "void"} /\ \E l \in {"refused", "void"} : Goto(r, l)
        /\ Void(r) => Goto(r, "refused")
    BY <1>8 DEF Miss, Void
  <2>2. req'[r].pc \in {"refused", "void"} /\ req'[r].reply = "none" /\ Same(r)
    BY <1>a, <2>1, GotoGives
  <2>3. Void(r) => req'[r].pc = "refused"
    BY <2>1, GotoGives
  <2>q. QED  BY <1>8, <1>n, <2>1, <2>2, <2>3 DEF FieldsOK, ArrivalsOK, Same
<1>q. QED
  BY <1>1, <1>2, <1>3, <1>4, <1>5, <1>6, <1>7, <1>8 DEF OtpStep

\* So does a step of the password pages.
LEMMA PasswordChanges ==
  ASSUME TypeOK, KnowledgeOK, NEW r \in Requests, PasswordStep(r)
  PROVE  FieldsOK(r) /\ ArrivalsOK(r)
<1> USE DEF At
<1>0. Knows(req[r]) /\ req[r] \in RequestType /\ req[r].kind \in AllKinds \cup {"none"}
  BY DEF TypeOK, KnowledgeOK, RequestType
<1>a. req[r].pc # "done" => req[r].reply = "none"
  BY <1>0 DEF Knows
<1>b. /\ SendKinds \cap LoginKinds = {} /\ ResetKinds \cap LoginKinds = {} /\ "none" \notin LoginKinds
      /\ "sendReset" \in SendKinds /\ "linkSubmit" \in ResetKinds /\ "forgotSubmit" \in ResetKinds
  BY DEF SendKinds, LoginKinds, ResetKinds
<1>n. req[r].pc # "new" => ~Begins(r)
  BY DEF Begins, SendResetCode, sendForgotCode, SubmitPassword, SubmitForgotPassword, SendCode,
         Login, Arrives
<1>1. CASE SendResetCode(r) \/ sendForgotCode(r) \/ SubmitPassword(r) \/ SubmitForgotPassword(r)
  <2>1. PICK k \in {"sendReset", "linkSubmit", "forgotSubmit"}, l \in {"resend", "csrf", "lock", "render", "done"},
             a \in {"none", "stale"} : Start(r, k, l, a)
    BY <1>1 DEF SendResetCode, sendForgotCode, SubmitPassword, SubmitForgotPassword
  <2>2. /\ req'[r].kind = k /\ req'[r].pc = l /\ req'[r].reply = a /\ k \notin LoginKinds
        /\ req'[r].seen = req[r].seen /\ req'[r].proved = req[r].proved
        /\ req'[r].was = req[r].was /\ req'[r].user = req[r].user
        /\ req'[r].grant = req[r].grant
    BY <1>b, <2>1, StartGives
  <2>3. req[r].pc = "new" /\ Begins(r)
    BY <1>1 DEF Begins, SendResetCode, sendForgotCode, SubmitPassword, SubmitForgotPassword, Arrives
  <2>q. QED  BY <2>2, <2>3 DEF FieldsOK, ArrivalsOK
<1>2. CASE RenderAgain(r)
  <2>1. req[r].pc \in {"render", "refused"} /\ End(r, "form")
    BY <1>2 DEF RenderAgain
  <2>2. req'[r].pc = "done" /\ req'[r].reply = "form" /\ Same(r)
    BY <2>1, EndGives
  <2>q. QED  BY <1>2, <1>n, <2>1, <2>2 DEF FieldsOK, ArrivalsOK, Same
<1>3. CASE ConsumeCSRF(r)
  <2>1. req[r].pc = "csrf" /\ \E l \in {"bind", "otp", "lock", "render"} : Goto(r, l)
    BY <1>3 DEF ConsumeCSRF
  <2>2. req'[r].pc \in {"bind", "otp", "lock", "render"} /\ req'[r].reply = "none" /\ Same(r)
    BY <1>a, <2>1, GotoGives
  <2>q. QED  BY <1>3, <1>n, <2>1, <2>2 DEF FieldsOK, ArrivalsOK, Same
<1>4. CASE Binding(r)
  <2>1. req[r].pc = "bind" /\ \E l \in {"initial", "lock"} : Goto(r, l)
    BY <1>4 DEF Binding
  <2>2. req'[r].pc \in {"initial", "lock"} /\ req'[r].reply = "none" /\ Same(r)
    BY <1>a, <2>1, GotoGives
  <2>q. QED  BY <1>n, <2>1, <2>2 DEF FieldsOK, ArrivalsOK, Same
<1>5. CASE SetInitialPassword(r)
  <2>1. req[r].pc = "initial" /\ \E l \in {"write", "render"} : Goto(r, l)
    BY <1>5 DEF SetInitialPassword
  <2>2. req'[r].pc \in {"write", "render"} /\ req'[r].reply = "none" /\ Same(r)
    BY <1>a, <2>1, GotoGives
  <2>q. QED  BY <1>5, <1>n, <2>1, <2>2 DEF FieldsOK, ArrivalsOK, Same
<1>6. CASE CheckLock(r)
  <2>1. req[r].pc = "lock" /\ \E l \in {"lookup", "otp", "render"} : Goto(r, l)
    BY <1>6 DEF CheckLock
  <2>2. req'[r].pc \in {"lookup", "otp", "render"} /\ req'[r].reply = "none" /\ Same(r)
    BY <1>a, <2>1, GotoGives
  <2>q. QED  BY <1>6, <1>n, <2>1, <2>2 DEF FieldsOK, ArrivalsOK, Same
<1>7. CASE ForgotPassword(r)
  <2>1. req[r].pc = "verified" /\ req[r].kind = "forgotSubmit" /\ (End(r, "no account") \/ Goto(r, "write"))
    BY <1>7 DEF ForgotPassword
  <2>2. req'[r].pc \in {"write", "done"} /\ req'[r].reply \in {"none", "no account"} /\ Same(r)
    BY <1>a, <2>1, GotoGives, EndGives
  <2>q. QED  BY <1>7, <1>b, <1>n, <2>1, <2>2 DEF FieldsOK, ArrivalsOK, Same
<1>8. CASE WriteAccountSecret(r)
  <2> DEFINE v == [req[r] EXCEPT !.was = secret,
                                 !.pc = IF req[r].proved = 0 THEN "spend" ELSE "clear"]
  <2>0. req[r].pc \in {"write", "verified"}
    BY <1>8 DEF WriteAccountSecret
  <2>1. req' = [req EXCEPT ![r] = v]
    BY <1>0, <1>8 DEF WriteAccountSecret, TypeOK, RequestType
  <2>2. req'[r] = v
    BY <2>1 DEF TypeOK
  <2>3. /\ req'[r].pc \in {"spend", "clear"} /\ req'[r].reply = "none"
        /\ req'[r].kind = req[r].kind /\ req'[r].before = req[r].before
        /\ req'[r].seen = req[r].seen /\ req'[r].proved = req[r].proved /\ req'[r].user = req[r].user
        /\ req'[r].grant = req[r].grant
    <3>1. CASE req[r].proved = 0
      BY <1>0, <1>a, <2>0, <2>2, <3>1 DEF RequestType
    <3>2. CASE req[r].proved # 0
      BY <1>0, <1>a, <2>0, <2>2, <3>2 DEF RequestType
    <3>q. QED  BY <3>1, <3>2
  <2>q. QED  BY <1>8, <1>n, <2>0, <2>3 DEF FieldsOK, ArrivalsOK
<1>9. CASE ResetFailures(r)
  <2>0. req[r].pc = "clear"
    BY <1>9 DEF ResetFailures
  <2>1. req[r].kind \notin LoginKinds
    BY <1>0, <1>b, <2>0, Routes DEF Knows
  <2>2. Goto(r, "spend") \/ End(r, "changed")
    BY <1>9 DEF ResetFailures
  <2>3. req'[r].pc \in {"spend", "done"} /\ req'[r].reply \in {"none", "changed"} /\ Same(r)
    BY <1>a, <2>0, <2>2, GotoGives, EndGives
  <2>q. QED  BY <1>9, <1>n, <2>0, <2>1, <2>3 DEF FieldsOK, ArrivalsOK, Same
<1>10. CASE TakeLink(r)
  <2>0. req[r].pc = "spend" /\ End(r, "changed")
    BY <1>10 DEF TakeLink
  <2>1. req[r].kind \notin LoginKinds
    BY <1>0, <1>b, <2>0, Routes DEF Knows
  <2>2. req'[r].pc = "done" /\ req'[r].reply = "changed" /\ Same(r)
    BY <2>0, EndGives
  <2>q. QED  BY <1>10, <1>n, <2>0, <2>1, <2>2 DEF FieldsOK, ArrivalsOK, Same
<1>q. QED
  BY <1>1, <1>2, <1>3, <1>4, <1>5, <1>6, <1>7, <1>8, <1>9, <1>10 DEF PasswordStep

\* So does a step of the logins.
LEMMA LoginChanges ==
  ASSUME TypeOK, KnowledgeOK, NEW r \in Requests, LoginStep(r) \/ Fail(r)
  PROVE  FieldsOK(r) /\ ArrivalsOK(r)
<1> USE DEF At
<1>0. Knows(req[r]) /\ req[r] \in RequestType /\ req[r].kind \in AllKinds \cup {"none"}
  BY DEF TypeOK, KnowledgeOK, RequestType
<1>a. req[r].pc # "done" => req[r].reply = "none"
  BY <1>0 DEF Knows
<1>b. "sendLogin" \notin LoginKinds
  BY DEF LoginKinds
<1>n. req[r].pc # "new" => ~Begins(r)
  BY DEF Begins, SendResetCode, sendForgotCode, SubmitPassword, SubmitForgotPassword, SendCode,
         Login, Arrives
<1>1. CASE SendCode(r) \/ Login(r)
  <2>1. PICK k \in {"sendLogin"} \cup LoginKinds, l \in {"resend", "csrf", "done"},
             a \in {"none", "stale"} : Start(r, k, l, a) /\ (k \in LoginKinds => Login(r))
    BY <1>1, <1>b DEF SendCode, Login
  <2>2. /\ req'[r].kind = k /\ req'[r].pc = l /\ req'[r].reply = a
        /\ req'[r].seen = req[r].seen /\ req'[r].proved = req[r].proved
        /\ req'[r].was = req[r].was /\ req'[r].user = req[r].user
        /\ req'[r].grant = req[r].grant
    BY <2>1, StartGives
  <2>3. req[r].pc = "new" /\ Begins(r)
    BY <1>1 DEF Begins, SendCode, Login, Arrives
  <2>q. QED  BY <2>1, <2>2, <2>3 DEF FieldsOK, ArrivalsOK
<1>2. CASE ComparePassword(r)
  <2> DEFINE v == [req[r] EXCEPT !.pc = "unlock", !.was = secret, !.user = owner]
  <2>0. req[r].pc = "lookup"
    BY <1>2 DEF ComparePassword
  <2>1. CASE Goto(r, "count")
    <3>1. req'[r].pc = "count" /\ req'[r].reply = "none" /\ Same(r)
      BY <1>a, <2>0, <2>1, GotoGives
    <3>q. QED  BY <1>2, <1>n, <2>0, <3>1 DEF FieldsOK, ArrivalsOK, Same
  <2>2. CASE req' = [req EXCEPT ![r].pc = "unlock", ![r].was = secret, ![r].user = owner]
    <3>1. req' = [req EXCEPT ![r] = v]
      BY <1>0, <2>2 DEF RequestType, TypeOK
    <3>2. req'[r] = v
      BY <3>1 DEF TypeOK
    <3>3. /\ req'[r].pc = "unlock" /\ req'[r].reply = "none"
          /\ req'[r].kind = req[r].kind /\ req'[r].before = req[r].before
          /\ req'[r].seen = req[r].seen /\ req'[r].proved = req[r].proved
          /\ req'[r].grant = req[r].grant
      BY <1>0, <1>a, <2>0, <3>2 DEF RequestType
    <3>q. QED  BY <1>2, <1>n, <2>0, <3>3 DEF FieldsOK, ArrivalsOK
  <2>q. QED  BY <1>2, <2>1, <2>2 DEF ComparePassword
<1>3. CASE ResetLogin(r)
  <2>1. req[r].pc = "unlock" /\ Goto(r, "take")
    BY <1>3 DEF ResetLogin
  <2>2. req'[r].pc = "take" /\ req'[r].reply = "none" /\ Same(r)
    BY <1>a, <2>1, GotoGives
  <2>q. QED  BY <1>3, <1>n, <2>1, <2>2 DEF FieldsOK, ArrivalsOK, Same
<1>4. CASE FindIdentity(r)
  <2> DEFINE v == [req[r] EXCEPT !.user = owner,
                                 !.pc = IF owner = None THEN "register" ELSE "take"]
  <2>0. req[r].pc = "verified"
    BY <1>4 DEF FindIdentity
  <2>1. req' = [req EXCEPT ![r] = v]
    BY <1>0, <1>4 DEF FindIdentity, RequestType, TypeOK
  <2>2. req'[r] = v
    BY <2>1 DEF TypeOK
  <2>3. /\ req'[r].pc \in {"register", "take"} /\ req'[r].reply = "none"
        /\ req'[r].kind = req[r].kind /\ req'[r].before = req[r].before
        /\ req'[r].seen = req[r].seen /\ req'[r].proved = req[r].proved /\ req'[r].was = req[r].was
        /\ req'[r].grant = req[r].grant
    BY <1>0, <1>a, <2>0, <2>2 DEF RequestType
  <2>q. QED  BY <1>4, <1>n, <2>0, <2>3 DEF FieldsOK, ArrivalsOK
<1>5. CASE Register(r)
  <2> DEFINE v == [req[r] EXCEPT !.user = r, !.pc = "take"]
  <2>0. req[r].pc = "register"
    BY <1>5 DEF Register
  <2>1. CASE End(r, "conflict")
    <3>1. req'[r].pc = "done" /\ req'[r].reply = "conflict" /\ Same(r)
      BY <2>1, EndGives
    <3>q. QED  BY <1>5, <1>n, <2>0, <3>1 DEF FieldsOK, ArrivalsOK, Same
  <2>2. CASE req' = [req EXCEPT ![r].user = r, ![r].pc = "take"]
    <3>1. req' = [req EXCEPT ![r] = v]
      BY <1>0, <2>2 DEF RequestType, TypeOK
    <3>2. req'[r] = v
      BY <3>1 DEF TypeOK
    <3>3. /\ req'[r].pc = "take" /\ req'[r].reply = "none"
          /\ req'[r].kind = req[r].kind /\ req'[r].before = req[r].before
          /\ req'[r].seen = req[r].seen /\ req'[r].proved = req[r].proved /\ req'[r].was = req[r].was
          /\ req'[r].grant = req[r].grant
      BY <1>0, <1>a, <2>0, <3>2 DEF RequestType
    <3>q. QED  BY <1>5, <1>n, <2>0, <3>3 DEF FieldsOK, ArrivalsOK
  <2>q. QED  BY <1>5, <2>1, <2>2 DEF Register
<1>6. CASE TakeAuthz(r)
  <2>1. req[r].pc = "take" /\ (Goto(r, "grant") \/ End(r, "stale"))
    BY <1>6 DEF TakeAuthz
  <2>2. req'[r].pc \in {"grant", "done"} /\ req'[r].reply \in {"none", "stale"} /\ Same(r)
    BY <1>a, <2>1, GotoGives, EndGives
  <2>q. QED  BY <1>6, <1>n, <2>1, <2>2 DEF FieldsOK, ArrivalsOK, Same
<1>7. CASE IssueGWCode(r)
  <2> DEFINE v == [req[r] EXCEPT !.grant = req[r].user, !.pc = "done", !.reply = "signed in"]
  <2>0. req[r].pc = "grant"
    BY <1>7 DEF IssueGWCode
  <2>1. req' = [req EXCEPT ![r] = v]
    BY <1>0, <1>7 DEF IssueGWCode, RequestType, TypeOK
  <2>2. req'[r] = v
    BY <2>1 DEF TypeOK
  <2>3. /\ req'[r].pc = "done" /\ req'[r].reply = "signed in"
        /\ req'[r].kind = req[r].kind /\ req'[r].before = req[r].before
        /\ req'[r].seen = req[r].seen /\ req'[r].proved = req[r].proved /\ req'[r].was = req[r].was
        /\ req'[r].user = req[r].user
    BY <1>0, <2>2 DEF RequestType
  <2>q. QED  BY <1>7, <1>n, <2>0, <2>3 DEF FieldsOK, ArrivalsOK
<1>8. CASE Fail(r)
  <2>0. req[r].pc # "new" /\ End(r, "error")
    BY <1>8 DEF Fail, InFlight, Begun, Finished
  <2>1. req'[r].pc = "done" /\ req'[r].reply = "error" /\ Same(r)
    BY <2>0, EndGives
  <2>q. QED  BY <1>8, <1>n, <2>0, <2>1 DEF FieldsOK, ArrivalsOK, Same
<1>q. QED
  BY <1>1, <1>2, <1>3, <1>4, <1>5, <1>6, <1>7, <1>8 DEF LoginStep

\* One step of the system moves one request or none.
LEMMA OneActs ==
  ASSUME TypeOK, KnowledgeOK, [Next]_vars
  PROVE  \/ \E r \in Requests : Acts(r) /\ Moved(r) /\ FieldsOK(r) /\ ArrivalsOK(r)
         \/ req' = req
<1>1. CASE \E r \in Requests : Acts(r)
  BY <1>1, OtpMoves, PasswordMoves, LoginMoves, OtpChanges, PasswordChanges, LoginChanges DEF Acts
<1>2. CASE UNCHANGED vars
  BY <1>2 DEF vars, otpVars
<1>3. CASE OtpExpiry
  BY <1>3 DEF OtpExpiry, GateExpires, CodeExpires, CounterExpires
<1>4. CASE PasswordLink \/ PasswordPage \/ Authorize \/ LoginPage \/ AuthzExpires
  BY <1>4 DEF PasswordLink, PasswordPage, LoginPage, Render, Authorize, AuthzExpires, otpVars
<1>5. CASE Idle
  BY <1>5 DEF Idle, vars, otpVars
<1>q. QED  BY <1>1, <1>2, <1>3, <1>4, <1>5 DEF Next, Acts

\* So whatever is new of a request is its own doing.
LEMMA Changes ==
  ASSUME TypeOK, KnowledgeOK, [Next]_vars, NEW r \in Requests
  PROVE  \/ req'[r] = req[r]
         \/ Acts(r) /\ Moved(r) /\ FieldsOK(r) /\ ArrivalsOK(r)
BY OneActs DEF Moved

-----------------------------------------------------------------------------
(* Types and knowledge hold. *)

\* Every step keeps what a request knows by where it is.
LEMMA KnowledgeStep ==
  ASSUME TypeOK, KnowledgeOK, [Next]_vars
  PROVE  KnowledgeOK' /\ Finished \subseteq Finished' /\ req' \in [Requests -> RequestType]
<1>1. CASE req' = req
  BY <1>1 DEF KnowledgeOK, Finished, At, TypeOK
<1>2. ASSUME NEW r \in Requests, Moved(r)
      PROVE  KnowledgeOK' /\ Finished \subseteq Finished' /\ req' \in [Requests -> RequestType]
  <2>1. Finished \subseteq Finished'
    BY <1>2 DEF Moved, Finished, At
  <2>2. ASSUME NEW q \in Requests
        PROVE  Knows(req'[q]) /\ req'[q].before \subseteq Finished'
    BY <1>2, <2>1 DEF Moved, KnowledgeOK
  <2>q. QED  BY <1>2, <2>1, <2>2 DEF Moved, KnowledgeOK
<1>q. QED  BY <1>1, <1>2, OneActs

\* The purpose of a code is one of the two.
LEMMA PurposeType ==
  ASSUME NEW r \in Requests
  PROVE  Purpose(r) \in Purposes /\ Counter(r) \in Counters
BY DEF Purpose, Purposes, Counter, Counters

\* A step of the code store keeps the types of what it writes.
LEMMA OtpTypes ==
  ASSUME TypeOK, KnowledgeOK, NEW r \in Requests, OtpStep(r) \/ Fail(r)
  PROVE  /\ code' \in [Purposes -> Numbers] /\ newest' \in [Purposes -> Numbers]
         /\ attempts' \in [Purposes -> Nat] /\ gate' \in [Purposes -> BOOLEAN]
         /\ count' \in [Counters -> Nat] /\ timed' \in [Counters -> BOOLEAN]
         /\ fate' \in [Requests -> Fates]
<1> USE PurposeType DEF codes, counters, otpStores
<1>0. r \in Numbers /\ 0 \in Numbers /\ Requests \subseteq Numbers
  BY OneTimeCodeAssumption DEF Numbers, Requests
<1>a. req[r].seen # 0 => req[r].seen \in Requests
  BY SMTT(30) DEF TypeOK, RequestType, Numbers, Requests
<1>b. req[r].pc \in Verifying => req[r].seen # 0
  BY DEF KnowledgeOK, Knows
<1>c. ASSUME NEW c \in Requests
      PROVE  /\ [fate[c] EXCEPT !.wrong = @ + 1] \in Fates
             /\ [fate[c] EXCEPT !.uncounted = @ + 1] \in Fates
             /\ [fate[c] EXCEPT !.kept = TRUE] \in Fates
             /\ [fate[c] EXCEPT !.readers = Readers(Purpose(r))] \in Fates
  <2>1. Readers(Purpose(r)) \subseteq Requests /\ fate[c] \in Fates
    BY DEF Readers, InFlight, Begun, TypeOK
  <2>2. fate[c].wrong + 1 \in Nat /\ fate[c].uncounted + 1 \in Nat
    BY <2>1 DEF Fates
  <2>3. [fate[c] EXCEPT !.wrong = @ + 1] \in Fates /\ [fate[c] EXCEPT !.uncounted = @ + 1] \in Fates
    BY <2>1, <2>2 DEF Fates
  <2>4. [fate[c] EXCEPT !.kept = TRUE] \in Fates /\ [fate[c] EXCEPT !.readers = Readers(Purpose(r))] \in Fates
    BY <2>1 DEF Fates
  <2>q. QED  BY <2>3, <2>4
<1>1. CASE Incr(r)
  BY <1>1 DEF Incr, TypeOK
<1>2. CASE SetWindow(r)
  BY <1>2 DEF SetWindow, TypeOK
<1>3. CASE CanResend(r) \/ ReadCode(r)
  BY <1>3 DEF CanResend, ReadCode, TypeOK
<1>4. CASE Issue(r)
  <2>1. fate' = [fate EXCEPT ![r] = [fate[r] EXCEPT !.readers = Readers(Purpose(r))]]
    BY <1>4 DEF Issue, TypeOK, Fates
  <2>2. fate' \in [Requests -> Fates]
    BY <1>c, <2>1 DEF TypeOK
  <2>q. QED  BY <1>0, <1>4, <2>2 DEF Issue, TypeOK
<1>5. CASE Compare(r)
  <2>1. \/ fate' = fate
        \/ fate' = [fate EXCEPT ![req[r].seen] = [fate[req[r].seen] EXCEPT !.wrong = @ + 1]]
    BY <1>5 DEF Compare, TypeOK, Fates
  <2>2. req[r].seen \in Requests
    BY <1>5, <1>a, <1>b DEF Compare, At, Verifying
  <2>3. fate' \in [Requests -> Fates]
    BY <1>c, <2>1, <2>2 DEF TypeOK
  <2>q. QED  BY <1>5, <2>3 DEF Compare, TypeOK
<1>6. CASE Accept(r)
  <2>1. \/ fate' = fate
        \/ fate' = [fate EXCEPT ![req[r].seen] = [fate[req[r].seen] EXCEPT !.kept = TRUE]]
    BY <1>6 DEF Accept, TypeOK, Fates
  <2>2. req[r].seen \in Requests
    BY <1>6, <1>a, <1>b DEF Accept, At, Verifying
  <2>3. fate' \in [Requests -> Fates]
    BY <1>c, <2>1, <2>2 DEF TypeOK
  <2>4. code' \in [Purposes -> Numbers] /\ attempts' \in [Purposes -> Nat]
    BY <1>0, <1>6 DEF Accept, TypeOK
  <2>q. QED  BY <1>6, <2>3, <2>4 DEF Accept, TypeOK
<1>7. CASE Miss(r) \/ Void(r)
  BY <1>0, <1>7 DEF Miss, Void, TypeOK
<1>8. CASE Fail(r)
  <2>1. \/ fate' = fate
        \/ /\ fate' = [fate EXCEPT ![req[r].seen] = [fate[req[r].seen] EXCEPT !.uncounted = @ + 1]]
           /\ req[r].pc \in {"miss", "void"}
    BY <1>8 DEF Fail, TypeOK, Fates
  <2>2. req[r].pc \in {"miss", "void"} => req[r].seen \in Requests
    BY <1>a, <1>b DEF Verifying
  <2>3. fate' \in [Requests -> Fates]
    BY <1>c, <2>1, <2>2 DEF TypeOK
  <2>q. QED  BY <1>8, <2>3 DEF Fail, TypeOK
<1>q. QED
  BY <1>1, <1>2, <1>3, <1>4, <1>5, <1>6, <1>7, <1>8 DEF OtpStep

\* The passing of time keeps them too.
LEMMA ExpiryTypes ==
  ASSUME TypeOK, OtpExpiry
  PROVE  /\ code' \in [Purposes -> Numbers] /\ newest' \in [Purposes -> Numbers]
         /\ attempts' \in [Purposes -> Nat] /\ gate' \in [Purposes -> BOOLEAN]
         /\ count' \in [Counters -> Nat] /\ timed' \in [Counters -> BOOLEAN]
         /\ fate' \in [Requests -> Fates]
<1> USE DEF codes, counters
<1>0. 0 \in Numbers
  BY OneTimeCodeAssumption DEF Numbers
<1>1. ASSUME NEW p \in Purposes, GateExpires(p)
      PROVE  gate' \in [Purposes -> BOOLEAN]
  BY <1>1 DEF GateExpires, TypeOK
<1>2. ASSUME NEW p \in Purposes, CodeExpires(p)
      PROVE  code' \in [Purposes -> Numbers] /\ attempts' \in [Purposes -> Nat]
             /\ fate' \in [Requests -> Fates]
  <2>1. code[p] \in Requests
    BY <1>2 DEF CodeExpires, TypeOK, Numbers, Requests
  <2>2. [fate[code[p]] EXCEPT !.lapsed = TRUE] \in Fates
    <3>1. fate[code[p]] \in Fates
      BY <2>1 DEF TypeOK
    <3>q. QED  BY <3>1 DEF Fates
  <2>3. fate' = [fate EXCEPT ![code[p]] = [fate[code[p]] EXCEPT !.lapsed = TRUE]]
    BY <1>2 DEF CodeExpires
  <2>q. QED  BY <1>0, <1>2, <2>1, <2>2, <2>3 DEF CodeExpires, TypeOK
<1>3. ASSUME NEW k \in Counters, CounterExpires(k)
      PROVE  count' \in [Counters -> Nat] /\ timed' \in [Counters -> BOOLEAN]
  BY <1>3 DEF CounterExpires, Clear, TypeOK
<1>q. QED
  BY <1>1, <1>2, <1>3 DEF OtpExpiry, GateExpires, CodeExpires, CounterExpires, TypeOK

\* Every step keeps the types.
LEMMA TypeStep ==
  ASSUME TypeOK, KnowledgeOK, [Next]_vars
  PROVE  TypeOK'
<1> USE DEF codes, counters, otpStores, accountVars, loginVars
<1>0. req' \in [Requests -> RequestType]
  BY KnowledgeStep
<1>1. CASE \E r \in Requests : (OtpStep(r) \/ Fail(r)) /\ UNCHANGED <<accountVars, loginVars>>
  BY <1>0, <1>1, OtpTypes DEF TypeOK
<1>2. CASE OtpExpiry /\ UNCHANGED <<accountVars, loginVars>>
  BY <1>0, <1>2, ExpiryTypes DEF TypeOK
<1>3. ASSUME NEW r \in Requests, PasswordStep(r), UNCHANGED loginVars
      PROVE  TypeOK'
  <2>0. r \in Names
    BY DEF Names, Numbers, Requests
  <2>p. Page(r) \in Pages
    BY DEF Page, PageOf, Pages
  <2>1. CASE SendResetCode(r) \/ sendForgotCode(r) \/ SubmitPassword(r)
    BY <1>0, <1>3, <2>1 DEF SendResetCode, sendForgotCode, SubmitPassword, TypeOK
  <2>2. CASE SubmitForgotPassword(r)
    BY <1>0, <1>3, <2>2 DEF SubmitForgotPassword, TypeOK
  <2>3. CASE RenderAgain(r) \/ ConsumeCSRF(r)
    BY <1>0, <1>3, <2>p, <2>3 DEF RenderAgain, ConsumeCSRF, TypeOK
  <2>4. CASE Binding(r) \/ SetInitialPassword(r) \/ CheckLock(r) \/ ForgotPassword(r)
    BY <1>0, <1>3, <2>4 DEF Binding, SetInitialPassword, CheckLock, ForgotPassword, TypeOK
  <2>5. CASE WriteAccountSecret(r)
    BY <1>0, <1>3, <2>0, <2>5 DEF WriteAccountSecret, TypeOK
  <2>6. CASE ResetFailures(r)
    <3>0. Clear("pwreset") \/ UNCHANGED counters
      BY <2>6 DEF ResetFailures
    <3>1. count' \in [Counters -> Nat] /\ timed' \in [Counters -> BOOLEAN]
      <4>1. CASE Clear("pwreset")
        BY <4>1 DEF Clear, Counters, TypeOK
      <4>2. CASE UNCHANGED counters
        BY <4>2 DEF TypeOK
      <4>q. QED  BY <3>0, <4>1, <4>2
    <3>q. QED  BY <1>0, <1>3, <2>6, <3>1 DEF ResetFailures, TypeOK
  <2>7. CASE TakeLink(r)
    BY <1>0, <1>3, <2>7 DEF TakeLink, TypeOK
  <2>q. QED  BY <1>3, <2>1, <2>2, <2>3, <2>4, <2>5, <2>6, <2>7 DEF PasswordStep
<1>4. ASSUME NEW r \in Requests, LoginStep(r)
      PROVE  TypeOK'
  <2>0. r \in Names /\ r \in Numbers
    BY DEF Names, Numbers, Requests
  <2>1. CASE SendCode(r) \/ Login(r) \/ ComparePassword(r) \/ FindIdentity(r) \/ IssueGWCode(r)
    BY <1>0, <2>1 DEF SendCode, Login, ComparePassword, FindIdentity, IssueGWCode, TypeOK
  <2>2. CASE ResetLogin(r)
    BY <1>0, <2>2 DEF ResetLogin, Clear, Counters, TypeOK
  <2>3. CASE Register(r)
    BY <1>0, <2>0, <2>3 DEF Register, TypeOK
  <2>4. CASE TakeAuthz(r)
    BY <1>0, <2>4 DEF TakeAuthz, TypeOK
  <2>q. QED  BY <1>4, <2>1, <2>2, <2>3, <2>4 DEF LoginStep
<1>5. CASE ((PasswordLink \/ PasswordPage) /\ UNCHANGED loginVars) \/ Authorize \/ LoginPage \/ AuthzExpires
  BY <1>0, <1>5 DEF PasswordLink, PasswordPage, LoginPage, Render, Authorize, AuthzExpires,
                    otpVars, Pages, TypeOK
<1>6. CASE UNCHANGED vars
  BY <1>6 DEF vars, otpVars, TypeOK
<1>q. QED
  BY <1>1, <1>2, <1>3, <1>4, <1>5, <1>6 DEF Next, Idle

\* At the start the types hold and nothing is known.
LEMMA FirstKnowledge ==
  ASSUME Init
  PROVE  TypeOK /\ KnowledgeOK
<1>1. {0, None} \subseteq Names /\ 0 \in Numbers
  BY OneTimeCodeAssumption DEF Names, Numbers
<1> DEFINE v == [kind |-> "none", pc |-> "new", reply |-> "none", before |-> {},
                 seen |-> 0, proved |-> 0, was |-> None, user |-> None, grant |-> None]
<1>2. v \in RequestType
  BY <1>1 DEF RequestType, Steps, Answers
<1>3. Knows(v)
  BY Routes DEF Knows, Verifying
<1>4. req = [r \in Requests |-> v]
  BY DEF Init, OtpInit
<1>5. KnowledgeOK /\ req \in [Requests -> RequestType]
  BY <1>2, <1>3, <1>4 DEF KnowledgeOK
<1>6. fate \in [Requests -> Fates]
  BY DEF Init, OtpInit, Fates
<1>7. TypeOK
  BY <1>1, <1>5, <1>6 DEF Init, OtpInit, AccountInit, TypeOK
<1>q. QED  BY <1>5, <1>7

\* Every request is on the way of its kind, holds a code only after reading one,
\* and knows a proof only after comparing one.
THEOREM RequestsKnow == Spec => [](TypeOK /\ KnowledgeOK)
<1>1. TypeOK /\ KnowledgeOK /\ [Next]_vars => (TypeOK /\ KnowledgeOK)'
  BY KnowledgeStep, TypeStep
<1>q. QED  BY <1>1, FirstKnowledge, PTL DEF Spec

-----------------------------------------------------------------------------
(* Who writes the account, the link and the authorization request. *)

\* Who sets the owner of the account: the insert of the registration.
LEMMA OwnerFrame ==
  ASSUME [Next]_vars
  PROVE  \/ owner' = owner /\ users' = users
         \/ \E s \in Requests : Register(s) /\ owner = None /\ owner' = s /\ users' = users \cup {s}
<1> USE DEF accountVars, loginVars
<1>1. ASSUME NEW r \in Requests, PasswordStep(r)
      PROVE  owner' = owner
  BY <1>1 DEF PasswordStep, SendResetCode, sendForgotCode, SubmitPassword, SubmitForgotPassword,
       RenderAgain, ConsumeCSRF, Binding, SetInitialPassword, CheckLock, ForgotPassword,
       WriteAccountSecret, ResetFailures, TakeLink
<1>2. ASSUME NEW r \in Requests, LoginStep(r), ~Register(r)
      PROVE  owner' = owner /\ users' = users
  BY <1>2 DEF LoginStep, SendCode, Login, ComparePassword, ResetLogin, FindIdentity, TakeAuthz,
       IssueGWCode
<1>3. ASSUME NEW r \in Requests, Register(r)
      PROVE  \/ owner' = owner /\ users' = users
             \/ owner = None /\ owner' = r /\ users' = users \cup {r}
  BY <1>3 DEF Register
<1>4. CASE ((PasswordLink \/ PasswordPage) /\ UNCHANGED loginVars) \/ Authorize \/ LoginPage \/ AuthzExpires
  BY <1>4 DEF PasswordLink, PasswordPage, LoginPage, Render, Authorize, AuthzExpires
<1>q. QED
  BY <1>1, <1>2, <1>3, <1>4 DEF Next, Idle, vars

\* Who writes the password: the statement of a reset.
LEMMA SecretFrame ==
  ASSUME [Next]_vars
  PROVE  secret' = secret \/ \E s \in Requests : WriteAccountSecret(s) /\ secret' = s
<1> USE DEF accountVars, loginVars
<1>1. ASSUME NEW r \in Requests, PasswordStep(r), ~WriteAccountSecret(r)
      PROVE  secret' = secret
  BY <1>1 DEF PasswordStep, SendResetCode, sendForgotCode, SubmitPassword, SubmitForgotPassword,
       RenderAgain, ConsumeCSRF, Binding, SetInitialPassword, CheckLock, ForgotPassword,
       ResetFailures, TakeLink
<1>2. ASSUME NEW r \in Requests, LoginStep(r)
      PROVE  secret' = secret
  BY <1>2 DEF LoginStep, SendCode, Login, ComparePassword, ResetLogin, FindIdentity, Register,
       TakeAuthz, IssueGWCode
<1>3. CASE PasswordLink \/ PasswordPage \/ Authorize \/ LoginPage \/ AuthzExpires
  BY <1>3 DEF PasswordLink, PasswordPage, LoginPage, Render, Authorize, AuthzExpires
<1>q. QED
  BY <1>1, <1>2, <1>3 DEF Next, Idle, vars, WriteAccountSecret

\* Who changes the link: it is sent once, then TakeLink deletes it or leaves it to be used again.
LEMMA LinkFrame ==
  ASSUME [Next]_vars
  PROVE  \/ link' = link /\ reused' = reused
         \/ owner # None /\ link = "none" /\ link' = "live" /\ reused' = reused
         \/ \E s \in Requests : /\ TakeLink(s)
                                /\ \/ link' = "gone" /\ reused' = reused
                                   \/ link' = link /\ reused' = TRUE
<1> USE DEF accountVars, loginVars
<1>1. ASSUME NEW r \in Requests, PasswordStep(r), ~TakeLink(r)
      PROVE  link' = link /\ reused' = reused
  BY <1>1 DEF PasswordStep, SendResetCode, sendForgotCode, SubmitPassword, SubmitForgotPassword,
       RenderAgain, ConsumeCSRF, Binding, SetInitialPassword, CheckLock, ForgotPassword,
       ResetFailures, WriteAccountSecret
<1>2. ASSUME NEW r \in Requests, LoginStep(r)
      PROVE  link' = link /\ reused' = reused
  BY <1>2 DEF LoginStep, SendCode, Login, ComparePassword, ResetLogin, FindIdentity, Register,
       TakeAuthz, IssueGWCode
<1>3. CASE PasswordLink
  BY <1>3 DEF PasswordLink
<1>4. CASE PasswordPage \/ Authorize \/ LoginPage \/ AuthzExpires
  BY <1>4 DEF PasswordPage, LoginPage, Render, Authorize, AuthzExpires
<1>5. ASSUME NEW r \in Requests, TakeLink(r)
      PROVE  (link' = "gone" /\ reused' = reused) \/ (link' = link /\ reused' = TRUE)
  BY <1>5 DEF TakeLink
<1>q. QED
  BY <1>1, <1>2, <1>3, <1>4, <1>5 DEF Next, Idle, vars

\* Who changes the authorization: the login starts it, time ends it, TakeAuthz takes it.
LEMMA AuthzFrame ==
  ASSUME [Next]_vars
  PROVE  \/ authz' = authz
         \/ authz = "none" /\ authz' = "live"
         \/ authz = "live" /\ authz' = "expired" /\ req' = req
         \/ \E s \in Requests : TakeAuthz(s) /\ authz = "live" /\ authz' = "taken"
<1> USE DEF accountVars, loginVars
<1>1. ASSUME NEW r \in Requests, LoginStep(r), ~TakeAuthz(r)
      PROVE  authz' = authz
  BY <1>1 DEF LoginStep, SendCode, Login, ComparePassword, ResetLogin, FindIdentity, Register,
       IssueGWCode
<1>2. ASSUME NEW r \in Requests, TakeAuthz(r)
      PROVE  authz' = authz \/ (authz = "live" /\ authz' = "taken")
  BY <1>2 DEF TakeAuthz
<1>3. CASE ((PasswordLink \/ PasswordPage) /\ UNCHANGED loginVars) \/ Authorize \/ LoginPage \/ AuthzExpires
  BY <1>3 DEF PasswordLink, PasswordPage, LoginPage, Render, Authorize, AuthzExpires, otpVars
<1>q. QED
  BY <1>1, <1>2, <1>3 DEF Next, Idle, vars

-----------------------------------------------------------------------------
(* Accounts. *)

\* An owner stays.
LEMMA OwnerStays ==
  ASSUME [Next]_vars, owner # None
  PROVE  owner' = owner
BY OwnerFrame

\* Every step keeps AccountOK.
LEMMA AccountStep ==
  ASSUME TypeOK, KnowledgeOK, AccountOK, [Next]_vars
  PROVE  AccountOK'
<1>0. KnowledgeOK' /\ TypeOK'
  BY KnowledgeStep, TypeStep
<1>1. users' = (IF owner' = None THEN {} ELSE {owner'})
  BY OwnerFrame, OneTimeCodeAssumption DEF AccountOK, Requests
<1>2. ASSUME NEW s \in Requests, WriteAccountSecret(s)
      PROVE  owner # None
  <2>1. \/ req[s].pc = "write"
        \/ req[s].pc = "verified" /\ req[s].kind = "linkSubmit"
    BY <1>2 DEF WriteAccountSecret, At
  <2>q. QED  BY <2>1 DEF AccountOK
<1>3. secret' # None => owner' # None
  BY <1>2, SecretFrame, OwnerStays DEF AccountOK
<1>4. ASSUME NEW s \in Requests, TakeLink(s)
      PROVE  owner # None
  <2>1. req[s].pc = "spend"
    BY <1>4 DEF TakeLink, At
  <2>2. req[s].kind = "linkSubmit"
    BY <2>1, Routes DEF TypeOK, RequestType, KnowledgeOK, Knows
  <2>q. QED  BY <2>1, <2>2 DEF AccountOK
<1>5. link' # "none" => owner' # None
  BY <1>4, LinkFrame, OwnerStays DEF AccountOK
<1>6. ASSUME NEW r \in Requests
      PROVE  /\ req'[r].kind = "linkSubmit" /\ req'[r].pc # "done" => owner' # None
             /\ req'[r].pc = "write" => owner' # None
             /\ req'[r].pc = "write" /\ req'[r].proved = 0 =>
                  secret' = None \/ (secret' \in Requests /\ secret' \notin req'[r].before)
  <2>1. CASE req'[r] = req[r]
    <3>1. /\ req'[r].kind = "linkSubmit" /\ req'[r].pc # "done" => owner' # None
          /\ req'[r].pc = "write" => owner' # None
      BY <2>1, OwnerStays DEF AccountOK
    <3>2. CASE secret' = secret
      BY <2>1, <3>1, <3>2 DEF AccountOK
    <3>3. ASSUME NEW s \in Requests, WriteAccountSecret(s), secret' = s
          PROVE  s \notin req[r].before
      <4>1. req[s].pc \in {"write", "verified"}
        BY <3>3 DEF WriteAccountSecret, At
      <4>q. QED  BY <4>1 DEF KnowledgeOK, Finished, At
    <3>q. QED  BY <2>1, <3>1, <3>2, <3>3, SecretFrame
  <2>2. CASE Acts(r) /\ Moved(r) /\ FieldsOK(r) /\ ArrivalsOK(r)
    <3>1. CASE Begins(r)
      <4>1. req'[r].pc # "write"
        BY <2>2, <3>1 DEF ArrivalsOK
      <4>2. CASE SubmitPassword(r)
        <5>1. CASE link = "live"
          BY <4>1, <5>1, OwnerStays DEF AccountOK
        <5>2. CASE link # "live"
          <6>1. req'[r].pc = "done"
            BY <4>2, <5>2, StartGives DEF SubmitPassword
          <6>q. QED  BY <6>1
        <5>q. QED  BY <5>1, <5>2
      <4>3. CASE ~SubmitPassword(r)
        <5>1. \E k \in {"sendReset", "forgotSubmit", "sendLogin"} \cup LoginKinds : \E l, a : Start(r, k, l, a)
          BY <3>1, <4>3 DEF Begins, SendResetCode, sendForgotCode, SubmitForgotPassword, SendCode, Login
        <5>2. req'[r].kind # "linkSubmit"
          BY <5>1, StartGives DEF LoginKinds
        <5>q. QED  BY <4>1, <5>2
      <4>q. QED  BY <4>2, <4>3
    <3>2. CASE ~Begins(r)
      <4>1. req'[r].kind = req[r].kind /\ req'[r].before = req[r].before /\ req[r].pc # "done"
        BY <2>2, <3>2 DEF FieldsOK, Moved, At
      <4>2. req'[r].kind = "linkSubmit" => owner' # None
        BY <4>1, OwnerStays DEF AccountOK
      <4>3. ASSUME req'[r].pc = "write"
            PROVE  /\ owner' # None
                   /\ req'[r].proved = 0 =>
                        secret' = None \/ (secret' \in Requests /\ secret' \notin req'[r].before)
        <5>1. CASE SetInitialPassword(r)
          <6>1. secret = None /\ secret' = None
            <7>1. ~Goto(r, "render")
              BY <4>3, GotoGives
            <7>q. QED  BY <5>1, <7>1 DEF SetInitialPassword, accountVars
          <6>2. req[r].kind = "linkSubmit"
            <7>1. req[r].pc = "initial"
              BY <5>1 DEF SetInitialPassword, At
            <7>q. QED  BY <7>1, Routes DEF TypeOK, RequestType, KnowledgeOK, Knows
          <6>q. QED  BY <4>1, <4>2, <6>1, <6>2
        <5>2. CASE ForgotPassword(r)
          <6>1. owner # None
            <7>1. ~End(r, "no account")
              BY <4>3, EndGives
            <7>q. QED  BY <5>2, <7>1 DEF ForgotPassword
          <6>2. req'[r].proved # 0
            BY <1>0, <4>1, <4>3, <5>2 DEF ForgotPassword, KnowledgeOK, Knows
          <6>q. QED  BY <6>1, <6>2, OwnerStays
        <5>q. QED  BY <2>2, <4>3, <5>1, <5>2 DEF ArrivalsOK
      <4>q. QED  BY <4>2, <4>3
    <3>q. QED  BY <3>1, <3>2
  <2>q. QED  BY <2>1, <2>2, Changes
<1>q. QED  BY <1>1, <1>3, <1>5, <1>6 DEF AccountOK

\* AccountOK holds at the start.
LEMMA FirstAccount ==
  ASSUME Init
  PROVE  AccountOK
BY OneTimeCodeAssumption DEF Init, OtpInit, AccountInit, AccountOK

\* Who may write a password, and over which one: no more than the account allows.
THEOREM AccountInvariant == Spec => []AccountOK
<1>1. TypeOK /\ KnowledgeOK /\ AccountOK /\ [Next]_vars => AccountOK'
  BY AccountStep
<1>q. QED  BY <1>1, FirstAccount, RequestsKnow, PTL DEF Spec

\* A password is replaced without a code only by a first setting that overlapped.
THEOREM NoCodeNoReplacement == Spec => NoReplacementWithoutCode
<1>1. ASSUME TypeOK, KnowledgeOK, AccountOK, Next, NEW r \in Requests,
             secret' = r, secret # r, secret # None, req[r].proved = 0
      PROVE  secret \in Requests /\ ~Precedes(secret, r)
  <2>1. PICK s \in Requests : WriteAccountSecret(s) /\ secret' = s
    BY <1>1, SecretFrame
  <2>2. req[r].pc = "write" \/ (req[r].pc = "verified" /\ req[r].kind = "linkSubmit")
    BY <1>1, <2>1 DEF WriteAccountSecret, At
  <2>3. req[r].pc = "write"
    BY <1>1, <2>2 DEF KnowledgeOK, Knows
  <2>q. QED  BY <1>1, <2>3 DEF AccountOK, Precedes
<1>2. TypeOK /\ KnowledgeOK /\ AccountOK /\ [Next]_vars
        => [\A r \in Requests :
              (secret' = r /\ secret # r /\ secret # None /\ req[r].proved = 0)
                => (secret \in Requests /\ ~Precedes(secret, r))]_vars
  BY <1>1
<1>q. QED  BY <1>2, AccountInvariant, RequestsKnow, PTL DEF Spec, NoReplacementWithoutCode

-----------------------------------------------------------------------------
(* Logins. *)

\* An authorization request that was taken or has expired does not come back.
LEMMA AuthzStays ==
  ASSUME [Next]_vars
  PROVE  /\ authz \in {"taken", "expired"} => authz' = authz
         /\ authz # "none" => authz' # "none"
BY AuthzFrame

\* What a request holds that was granted a login.
LEMMA GrantGives ==
  ASSUME TypeOK, NEW r \in Requests, IssueGWCode(r)
  PROVE  req'[r].grant = req[r].user /\ req[r].pc = "grant"
<1> DEFINE v == [req[r] EXCEPT !.grant = req[r].user, !.pc = "done", !.reply = "signed in"]
<1>0. req[r] \in RequestType
  BY DEF TypeOK
<1>1. req' = [req EXCEPT ![r] = v]
  BY <1>0 DEF IssueGWCode, TypeOK, RequestType
<1>2. req'[r] = v
  BY <1>1 DEF TypeOK
<1>q. QED  BY <1>0, <1>2 DEF IssueGWCode, At, RequestType

\* Who resolves the user of a login has the owner's name in hand.
LEMMA UserFound ==
  ASSUME TypeOK, KnowledgeOK, AccountOK, GrantsOK, [Next]_vars,
         NEW r \in Requests, ArrivalsOK(r), FieldsOK(r),
         req'[r].pc \in {"unlock", "take", "grant"}
  PROVE  req'[r].user = owner' /\ owner' # None
<1> USE DEF At
<1>0. req[r] \in RequestType
  BY DEF TypeOK
<1>1. CASE ComparePassword(r)
  <2>1. ~Goto(r, "count")
    BY GotoGives
  <2>2. req' = [req EXCEPT ![r].pc = "unlock", ![r].was = secret, ![r].user = owner] /\ secret # None
    BY <1>1, <2>1 DEF ComparePassword
  <2>3. req'[r].user = owner /\ owner # None
    BY <1>0, <2>2 DEF AccountOK, TypeOK, RequestType
  <2>q. QED  BY <2>3, OwnerStays
<1>2. CASE FindIdentity(r)
  <2>1. req' = [req EXCEPT ![r].user = owner, ![r].pc = IF owner = None THEN "register" ELSE "take"]
    BY <1>2 DEF FindIdentity
  <2>2. req'[r].user = owner /\ req'[r].pc = (IF owner = None THEN "register" ELSE "take")
    BY <1>0, <2>1 DEF TypeOK, RequestType
  <2>3. owner # None
    BY <2>2
  <2>q. QED  BY <2>2, <2>3, OwnerStays
<1>3. CASE Register(r)
  <2>1. ~End(r, "conflict")
    BY EndGives DEF Answers
  <2>2. owner' = r /\ req' = [req EXCEPT ![r].user = r, ![r].pc = "take"]
    BY <1>3, <2>1 DEF Register
  <2>3. req'[r].user = r /\ r # None
    BY <1>0, <2>2, OneTimeCodeAssumption DEF TypeOK, RequestType, Requests
  <2>q. QED  BY <2>2, <2>3
<1>4. CASE ResetLogin(r) \/ TakeAuthz(r)
  <2>1. req[r].pc \in {"unlock", "take"}
    BY <1>4 DEF ResetLogin, TakeAuthz
  <2>2. ~ComparePassword(r) /\ ~FindIdentity(r) /\ ~Register(r)
    BY <2>1 DEF ComparePassword, FindIdentity, Register
  <2>3. req'[r].user = req[r].user
    BY <2>2 DEF FieldsOK
  <2>q. QED  BY <2>1, <2>3, OwnerStays DEF GrantsOK
<1>q. QED  BY <1>1, <1>2, <1>3, <1>4 DEF ArrivalsOK

\* A GW_CODE is about to be issued, or was: the authorization request was taken for it.
LEMMA GrantTaken ==
  ASSUME TypeOK, KnowledgeOK, GrantsOK, [Next]_vars, NEW r \in Requests, Granted(r)'
  PROVE  \/ Granted(r)
         \/ TakeAuthz(r) /\ authz = "live" /\ authz' = "taken"
<1> USE DEF At, Granted
<1>1. CASE req'[r] = req[r]
  BY <1>1
<1>2. CASE Acts(r) /\ Moved(r) /\ FieldsOK(r) /\ ArrivalsOK(r)
  <2>1. CASE req'[r].pc = "grant"
    <3>1. TakeAuthz(r)
      BY <1>2, <2>1 DEF ArrivalsOK
    <3>2. ~End(r, "stale")
      BY <2>1, EndGives
    <3>q. QED  BY <3>1, <3>2 DEF TakeAuthz
  <2>2. CASE req'[r].grant # None
    <3>1. req'[r].grant = req[r].grant \/ IssueGWCode(r)
      BY <1>2 DEF FieldsOK
    <3>q. QED  BY <2>2, <3>1 DEF IssueGWCode
  <2>q. QED  BY <2>1, <2>2
<1>q. QED  BY <1>1, <1>2, Changes

\* Every step keeps GrantsOK.
LEMMA GrantsStep ==
  ASSUME TypeOK, KnowledgeOK, AccountOK, GrantsOK, [Next]_vars
  PROVE  GrantsOK'
<1> USE DEF At
<1>1. ASSUME NEW r \in Requests, req'[r].pc \in {"unlock", "take", "grant"}
      PROVE  req'[r].user = owner' /\ owner' # None
  BY <1>1, Changes, UserFound, OwnerStays DEF GrantsOK
<1>2. ASSUME NEW r \in Requests, req'[r].grant # None
      PROVE  req'[r].grant = owner'
  <2>1. CASE req'[r].grant = req[r].grant
    BY <1>2, <2>1, OwnerStays DEF GrantsOK
  <2>2. CASE IssueGWCode(r)
    <3>1. req'[r].grant = req[r].user /\ req[r].pc = "grant"
      BY <2>2, GrantGives
    <3>q. QED  BY <3>1, OwnerStays DEF GrantsOK
  <2>q. QED  BY <2>1, <2>2, Changes DEF FieldsOK
<1>3. ASSUME NEW r \in Requests, Granted(r)'
      PROVE  authz' = "taken"
  BY <1>3, GrantTaken, AuthzStays DEF GrantsOK
<1>4. ASSUME NEW r \in Requests, req'[r].kind \in LoginKinds, req'[r].pc # "done"
      PROVE  authz' # "none"
  <2>1. CASE req[r].kind \in LoginKinds /\ req[r].pc # "done"
    BY <2>1, AuthzStays DEF GrantsOK
  <2>2. CASE Begins(r)
    <3>1. \/ Login(r)
          \/ \E k \in {"sendReset", "linkSubmit", "forgotSubmit", "sendLogin"} : \E l, a : Start(r, k, l, a)
      BY <2>2 DEF Begins, SendResetCode, sendForgotCode, SubmitPassword, SubmitForgotPassword, SendCode
    <3>2. Login(r)
      BY <1>4, <3>1, StartGives DEF LoginKinds
    <3>3. authz = "live"
      BY <1>4, <3>2, StartGives DEF Login
    <3>q. QED  BY <3>3, AuthzStays
  <2>q. QED  BY <1>4, <2>1, <2>2, Changes DEF FieldsOK, Moved
<1>5. ASSUME NEW r \in Requests, req'[r].pc = "register"
      PROVE  owner' = None \/ (owner' \in Requests /\ owner' \notin req'[r].before)
  <2>1. CASE req'[r] = req[r]
    <3>1. ASSUME NEW s \in Requests, Register(s)
          PROVE  s \notin req[r].before
      BY <3>1 DEF Register, KnowledgeOK, Finished
    <3>q. QED  BY <1>5, <2>1, <3>1, OwnerFrame DEF GrantsOK
  <2>2. CASE FindIdentity(r)
    <3>1. req' = [req EXCEPT ![r].user = owner, ![r].pc = IF owner = None THEN "register" ELSE "take"]
      BY <2>2 DEF FindIdentity
    <3>2. req'[r].pc = IF owner = None THEN "register" ELSE "take"
      BY <3>1 DEF TypeOK, RequestType
    <3>q. QED  BY <1>5, <2>2, <3>2 DEF FindIdentity, accountVars
  <2>q. QED  BY <1>5, <2>1, <2>2, Changes DEF ArrivalsOK
<1>6. ASSUME NEW r \in Requests, NEW s \in Requests, Granted(r)', Granted(s)'
      PROVE  r = s
  <2>1. ~(authz = "live" /\ \E q \in Requests : Granted(q))
    BY DEF GrantsOK
  <2>2. ASSUME TakeAuthz(r), TakeAuthz(s)
        PROVE  r = s
    <3>1. req[r].pc = "take" /\ req[s].pc = "take" /\ req'[r].pc # "take" /\ req'[s].pc # "take"
      BY <2>2, GotoGives, EndGives DEF TakeAuthz, Answers
    <3>2. req'[r] # req[r] /\ req'[s] # req[s]
      BY <3>1
    <3>q. QED  BY <3>2, OneActs DEF Moved
  <2>q. QED  BY <1>6, <2>1, <2>2, GrantTaken DEF GrantsOK
<1>q. QED  BY <1>1, <1>2, <1>3, <1>4, <1>5, <1>6 DEF GrantsOK

\* GrantsOK holds at the start.
LEMMA FirstGrants ==
  ASSUME Init
  PROVE  GrantsOK
BY DEF Init, OtpInit, GrantsOK, Granted, At, LoginKinds

\* Only who took the authorization is granted a login, and only for the owner of the account
\* (TakeAuthz, IssueGWCode).
THEOREM GrantsInvariant == Spec => []GrantsOK
<1>1. TypeOK /\ KnowledgeOK /\ AccountOK /\ GrantsOK /\ [Next]_vars => GrantsOK'
  BY GrantsStep
<1>q. QED  BY <1>1, FirstGrants, AccountInvariant, RequestsKnow, PTL DEF Spec

\* One authorization request yields one GW_CODE, for the owner of the identifier.
THEOREM OneGrantPerLogin == Spec => []OneGrant
<1>1. TypeOK /\ KnowledgeOK /\ AccountOK /\ GrantsOK => OneGrant
  <2> SUFFICES ASSUME TypeOK, KnowledgeOK, AccountOK, GrantsOK  PROVE OneGrant
    OBVIOUS
  <2> DEFINE G == {r \in Requests : req[r].grant # None}
  <2>1. ASSUME NEW r \in G
        PROVE  G = {r}
    BY DEF GrantsOK, Granted
  <2>2. Cardinality(G) <= 1
    <3>1. CASE G = {}
      BY <3>1, FS_EmptySet
    <3>2. CASE G # {}
      <4>1. PICK r \in G : TRUE
        BY <3>2
      <4>2. G = {r}
        BY <2>1
      <4>3. Cardinality({r}) = 1
        BY FS_Singleton
      <4> HIDE DEF G
      <4>q. QED  BY <4>2, <4>3
    <3>q. QED  BY <3>1, <3>2
  <2>q. QED  BY <2>2 DEF OneGrant, GrantsOK, AccountOK
<1>q. QED  BY <1>1, GrantsInvariant, AccountInvariant, RequestsKnow, PTL

\* A login that was proved ends signed in, or with a cause that LoginNotInVain names.
LEMMA LoginStepNotInVain ==
  ASSUME TypeOK, KnowledgeOK, AccountOK, GrantsOK, LoginNotInVain, [Next]_vars
  PROVE  LoginNotInVain'
<1> USE DEF At
<1>0. TypeOK' /\ KnowledgeOK' /\ GrantsOK'
  BY TypeStep, KnowledgeStep, GrantsStep
<1> SUFFICES ASSUME NEW r \in Requests, req'[r].pc = "done", req'[r].kind \in LoginKinds,
                    req'[r].proved # 0 \/ req'[r].was # None
             PROVE  \/ req'[r].grant # None
                    \/ req'[r].reply = "error"
                    \/ req'[r].reply = "stale" /\ authz' \in {"taken", "expired"}
                    \/ /\ req'[r].reply = "conflict" /\ owner' \in Requests
                       /\ owner' \notin req'[r].before
  BY DEF LoginNotInVain, Finished, Precedes
<1>1. CASE req'[r] = req[r]
  BY <1>1, AuthzStays, OwnerStays, OneTimeCodeAssumption DEF LoginNotInVain, Finished, Precedes, Requests
<1>2. CASE Acts(r) /\ Moved(r) /\ FieldsOK(r) /\ ArrivalsOK(r)
  <2>1. CASE RenderAgain(r) \/ Login(r)
    <3>1. req[r].pc \in {"render", "refused", "new"}
      BY <2>1 DEF RenderAgain, Login, Arrives
    <3>2. req[r].proved = 0 /\ req[r].was = None
      BY <3>1 DEF KnowledgeOK, Knows, Unproved, Unwritten
    <3>3. req'[r].proved = req[r].proved /\ req'[r].was = req[r].was
      BY <1>2, <3>1 DEF FieldsOK, Accept, WriteAccountSecret, ComparePassword
    <3>q. QED  BY <3>2, <3>3
  <2>2. CASE IssueGWCode(r)
    <3>1. req'[r].grant = req[r].user /\ req[r].pc = "grant"
      BY <2>2, GrantGives
    <3>q. QED  BY <3>1 DEF GrantsOK
  <2>3. CASE TakeAuthz(r)
    <3>1. ~Goto(r, "grant")
      BY GotoGives
    <3>2. req[r].pc = "take" /\ authz # "live" /\ End(r, "stale")
      BY <2>3, <3>1 DEF TakeAuthz
    <3>a. req[r].kind \in LoginKinds
      BY <3>2, Routes DEF TypeOK, RequestType, KnowledgeOK, Knows
    <3>3. req[r].kind \in LoginKinds /\ req'[r].reply = "stale"
      BY <3>2, <3>a, EndGives
    <3>4. authz \in {"taken", "expired"}
      BY <3>2, <3>3 DEF GrantsOK, TypeOK
    <3>q. QED  BY <3>3, <3>4, AuthzStays
  <2>4. CASE Register(r)
    <3>1. ~(req' = [req EXCEPT ![r].user = r, ![r].pc = "take"])
      BY DEF TypeOK, RequestType
    <3>2. req[r].pc = "register" /\ owner # None /\ End(r, "conflict")
      BY <2>4, <3>1 DEF Register
    <3>3. req'[r].reply = "conflict" /\ req'[r].before = req[r].before
      BY <3>2, EndGives DEF Answers, Same
    <3>4. owner \in Requests /\ owner \notin req[r].before /\ owner' = owner
      BY <3>2, OwnerStays DEF GrantsOK
    <3>q. QED  BY <3>3, <3>4
  <2>q. QED  BY <1>2, <2>1, <2>2, <2>3, <2>4 DEF ArrivalsOK
<1>q. QED  BY <1>1, <1>2, Changes

\* Who has proved who they are is sent away only for the reasons named.
THEOREM ProofGetsIn == Spec => []LoginNotInVain
<1>1. TypeOK /\ KnowledgeOK /\ AccountOK /\ GrantsOK /\ LoginNotInVain /\ [Next]_vars
        => LoginNotInVain'
  BY LoginStepNotInVain
<1>2. Init => LoginNotInVain
  BY DEF Init, OtpInit, LoginNotInVain, Finished, At
<1>q. QED  BY <1>1, <1>2, GrantsInvariant, AccountInvariant, RequestsKnow, PTL DEF Spec

-----------------------------------------------------------------------------
(* Passwords. *)

\* After the password is written: the counter is cleared, the link taken.
LEMMA AfterWriting ==
  ASSUME NEW r \in Requests, Acts(r), req[r].pc \in {"spend", "clear"}
  PROVE  ResetFailures(r) \/ TakeLink(r) \/ Fail(r)
BY DEF Acts, OtpStep, PasswordStep, LoginStep, Incr, SetWindow, CanResend, Issue, ReadCode, Compare,
       Accept, Miss, Void, SendResetCode, sendForgotCode, SubmitPassword, SubmitForgotPassword,
       Arrives, RenderAgain, ConsumeCSRF, Binding, SetInitialPassword, CheckLock, ForgotPassword,
       WriteAccountSecret, SendCode, Login, ComparePassword, ResetLogin, FindIdentity, Register,
       TakeAuthz, IssueGWCode, At

\* A request that has written its password stays past it.
LEMMA PastStays ==
  ASSUME TypeOK, KnowledgeOK, [Next]_vars, NEW r \in Requests, Past(r)
  PROVE  Past(r)'
<1> USE DEF Past
<1>1. CASE req'[r] = req[r]
  BY <1>1
<1>2. CASE Acts(r) /\ Moved(r)
  <2>1. ResetFailures(r) \/ TakeLink(r) \/ Fail(r)
    BY <1>2, AfterWriting DEF Moved, At
  <2>2. Goto(r, "spend") \/ \E a : End(r, a)
    BY <2>1 DEF ResetFailures, TakeLink, Fail
  <2>q. QED  BY <2>2, GotoGives, EndGives
<1>q. QED  BY <1>1, <1>2, Changes

\* Only WriteAccountSecret makes a request one that changed the password.
LEMMA ChangedFrom ==
  ASSUME TypeOK, KnowledgeOK, [Next]_vars, NEW r \in Requests, Changed(r)'
  PROVE  Changed(r) \/ WriteAccountSecret(r)
BY Changes DEF Changed, ArrivalsOK, FieldsOK, ResetFailures, TakeLink, At

\* What WriteAccountSecret leaves behind: what it replaced, and its own number in the row.
LEMMA WriteGives ==
  ASSUME TypeOK, NEW r \in Requests, WriteAccountSecret(r)
  PROVE  req'[r].was = secret /\ ~Past(r) /\ Past(r)' /\ secret' = r
<1> DEFINE v == [req[r] EXCEPT !.was = secret,
                               !.pc = IF req[r].proved = 0 THEN "spend" ELSE "clear"]
<1>0. req[r] \in RequestType
  BY DEF TypeOK
<1>1. req' = [req EXCEPT ![r] = v]
  BY <1>0 DEF WriteAccountSecret, TypeOK, RequestType
<1>2. req'[r] = v
  BY <1>1 DEF TypeOK
<1>3. v.was = secret /\ v.pc \in {"spend", "clear"}
  BY <1>0 DEF RequestType
<1>q. QED  BY <1>2, <1>3 DEF WriteAccountSecret, At, Past

\* Finding a password is finding the row's.
LEMMA FoundWas ==
  ASSUME TypeOK, KnowledgeOK, [Next]_vars, NEW r \in Requests, req'[r].was # req[r].was
  PROVE  /\ req'[r].was = secret
         /\ WriteAccountSecret(r) \/ (ComparePassword(r) /\ req'[r].reply = "none" /\ secret # None)
<1>1. WriteAccountSecret(r) \/ ComparePassword(r)
  BY Changes DEF FieldsOK
<1>2. CASE ComparePassword(r)
  <2> DEFINE v == [req[r] EXCEPT !.pc = "unlock", !.was = secret, !.user = owner]
  <2>0. req[r] \in RequestType /\ req[r].reply = "none"
    BY <1>2 DEF TypeOK, KnowledgeOK, Knows, ComparePassword, At
  <2>1. ~Goto(r, "count")
    BY GotoGives DEF Same
  <2>2. req' = [req EXCEPT ![r].pc = "unlock", ![r].was = secret, ![r].user = owner] /\ secret # None
    BY <1>2, <2>1 DEF ComparePassword
  <2>3. req' = [req EXCEPT ![r] = v]
    BY <2>0, <2>2 DEF TypeOK, RequestType
  <2>4. req'[r] = v
    BY <2>3 DEF TypeOK
  <2>5. v.was = secret /\ v.reply = req[r].reply
    BY <2>0 DEF RequestType
  <2>q. QED  BY <1>2, <2>0, <2>2, <2>4, <2>5
<1>q. QED  BY <1>1, <1>2, WriteGives

\* Every step keeps PasswordsOK.
LEMMA PasswordsStep ==
  ASSUME TypeOK, KnowledgeOK, PasswordsOK, [Next]_vars
  PROVE  PasswordsOK'
<1>1. secret' \in Requests => Past(secret)'
  BY SecretFrame, WriteGives, PastStays DEF PasswordsOK
<1>2. ASSUME NEW r \in Requests, req'[r].was \in Requests
      PROVE  Past(req[r].was)'
  BY <1>2, FoundWas, PastStays DEF PasswordsOK
<1>3. ASSUME NEW r \in Requests, Changed(r)'
      PROVE  req'[r].was # secret'
  <2>1. CASE WriteAccountSecret(r)
    BY <2>1, WriteGives DEF PasswordsOK
  <2>2. CASE Changed(r) /\ ~WriteAccountSecret(r)
    <3>1. req'[r].was = req[r].was
      BY <2>2, FoundWas, Changes DEF Changed, ComparePassword, At, KnowledgeOK, Knows
    <3>2. CASE secret' = secret
      BY <2>2, <3>1, <3>2 DEF PasswordsOK
    <3>3. ASSUME NEW s \in Requests, WriteAccountSecret(s), secret' = s
          PROVE  req[r].was # s
      BY <3>3, WriteGives DEF PasswordsOK
    <3>q. QED  BY <3>1, <3>2, <3>3, SecretFrame
  <2>q. QED  BY <1>3, <2>1, <2>2, ChangedFrom
<1>q. QED  BY <1>1, <1>2, <1>3 DEF PasswordsOK

\* PasswordsOK holds at the start.
LEMMA FirstPasswords ==
  ASSUME Init
  PROVE  PasswordsOK /\ OldPasswordDies /\ LinksOK
<1>1. None \notin Requests /\ 0 \notin Requests
  BY OneTimeCodeAssumption DEF Requests
<1>q. QED
  BY <1>1 DEF Init, OtpInit, AccountInit, PasswordsOK, OldPasswordDies, LinksOK, Past, Changed

\* A password that was replaced does not come back: every password has one writer,
\* who writes it once.
THEOREM PasswordsInvariant == Spec => []PasswordsOK
<1>1. TypeOK /\ KnowledgeOK /\ PasswordsOK /\ [Next]_vars => PasswordsOK'
  BY PasswordsStep
<1>q. QED  BY <1>1, FirstPasswords, RequestsKnow, PTL DEF Spec

\* No step brings a replaced password back.
LEMMA OldPasswordStep ==
  ASSUME TypeOK, KnowledgeOK, PasswordsOK, OldPasswordDies, [Next]_vars
  PROVE  OldPasswordDies'
<1> SUFFICES ASSUME NEW r \in Requests, NEW s \in Requests,
                    req'[s].reply = "changed", s \in req'[r].before,
                    req'[r].kind = "passwordLogin", req'[r].was # None
             PROVE  req'[r].was # req'[s].was
  BY DEF OldPasswordDies, Precedes
<1>1. CASE Begins(r)
  <2>1. req[r].was = None
    BY <1>1 DEF Begins, SendResetCode, sendForgotCode, SubmitPassword, SubmitForgotPassword,
       SendCode, Login, Arrives, At, KnowledgeOK, Knows, Unproved, Unwritten
  <2>2. req[r].pc = "new"
    BY <1>1 DEF Begins, SendResetCode, sendForgotCode, SubmitPassword, SubmitForgotPassword,
       SendCode, Login, Arrives, At
  <2>q. QED  BY <2>1, <2>2, FoundWas DEF WriteAccountSecret, ComparePassword, At
<1>2. CASE ~Begins(r)
  <2>1. req'[r].kind = req[r].kind /\ req'[r].before = req[r].before
    BY <1>2, Changes DEF FieldsOK
  <2>2. req[s].pc = "done"
    BY <2>1 DEF KnowledgeOK, Finished, At
  <2>3. req'[s] = req[s]
    BY <2>2, Changes DEF Moved, At
  <2>4. CASE req'[r].was = req[r].was
    BY <2>1, <2>3, <2>4 DEF OldPasswordDies, Precedes
  <2>5. CASE req'[r].was # req[r].was
    BY <2>3, <2>5, FoundWas DEF PasswordsOK, Changed
  <2>q. QED  BY <2>4, <2>5
<1>q. QED  BY <1>1, <1>2

\* Once a change was answered, the old password opens nothing to those who come later.
THEOREM OldPasswordIsDead == Spec => []OldPasswordDies
<1>1. TypeOK /\ KnowledgeOK /\ PasswordsOK /\ OldPasswordDies /\ [Next]_vars => OldPasswordDies'
  BY OldPasswordStep
<1>q. QED  BY <1>1, FirstPasswords, PasswordsInvariant, RequestsKnow, PTL DEF Spec

-----------------------------------------------------------------------------
(* Links. *)

\* A submission from a link that brought a change has taken the link.
LEMMA LinkTaken ==
  ASSUME TypeOK, KnowledgeOK, [Next]_vars, NEW r \in Requests,
         req'[r].kind = "linkSubmit", req'[r].reply = "changed"
  PROVE  req'[r] = req[r] \/ (TakeLink(r) /\ req[r].kind = "linkSubmit")
<1>1. CASE ResetFailures(r)
  <2>1. ~Goto(r, "spend")
    BY <1>1, GotoGives DEF ResetFailures, At, KnowledgeOK, Knows
  <2>2. req[r].kind # "linkSubmit" /\ End(r, "changed")
    BY <1>1, <2>1 DEF ResetFailures
  <2>q. QED  BY <2>2, EndGives DEF Same
<1>2. CASE TakeLink(r)
  BY <1>2, EndGives DEF TakeLink, Same
<1>q. QED  BY <1>1, <1>2, Changes DEF FieldsOK

\* Every step keeps LinksOK.
LEMMA LinksStep ==
  ASSUME TypeOK, KnowledgeOK, LinksOK, [Next]_vars
  PROVE  LinksOK'
<1>1. (link = "gone" => link' = "gone") /\ (reused => reused')
  <2>1. link = "gone" => link' = "gone"
    BY LinkFrame
  <2>2. reused' = reused \/ reused' = TRUE
    BY LinkFrame
  <2>q. QED  BY <2>1, <2>2
<1>2. ASSUME NEW r \in Requests, req'[r].kind = "linkSubmit", req'[r].reply = "changed"
      PROVE  link' = "gone" \/ reused'
  <2>1. CASE req'[r] = req[r]
    BY <1>1, <1>2, <2>1 DEF LinksOK
  <2>2. CASE TakeLink(r)
    BY <2>2 DEF TakeLink
  <2>q. QED  BY <1>2, <2>1, <2>2, LinkTaken
<1>3. ASSUME NEW r \in Requests, NEW s \in Requests,
             req'[r].kind = "linkSubmit", req'[r].reply = "changed", r \in req'[s].before,
             req'[s].kind = "linkSubmit"
      PROVE  req'[s].reply = "stale" \/ reused'
  <2>1. CASE Begins(s)
    <3>1. SubmitPassword(s) \/
            \E k \in {"sendReset", "forgotSubmit", "sendLogin"} \cup LoginKinds : \E l, a : Start(s, k, l, a)
      BY <2>1 DEF Begins, SendResetCode, sendForgotCode, SubmitForgotPassword, SendCode, Login
    <3>2. SubmitPassword(s)
      BY <1>3, <3>1, StartGives DEF LoginKinds
    <3>3. req'[s].before = Finished
      BY <3>2, StartGives DEF SubmitPassword
    <3>4. req'[r] = req[r]
      BY <1>3, <3>3, Changes DEF Finished, Moved
    <3>5. link = "gone" \/ reused
      BY <1>3, <3>4 DEF LinksOK
    <3>6. CASE link = "gone"
      BY <3>2, <3>6, StartGives DEF SubmitPassword
    <3>q. QED  BY <1>1, <3>5, <3>6
  <2>2. CASE ~Begins(s)
    <3>1. req'[s].kind = req[s].kind /\ req'[s].before = req[s].before
      BY <2>2, Changes DEF FieldsOK
    <3>2. req[r].pc = "done"
      BY <1>3, <3>1 DEF KnowledgeOK, Finished, At
    <3>3. req'[r] = req[r]
      BY <3>2, Changes DEF Moved, At
    <3>4. req[s].reply = "stale" \/ reused
      BY <1>3, <3>1, <3>3 DEF LinksOK, Precedes
    <3>5. CASE req[s].reply = "stale"
      <4>1. req[s].pc = "done"
        BY <3>5 DEF KnowledgeOK, Knows
      <4>q. QED  BY <3>5, <4>1, Changes DEF Moved, At
    <3>q. QED  BY <1>1, <3>4, <3>5
  <2>q. QED  BY <2>1, <2>2
<1>q. QED  BY <1>2, <1>3 DEF LinksOK, Precedes

\* A link changes a password twice only for submissions that overlapped, or when it
\* could not be taken.
THEOREM LinksAreOneTime == Spec => []LinkUsedOnce
<1>1. TypeOK /\ KnowledgeOK /\ LinksOK /\ [Next]_vars => LinksOK'
  BY LinksStep
<1>2. LinksOK => LinkUsedOnce
  BY DEF LinksOK, LinkUsedOnce
<1>q. QED  BY <1>1, <1>2, FirstPasswords, RequestsKnow, PTL DEF Spec

=============================================================================
