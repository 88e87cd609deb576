--------------------------- MODULE AccountPassword ---------------------------
(***************************************************************************)
(* The password page: setting the first password and replacing one through *)
(* a one-time link, and replacing a forgotten one by a code alone.  One    *)
(* account with one identity, one link.  A password is the request that    *)
(* submitted it; a password set before the run, and the account itself     *)
(* when it existed before, are 0.                                          *)
(*                                                                         *)
(* Decryption, policy and the choice between plaintext and ciphertext see  *)
(* the submission alone: a bad one is a free choice of the client.         *)
(***************************************************************************)
EXTENDS OneTimeCode

VARIABLES
  owner,   \* user of the row (type, identifier) in identities, or None
  secret,  \* its password, or None
  link,    \* pwlink:<t>: none, live or gone
  csrf,    \* which pages have an unspent CSRF token
  reused   \* history: whether the link outlived a success because Take failed

accountVars == <<owner, secret, link, csrf, reused>>

Pages == {"login", "link", "code"}
PageOf(k) == CASE k = "linkSubmit" -> "link"
               [] k = "forgotSubmit" -> "code"
               [] OTHER -> "login"
Page(r)   == PageOf(req[r].kind)

\* Bound: nobody opens a page that no request explored comes from.
Visited(g) == \E k \in Kinds \ SendKinds : PageOf(k) = g

AccountInit ==
  /\ owner \in {None, 0}
  /\ secret \in IF owner = None THEN {None} ELSE {None, 0}
  /\ link = "none"
  /\ csrf = [g \in Pages |-> g = "code" /\ Visited(g)]   \* somebody has it open
  /\ reused = FALSE

-----------------------------------------------------------------------------
\* Links and pages.

\* The link is not made to expire: a submission only asks for it on arrival, and
\* finds none before it is issued and after it is gone.
PasswordLink ==
  /\ owner # None /\ link = "none" /\ Visited("link")
  /\ link' = "live"
  /\ UNCHANGED <<otpVars, owner, secret, csrf, reused>>

\* A page is rendered with a new CSRF token, which replaces the one before.
Render(g) ==
  /\ ~csrf[g] /\ Visited(g)
  /\ csrf' = [csrf EXCEPT ![g] = TRUE]
  /\ UNCHANGED <<otpVars, owner, secret, link, reused>>

PasswordPage ==
  \/ link = "live" /\ Render("link")
  \/ Render("code")

\* A refused submission gets the page again.
RenderAgain(r) ==
  /\ At(r, "render") \/ (At(r, "refused") /\ req[r].kind = "codeLogin")
  /\ End(r, "form")
  /\ csrf' = [csrf EXCEPT ![Page(r)] = TRUE]
  /\ UNCHANGED <<otpStores, owner, secret, link, reused>>

-----------------------------------------------------------------------------
\* Requests for a code.

\* From the link's page, by the link.
SendResetCode(r) ==
  /\ Arrives(r, "sendReset")
  /\ IF link = "live" THEN Start(r, "sendReset", "resend", "none")
                      ELSE Start(r, "sendReset", "done", "stale")
  /\ UNCHANGED <<otpStores, accountVars>>

\* From the code page, by its CSRF token, which is not consumed; it may be an old one.
sendForgotCode(r) ==
  /\ Arrives(r, "sendReset")
  /\ \/ csrf["code"] /\ Start(r, "sendReset", "resend", "none")
     \/ Start(r, "sendReset", "done", "stale")
  /\ UNCHANGED <<otpStores, accountVars>>

-----------------------------------------------------------------------------
\* Submissions.  The token presented may be an old one.

SubmitPassword(r) ==
  /\ Arrives(r, "linkSubmit")
  /\ IF link = "live" THEN Start(r, "linkSubmit", "csrf", "none")
                      ELSE Start(r, "linkSubmit", "done", "stale")
  /\ UNCHANGED <<otpStores, accountVars>>

\* Every code page has its own token, so only the right one is consumed.
SubmitForgotPassword(r) ==
  /\ Arrives(r, "forgotSubmit")
  /\ \/ /\ csrf["code"]
        /\ Start(r, "forgotSubmit", "lock", "none")
        /\ csrf' = [csrf EXCEPT !["code"] = FALSE]
     \/ /\ Start(r, "forgotSubmit", "render", "none")
        /\ UNCHANGED csrf
  /\ UNCHANGED <<otpStores, owner, secret, link, reused>>

\* GETDEL: the stored token goes even when the one presented is another.  Past
\* it, a plaintext password where none is allowed brings the form back as well.
ConsumeCSRF(r) ==
  LET g == Page(r)
      next == CASE req[r].kind = "linkSubmit" -> "bind"
                [] req[r].kind = "codeLogin" -> "otp"
                [] OTHER -> "lock"
  IN /\ At(r, "csrf")
     /\ \/ csrf[g] /\ Goto(r, next)
        \/ Goto(r, "render")
     /\ csrf' = [csrf EXCEPT ![g] = FALSE]
     /\ UNCHANGED <<otpStores, owner, secret, link, reused>>

\* First password or replacement is decided by what the row holds now.
Binding(r) ==
  /\ At(r, "bind")
  /\ Goto(r, IF secret = None THEN "initial" ELSE "lock")
  /\ UNCHANGED <<otpStores, accountVars>>

SetInitialPassword(r) ==
  /\ At(r, "initial")
  /\ \/ secret = None /\ Goto(r, "write")
     \/ Goto(r, "render")
  /\ UNCHANGED <<otpStores, accountVars>>

CheckLock_NoCode(r) ==
  /\ At(r, "lock")
  /\ \/ ~Locked(r) /\ Goto(r, IF req[r].kind = "passwordLogin" THEN "lookup" ELSE "write")
     \/ (Locked(r) \/ req[r].kind \in ResetKinds) /\ Goto(r, "render")
  /\ UNCHANGED <<otpStores, accountVars>>

\* Locked, no code typed, or an unusable password: the form again.
CheckLock(r) ==
  /\ At(r, "lock")
  /\ \/ ~Locked(r) /\ Goto(r, IF req[r].kind = "passwordLogin" THEN "lookup" ELSE "otp")
     \/ (Locked(r) \/ req[r].kind \in ResetKinds) /\ Goto(r, "render")
  /\ UNCHANGED <<otpStores, accountVars>>

\* After the code, the forgotten password looks for the account.
ForgotPassword(r) ==
  /\ At(r, "verified") /\ req[r].kind = "forgotSubmit"
  /\ IF owner = None THEN End(r, "no account") ELSE Goto(r, "write")
  /\ UNCHANGED <<otpStores, accountVars>>

WriteAccountSecret_IfEmpty(r) ==
  /\ At(r, "write") \/ (At(r, "verified") /\ req[r].kind = "linkSubmit")
  /\ secret' = IF secret = None THEN r ELSE secret
  /\ req' = [req EXCEPT ![r].was = secret,
                        ![r].pc = IF req[r].proved = 0 THEN "spend" ELSE "clear"]
  /\ UNCHANGED <<otpStores, owner, link, csrf, reused>>

\* One UPDATE of all local identities of the user.
WriteAccountSecret(r) ==
  /\ At(r, "write") \/ (At(r, "verified") /\ req[r].kind = "linkSubmit")
  /\ secret' = r
  /\ req' = [req EXCEPT ![r].was = secret,
                        ![r].pc = IF req[r].proved = 0 THEN "spend" ELSE "clear"]
  /\ UNCHANGED <<otpStores, owner, link, csrf, reused>>

\* best effort
ResetFailures(r) ==
  /\ At(r, "clear")
  /\ IF req[r].kind = "linkSubmit" THEN Goto(r, "spend") ELSE End(r, "changed")
  /\ \/ Clear("pwreset")
     \/ "error" \in Events /\ UNCHANGED counters
  /\ UNCHANGED <<codes, newest, fate, accountVars>>

TakeLink_Peeked(r) == At(r, "spend") /\ End(r, "changed") /\ UNCHANGED <<otpStores, accountVars>>

\* The result of Take is not looked at either.
TakeLink(r) ==
  /\ At(r, "spend")
  /\ End(r, "changed")
  /\ \/ link' = "gone" /\ UNCHANGED reused
     \/ "error" \in Events /\ reused' = TRUE /\ UNCHANGED link
  /\ UNCHANGED <<otpStores, owner, secret, csrf>>

PasswordStep(r) ==
  \/ SendResetCode(r) \/ sendForgotCode(r) \/ SubmitPassword(r) \/ SubmitForgotPassword(r)
  \/ RenderAgain(r) \/ ConsumeCSRF(r)
  \/ Binding(r) \/ SetInitialPassword(r) \/ CheckLock(r)
  \/ ForgotPassword(r) \/ WriteAccountSecret(r) \/ ResetFailures(r) \/ TakeLink(r)

=============================================================================
