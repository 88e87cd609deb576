------------------------------ MODULE LoginFlow ------------------------------
(***************************************************************************)
(* The login page on top of codes and passwords: one authorization request *)
(* of a desktop client, its login page, sign-in by code (which registers   *)
(* the identifier when it is new) or by password, and the GW_CODE that     *)
(* RefreshRotation starts from.  A user is the request that registered it. *)
(*                                                                         *)
(* ResolveOrCreateBySubject finds the user both methods have just read or  *)
(* written (users are never deleted).  The virtual key that a login asks   *)
(* for in the background is round 0 of VirtualKey.                         *)
(***************************************************************************)
EXTENDS AccountPassword

VARIABLES
  authz,  \* oauth:authz:<lk>: none, live, taken or expired
  users   \* rows of users that stand for this identifier

loginVars == <<authz, users>>
vars      == <<otpVars, accountVars, loginVars>>

Init ==
  /\ OtpInit /\ AccountInit
  /\ authz = "none"
  /\ users = IF owner = None THEN {} ELSE {owner}

-----------------------------------------------------------------------------

Authorize ==
  /\ authz = "none" /\ Visited("login")
  /\ authz' = "live"
  /\ UNCHANGED <<otpVars, accountVars, users>>

AuthzExpires ==
  /\ "authz" \in Events /\ authz = "live"
  /\ authz' = "expired"
  /\ UNCHANGED <<otpVars, accountVars, users>>

LoginPage ==
  /\ authz = "live"
  /\ Render("login")
  /\ UNCHANGED loginVars

SendCode(r) ==
  /\ Arrives(r, "sendLogin")
  /\ IF authz = "live" THEN Start(r, "sendLogin", "resend", "none")
                       ELSE Start(r, "sendLogin", "done", "stale")
  /\ UNCHANGED <<otpStores, accountVars, loginVars>>

Login(r) ==
  /\ \E k \in LoginKinds :
       /\ Arrives(r, k)
       /\ IF authz = "live" THEN Start(r, k, "csrf", "none") ELSE Start(r, k, "done", "stale")
  /\ UNCHANGED <<otpStores, accountVars, loginVars>>

-----------------------------------------------------------------------------
\* Sign-in by password: the identity is read and the password compared with
\* what was read.  No account, no password and a wrong one are one failure.

ComparePassword(r) ==
  /\ At(r, "lookup")
  /\ \/ /\ secret # None
        /\ req' = [req EXCEPT ![r].pc = "unlock", ![r].was = secret, ![r].user = owner]
     \/ Goto(r, "count")
  /\ UNCHANGED <<otpStores, accountVars, loginVars>>

ResetLogin(r) ==
  /\ At(r, "unlock")
  /\ Clear("login")
  /\ Goto(r, "take")
  /\ UNCHANGED <<codes, newest, fate, accountVars, loginVars>>

\* Sign-in by code: find the identity, or register.

FindIdentity_ByUser(r) ==
  /\ At(r, "verified") /\ req[r].kind = "codeLogin"
  /\ Goto(r, "register")
  /\ UNCHANGED <<otpStores, accountVars, loginVars>>

FindIdentity(r) ==
  /\ At(r, "verified") /\ req[r].kind = "codeLogin"
  /\ req' = [req EXCEPT ![r].user = owner,
                        ![r].pc = IF owner = None THEN "register" ELSE "take"]
  /\ UNCHANGED <<otpStores, accountVars, loginVars>>

Register_NoTransaction(r) ==
  /\ At(r, "register")
  /\ users' = users \cup {r}
  /\ IF owner = None
     THEN owner' = r /\ req' = [req EXCEPT ![r].user = r, ![r].pc = "take"]
     ELSE End(r, "conflict") /\ UNCHANGED owner
  /\ UNCHANGED <<otpStores, secret, link, csrf, reused, authz>>

\* One transaction creates user and identity; (type, identifier) is unique.
Register(r) ==
  /\ At(r, "register")
  /\ IF owner = None
     THEN /\ owner' = r
          /\ users' = users \cup {r}
          /\ req' = [req EXCEPT ![r].user = r, ![r].pc = "take"]
     ELSE /\ End(r, "conflict")
          /\ UNCHANGED <<owner, users>>
  /\ UNCHANGED <<otpStores, secret, link, csrf, reused, authz>>

-----------------------------------------------------------------------------
\* Both methods: the authorization request is taken, once, for a GW_CODE.

TakeAuthz_Peeked(r) ==
  /\ At(r, "take")
  /\ IF authz = "live" THEN Goto(r, "grant") ELSE End(r, "stale")
  /\ UNCHANGED <<otpStores, accountVars, loginVars>>

TakeAuthz(r) ==
  /\ At(r, "take")
  /\ IF authz = "live" THEN authz' = "taken" /\ Goto(r, "grant")
                       ELSE UNCHANGED authz /\ End(r, "stale")
  /\ UNCHANGED <<otpStores, accountVars, users>>

IssueGWCode(r) ==
  /\ At(r, "grant")
  /\ req' = [req EXCEPT ![r].grant = req[r].user, ![r].pc = "done", ![r].reply = "signed in"]
  /\ UNCHANGED <<otpStores, accountVars, loginVars>>

LoginStep(r) ==
  \/ SendCode(r) \/ Login(r)
  \/ ComparePassword(r) \/ ResetLogin(r) \/ FindIdentity(r) \/ Register(r)
  \/ TakeAuthz(r) \/ IssueGWCode(r)

\* Every request has ended and no page or key is left to come or go.
Idle == Requests = Finished /\ UNCHANGED vars

Next ==
  \/ \E r \in Requests :
       \/ (OtpStep(r) \/ Fail(r)) /\ UNCHANGED <<accountVars, loginVars>>
       \/ PasswordStep(r) /\ UNCHANGED loginVars
       \/ LoginStep(r)
  \/ OtpExpiry /\ UNCHANGED <<accountVars, loginVars>>
  \/ /\ Begun # Requests
     /\ \/ (PasswordLink \/ PasswordPage) /\ UNCHANGED loginVars
        \/ Authorize \/ LoginPage
  \/ AuthzExpires
  \/ Idle

Spec == Init /\ [][Next]_vars
=============================================================================
