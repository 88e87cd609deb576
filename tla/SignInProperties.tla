--------------------------- MODULE SignInProperties ---------------------------
(* What one-time codes, the password page and the login page promise.      *)
EXTENDS LoginFlow

\* r was answered before s arrived.
Precedes(r, s) == r \in req[s].before

-----------------------------------------------------------------------------
\* One-time codes (otp_store.go).

\* The limit on guesses is read and counted in two steps, so it can be overshot,
\* but only by the other requests in flight and those that failed to count their
\* guess or to void the code.
GuessesBounded ==
  \A c \in Requests : fate[c].wrong <= MaxAttempts + MaxInFlight - 1 + fate[c].uncounted

\* A code is accepted a second time only by a request that overlapped with the
\* first, or when its deletion failed.
AcceptedOnce ==
  \A r, s \in Requests :
    (r # s /\ req[r].proved # 0 /\ req[r].proved = req[s].proved)
      => (~Precedes(r, s) \/ fate[req[r].proved].kept)

\* The newest code stays good until it expires, is accepted, or is guessed at too
\* often; only a Verify that was comparing an older code can take it away.
SentCodeStands ==
  \A p \in Purposes :
    LET c == newest[p] IN
    (c # 0 /\ (code[p] # c \/ attempts[p] >= MaxAttempts)) =>
      \/ fate[c].lapsed \/ fate[c].wrong >= MaxAttempts
      \/ \E r \in Requests : req[r].proved = c
      \/ \E r \in fate[c].readers : req[r].seen # c

\* Failures beyond the limit come only from requests let in before it was reached.
FailuresBounded ==
  \A k \in {"login", "pwreset"} : count[k] <= MaxFailures + MaxInFlight - 1

-----------------------------------------------------------------------------
\* Passwords (password_service.go, password_handler.go).

\* A password is replaced without a code only by a first setting that overlapped
\* with the one it replaces.
NoReplacementWithoutCode ==
  [][\A r \in Requests :
       (secret' = r /\ secret # r /\ secret # None /\ req[r].proved = 0)
         => (secret \in Requests /\ ~Precedes(secret, r))]_vars

\* Once a change was answered, the password it replaced opens nothing to those
\* who come later.
OldPasswordDies ==
  \A r, s \in Requests :
    (/\ req[s].reply = "changed" /\ Precedes(s, r)
     /\ req[r].kind = "passwordLogin" /\ req[r].was # None)
      => req[r].was # req[s].was

\* A link changes a password twice only for submissions that overlapped, or when
\* it could not be taken.
LinkUsedOnce ==
  \A r, s \in Requests :
    (/\ req[r].kind = "linkSubmit" /\ req[s].kind = "linkSubmit"
     /\ req[r].reply = "changed" /\ req[s].reply = "changed")
      => (~Precedes(r, s) \/ reused)

-----------------------------------------------------------------------------
\* Login (login_handler.go, code_method.go).

\* One authorization request yields one GW_CODE, for the owner of the identifier,
\* who is the one user that first sign-ins leave, however they race.
OneGrant ==
  /\ Cardinality({r \in Requests : req[r].grant # None}) <= 1
  /\ \A r \in Requests : req[r].grant \in {None, owner}
  /\ users = (IF owner = None THEN {} ELSE {owner})

\* Somebody who has proved who they are is sent away only if the authorization
\* request was used or expired, a call failed, or the registration was lost to
\* a sign-in that overlapped.
LoginNotInVain ==
  \A r \in Finished :
    (req[r].kind \in LoginKinds /\ (req[r].proved # 0 \/ req[r].was # None)) =>
      \/ req[r].grant # None
      \/ req[r].reply = "error"
      \/ req[r].reply = "stale" /\ authz \in {"taken", "expired"}
      \/ req[r].reply = "conflict" /\ owner \in Requests /\ ~Precedes(owner, r)

=============================================================================
