----------------------------- MODULE CodeProofs -----------------------------
(***************************************************************************)
(* Proofs about the one-time codes and the counters: that a code is good   *)
(* once, how often it can be guessed at, how often an account can be tried *)
(* and that the newest code stays good.  The arithmetic is always the      *)
(* same: what the store has counted, plus the requests that were let in    *)
(* and have yet to count, stays under a bound.                             *)
(***************************************************************************)
EXTENDS SignInProofs

-----------------------------------------------------------------------------
(* Codes. *)

\* A code is known once it was sent.
SentCode(c) == c \in Requests /\ At(c, "done") /\ req[c].kind \in SendKinds

CodesOK ==
  /\ \A p \in Purposes :
       /\ code[p] \in {0, newest[p]}
       /\ newest[p] # 0 => SentCode(newest[p]) /\ Purpose(newest[p]) = p
  /\ \A r \in Requests : req[r].seen # 0 =>
        SentCode(req[r].seen) /\ Purpose(req[r].seen) = Purpose(r)
  /\ \A r \in Requests, p \in Purposes :
       req[r].proved # 0 /\ ~fate[req[r].proved].kept => code[p] # req[r].proved
  /\ \A r, s \in Requests :
       /\ req[r].proved # 0 /\ req[r].proved = req[s].seen /\ Precedes(r, s)
       => fate[req[r].proved].kept

-----------------------------------------------------------------------------
(* Counting. *)

Comparing(c) == {r \in Requests : At(r, "attempts") /\ req[r].seen = c}
Wrong(c)     == {r \in Requests : req[r].pc \in {"miss", "void"} /\ req[r].seen = c}

Bounded(c) ==
  /\ \A p \in Purposes : code[p] = c =>
       /\ fate[c].wrong <= attempts[p] + fate[c].uncounted + Cardinality(Wrong(c))
       /\ fate[c].wrong <= MaxAttempts - 1 + fate[c].uncounted + Cardinality(Wrong(c))
  /\ (\A p \in Purposes : code[p] # c) =>
       fate[c].wrong + Cardinality(Comparing(c))
         <= MaxAttempts + MaxInFlight - 1 + fate[c].uncounted

GuessesOK ==
  /\ Cardinality(InFlight) <= MaxInFlight
  /\ \A c \in Requests : Bounded(c) /\ (fate[c].wrong # 0 => SentCode(c))

\* Requests let in before the lock, whose failure is not counted yet.
LetIn(k) ==
  {r \in Requests :
     /\ Counter(r) = k
     /\ \/ req[r].kind = "passwordLogin" /\ req[r].pc \in {"lookup", "count"}
        \/ req[r].kind \in ResetKinds /\ req[r].pc \in {"otp", "refused"} \cup Verifying}

FailuresOK ==
  \A k \in {"login", "pwreset"} :
    count[k] + Cardinality(LetIn(k)) <= MaxFailures - 1 + MaxInFlight

Missing(c) == {r \in Requests : At(r, "miss") /\ req[r].seen = c}

StandsOK ==
  \A p \in Purposes :
    LET c == newest[p] IN
    c # 0 =>
      /\ \A r \in Requests :
           req[r].pc \in Verifying /\ Purpose(r) = p /\ req[r].seen # c => r \in fate[c].readers
      /\ \A r \in fate[c].readers : req[r].seen \notin {0, c}
      /\ \/ fate[c].lapsed
         \/ \E r \in Requests : req[r].proved = c
         \/ fate[c].readers # {}
         \/ /\ code[p] # c => fate[c].wrong >= MaxAttempts
            /\ \A r \in Requests : At(r, "void") /\ req[r].seen = c => fate[c].wrong >= MaxAttempts
            /\ attempts[p] + Cardinality(Missing(c)) <= fate[c].wrong

-----------------------------------------------------------------------------
(* Who writes the codes and what became of them. *)

\* The password pages and the logins leave the codes alone.
LEMMA OthersKeepOtp ==
  ASSUME NEW r \in Requests, PasswordStep(r) \/ LoginStep(r)
  PROVE  UNCHANGED <<codes, newest, fate>>
<1> USE DEF otpStores
<1>1. CASE PasswordStep(r)
  BY <1>1 DEF PasswordStep, SendResetCode, sendForgotCode, SubmitPassword, SubmitForgotPassword,
       RenderAgain, ConsumeCSRF, Binding, SetInitialPassword, CheckLock, ForgotPassword,
       WriteAccountSecret, ResetFailures, TakeLink
<1>2. CASE LoginStep(r)
  BY <1>2 DEF LoginStep, SendCode, Login, ComparePassword, ResetLogin, FindIdentity, Register,
       TakeAuthz, IssueGWCode
<1>q. QED  BY <1>1, <1>2

\* The steps that touch a code.
CodeStep(r) == Issue(r) \/ Compare(r) \/ Accept(r) \/ Miss(r) \/ Void(r) \/ Fail(r)

\* Who changes the codes: the steps of the code store, and expiry.
LEMMA OtpFrame ==
  ASSUME [Next]_vars
  PROVE  \/ UNCHANGED <<code, attempts, newest, fate>>
         \/ \E r \in Requests : CodeStep(r)
         \/ \E p \in Purposes : CodeExpires(p)
<1> USE DEF otpStores, codes
<1>1. ASSUME NEW r \in Requests, OtpStep(r), ~CodeStep(r)
      PROVE  UNCHANGED <<code, attempts, newest, fate>>
  BY <1>1 DEF OtpStep, CodeStep, Incr, SetWindow, CanResend, ReadCode
<1>2. CASE OtpExpiry
  BY <1>2 DEF OtpExpiry, GateExpires, CounterExpires
<1>3. CASE PasswordLink \/ PasswordPage \/ Authorize \/ LoginPage \/ AuthzExpires
  BY <1>3 DEF PasswordLink, PasswordPage, LoginPage, Render, Authorize, AuthzExpires, otpVars
<1>q. QED
  BY <1>1, <1>2, <1>3, OthersKeepOtp DEF Next, Idle, vars, otpVars, CodeStep

\* The code that a Verify holds was read from the store.
LEMMA SeenIsRequest ==
  ASSUME TypeOK, KnowledgeOK, NEW r \in Requests
  PROVE  /\ req[r].seen # 0 => req[r].seen \in Requests
         /\ req[r].proved # 0 => req[r].proved \in Requests /\ req[r].proved = req[r].seen
         /\ req[r].pc \in Verifying => req[r].seen \in Requests
<1>1. req[r].seen \in Numbers
  BY DEF TypeOK, RequestType
<1>2. req[r].seen # 0 => req[r].seen \in Requests
  BY <1>1, OneTimeCodeAssumption DEF Numbers, Requests
<1>q. QED  BY <1>2 DEF KnowledgeOK, Knows

\* What ReadCode hands to the request: the code in the store, or none.
LEMMA ReadGives ==
  ASSUME TypeOK, NEW r \in Requests, ReadCode(r)
  PROVE  /\ req'[r].seen = code[Purpose(r)] /\ req[r].pc = "otp"
         /\ req'[r].kind = req[r].kind /\ req'[r].before = req[r].before
         /\ req'[r].proved = req[r].proved
         /\ req'[r].pc = IF code[Purpose(r)] = 0 THEN "refused" ELSE "attempts"
<1> DEFINE v == [req[r] EXCEPT !.seen = code[Purpose(r)],
                               !.pc = IF code[Purpose(r)] = 0 THEN "refused" ELSE "attempts"]
<1>0. req[r] \in RequestType
  BY DEF TypeOK
<1>1. req' = [req EXCEPT ![r] = v]
  BY <1>0 DEF ReadCode, TypeOK, RequestType
<1>2. req'[r] = v
  BY <1>1 DEF TypeOK
<1>3. /\ v.seen = code[Purpose(r)] /\ v.kind = req[r].kind /\ v.before = req[r].before
      /\ v.proved = req[r].proved /\ v.pc = IF code[Purpose(r)] = 0 THEN "refused" ELSE "attempts"
  BY <1>0 DEF RequestType
<1>q. QED  BY <1>2, <1>3 DEF ReadCode, At

\* What Accept hands to the request: the proof it read.
LEMMA AcceptGives ==
  ASSUME TypeOK, NEW r \in Requests, Accept(r)
  PROVE  /\ req'[r].proved = req[r].seen /\ req[r].pc = "accept" /\ req'[r].pc = "verified"
         /\ req'[r].kind = req[r].kind /\ req'[r].before = req[r].before
         /\ req'[r].seen = req[r].seen
<1> DEFINE v == [req[r] EXCEPT !.pc = "verified", !.proved = req[r].seen]
<1>0. req[r] \in RequestType
  BY DEF TypeOK
<1>1. req' = [req EXCEPT ![r] = v]
  BY <1>0 DEF Accept, TypeOK, RequestType
<1>2. req'[r] = v
  BY <1>1 DEF TypeOK
<1>3. /\ v.proved = req[r].seen /\ v.kind = req[r].kind /\ v.before = req[r].before
      /\ v.pc = "verified" /\ v.seen = req[r].seen
  BY <1>0 DEF RequestType
<1>q. QED  BY <1>2, <1>3 DEF Accept, At

\* What became of a code is never taken back.
LEMMA FateGrows ==
  ASSUME TypeOK, KnowledgeOK, [Next]_vars, NEW c \in Requests
  PROVE  /\ fate[c].kept => fate'[c].kept
         /\ fate[c].lapsed => fate'[c].lapsed
         /\ fate'[c].wrong >= fate[c].wrong
         /\ fate'[c].uncounted >= fate[c].uncounted
<1> DEFINE G == /\ fate'[c].kept = fate[c].kept \/ fate'[c].kept = TRUE
                /\ fate'[c].lapsed = fate[c].lapsed \/ fate'[c].lapsed = TRUE
                /\ fate'[c].wrong >= fate[c].wrong
                /\ fate'[c].uncounted >= fate[c].uncounted
<1>0. fate[c] \in Fates /\ fate[c].wrong \in Nat /\ fate[c].uncounted \in Nat
  BY DEF TypeOK, Fates
<1>1. ASSUME fate' = fate
      PROVE  G
  BY <1>0, <1>1
<1>2. ASSUME NEW d \in Requests, NEW R, fate' = [fate EXCEPT ![d].readers = R]
      PROVE  G
  BY <1>0, <1>2 DEF TypeOK, Fates
<1>3. ASSUME NEW d \in Requests, fate' = [fate EXCEPT ![d].wrong = @ + 1]
      PROVE  G
  BY <1>0, <1>3 DEF TypeOK, Fates
<1>4. ASSUME NEW d \in Requests, fate' = [fate EXCEPT ![d].uncounted = @ + 1]
      PROVE  G
  BY <1>0, <1>4 DEF TypeOK, Fates
<1>5. ASSUME NEW d \in Requests, fate' = [fate EXCEPT ![d].kept = TRUE]
      PROVE  G
  BY <1>0, <1>5 DEF TypeOK, Fates
<1>6. ASSUME NEW d \in Requests, fate' = [fate EXCEPT ![d].lapsed = TRUE]
      PROVE  G
  BY <1>0, <1>6 DEF TypeOK, Fates
<1>7. ASSUME NEW r \in Requests, CodeStep(r)
      PROVE  \/ fate' = fate
             \/ \E d \in Requests : \E R : fate' = [fate EXCEPT ![d].readers = R]
             \/ \E d \in Requests : \/ fate' = [fate EXCEPT ![d].wrong = @ + 1]
                                    \/ fate' = [fate EXCEPT ![d].uncounted = @ + 1]
                                    \/ fate' = [fate EXCEPT ![d].kept = TRUE]
  <2>1. CASE Issue(r)
    BY <2>1 DEF Issue
  <2>2. CASE Compare(r)
    <3>1. req[r].seen \in Requests
      BY <2>2, SeenIsRequest DEF Compare, At, Verifying
    <3>q. QED  BY <2>2, <3>1 DEF Compare
  <2>3. CASE Accept(r)
    <3>1. req[r].seen \in Requests
      BY <2>3, SeenIsRequest DEF Accept, At, Verifying
    <3>q. QED  BY <2>3, <3>1 DEF Accept
  <2>4. CASE Miss(r) \/ Void(r)
    BY <2>4 DEF Miss, Void
  <2>5. CASE Fail(r)
    <3>1. req[r].pc \in {"miss", "void"} => req[r].seen \in Requests
      BY <2>5, SeenIsRequest DEF Verifying
    <3>q. QED  BY <2>5, <3>1 DEF Fail
  <2>q. QED  BY <1>7, <2>1, <2>2, <2>3, <2>4, <2>5 DEF CodeStep
<1>8. ASSUME NEW p \in Purposes, CodeExpires(p)
      PROVE  \E d \in Requests : fate' = [fate EXCEPT ![d].lapsed = TRUE]
  <2>1. code[p] \in Requests
    BY <1>8 DEF CodeExpires, TypeOK, Numbers, Requests
  <2>q. QED  BY <1>8, <2>1 DEF CodeExpires
<1> HIDE DEF G
<1>9. G
  BY <1>1, <1>2, <1>3, <1>4, <1>5, <1>6, <1>7, <1>8, OtpFrame
<1>q. QED  BY <1>9 DEF G

-----------------------------------------------------------------------------
(* Codes. *)

\* A code that was sent stays sent.
LEMMA SentStays ==
  ASSUME TypeOK, KnowledgeOK, [Next]_vars, NEW c, SentCode(c)
  PROVE  SentCode(c)' /\ Purpose(c)' = Purpose(c) /\ req'[c] = req[c]
<1>1. req'[c] = req[c]
  BY Changes DEF SentCode, Moved
<1>q. QED  BY <1>1 DEF SentCode, At, Purpose

\* The purpose of a request is settled when it begins.
LEMMA PurposeStays ==
  ASSUME TypeOK, KnowledgeOK, [Next]_vars, NEW r \in Requests, req[r].pc # "new"
  PROVE  Purpose(r)' = Purpose(r) /\ req'[r].before = req[r].before /\ req'[r].kind = req[r].kind
<1>1. ~Begins(r)
  BY DEF Begins, SendResetCode, sendForgotCode, SubmitPassword, SubmitForgotPassword,
       SendCode, Login, Arrives, At
<1>2. req'[r].kind = req[r].kind /\ req'[r].before = req[r].before
  BY <1>1, Changes DEF FieldsOK
<1>q. QED  BY <1>2 DEF Purpose

\* What Issue stores: its own number, the newest code of the purpose.
LEMMA IssueGives ==
  ASSUME TypeOK, KnowledgeOK, [Next]_vars, NEW r \in Requests, Issue(r)
  PROVE  /\ SentCode(r)' /\ Purpose(r)' = Purpose(r) /\ ~SentCode(r)
         /\ newest' = [newest EXCEPT ![Purpose(r)] = r] /\ code' = [code EXCEPT ![Purpose(r)] = r]
<1>1. req[r].pc = "issue" /\ End(r, "sent")
  BY DEF Issue, At
<1>2. req[r].kind \in SendKinds
  BY <1>1, Routes DEF TypeOK, RequestType, KnowledgeOK, Knows
<1>3. req'[r].pc = "done" /\ req'[r].kind = req[r].kind
  BY <1>1, EndGives DEF Same
<1>q. QED  BY <1>1, <1>2, <1>3, PurposeStays DEF Issue, SentCode, At

\* Where codes come from and how they go.
LEMMA CodeFrame ==
  ASSUME TypeOK, KnowledgeOK, [Next]_vars, NEW p \in Purposes
  PROVE  \/ code'[p] \in {0, code[p]} /\ newest'[p] = newest[p]
         \/ \E r \in Requests : Issue(r) /\ Purpose(r) = p /\ code'[p] = r /\ newest'[p] = r
<1> USE PurposeType DEF TypeOK
<1>1. ASSUME NEW r \in Requests, Issue(r)
      PROVE  \/ code'[p] \in {0, code[p]} /\ newest'[p] = newest[p]
             \/ Issue(r) /\ Purpose(r) = p /\ code'[p] = r /\ newest'[p] = r
  BY <1>1, IssueGives
<1>2. ASSUME NEW r \in Requests, Accept(r)
      PROVE  code'[p] \in {0, code[p]} /\ newest'[p] = newest[p]
  BY <1>2 DEF Accept
<1>3. ASSUME NEW r \in Requests, Compare(r) \/ Miss(r) \/ Void(r) \/ Fail(r)
      PROVE  code'[p] \in {0, code[p]} /\ newest'[p] = newest[p]
  BY <1>3 DEF Compare, Miss, Void, Fail, codes
<1>4. ASSUME NEW q \in Purposes, CodeExpires(q)
      PROVE  code'[p] \in {0, code[p]} /\ newest'[p] = newest[p]
  BY <1>4 DEF CodeExpires
<1>q. QED  BY <1>1, <1>2, <1>3, <1>4, OtpFrame DEF CodeStep

\* What is proved is the number of a request.
LEMMA ProvedIsRequest ==
  ASSUME TypeOK', NEW r \in Requests, req'[r].proved # 0
  PROVE  req'[r].proved \in Requests
<1>1. req'[r].proved \in Numbers
  BY DEF TypeOK, RequestType
<1>q. QED  BY <1>1, OneTimeCodeAssumption DEF Numbers, Requests

\* Every step keeps CodesOK.
LEMMA CodesStep ==
  ASSUME TypeOK, KnowledgeOK, CodesOK, [Next]_vars
  PROVE  CodesOK'
<1>0. TypeOK' /\ KnowledgeOK'
  BY TypeStep, KnowledgeStep
<1>1. ASSUME NEW p \in Purposes
      PROVE  /\ code'[p] \in {0, newest'[p]}
             /\ newest'[p] # 0 => SentCode(newest[p])' /\ Purpose(newest[p])' = p
  <2>1. CASE code'[p] \in {0, code[p]} /\ newest'[p] = newest[p]
    BY <2>1, SentStays DEF CodesOK
  <2>2. ASSUME NEW r \in Requests, Issue(r), Purpose(r) = p, code'[p] = r, newest'[p] = r
        PROVE  SentCode(newest[p])' /\ Purpose(newest[p])' = p
    BY <2>2, IssueGives
  <2>q. QED  BY <2>1, <2>2, CodeFrame
<1>2. ASSUME NEW r \in Requests, req'[r].seen # 0
      PROVE  SentCode(req[r].seen)' /\ Purpose(req[r].seen)' = Purpose(r)'
  <2>1. CASE req'[r].seen = req[r].seen
    <3>1. SentCode(req[r].seen) /\ Purpose(req[r].seen) = Purpose(r)
      BY <1>2, <2>1 DEF CodesOK
    <3>2. req[r].pc # "new"
      BY <1>2, <2>1 DEF KnowledgeOK, Knows, Unread
    <3>q. QED  BY <2>1, <3>1, <3>2, SentStays, PurposeStays
  <2>2. CASE ReadCode(r)
    <3> DEFINE p == Purpose(r)
    <3>1. req'[r].seen = code[p] /\ p \in Purposes /\ req[r].pc # "new"
      BY <2>2, ReadGives, PurposeType
    <3>2. SentCode(code[p]) /\ Purpose(code[p]) = p
      BY <1>2, <3>1 DEF CodesOK
    <3>q. QED  BY <3>1, <3>2, SentStays, PurposeStays
  <2>q. QED  BY <2>1, <2>2, Changes DEF FieldsOK
<1>3. ASSUME NEW r \in Requests, NEW p \in Purposes, req'[r].proved # 0, ~fate'[req'[r].proved].kept
      PROVE  code'[p] # req'[r].proved
  <2> DEFINE c == req'[r].proved
  <2>0. c \in Requests
    BY <1>0, <1>3, ProvedIsRequest
  <2>1. CASE req'[r].proved = req[r].proved
    <3>1. ~fate[c].kept
      BY <1>3, <2>0, FateGrows
    <3>2. code[p] # c
      BY <1>3, <2>1, <3>1 DEF CodesOK
    <3>3. req[r].seen = c
      BY <1>3, <2>1 DEF KnowledgeOK, Knows
    <3>4. SentCode(c)
      BY <2>0, <3>3, OneTimeCodeAssumption DEF CodesOK, Requests
    <3>q. QED  BY <1>3, <2>0, <3>2, <3>4, CodeFrame, IssueGives
  <2>2. CASE Accept(r)
    <3>1. c = req[r].seen
      BY <2>2, AcceptGives
    <3>2. SentCode(c) /\ Purpose(c) = Purpose(r)
      BY <1>3, <3>1 DEF CodesOK
    <3>3. fate' # [fate EXCEPT ![c].kept = TRUE]
      BY <1>3, <2>0 DEF TypeOK, Fates
    <3>4. code' = [code EXCEPT ![Purpose(r)] = 0]
      BY <2>2, <3>1, <3>3 DEF Accept
    <3>5. CASE p = Purpose(r)
      BY <1>3, <3>4, <3>5 DEF TypeOK
    <3>6. CASE p # Purpose(r)
      <4>1. code'[p] = code[p]
        BY <3>4, <3>6 DEF TypeOK
      <4>2. code[p] = 0 \/ Purpose(code[p]) = p
        BY DEF CodesOK
      <4>q. QED  BY <1>3, <3>2, <3>6, <4>1, <4>2
    <3>q. QED  BY <3>5, <3>6
  <2>q. QED  BY <2>1, <2>2, Changes DEF FieldsOK
<1>4. ASSUME NEW r \in Requests, NEW s \in Requests,
             req'[r].proved # 0, req'[r].proved = req'[s].seen, r \in req'[s].before
      PROVE  fate'[req'[r].proved].kept
  <2>0. req'[r].proved \in Requests
    BY <1>0, <1>4, ProvedIsRequest
  <2>1. req[s].pc # "new"
    <3>1. ASSUME req[s].pc = "new"
          PROVE  req'[s].seen = 0
      <4>1. req[s].seen = 0
        BY <3>1 DEF KnowledgeOK, Knows, Unread
      <4>2. ~ReadCode(s)
        BY <3>1 DEF ReadCode, At
      <4>q. QED  BY <4>1, <4>2, Changes DEF FieldsOK
    <3>q. QED  BY <1>4, <3>1
  <2>2. req'[s].before = req[s].before /\ req[r].pc = "done"
    BY <1>4, <2>1, PurposeStays DEF KnowledgeOK, Finished, At
  <2>3. req'[r] = req[r]
    BY <2>2, Changes DEF Moved, At
  <2>4. fate[req[r].proved].kept
    <3>1. CASE req'[s].seen = req[s].seen
      BY <1>4, <2>2, <2>3, <3>1 DEF CodesOK, Precedes
    <3>2. CASE ReadCode(s)
      BY <1>4, <2>3, <3>2, ReadGives, PurposeType DEF CodesOK
    <3>q. QED  BY <3>1, <3>2, Changes DEF FieldsOK
  <2>q. QED  BY <2>0, <2>3, <2>4, FateGrows
<1>q. QED  BY <1>1, <1>2, <1>3, <1>4 DEF CodesOK, Precedes

\* CodesOK holds at the start.
LEMMA FirstCodes ==
  ASSUME Init
  PROVE  CodesOK
BY DEF Init, OtpInit, CodesOK

\* What the store holds is the newest code or none, and a code that let someone in is gone from
\* it unless its delete failed (Issue, Accept).
THEOREM CodesInvariant == Spec => []CodesOK
<1>1. TypeOK /\ KnowledgeOK /\ CodesOK /\ [Next]_vars => CodesOK'
  BY CodesStep
<1>q. QED  BY <1>1, FirstCodes, RequestsKnow, PTL DEF Spec

\* A code is accepted a second time only by a request that overlapped with the first,
\* or when its deletion failed.
THEOREM CodesAreOneTime == Spec => []AcceptedOnce
<1>1. TypeOK /\ KnowledgeOK /\ CodesOK => AcceptedOnce
  BY DEF KnowledgeOK, Knows, CodesOK, AcceptedOnce
<1>q. QED  BY <1>1, CodesInvariant, RequestsKnow, PTL

-----------------------------------------------------------------------------
(* Counting requests. *)

\* Sets of requests are finite, and a step adds or takes one member of them.
LEMMA Counting ==
  ASSUME NEW S \in SUBSET Requests, NEW T \in SUBSET Requests, NEW r
  PROVE  /\ Cardinality(S) \in Nat /\ Cardinality(T) \in Nat
         /\ T \subseteq S => Cardinality(T) <= Cardinality(S)
         /\ T \subseteq S \cup {r} => Cardinality(T) <= Cardinality(S) + 1
         /\ r \in S /\ T \subseteq S \ {r} => Cardinality(T) + 1 <= Cardinality(S)
         /\ S \cap T = {} => Cardinality(S \cup T) = Cardinality(S) + Cardinality(T)
<1>0. IsFiniteSet(Requests)
  BY FS_Interval, OneTimeCodeAssumption DEF Requests
<1>1. IsFiniteSet(S) /\ IsFiniteSet(T) /\ IsFiniteSet(S \cup {r}) /\ IsFiniteSet(S \ {r})
  BY <1>0, FS_Subset, FS_AddElement, FS_RemoveElement
<1>2. /\ Cardinality(S) \in Nat /\ Cardinality(T) \in Nat /\ Cardinality(S \cup {r}) \in Nat
      /\ Cardinality(S \ {r}) \in Nat
  BY <1>1, FS_CardinalityType
<1>3. T \subseteq S => Cardinality(T) <= Cardinality(S)
  BY <1>1, FS_Subset
<1>4. T \subseteq S \cup {r} => Cardinality(T) <= Cardinality(S) + 1
  <2>1. Cardinality(S \cup {r}) <= Cardinality(S) + 1
    BY <1>1, <1>2, FS_AddElement
  <2>2. T \subseteq S \cup {r} => Cardinality(T) <= Cardinality(S \cup {r})
    BY <1>1, FS_Subset
  <2>q. QED  BY <1>2, <2>1, <2>2
<1>5. r \in S /\ T \subseteq S \ {r} => Cardinality(T) + 1 <= Cardinality(S)
  <2>1. r \in S => Cardinality(S \ {r}) = Cardinality(S) - 1
    BY <1>1, FS_RemoveElement
  <2>2. T \subseteq S \ {r} => Cardinality(T) <= Cardinality(S \ {r})
    BY <1>1, FS_Subset
  <2>q. QED  BY <1>2, <2>1, <2>2
<1>6. S \cap T = {} => Cardinality(S \cup T) = Cardinality(S) + Cardinality(T)
  <2>1. Cardinality(S \cup T) = Cardinality(S) + Cardinality(T) - Cardinality(S \cap T)
    BY <1>1, FS_Union
  <2>2. S \cap T = {} => Cardinality(S \cap T) = 0
    BY FS_EmptySet
  <2>q. QED  BY <1>2, <2>1, <2>2
<1>q. QED  BY <1>2, <1>3, <1>4, <1>5, <1>6

Limited == Cardinality(InFlight) <= MaxInFlight

\* Every step keeps the number of requests in flight under its limit.
LEMMA LimitedStep ==
  ASSUME TypeOK, KnowledgeOK, Limited, [Next]_vars
  PROVE  Limited'
<1> DEFINE S == InFlight
           T == InFlight'
<1>0. S \in SUBSET Requests /\ T \in SUBSET Requests /\ MaxInFlight \in Nat
  BY OneTimeCodeAssumption DEF InFlight, Begun
<1>1. CASE req' = req
  BY <1>1 DEF Limited, InFlight, Begun, Finished, At
<1>2. ASSUME NEW r \in Requests, Moved(r), FieldsOK(r), ArrivalsOK(r)
      PROVE  Limited'
  <2>1. CASE Begins(r)
    <3>1. Cardinality(S) < MaxInFlight
      BY <2>1 DEF Begins, SendResetCode, sendForgotCode, SubmitPassword, SubmitForgotPassword,
         SendCode, Login, Arrives
    <3>2. T \subseteq S \cup {r}
      BY <1>2 DEF Moved, InFlight, Begun, Finished, At
    <3> HIDE DEF S, T
    <3>3. Cardinality(T) <= Cardinality(S) + 1 /\ Cardinality(T) \in Nat /\ Cardinality(S) \in Nat
      BY <1>0, <3>2, Counting
    <3>4. Cardinality(T) <= MaxInFlight
      BY <1>0, <3>1, <3>3
    <3>q. QED  BY <3>4 DEF T, Limited
  <2>2. CASE ~Begins(r) /\ req[r].pc # "new"
    <3>1. T \subseteq S
      BY <1>2, <2>2 DEF Moved, InFlight, Begun, Finished, At
    <3> HIDE DEF S, T
    <3>2. Cardinality(T) <= Cardinality(S)
      BY <1>0, <3>1, Counting
    <3>3. Cardinality(T) \in Nat /\ Cardinality(S) \in Nat
      BY <1>0, Counting
    <3>q. QED  BY <1>0, <3>2, <3>3 DEF S, T, Limited
  <2>3. CASE ~Begins(r) /\ req[r].pc = "new"
    <3>1. req'[r].kind = "none" /\ req'[r].pc # "new"
      <4>1. req[r].kind = "none"
        BY <2>3, Routes DEF TypeOK, RequestType, KnowledgeOK, Knows
      <4>q. QED  BY <1>2, <2>3, <4>1 DEF FieldsOK, ArrivalsOK
    <3>2. Knows(req'[r]) /\ req'[r] \in RequestType
      BY <1>2 DEF Moved
    <3>q. QED  BY <3>1, <3>2 DEF Knows, Route, SendKinds
  <2>q. QED  BY <2>1, <2>2, <2>3
<1>q. QED  BY <1>1, <1>2, OneActs

\* No more requests are on their way than the clients keep open.
LEMMA LimitedInvariant == Spec => []Limited
<1>1. Init => Limited
  <2> SUFFICES ASSUME Init PROVE Limited
    OBVIOUS
  <2>1. InFlight = {}
    BY DEF Init, OtpInit, InFlight, Begun, At
  <2>q. QED  BY <2>1, FS_EmptySet, OneTimeCodeAssumption DEF Limited
<1>2. TypeOK /\ KnowledgeOK /\ Limited /\ [Next]_vars => Limited'
  BY LimitedStep
<1>q. QED  BY <1>1, <1>2, RequestsKnow, PTL DEF Spec

-----------------------------------------------------------------------------
(* Failures. *)

\* A counter grows by the step that counts, by one, and otherwise is cleared or stays.
LEMMA CountFrame ==
  ASSUME TypeOK, [Next]_vars, NEW k \in Counters
  PROVE  \/ count'[k] \in {0, count[k]}
         \/ \E r \in Requests : Incr(r) /\ Counter(r) = k /\ count'[k] = count[k] + 1
<1> USE DEF counters, otpStores
<1>1. ASSUME NEW r \in Requests, Incr(r)
      PROVE  \/ count'[k] \in {0, count[k]}
             \/ Incr(r) /\ Counter(r) = k /\ count'[k] = count[k] + 1
  <2>1. count' = [count EXCEPT ![Counter(r)] = count[Counter(r)] + 1]
    BY <1>1 DEF Incr
  <2>q. QED  BY <1>1, <2>1, PurposeType DEF TypeOK
<1>2. ASSUME NEW j, Clear(j)
      PROVE  count'[k] \in {0, count[k]}
  BY <1>2 DEF Clear, TypeOK
<1>3. ASSUME NEW r \in Requests, OtpStep(r) \/ Fail(r), ~Incr(r)
      PROVE  count' = count
  BY <1>3 DEF OtpStep, SetWindow, CanResend, Issue, ReadCode, Compare, Accept, Miss, Void, Fail
<1>4. ASSUME NEW r \in Requests, PasswordStep(r), ~ResetFailures(r)
      PROVE  count' = count
  BY <1>4 DEF PasswordStep, SendResetCode, sendForgotCode, SubmitPassword, SubmitForgotPassword,
       RenderAgain, ConsumeCSRF, Binding, SetInitialPassword, CheckLock, ForgotPassword,
       WriteAccountSecret, TakeLink
<1>5. ASSUME NEW r \in Requests, LoginStep(r), ~ResetLogin(r)
      PROVE  count' = count
  BY <1>5 DEF LoginStep, SendCode, Login, ComparePassword, FindIdentity, Register, TakeAuthz,
       IssueGWCode
<1>6. ASSUME NEW r \in Requests, ResetFailures(r) \/ ResetLogin(r)
      PROVE  count'[k] \in {0, count[k]}
  BY <1>2, <1>6 DEF ResetFailures, ResetLogin
<1>7. CASE OtpExpiry
  BY <1>2, <1>7 DEF OtpExpiry, GateExpires, CodeExpires, CounterExpires
<1>8. CASE PasswordLink \/ PasswordPage \/ Authorize \/ LoginPage \/ AuthzExpires
  BY <1>8 DEF PasswordLink, PasswordPage, LoginPage, Render, Authorize, AuthzExpires, otpVars
<1>q. QED
  BY <1>1, <1>3, <1>4, <1>5, <1>6, <1>7, <1>8 DEF Next, Idle, vars, otpVars

\* Nobody is let in but where the lock is checked.
LEMMA WhoIsLetIn ==
  ASSUME TypeOK, KnowledgeOK, [Next]_vars, NEW k \in Counters, NEW r \in LetIn(k)'
  PROVE  \/ r \in LetIn(k)
         \/ CheckLock(r) /\ count[k] < MaxFailures /\ count' = count
<1> USE DEF At
<1>a. LoginKinds = {"codeLogin", "passwordLogin"} /\ "codeLogin" \notin ResetKinds /\ "passwordLogin" \notin ResetKinds
  BY DEF LoginKinds, ResetKinds
<1>0. /\ r \in Requests /\ Counter(r)' = k
      /\ \/ req'[r].kind = "passwordLogin" /\ req'[r].pc \in {"lookup", "count"}
         \/ req'[r].kind \in ResetKinds /\ req'[r].pc \in {"otp", "refused"} \cup Verifying
  BY DEF LetIn
<1>1. CASE req'[r] = req[r]
  <2>1. Counter(r)' = Counter(r)
    BY <1>1 DEF Counter
  <2>q. QED  BY <1>0, <1>1, <2>1 DEF LetIn
<1>2. CASE Acts(r) /\ Moved(r) /\ FieldsOK(r) /\ ArrivalsOK(r)
  <2>1. ~Begins(r)
    BY <1>0, <1>2 DEF ArrivalsOK, Verifying
  <2>2. req'[r].kind = req[r].kind /\ Counter(r)' = Counter(r)
    BY <1>2, <2>1 DEF FieldsOK, Counter
  <2>3. CASE CheckLock(r)
    <3>1. ~Goto(r, "render")
      BY <1>0, GotoGives DEF Verifying
    <3>2. ~Locked(r) /\ count' = count
      BY <2>3, <3>1 DEF CheckLock, otpStores, counters
    <3>3. count[k] < MaxFailures
      BY <1>0, <2>2, <3>2, OneTimeCodeAssumption DEF Locked, TypeOK
    <3>q. QED  BY <2>3, <3>2, <3>3
  <2>4. CASE req'[r].kind = "passwordLogin" /\ ~CheckLock(r)
    <3>1. req'[r].pc \in {"lookup", "count"}
      BY <1>0, <1>a, <2>4
    <3>2. CanResend(r) \/ ComparePassword(r)
      BY <1>2, <2>4, <3>1 DEF ArrivalsOK
    <3>3. req[r].pc # "resend"
      <4>1. req[r] \in RequestType /\ Knows(req[r])
        BY <1>0 DEF TypeOK, KnowledgeOK
      <4>3. req[r].kind \in AllKinds \cup {"none"} /\ req[r].pc \in Route(req[r].kind)
        BY <4>1 DEF RequestType, Knows
      <4>2. "passwordLogin" \notin SendKinds
        BY DEF SendKinds
      <4>q. QED  BY <2>2, <2>4, <4>2, <4>3, Routes
    <3>q. QED  BY <1>0, <2>2, <2>4, <3>2, <3>3 DEF CanResend, ComparePassword, LetIn
  <2>5. CASE req'[r].kind \in ResetKinds /\ ~CheckLock(r)
    <3>1. req'[r].pc \in {"otp", "refused"} \cup Verifying
      BY <1>0, <1>a, <2>5
    <3>2. ConsumeCSRF(r) \/ ReadCode(r) \/ Compare(r) \/ Miss(r) \/ Void(r)
      BY <1>2, <2>5, <3>1 DEF ArrivalsOK, Verifying
    <3>3. CASE ConsumeCSRF(r)
      <4>1. PICK l \in {"bind", "lock", "render"} : Goto(r, l)
        BY <1>a, <2>2, <2>5, <3>3 DEF ConsumeCSRF
      <4>2. req'[r].pc = l
        BY <1>0, <4>1, GotoGives
      <4>q. QED  BY <3>1, <4>2 DEF Verifying
    <3>4. CASE ~ConsumeCSRF(r)
      <4>1. req[r].pc \in {"otp"} \cup Verifying
        BY <3>2, <3>4 DEF ReadCode, Compare, Miss, Void, Verifying
      <4>q. QED  BY <1>0, <2>2, <2>5, <4>1 DEF LetIn
    <3>q. QED  BY <3>3, <3>4
  <2>q. QED  BY <1>0, <2>3, <2>4, <2>5
<1>q. QED  BY <1>0, <1>1, <1>2, Changes

\* Who counts its failure was let in, and is done with it.
LEMMA CountedOut ==
  ASSUME TypeOK, KnowledgeOK, [Next]_vars, NEW k \in {"login", "pwreset"},
         NEW r \in Requests, Incr(r), Counter(r) = k
  PROVE  r \in LetIn(k) /\ r \notin LetIn(k)'
<1> USE DEF At
<1>1. req[r].kind \in AllKinds \cup {"none"} /\ req[r].pc \in Route(req[r].kind)
  BY DEF TypeOK, RequestType, KnowledgeOK, Knows
<1>2. req[r].kind \notin SendKinds
  BY DEF Counter, SendKinds
<1>3. req[r].pc \in {"count", "refused"} /\ (req[r].pc = "refused" => req[r].kind \in ResetKinds)
  BY DEF Incr
<1>4. req[r].pc = "count" => req[r].kind = "passwordLogin"
  BY <1>1, <1>2, Routes
<1>5. r \in LetIn(k)
  BY <1>3, <1>4 DEF LetIn
<1>6. req'[r].pc \notin {"lookup", "count", "otp", "refused"} \cup Verifying
  BY <1>2, GotoGives DEF Incr, AfterCount, Verifying
<1>q. QED  BY <1>5, <1>6 DEF LetIn

\* Every step keeps FailuresOK.
LEMMA FailuresStep ==
  ASSUME TypeOK, KnowledgeOK, Limited, FailuresOK, [Next]_vars
  PROVE  FailuresOK'
<1> SUFFICES ASSUME NEW k \in {"login", "pwreset"}
             PROVE  count'[k] + Cardinality(LetIn(k)') <= MaxFailures - 1 + MaxInFlight
  BY DEF FailuresOK
<1> DEFINE S == LetIn(k)
           T == LetIn(k)'
           I == InFlight'
<1>0. k \in Counters /\ count[k] \in Nat /\ count'[k] \in Nat
  BY TypeStep DEF TypeOK, Counters
<1>1. S \in SUBSET Requests /\ T \in SUBSET Requests /\ I \in SUBSET Requests
  BY DEF LetIn, InFlight, Begun
<1>2. T \subseteq I
  BY DEF LetIn, InFlight, Begun, Finished, At, Verifying
<1>3. Cardinality(I) <= MaxInFlight
  BY LimitedStep DEF Limited
<1>4. count[k] + Cardinality(S) <= MaxFailures - 1 + MaxInFlight
  BY DEF FailuresOK
<1>5. /\ T \subseteq S \/ (count[k] < MaxFailures /\ count'[k] = count[k])
      /\ \/ count'[k] \in {0, count[k]}
         \/ \E r \in S : r \notin T /\ count'[k] = count[k] + 1
  <2>1. T \subseteq S \/ (count[k] < MaxFailures /\ count'[k] = count[k])
    BY <1>0, WhoIsLetIn
  <2>q. QED  BY <1>0, <2>1, CountFrame, CountedOut
<1> HIDE DEF S, T, I
<1>6. /\ Cardinality(S) \in Nat /\ Cardinality(T) \in Nat /\ Cardinality(I) \in Nat
      /\ MaxFailures \in Nat \ {0} /\ MaxInFlight \in Nat
  BY <1>1, Counting, OneTimeCodeAssumption
<1>7. Cardinality(T) <= MaxInFlight
  BY <1>1, <1>2, <1>3, <1>6, Counting
<1>8. CASE count'[k] = 0 \/ (count[k] < MaxFailures /\ count'[k] = count[k])
  BY <1>0, <1>6, <1>7, <1>8 DEF T
<1>9. CASE T \subseteq S /\ count'[k] = count[k]
  <2>1. Cardinality(T) <= Cardinality(S)
    BY <1>1, <1>9, Counting
  <2>q. QED  BY <1>0, <1>4, <1>6, <1>9, <2>1 DEF T
<1>10. ASSUME NEW r \in S, r \notin T, T \subseteq S, count'[k] = count[k] + 1
       PROVE  count'[k] + Cardinality(T) <= MaxFailures - 1 + MaxInFlight
  <2>1. Cardinality(T) + 1 <= Cardinality(S)
    BY <1>1, <1>10, Counting
  <2>q. QED  BY <1>0, <1>4, <1>6, <1>10, <2>1
<1>q. QED  BY <1>0, <1>5, <1>8, <1>9, <1>10 DEF T

\* Failures beyond the limit come only from requests let in before it was reached.
THEOREM FailuresAreBounded == Spec => []FailuresBounded
<1>1. Init => FailuresOK
  <2> SUFFICES ASSUME Init, NEW k \in {"login", "pwreset"}
               PROVE  count[k] + Cardinality(LetIn(k)) <= MaxFailures - 1 + MaxInFlight
    BY DEF FailuresOK
  <2>1. LetIn(k) = {} /\ count[k] = 0
    BY DEF Init, OtpInit, LetIn, Counters, ResetKinds
  <2>q. QED  BY <2>1, FS_EmptySet, OneTimeCodeAssumption
<1>2. TypeOK /\ KnowledgeOK /\ Limited /\ FailuresOK /\ [Next]_vars => FailuresOK'
  BY FailuresStep
<1>3. TypeOK /\ FailuresOK => FailuresBounded
  <2> SUFFICES ASSUME TypeOK, FailuresOK, NEW k \in {"login", "pwreset"}
               PROVE  count[k] <= MaxFailures + MaxInFlight - 1
    BY DEF FailuresBounded
  <2>1. LetIn(k) \in SUBSET Requests /\ count[k] \in Nat
    BY DEF LetIn, TypeOK, Counters
  <2>2. Cardinality(LetIn(k)) \in Nat
    BY <2>1, Counting
  <2>3. count[k] + Cardinality(LetIn(k)) <= MaxFailures - 1 + MaxInFlight
    BY DEF FailuresOK
  <2>q. QED  BY <2>1, <2>2, <2>3, OneTimeCodeAssumption
<1>q. QED  BY <1>1, <1>2, <1>3, LimitedInvariant, RequestsKnow, PTL DEF Spec

-----------------------------------------------------------------------------
(* Guesses. *)

\* Within Verify there are only these steps.
LEMMA VerifyActs ==
  ASSUME NEW r \in Requests, Acts(r), req[r].pc \in Verifying
  PROVE  Compare(r) \/ Accept(r) \/ Miss(r) \/ Void(r) \/ Fail(r)
BY DEF Acts, OtpStep, PasswordStep, LoginStep, Incr, SetWindow, CanResend, Issue, ReadCode, Compare,
       SendResetCode, sendForgotCode, SubmitPassword, SubmitForgotPassword,
       Arrives, RenderAgain, ConsumeCSRF, Binding, SetInitialPassword, CheckLock, ForgotPassword,
       WriteAccountSecret, ResetFailures, TakeLink, SendCode, Login, ComparePassword, ResetLogin,
       FindIdentity, Register, TakeAuthz, IssueGWCode, At, Verifying

\* Who joins or leaves those that compare with c, or have found it wrong.
LEMMA VerifySets ==
  ASSUME TypeOK, KnowledgeOK, [Next]_vars, NEW c \in Requests, NEW r \in Requests
  PROVE  /\ r \in Wrong(c)' /\ r \notin Wrong(c) => Compare(r) /\ req[r].seen = c /\ req'[r].pc = "miss"
         /\ r \in Missing(c)' /\ r \notin Missing(c) => Compare(r) /\ req[r].seen = c /\ req'[r].pc = "miss"
         /\ r \in Wrong(c) /\ r \notin Wrong(c)' =>
              Void(r) \/ Fail(r) \/ (Miss(r) /\ req'[r].pc = "refused")
         /\ r \in Comparing(c)' /\ r \notin Comparing(c) => ReadCode(r) /\ code[Purpose(r)] = c
<1> USE DEF At
<1>1. CASE req'[r] = req[r]
  BY <1>1 DEF Wrong, Missing, Comparing
<1>2. CASE Acts(r) /\ Moved(r) /\ FieldsOK(r) /\ ArrivalsOK(r)
  <2>1. CASE ReadCode(r)
    BY <2>1, ReadGives DEF Wrong, Missing, Comparing
  <2>2. CASE ~ReadCode(r)
    <3>1. req'[r].seen = req[r].seen
      BY <1>2, <2>2 DEF FieldsOK
    <3>2. req'[r].pc # "attempts" /\ (req'[r].pc = "miss" => Compare(r)) /\ (req'[r].pc = "void" => Miss(r))
      BY <1>2, <2>2 DEF ArrivalsOK
    <3>3. Miss(r) => req[r].pc = "miss" /\ req'[r].pc \in {"void", "refused"}
      BY GotoGives DEF Miss
    <3>4. req[r].pc \in {"miss", "void"} => Miss(r) \/ Void(r) \/ Fail(r)
      BY <1>2, VerifyActs DEF Verifying, Compare, Accept
    <3>q. QED  BY <3>1, <3>2, <3>3, <3>4 DEF Wrong, Missing, Comparing
  <2>q. QED  BY <2>1, <2>2
<1>q. QED  BY <1>1, <1>2, Changes

\* Comparing is counted when the guess is wrong.
LEMMA CompareGives ==
  ASSUME TypeOK, KnowledgeOK, NEW r \in Requests, Compare(r), NEW c \in Requests
  PROVE  /\ req[r].seen \in Requests /\ req[r].pc = "attempts" /\ req'[r].seen = req[r].seen
         /\ req'[r].pc \in {"refused", "accept", "miss"}
         /\ fate'[c].uncounted = fate[c].uncounted
         /\ fate'[c].wrong = IF req'[r].pc = "miss" /\ req[r].seen = c
                             THEN fate[c].wrong + 1 ELSE fate[c].wrong
<1>1. req[r].seen \in Requests /\ req[r].pc = "attempts"
  BY SeenIsRequest DEF Compare, At, Verifying
<1>2. CASE (Goto(r, "refused") \/ Goto(r, "accept")) /\ fate' = fate
  BY <1>1, <1>2, GotoGives DEF Same
<1>3. CASE Goto(r, "miss") /\ fate' = [fate EXCEPT ![req[r].seen].wrong = @ + 1]
  <2>1. req'[r].pc = "miss" /\ req'[r].seen = req[r].seen
    BY <1>3, GotoGives DEF Same
  <2>2. CASE c = req[r].seen
    BY <1>1, <1>3, <2>1, <2>2 DEF TypeOK, Fates
  <2>3. CASE c # req[r].seen
    BY <1>1, <1>3, <2>1, <2>3 DEF TypeOK, Fates
  <2>q. QED  BY <2>2, <2>3
<1>q. QED  BY <1>2, <1>3 DEF Compare

\* What a failure hands to the request: an error, and an uncounted guess if it was to be counted.
LEMMA FailGives ==
  ASSUME TypeOK, KnowledgeOK, NEW r \in Requests, Fail(r), NEW c \in Requests
  PROVE  /\ code' = code /\ attempts' = attempts /\ newest' = newest /\ req'[r].pc = "done"
         /\ fate'[c].wrong = fate[c].wrong
         /\ fate'[c].uncounted = IF req[r].pc \in {"miss", "void"} /\ req[r].seen = c
                                 THEN fate[c].uncounted + 1 ELSE fate[c].uncounted
<1>1. code' = code /\ attempts' = attempts /\ newest' = newest /\ req'[r].pc = "done"
  BY EndGives DEF Fail, codes
<1>2. CASE req[r].pc \in {"miss", "void"}
  <2>1. req[r].seen \in Requests
    BY <1>2, SeenIsRequest DEF Verifying
  <2>2. fate' = [fate EXCEPT ![req[r].seen].uncounted = @ + 1]
    BY <1>2 DEF Fail
  <2>3. CASE c = req[r].seen
    BY <1>1, <1>2, <2>1, <2>2, <2>3 DEF TypeOK, Fates
  <2>4. CASE c # req[r].seen
    BY <1>1, <1>2, <2>1, <2>2, <2>4 DEF TypeOK, Fates
  <2>q. QED  BY <2>3, <2>4
<1>3. CASE req[r].pc \notin {"miss", "void"}
  BY <1>1, <1>3 DEF Fail
<1>q. QED  BY <1>2, <1>3

\* The other steps leave the number of guesses alone.
LEMMA FateKept ==
  ASSUME TypeOK, KnowledgeOK, [Next]_vars, NEW c \in Requests,
         ~ \E r \in Requests : Compare(r) \/ Fail(r)
  PROVE  fate'[c].wrong = fate[c].wrong /\ fate'[c].uncounted = fate[c].uncounted
<1>1. ASSUME NEW r \in Requests, Issue(r)
      PROVE  fate'[c].wrong = fate[c].wrong /\ fate'[c].uncounted = fate[c].uncounted
  BY <1>1 DEF Issue, TypeOK, Fates
<1>2. ASSUME NEW r \in Requests, Accept(r)
      PROVE  fate'[c].wrong = fate[c].wrong /\ fate'[c].uncounted = fate[c].uncounted
  <2>1. req[r].seen \in Requests
    BY <1>2, SeenIsRequest DEF Accept, At, Verifying
  <2>2. fate' = fate \/ fate' = [fate EXCEPT ![req[r].seen].kept = TRUE]
    BY <1>2 DEF Accept
  <2>3. CASE fate' = [fate EXCEPT ![req[r].seen].kept = TRUE]
    BY <2>1, <2>3 DEF TypeOK, Fates
  <2>q. QED  BY <2>2, <2>3
<1>3. ASSUME NEW r \in Requests, Miss(r) \/ Void(r)
      PROVE  fate'[c].wrong = fate[c].wrong /\ fate'[c].uncounted = fate[c].uncounted
  BY <1>3 DEF Miss, Void
<1>4. ASSUME NEW p \in Purposes, CodeExpires(p)
      PROVE  fate'[c].wrong = fate[c].wrong /\ fate'[c].uncounted = fate[c].uncounted
  <2>1. code[p] \in Requests
    BY <1>4 DEF CodeExpires, TypeOK, Numbers, Requests
  <2>q. QED  BY <1>4, <2>1 DEF CodeExpires, TypeOK, Fates
<1>q. QED  BY <1>1, <1>2, <1>3, <1>4, OtpFrame DEF CodeStep

\* However far the guessing has come, those that still compare are within the limit.
LEMMA Slack ==
  ASSUME TypeOK, Limited, NEW c \in Requests, Bounded(c)
  PROVE  /\ fate[c].wrong + Cardinality(Comparing(c))
              <= MaxAttempts + MaxInFlight - 1 + fate[c].uncounted
         /\ Cardinality(Comparing(c)) \in Nat /\ Cardinality(Wrong(c)) \in Nat
         /\ fate[c].wrong \in Nat /\ fate[c].uncounted \in Nat
<1>0. fate[c] \in Fates
  BY DEF TypeOK
<1>1. fate[c].wrong \in Nat /\ fate[c].uncounted \in Nat
  BY <1>0 DEF Fates
<1>2. /\ Comparing(c) \in SUBSET Requests /\ Wrong(c) \in SUBSET Requests
      /\ InFlight \in SUBSET Requests /\ Comparing(c) \cup Wrong(c) \in SUBSET Requests
      /\ Comparing(c) \cap Wrong(c) = {} /\ Comparing(c) \cup Wrong(c) \subseteq InFlight
  BY DEF Comparing, Wrong, InFlight, Begun, Finished, At
<1>3. Cardinality(Comparing(c)) + Cardinality(Wrong(c)) <= MaxInFlight
  <2>1. Cardinality(Comparing(c) \cup Wrong(c)) <= Cardinality(InFlight)
    BY <1>2, Counting
  <2>2. Cardinality(Comparing(c) \cup Wrong(c)) = Cardinality(Comparing(c)) + Cardinality(Wrong(c))
    BY <1>2, Counting
  <2>3. Cardinality(Comparing(c) \cup Wrong(c)) \in Nat /\ Cardinality(InFlight) \in Nat
    BY <1>2, Counting
  <2>q. QED  BY <2>1, <2>2, <2>3, OneTimeCodeAssumption DEF Limited
<1>4. Cardinality(Comparing(c)) \in Nat /\ Cardinality(Wrong(c)) \in Nat
  BY <1>2, Counting
<1>5. CASE \E p \in Purposes : code[p] = c
  <2>1. fate[c].wrong <= MaxAttempts - 1 + fate[c].uncounted + Cardinality(Wrong(c))
    BY <1>5 DEF Bounded
  <2>q. QED  BY <1>1, <1>3, <1>4, <2>1, OneTimeCodeAssumption
<1>6. CASE \A p \in Purposes : code[p] # c
  BY <1>1, <1>4, <1>6 DEF Bounded
<1>q. QED  BY <1>5, <1>6

\* Where c is the code before and after: its guesses stay counted.
LEMMA CurrentStep ==
  ASSUME TypeOK, KnowledgeOK, CodesOK, [Next]_vars, NEW c \in Requests, Bounded(c),
         NEW p \in Purposes, code[p] = c, code'[p] = c
  PROVE  /\ fate'[c].wrong <= attempts'[p] + fate'[c].uncounted + Cardinality(Wrong(c)')
         /\ fate'[c].wrong <= MaxAttempts - 1 + fate'[c].uncounted + Cardinality(Wrong(c)')
<1> DEFINE W == Wrong(c)
           V == Wrong(c)'
           G == /\ fate'[c].wrong <= attempts'[p] + fate'[c].uncounted + Cardinality(V)
                /\ fate'[c].wrong <= MaxAttempts - 1 + fate'[c].uncounted + Cardinality(V)
<1>a. /\ fate[c].wrong <= attempts[p] + fate[c].uncounted + Cardinality(W)
      /\ fate[c].wrong <= MaxAttempts - 1 + fate[c].uncounted + Cardinality(W)
  BY DEF Bounded
<1>b. W \in SUBSET Requests /\ V \in SUBSET Requests
  BY DEF Wrong
<1>c. Cardinality(W) \in Nat /\ Cardinality(V) \in Nat
  BY <1>b, Counting
<1>d. /\ fate[c].wrong \in Nat /\ fate[c].uncounted \in Nat /\ attempts[p] \in Nat
      /\ MaxAttempts \in Nat \ {0}
  <2>1. fate[c] \in Fates
    BY DEF TypeOK
  <2>q. QED  BY <2>1, OneTimeCodeAssumption DEF TypeOK, Fates
<1>e. Purpose(c) = p /\ c # 0 /\ c = newest[p]
  BY OneTimeCodeAssumption DEF CodesOK, Requests
<1>f. ASSUME NEW r \in Requests, req'[r] # req[r]
      PROVE  W \ {r} \subseteq V
  BY <1>f, OneActs DEF Wrong, Moved, At
<1>g. ASSUME NEW r \in Requests, req[r].seen = c
      PROVE  Purpose(r) = p
  BY <1>e, <1>g DEF CodesOK
<1>h. (\A r \in Requests : r \in W => r \in V) => Cardinality(W) <= Cardinality(V)
  BY <1>b, Counting
<1> HIDE DEF W, V
<1>k. ASSUME \A r \in Requests : r \in W => r \in V,
             fate'[c].wrong = fate[c].wrong, fate'[c].uncounted = fate[c].uncounted,
             attempts'[p] \in Nat, attempts'[p] >= attempts[p]
      PROVE  G
  BY <1>a, <1>c, <1>d, <1>h, <1>k
<1>1. ASSUME NEW r \in Requests, Compare(r)
      PROVE  G
  <2>0. req'[r] # req[r] /\ attempts' = attempts
    BY <1>1, CompareGives DEF Compare, codes
  <2>1. CASE req'[r].pc = "miss" /\ req[r].seen = c
    <3>1. fate'[c].wrong = fate[c].wrong + 1 /\ fate'[c].uncounted = fate[c].uncounted
      BY <1>1, <2>1, CompareGives
    <3>2. r \notin W /\ r \in V
      BY <1>1, <2>1, CompareGives DEF W, V, Wrong
    <3>3. W \subseteq V \ {r}
      BY <1>f, <2>0, <3>2
    <3>4. Cardinality(W) + 1 <= Cardinality(V)
      BY <1>b, <3>2, <3>3, Counting
    <3>q. QED  BY <1>a, <1>c, <1>d, <2>0, <3>1, <3>4
  <2>2. CASE ~(req'[r].pc = "miss" /\ req[r].seen = c)
    <3>1. fate'[c].wrong = fate[c].wrong /\ fate'[c].uncounted = fate[c].uncounted
      BY <1>1, <2>2, CompareGives
    <3>2. r \notin W
      BY <1>1, CompareGives DEF W, Wrong
    <3>q. QED  BY <1>d, <1>f, <1>k, <2>0, <3>1, <3>2
  <2>q. QED  BY <2>1, <2>2
<1>2. ASSUME NEW r \in Requests, Fail(r)
      PROVE  G
  <2>0. req'[r] # req[r] /\ attempts' = attempts /\ fate'[c].wrong = fate[c].wrong
    BY <1>2, FailGives DEF Fail, InFlight, Finished, At
  <2>1. CASE r \in W
    <3>1. fate'[c].uncounted = fate[c].uncounted + 1
      BY <1>2, <2>1, FailGives DEF W, Wrong
    <3>2. W \subseteq V \cup {r}
      BY <1>f, <2>0, <1>b
    <3>3. Cardinality(W) <= Cardinality(V) + 1
      BY <1>b, <3>2, Counting
    <3>q. QED  BY <1>a, <1>c, <1>d, <2>0, <3>1, <3>3
  <2>2. CASE r \notin W
    <3>1. fate'[c].uncounted = fate[c].uncounted
      BY <1>2, <2>2, FailGives DEF W, Wrong
    <3>q. QED  BY <1>d, <1>f, <1>k, <2>0, <2>2, <3>1
  <2>q. QED  BY <2>1, <2>2
<1>3. ASSUME NEW r \in Requests, Miss(r), req'[r].pc = "refused",
             ~ \E s \in Requests : Compare(s) \/ Fail(s)
      PROVE  G
  <2>0. fate'[c].wrong = fate[c].wrong /\ fate'[c].uncounted = fate[c].uncounted
    BY <1>3, FateKept
  <2>1. req[r].pc = "miss" /\ attempts' = [attempts EXCEPT ![Purpose(r)] = @ + 1]
    BY <1>3 DEF Miss, At
  <2>2. CASE r \in W
    <3>1. Purpose(r) = p
      BY <1>g, <2>2 DEF W, Wrong
    <3>2. attempts'[p] = attempts[p] + 1
      BY <2>1, <3>1 DEF TypeOK
    <3>3. attempts[p] + 1 < MaxAttempts
      <4>1. ~Goto(r, "void")
        BY <1>3, GotoGives
      <4>2. ~(attempts[p] + 1 >= MaxAttempts)
        BY <1>3, <3>1, <4>1 DEF Miss
      <4>q. QED  BY <1>d, <4>2
    <3>4. W \subseteq V \cup {r}
      BY <1>3, <1>f, <2>1
    <3>5. Cardinality(W) <= Cardinality(V) + 1
      BY <1>b, <3>4, Counting
    <3>q. QED  BY <1>a, <1>c, <1>d, <2>0, <3>2, <3>3, <3>5
  <2>3. CASE r \notin W
    <3>1. attempts'[p] \in Nat /\ attempts'[p] >= attempts[p]
      BY <1>d, <2>1, PurposeType DEF TypeOK
    <3>2. \A s \in Requests : s \in W => s \in V
      BY <1>3, <1>f, <2>1, <2>3
    <3>q. QED  BY <1>k, <2>0, <3>1, <3>2
  <2>q. QED  BY <2>2, <2>3
<1>4. ASSUME NEW r \in Requests, Void(r), ~ \E s \in Requests : Compare(s) \/ Fail(s)
      PROVE  G
  <2>0. fate'[c].wrong = fate[c].wrong /\ fate'[c].uncounted = fate[c].uncounted
    BY <1>4, FateKept
  <2>1. attempts' = attempts /\ code' = [code EXCEPT ![Purpose(r)] = 0] /\ req[r].pc = "void"
    BY <1>4 DEF Void, At
  <2>2. Purpose(r) # p
    BY <1>e, <2>1 DEF TypeOK
  <2>3. r \notin W
    BY <1>g, <2>2 DEF W, Wrong
  <2>4. req'[r] # req[r]
    BY <1>4, <2>1, GotoGives DEF Void
  <2>q. QED  BY <1>d, <1>f, <1>k, <2>0, <2>1, <2>3, <2>4
<1>5. ASSUME ~ \E s \in Requests : Compare(s) \/ Fail(s) \/ Void(s) \/ (Miss(s) /\ req'[s].pc = "refused")
      PROVE  G
  <2>0. fate'[c].wrong = fate[c].wrong /\ fate'[c].uncounted = fate[c].uncounted
    BY <1>5, FateKept
  <2>1. \A r \in Requests : r \in W => r \in V
    BY <1>5, VerifySets DEF W, V
  <2>2. attempts'[p] \in Nat /\ attempts'[p] >= attempts[p]
    <3>1. ASSUME NEW r \in Requests, Issue(r) \/ Accept(r)
          PROVE  attempts'[p] = attempts[p]
      <4>1. \/ attempts' = attempts
            \/ attempts' = [attempts EXCEPT ![Purpose(r)] = 0] /\ code'[Purpose(r)] \in {0, r}
        BY <3>1, PurposeType DEF Issue, Accept, TypeOK
      <4>2. Purpose(r) = p => code'[Purpose(r)] # r \/ ~Issue(r)
        BY <1>e, IssueGives DEF CodesOK
      <4>3. Accept(r) => attempts' = attempts \/ code'[Purpose(r)] = 0
        BY PurposeType DEF Accept, TypeOK
      <4>q. QED  BY <1>e, <3>1, <4>1, <4>2, <4>3 DEF TypeOK
    <3>2. ASSUME NEW r \in Requests, Miss(r)
          PROVE  attempts'[p] \in {attempts[p], attempts[p] + 1}
      BY <3>2, PurposeType DEF Miss, TypeOK
    <3>3. ASSUME NEW q \in Purposes, CodeExpires(q)
          PROVE  attempts'[p] = attempts[p]
      BY <1>e, <3>3 DEF CodeExpires, TypeOK
    <3>4. attempts'[p] \in {attempts[p], attempts[p] + 1}
      BY <1>5, <3>1, <3>2, <3>3, OtpFrame DEF CodeStep
    <3>q. QED  BY <1>d, <3>4
  <2>q. QED  BY <1>k, <2>0, <2>1, <2>2
<1>q. QED  BY <1>1, <1>2, <1>3, <1>4, <1>5 DEF V

\* Every step keeps GuessesOK.
LEMMA GuessesStep ==
  ASSUME TypeOK, KnowledgeOK, CodesOK, GuessesOK, [Next]_vars
  PROVE  GuessesOK'
<1>0. Limited /\ Limited'
  BY LimitedStep DEF GuessesOK, Limited
<1>1. ASSUME NEW c \in Requests, fate'[c].wrong # 0
      PROVE  SentCode(c)'
  <2>1. CASE fate'[c].wrong = fate[c].wrong
    BY <1>1, <2>1, SentStays DEF GuessesOK
  <2>2. CASE fate'[c].wrong # fate[c].wrong
    <3>1. PICK r \in Requests : Compare(r) /\ req[r].seen = c
      <4>1. PICK r \in Requests : Compare(r) \/ Fail(r)
        BY <2>2, FateKept
      <4>q. QED  BY <2>2, <4>1, CompareGives, FailGives
    <3>2. SentCode(c)
      BY <3>1, OneTimeCodeAssumption DEF CodesOK, Requests
    <3>q. QED  BY <3>2, SentStays
  <2>q. QED  BY <2>1, <2>2
<1>2. ASSUME NEW c \in Requests, NEW p \in Purposes, code'[p] = c
      PROVE  /\ fate'[c].wrong <= attempts'[p] + fate'[c].uncounted + Cardinality(Wrong(c)')
             /\ fate'[c].wrong <= MaxAttempts - 1 + fate'[c].uncounted + Cardinality(Wrong(c)')
  <2>1. CASE code[p] = c
    BY <1>2, <2>1, CurrentStep DEF GuessesOK
  <2>2. CASE code[p] # c
    <3>1. Issue(c)
      BY <1>2, <2>2, CodeFrame, OneTimeCodeAssumption DEF Requests
    <3>2. ~SentCode(c) /\ SentCode(c)'
      BY <3>1, IssueGives
    <3>3. fate[c].wrong = 0
      BY <3>2 DEF GuessesOK
    <3>4. fate'[c].wrong = fate[c].wrong
      BY <3>1 DEF Issue, TypeOK, Fates
    <3>5. fate'[c] \in Fates /\ attempts'[p] \in Nat
      BY TypeStep DEF TypeOK
    <3>6. Wrong(c)' \in SUBSET Requests
      BY DEF Wrong
    <3>7. Cardinality(Wrong(c)') \in Nat
      BY <3>6, Counting
    <3>q. QED  BY <3>3, <3>4, <3>5, <3>7, OneTimeCodeAssumption DEF Fates
  <2>q. QED  BY <2>1, <2>2
<1>3. ASSUME NEW c \in Requests, \A p \in Purposes : code'[p] # c
      PROVE  fate'[c].wrong + Cardinality(Comparing(c)')
               <= MaxAttempts + MaxInFlight - 1 + fate'[c].uncounted
  <2> DEFINE C == Comparing(c)
             D == Comparing(c)'
  <2>0. /\ fate[c].wrong + Cardinality(C) <= MaxAttempts + MaxInFlight - 1 + fate[c].uncounted
        /\ Cardinality(C) \in Nat /\ fate[c].wrong \in Nat /\ fate[c].uncounted \in Nat
        /\ MaxAttempts \in Nat /\ MaxInFlight \in Nat
    BY <1>0, Slack, OneTimeCodeAssumption DEF GuessesOK
  <2>1. C \in SUBSET Requests /\ D \in SUBSET Requests
    BY DEF Comparing
  <2>2. D \subseteq C
    <3>1. ASSUME NEW r \in Requests, r \in D, r \notin C
          PROVE  FALSE
      <4>1. ReadCode(r) /\ code[Purpose(r)] = c
        BY <3>1, VerifySets
      <4>q. QED  BY <1>3, <4>1, PurposeType DEF ReadCode, otpStores, codes
    <3>q. QED  BY <2>1, <3>1
  <2>3. Cardinality(D) \in Nat
    BY <2>1, Counting
  <2>4. fate'[c] \in Fates
    BY TypeStep DEF TypeOK
  <2> DEFINE G == fate'[c].wrong + Cardinality(D) <= MaxAttempts + MaxInFlight - 1 + fate'[c].uncounted
  <2>5. ASSUME NEW r \in Requests, Compare(r), req'[r].pc = "miss", req[r].seen = c
        PROVE  G
    <3>1. fate'[c].wrong = fate[c].wrong + 1 /\ fate'[c].uncounted = fate[c].uncounted
      BY <2>5, CompareGives
    <3>2. r \in C /\ r \notin D
      BY <2>5, CompareGives DEF Comparing, At
    <3> HIDE DEF C, D
    <3>3. D \subseteq C \ {r}
      BY <2>2, <3>2
    <3>4. Cardinality(D) + 1 <= Cardinality(C)
      BY <2>1, <3>2, <3>3, Counting
    <3>q. QED  BY <2>0, <2>3, <3>1, <3>4
  <2>6. ASSUME fate'[c].wrong = fate[c].wrong
        PROVE  G
    <3>1. fate'[c].uncounted >= fate[c].uncounted /\ fate'[c].uncounted \in Nat
      BY <2>4, FateGrows DEF Fates
    <3> HIDE DEF C, D
    <3>2. Cardinality(D) <= Cardinality(C)
      BY <2>1, <2>2, Counting
    <3>q. QED  BY <2>0, <2>3, <2>6, <3>1, <3>2
  <2>7. fate'[c].wrong = fate[c].wrong
          \/ \E r \in Requests : Compare(r) /\ req'[r].pc = "miss" /\ req[r].seen = c
    BY FateKept, CompareGives, FailGives
  <2>q. QED  BY <2>5, <2>6, <2>7
<1>q. QED
  <2>1. Cardinality(InFlight)' <= MaxInFlight
    BY <1>0 DEF Limited
  <2>q. QED  BY <1>1, <1>2, <1>3, <2>1 DEF GuessesOK, Bounded

\* GuessesOK holds at the start.
LEMMA FirstGuesses == Init => GuessesOK
<1> SUFFICES ASSUME Init PROVE GuessesOK
  OBVIOUS
<1>1. Limited
  <2>1. InFlight = {}
    BY DEF Init, OtpInit, InFlight, Begun, At
  <2>q. QED  BY <2>1, FS_EmptySet, OneTimeCodeAssumption DEF Limited
<1>2. ASSUME NEW c \in Requests
      PROVE  /\ fate[c].wrong = 0 /\ fate[c].uncounted = 0 /\ Comparing(c) = {}
             /\ \A p \in Purposes : code[p] # c
  BY OneTimeCodeAssumption DEF Init, OtpInit, Comparing, At, Requests
<1>3. ASSUME NEW c \in Requests
      PROVE  Bounded(c)
  <2>1. Cardinality(Comparing(c)) = 0
    BY <1>2, FS_EmptySet
  <2>2. /\ MaxAttempts \in Nat \ {0} /\ MaxInFlight \in Nat
        /\ fate[c].wrong = 0 /\ fate[c].uncounted = 0 /\ \A p \in Purposes : code[p] # c
    BY <1>2, OneTimeCodeAssumption
  <2>q. QED  BY <2>1, <2>2 DEF Bounded
<1>q. QED  BY <1>1, <1>2, <1>3 DEF GuessesOK, Limited

\* The limit on guesses is overshot only by requests in flight, and by those that failed
\* to count their guess or to void the code.
THEOREM GuessesAreBounded == Spec => []GuessesBounded
<1>2. TypeOK /\ KnowledgeOK /\ CodesOK /\ GuessesOK /\ [Next]_vars => GuessesOK'
  BY GuessesStep
<1>3. TypeOK /\ GuessesOK => GuessesBounded
  <2> SUFFICES ASSUME TypeOK, GuessesOK, NEW c \in Requests
               PROVE  fate[c].wrong <= MaxAttempts + MaxInFlight - 1 + fate[c].uncounted
    BY DEF GuessesBounded
  <2>q. QED  BY Slack, OneTimeCodeAssumption DEF GuessesOK, Limited
<1>q. QED  BY FirstGuesses, <1>2, <1>3, CodesInvariant, RequestsKnow, PTL DEF Spec

-----------------------------------------------------------------------------
(* The newest code. *)

\* The newest code p has is the one everybody in Verify compares with, but for those
\* that were reading an older one when it was issued.
ReadersOK ==
  \A p \in Purposes :
    LET c == newest[p] IN
    c # 0 =>
      /\ \A r \in Requests :
           req[r].pc \in Verifying /\ Purpose(r) = p /\ req[r].seen # c => r \in fate[c].readers
      /\ \A r \in fate[c].readers : req[r].seen \notin {0, c}

\* As long as nobody read an older code, the count of the wrong guesses says it all.
Counted(p) ==
  LET c == newest[p] IN
  \/ fate[c].lapsed
  \/ \E r \in Requests : req[r].proved = c
  \/ fate[c].readers # {}
  \/ /\ code[p] # c => fate[c].wrong >= MaxAttempts
     /\ \A r \in Requests : At(r, "void") /\ req[r].seen = c => fate[c].wrong >= MaxAttempts
     /\ attempts[p] + Cardinality(Missing(c)) <= fate[c].wrong

\* StandsOK in two parts: who was reading, and who is counted.
LEMMA StandsParts == StandsOK <=> ReadersOK /\ \A p \in Purposes : newest[p] # 0 => Counted(p)
BY DEF StandsOK, ReadersOK, Counted

\* Only the sending of a code looks at who is in Verify.
LEMMA ReadersFrame ==
  ASSUME TypeOK, KnowledgeOK, [Next]_vars, NEW c \in Requests
  PROVE  fate'[c].readers = fate[c].readers \/ (Issue(c) /\ fate'[c].readers = Readers(Purpose(c)))
<1>1. ASSUME NEW r \in Requests, Issue(r)
      PROVE  fate'[c].readers = fate[c].readers \/ (Issue(c) /\ fate'[c].readers = Readers(Purpose(c)))
  <2>1. fate' = [fate EXCEPT ![r].readers = Readers(Purpose(r))]
    BY <1>1 DEF Issue
  <2>q. QED  BY <1>1, <2>1 DEF TypeOK, Fates
<1>2. ASSUME NEW r \in Requests, Compare(r) \/ Accept(r)
      PROVE  fate'[c].readers = fate[c].readers
  <2>1. req[r].seen \in Requests
    BY <1>2, SeenIsRequest DEF Compare, Accept, At, Verifying
  <2>2. \/ fate' = fate
        \/ fate' = [fate EXCEPT ![req[r].seen].wrong = @ + 1]
        \/ fate' = [fate EXCEPT ![req[r].seen].kept = TRUE]
    BY <1>2 DEF Compare, Accept
  <2>3. CASE fate' = [fate EXCEPT ![req[r].seen].wrong = @ + 1]
    BY <2>1, <2>3 DEF TypeOK, Fates
  <2>4. CASE fate' = [fate EXCEPT ![req[r].seen].kept = TRUE]
    BY <2>1, <2>4 DEF TypeOK, Fates
  <2>q. QED  BY <2>2, <2>3, <2>4
<1>3. ASSUME NEW r \in Requests, Fail(r)
      PROVE  fate'[c].readers = fate[c].readers
  <2>1. fate' = fate \/ (req[r].seen \in Requests /\ fate' = [fate EXCEPT ![req[r].seen].uncounted = @ + 1])
    BY <1>3, SeenIsRequest DEF Fail, Verifying
  <2>q. QED  BY <2>1 DEF TypeOK, Fates
<1>4. ASSUME NEW p \in Purposes, CodeExpires(p)
      PROVE  fate'[c].readers = fate[c].readers
  <2>1. code[p] \in Requests
    BY <1>4 DEF CodeExpires, TypeOK, Numbers, Requests
  <2>q. QED  BY <1>4, <2>1 DEF CodeExpires, TypeOK, Fates
<1>5. ASSUME NEW r \in Requests, Miss(r) \/ Void(r)
      PROVE  fate' = fate
  BY <1>5 DEF Miss, Void
<1>q. QED  BY <1>1, <1>2, <1>3, <1>4, <1>5, OtpFrame DEF CodeStep

\* A code that was read is held until the request ends.
LEMMA SeenStays ==
  ASSUME TypeOK, KnowledgeOK, [Next]_vars, NEW r \in Requests, req[r].seen # 0
  PROVE  req'[r].seen = req[r].seen
<1>1. ~ReadCode(r)
  BY DEF ReadCode, At, KnowledgeOK, Knows, Unread
<1>q. QED  BY <1>1, Changes DEF FieldsOK

\* Who enters Verify does so with the code it has just read.
LEMMA VerifyEntry ==
  ASSUME TypeOK, KnowledgeOK, [Next]_vars, NEW r \in Requests, req'[r].pc \in Verifying
  PROVE  \/ req[r].pc \in Verifying /\ req'[r].seen = req[r].seen /\ Purpose(r)' = Purpose(r)
         \/ /\ ReadCode(r) /\ req'[r].seen = code[Purpose(r)] /\ req'[r].seen # 0
            /\ Purpose(r)' = Purpose(r)
<1> USE DEF At
<1>1. CASE req'[r] = req[r]
  BY <1>1 DEF Purpose
<1>2. CASE Acts(r) /\ ArrivalsOK(r) /\ ReadCode(r)
  <2>1. code[Purpose(r)] # 0
    BY <1>2, ReadGives DEF Verifying
  <2>q. QED  BY <1>2, <2>1, ReadGives, PurposeStays
<1>3. CASE Acts(r) /\ ArrivalsOK(r) /\ ~ReadCode(r)
  <2>1. Compare(r) \/ Miss(r)
    BY <1>3 DEF ArrivalsOK, Verifying
  <2>2. req[r].pc \in Verifying
    BY <2>1 DEF Compare, Miss, Verifying
  <2>3. req[r].seen # 0 /\ req[r].pc # "new"
    BY <2>2 DEF KnowledgeOK, Knows, Verifying
  <2>q. QED  BY <2>2, <2>3, SeenStays, PurposeStays
<1>q. QED  BY <1>1, <1>2, <1>3, Changes

\* Every step keeps what is known of the readers of an older code.
LEMMA ReadersStep ==
  ASSUME TypeOK, KnowledgeOK, CodesOK, ReadersOK, [Next]_vars
  PROVE  ReadersOK'
<1> SUFFICES ASSUME NEW p \in Purposes, NEW c, c = newest'[p], c # 0
             PROVE  /\ \A r \in Requests : req'[r].pc \in Verifying /\ Purpose(r)' = p /\ req'[r].seen # c
                         => r \in fate'[c].readers
                    /\ \A r \in fate'[c].readers : req'[r].seen \notin {0, c}
  BY DEF ReadersOK
<1>0. c \in Requests
  <2>1. c \in Numbers
    BY TypeStep DEF TypeOK
  <2>q. QED  BY <2>1, OneTimeCodeAssumption DEF Numbers, Requests
<1>1. CASE Issue(c)
  <2>1. Purpose(c) = p /\ ~SentCode(c) /\ SentCode(c)'
    <3>1. ~SentCode(c) /\ SentCode(c)'
      BY <1>1, <1>0, IssueGives
    <3>2. newest[p] # c
      BY <3>1 DEF CodesOK
    <3>q. QED  BY <1>0, <1>1, <3>1, <3>2, IssueGives, PurposeType, CodeFrame
  <2>2. fate'[c].readers = Readers(p)
    BY <1>0, <1>1, <2>1 DEF Issue, TypeOK, Fates
  <2>3. ASSUME NEW r \in Requests, req'[r].pc \in Verifying, Purpose(r)' = p
        PROVE  r \in Readers(p)
    <3>1. ~ReadCode(r)
      <4>1. newest' # newest
        BY <1>0, <1>1, <2>1, IssueGives, PurposeType DEF TypeOK, CodesOK
      <4>q. QED  BY <4>1 DEF ReadCode, otpStores
    <3>q. QED  BY <2>3, <3>1, VerifyEntry DEF Readers, InFlight, Begun, Finished, At, Verifying
  <2>4. ASSUME NEW r \in Readers(p)
        PROVE  req'[r].seen \notin {0, c}
    <3>1. r \in Requests /\ req[r].pc \in Verifying
      BY DEF Readers, InFlight, Begun, Verifying
    <3>2. req[r].seen # 0
      BY <3>1 DEF KnowledgeOK, Knows
    <3>3. SentCode(req[r].seen)
      BY <3>1, <3>2 DEF CodesOK
    <3>q. QED  BY <2>1, <3>1, <3>2, <3>3, SeenStays
  <2>q. QED  BY <2>2, <2>3, <2>4
<1>2. CASE ~Issue(c)
  <2>1. newest[p] = c /\ fate'[c].readers = fate[c].readers
    BY <1>0, <1>2, CodeFrame, ReadersFrame
  <2>2. ASSUME NEW r \in Requests, req'[r].pc \in Verifying, Purpose(r)' = p, req'[r].seen # c
        PROVE  r \in fate[c].readers
    <3>1. CASE req[r].pc \in Verifying /\ req'[r].seen = req[r].seen /\ Purpose(r)' = Purpose(r)
      BY <2>1, <2>2, <3>1 DEF ReadersOK
    <3>2. CASE req'[r].seen = code[Purpose(r)] /\ req'[r].seen # 0 /\ Purpose(r)' = Purpose(r)
      BY <2>1, <2>2, <3>2 DEF CodesOK
    <3>q. QED  BY <2>2, <3>1, <3>2, VerifyEntry
  <2>3. ASSUME NEW r \in fate[c].readers
        PROVE  req'[r].seen \notin {0, c}
    <3>1. r \in Requests
      BY <1>0 DEF TypeOK, Fates
    <3>2. req[r].seen \notin {0, c}
      BY <2>1 DEF ReadersOK
    <3>q. QED  BY <3>1, <3>2, SeenStays
  <2>q. QED  BY <2>1, <2>2, <2>3
<1>q. QED  BY <1>1, <1>2

\* A code that was just issued has not been guessed at.
LEMMA FreshCode ==
  ASSUME TypeOK, KnowledgeOK, CodesOK, GuessesOK, [Next]_vars,
         NEW c \in Requests, Issue(c), NEW p, p = Purpose(c)
  PROVE  Counted(p)'
<1>1. /\ newest'[p] = c /\ code'[p] = c /\ attempts'[p] = 0 /\ ~SentCode(c) /\ p \in Purposes
      /\ req[c].pc = "issue"
  BY IssueGives, PurposeType DEF Issue, TypeOK, At
<1>2. ASSUME NEW r \in Requests
      PROVE  req'[r].seen # c
  <2>1. req[r].seen # c
    BY <1>1, OneTimeCodeAssumption DEF CodesOK, Requests
  <2>2. ~ReadCode(r)
    <3>1. newest' # newest
      BY <1>1 DEF CodesOK, Requests
    <3>q. QED  BY <3>1 DEF ReadCode, otpStores
  <2>q. QED  BY <2>1, <2>2, Changes DEF FieldsOK
<1>3. Missing(c)' = {}
  BY <1>2 DEF Missing
<1>4. Cardinality(Missing(c)') = 0
  BY <1>3, FS_EmptySet
<1>5. fate'[c].wrong \in Nat
  <2>1. fate'[c] \in Fates
    BY TypeStep DEF TypeOK
  <2>q. QED  BY <2>1 DEF Fates
<1>6. attempts'[p] + Cardinality(Missing(c)') <= fate'[c].wrong
  BY <1>1, <1>4, <1>5
<1>q. QED  BY <1>1, <1>2, <1>6 DEF Counted

\* While c is the newest, whoever guesses at it is counted, or is about to be.
LEMMA CountedStep ==
  ASSUME TypeOK, KnowledgeOK, CodesOK, ReadersOK, [Next]_vars,
         NEW p \in Purposes, NEW c \in Requests, newest[p] = c, newest'[p] = c, Counted(p)
  PROVE  Counted(p)'
<1> USE DEF At
<1> DEFINE M == Missing(c)
           N == Missing(c)'
           Last == /\ code'[p] # c => fate'[c].wrong >= MaxAttempts
                   /\ \A r \in Requests : req'[r].pc = "void" /\ req'[r].seen = c
                                            => fate'[c].wrong >= MaxAttempts
                   /\ attempts'[p] + Cardinality(N) <= fate'[c].wrong
<1>a. Purpose(c) = p /\ SentCode(c) /\ c # 0
  BY OneTimeCodeAssumption DEF CodesOK, Requests
<1>b. SUFFICES ASSUME ~fate'[c].lapsed, \A r \in Requests : req'[r].proved # c, fate'[c].readers = {}
               PROVE  Last
  BY DEF Counted
<1>c. fate[c].readers = {}
  BY <1>a, <1>b, ReadersFrame, IssueGives
<1>d. \A r \in Requests : req[r].proved # c
  <2>1. ASSUME NEW r \in Requests, req[r].proved = c
        PROVE  req'[r].proved = c
    <3>1. ~Accept(r)
      BY <1>a, <2>1 DEF Accept, KnowledgeOK, Knows, Unproved, Verifying
    <3>q. QED  BY <2>1, <3>1, Changes DEF FieldsOK
  <2>q. QED  BY <1>b, <2>1
<1>e. /\ code[p] # c => fate[c].wrong >= MaxAttempts
      /\ \A r \in Requests : req[r].pc = "void" /\ req[r].seen = c => fate[c].wrong >= MaxAttempts
      /\ attempts[p] + Cardinality(M) <= fate[c].wrong
  BY <1>b, <1>c, <1>d, FateGrows DEF Counted
<1>f. M \in SUBSET Requests /\ N \in SUBSET Requests
  BY DEF Missing
<1>g. /\ Cardinality(M) \in Nat /\ Cardinality(N) \in Nat /\ MaxAttempts \in Nat
      /\ attempts[p] \in Nat /\ fate[c].wrong \in Nat /\ fate'[c].wrong \in Nat
      /\ fate'[c].wrong >= fate[c].wrong
  <2>1. fate[c] \in Fates /\ fate'[c] \in Fates
    BY TypeStep DEF TypeOK
  <2>2. Cardinality(M) \in Nat /\ Cardinality(N) \in Nat
    BY <1>f, Counting
  <2>q. QED  BY <2>1, <2>2, FateGrows, OneTimeCodeAssumption DEF TypeOK, Fates
\* Nobody in Verify for p holds another code.
<1>h. ASSUME NEW r \in Requests, req[r].pc \in Verifying
      PROVE  Purpose(r) = p <=> req[r].seen = c
  <2>1. Purpose(r) = p => req[r].seen = c
    BY <1>a, <1>c, <1>h DEF ReadersOK
  <2>2. req[r].seen = c => Purpose(r) = p
    BY <1>a DEF CodesOK
  <2>q. QED  BY <2>1, <2>2
<1>j. \A r \in Requests : r \in N /\ r \notin M => Compare(r) /\ req[r].seen = c /\ req'[r].pc = "miss"
  BY VerifySets
<1>k. ASSUME NEW r \in Requests, req'[r].pc = "void", req'[r].seen = c
      PROVE  \/ req[r].pc = "void" /\ req[r].seen = c
             \/ Miss(r) /\ req[r].pc = "miss" /\ req[r].seen = c
  <2>1. CASE req'[r] = req[r]
    BY <1>k, <2>1
  <2>2. CASE Miss(r)
    BY <1>k, <2>2, GotoGives DEF Miss, Same
  <2>q. QED  BY <1>k, <2>1, <2>2, Changes DEF ArrivalsOK
<1> HIDE DEF M, N
<1>1. ASSUME NEW r \in Requests, Compare(r), req'[r].pc = "miss", req[r].seen = c
      PROVE  Last
  <2>1. fate'[c].wrong = fate[c].wrong + 1 /\ req[r].pc = "attempts" /\ req'[r] # req[r]
    BY <1>1, CompareGives
  <2>2. attempts' = attempts /\ code' = code
    BY <1>1 DEF Compare, codes
  <2>3. ASSUME NEW s, s \in N, s \notin M
        PROVE  s = r
    <3>1. s \in Requests /\ Compare(s) /\ req'[s].pc = "miss"
      BY <1>f, <1>j, <2>3
    <3>2. req'[s] # req[s]
      BY <3>1, <1>1, CompareGives
    <3>q. QED  BY <2>1, <3>1, <3>2, OneActs DEF Moved
  <2>4. Cardinality(N) <= Cardinality(M) + 1
    <3>1. N \subseteq M \cup {r}
      BY <2>3
    <3>q. QED  BY <1>f, <3>1, Counting
  <2>5. \A s \in Requests : req'[s].pc = "void" /\ req'[s].seen = c => req[s].pc = "void" /\ req[s].seen = c
    BY <1>1, <1>k, <2>1, OneActs DEF Moved
  <2>q. QED  BY <1>e, <1>g, <2>1, <2>2, <2>4, <2>5
<1>2. CASE ~ \E r \in Requests : Compare(r) /\ req'[r].pc = "miss" /\ req[r].seen = c
  <2>1. N \subseteq M
    BY <1>2, <1>f, <1>j
  <2>2. Cardinality(N) <= Cardinality(M)
    BY <1>f, <2>1, Counting
  <2>3. ASSUME NEW r \in Requests, Miss(r), Purpose(r) = p
        PROVE  Last
    <3>1. req[r].pc = "miss" /\ req[r].seen = c /\ attempts'[p] = attempts[p] + 1 /\ code' = code
      BY <1>h, <2>3 DEF Miss, Verifying, TypeOK
    <3>2. r \in M /\ r \notin N /\ req'[r] # req[r]
      BY <2>3, <3>1, GotoGives DEF Miss, M, N, Missing
    <3>3. Cardinality(N) + 1 <= Cardinality(M)
      <4>1. N \subseteq M \ {r}
        BY <2>1, <3>2
      <4>q. QED  BY <1>f, <3>2, <4>1, Counting
    <3>4. attempts'[p] + Cardinality(N) <= fate'[c].wrong
      BY <1>e, <1>g, <3>1, <3>3
    <3>5. ASSUME req'[r].pc = "void"
          PROVE  fate'[c].wrong >= MaxAttempts
      <4>1. ~Goto(r, "refused")
        BY <3>5, GotoGives
      <4>2. attempts[p] + 1 >= MaxAttempts
        BY <2>3, <4>1 DEF Miss
      <4>q. QED  BY <1>g, <3>1, <3>4, <4>2
    <3>6. \A s \in Requests : req'[s].pc = "void" /\ req'[s].seen = c => fate'[c].wrong >= MaxAttempts
      <4> SUFFICES ASSUME NEW s \in Requests, req'[s].pc = "void", req'[s].seen = c
                   PROVE  fate'[c].wrong >= MaxAttempts
        OBVIOUS
      <4>1. CASE s = r
        BY <3>5, <4>1
      <4>2. CASE s # r
        <5>1. req'[s] = req[s]
          BY <3>2, <4>2, OneActs DEF Moved
        <5>q. QED  BY <1>e, <1>g, <5>1
      <4>q. QED  BY <4>1, <4>2
    <3>q. QED  BY <1>e, <1>g, <3>1, <3>4, <3>6
  <2>4. CASE ~ \E r \in Requests : Miss(r) /\ Purpose(r) = p
    <3>1. \A s \in Requests : req'[s].pc = "void" /\ req'[s].seen = c => fate'[c].wrong >= MaxAttempts
      <4> SUFFICES ASSUME NEW s \in Requests, req'[s].pc = "void", req'[s].seen = c
                   PROVE  fate'[c].wrong >= MaxAttempts
        OBVIOUS
      <4>1. CASE req[s].pc = "void" /\ req[s].seen = c
        BY <1>e, <1>g, <4>1
      <4>2. CASE Miss(s) /\ req[s].pc = "miss" /\ req[s].seen = c
        BY <1>h, <2>4, <4>2 DEF Verifying
      <4>q. QED  BY <1>k, <4>1, <4>2
    <3>2. \/ attempts'[p] = attempts[p] /\ code'[p] = code[p]
          \/ code'[p] = 0 /\ attempts'[p] = attempts[p] /\ fate[c].wrong >= MaxAttempts
      <4> DEFINE H == \/ attempts'[p] = attempts[p] /\ code'[p] = code[p]
                      \/ code'[p] = 0 /\ attempts'[p] = attempts[p] /\ fate[c].wrong >= MaxAttempts
      <4>1. ASSUME NEW r \in Requests, Issue(r)
            PROVE  H
        <5>1. r # c
          BY <1>a, <4>1, IssueGives
        <5>2. newest' = [newest EXCEPT ![Purpose(r)] = r]
          BY <4>1, IssueGives
        <5>3. Purpose(r) # p
          BY <5>1, <5>2 DEF TypeOK
        <5>q. QED  BY <4>1, <5>3 DEF Issue, TypeOK
      <4>2. ASSUME NEW r \in Requests, Accept(r)
            PROVE  H
        <5>1. req'[r].proved = req[r].seen /\ req[r].pc = "accept"
          BY <4>2, AcceptGives
        <5>2. Purpose(r) # p
          BY <1>b, <1>h, <5>1 DEF Verifying
        <5>3. \/ code' = [code EXCEPT ![Purpose(r)] = 0] /\ attempts' = [attempts EXCEPT ![Purpose(r)] = 0]
              \/ code' = code /\ attempts' = attempts
          BY <4>2 DEF Accept
        <5>q. QED  BY <5>2, <5>3 DEF TypeOK
      <4>3. ASSUME NEW r \in Requests, Void(r)
            PROVE  H
        <5>1. code' = [code EXCEPT ![Purpose(r)] = 0] /\ attempts' = attempts /\ req[r].pc = "void"
          BY <4>3 DEF Void
        <5>2. CASE Purpose(r) = p
          BY <1>e, <1>h, <5>1, <5>2 DEF TypeOK, Verifying
        <5>3. CASE Purpose(r) # p
          BY <5>1, <5>3 DEF TypeOK
        <5>q. QED  BY <5>2, <5>3
      <4>4. ASSUME NEW r \in Requests, Miss(r)
            PROVE  H
        BY <2>4, <4>4 DEF Miss, TypeOK
      <4>5. ASSUME NEW r \in Requests, Compare(r) \/ Fail(r)
            PROVE  H
        BY <4>5 DEF Compare, Fail, codes
      <4>6. ASSUME NEW q \in Purposes, CodeExpires(q)
            PROVE  H
        <5>1. CASE q = p
          <6>1. code[p] = c
            BY <4>6, <5>1 DEF CodeExpires, CodesOK
          <6>2. fate'[c].lapsed
            BY <4>6, <5>1, <6>1 DEF CodeExpires, TypeOK, Fates
          <6>q. QED  BY <1>b, <6>2
        <5>2. CASE q # p
          BY <4>6, <5>2 DEF CodeExpires, TypeOK
        <5>q. QED  BY <5>1, <5>2
      <4>q. QED  BY <4>1, <4>2, <4>3, <4>4, <4>5, <4>6, OtpFrame DEF CodeStep
    <3>3. attempts'[p] = attempts[p]
      BY <3>2
    <3>4. code'[p] # c => fate'[c].wrong >= MaxAttempts
      BY <1>e, <1>g, <3>2
    <3>5. attempts'[p] + Cardinality(N) <= fate'[c].wrong
      BY <1>e, <1>g, <2>2, <3>3
    <3>q. QED  BY <3>1, <3>4, <3>5
  <2>q. QED  BY <2>3, <2>4
<1>q. QED  BY <1>1, <1>2

\* Every step keeps StandsOK.
LEMMA StandsStep ==
  ASSUME TypeOK, KnowledgeOK, CodesOK, GuessesOK, StandsOK, [Next]_vars
  PROVE  StandsOK'
<1>1. ReadersOK'
  BY StandsParts, ReadersStep
<1>2. ASSUME NEW p \in Purposes, newest'[p] # 0
      PROVE  Counted(p)'
  <2>1. newest'[p] \in Requests
    <3>1. newest'[p] \in Numbers
      BY TypeStep DEF TypeOK
    <3>q. QED  BY <1>2, <3>1, OneTimeCodeAssumption DEF Numbers, Requests
  <2>2. CASE newest'[p] = newest[p]
    BY <1>2, <2>1, <2>2, CountedStep, StandsParts
  <2>3. CASE newest'[p] # newest[p]
    BY <2>3, CodeFrame, FreshCode
  <2>q. QED  BY <2>2, <2>3
<1>q. QED  BY <1>1, <1>2 DEF StandsOK, ReadersOK, Counted

\* The newest code stays good until it expires, is accepted, or is guessed at too often;
\* only a Verify that was comparing an older code can take it away.
THEOREM NewestCodeStands == Spec => []SentCodeStands
<1>1. Init => StandsOK /\ GuessesOK
  <2>1. Init => StandsOK
    BY DEF Init, OtpInit, StandsOK
  <2>q. QED  BY <2>1, FirstGuesses
<1>2. TypeOK /\ KnowledgeOK /\ CodesOK /\ GuessesOK /\ StandsOK /\ [Next]_vars
        => StandsOK' /\ GuessesOK'
  BY StandsStep, GuessesStep
<1>3. TypeOK /\ StandsOK => SentCodeStands
  <2> SUFFICES ASSUME TypeOK, StandsOK, NEW p \in Purposes, NEW c, c = newest[p], c # 0,
                      code[p] # c \/ attempts[p] >= MaxAttempts,
                      ~fate[c].lapsed, \A r \in Requests : req[r].proved # c,
                      \A r \in fate[c].readers : ~(req[r].seen # c)
               PROVE  fate[c].wrong >= MaxAttempts
    BY DEF SentCodeStands
  <2>1. c \in Requests
    BY OneTimeCodeAssumption DEF TypeOK, Numbers, Requests
  <2>2. fate[c].readers = {}
    BY DEF StandsOK
  <2>3. /\ code[p] # c => fate[c].wrong >= MaxAttempts
        /\ attempts[p] + Cardinality(Missing(c)) <= fate[c].wrong
    BY <2>2 DEF StandsOK
  <2>4. Missing(c) \in SUBSET Requests
    BY DEF Missing
  <2>5. Cardinality(Missing(c)) \in Nat
    BY <2>4, Counting
  <2>6. fate[c].wrong \in Nat /\ attempts[p] \in Nat /\ MaxAttempts \in Nat
    BY <2>1, OneTimeCodeAssumption DEF TypeOK, Fates
  <2>q. QED  BY <2>3, <2>5, <2>6
<1>q. QED  BY <1>1, <1>2, <1>3, CodesInvariant, RequestsKnow, PTL DEF Spec

=============================================================================
