-------------------------- MODULE MeteringProperties --------------------------
(* What UsageMetering is checked for. *)
EXTENDS UsageMetering

MaxCredits == Max({0} \cup {CreditsFor(u) : u \in ChargedUsages})

\* Optimistic admission costs at most one call per request in flight, and one
\* per precheck that failed: a window goes over its cap by less than that,
\* however prechecks and debits overlap.
OvershootBounded ==
  \A w \in Capped :
    Total(w, clock) <
      Windows[w].cap + (MaxInFlight + Cardinality(unchecked)) * MaxCredits

\* A window forgets no debit that it still has to count: neither a trim by
\* another request nor the expiry of the key takes it.
WindowsRemember ==
  \A w \in W : \A e \in written[w] : e.at >= Cutoff(w, clock) => e \in store[w]

\* A debit goes through the windows in their order and leaves out none: what a
\* window lacks of it no later one has, and it is still being made or broke off.
DebitsInOrder ==
  \A v \in W, w \in W : \A e \in written[v] :
    e \in written[w] \/ (v < w /\ (req[e.by].pc \in Recording \/ e.by \in torn))

\* Nobody is told to wait longer than needed: as long as Retry-After lasts,
\* some window is at its cap.
WaitIsNotWasted ==
  \A r \in Requests :
    At(r, "refused") /\ clock < req[r].now + RetryAfter(req[r]) =>
      \E w \in Capped : Total(w, clock) >= Windows[w].cap
=============================================================================
