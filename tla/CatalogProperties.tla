--------------------------- MODULE CatalogProperties ---------------------------
(***************************************************************************)
(* What the cached catalogue promises to the desktops and to ClawHub.      *)
(***************************************************************************)
EXTENDS Catalog

\* The answer of the request of c, in this step.
Succeeds(c) == ~At(c, "done") /\ call'[c].pc = "done" /\ call'[c].status = 200
Fails(c)    == ~At(c, "done") /\ call'[c].pc = "done" /\ call'[c].status # 200

\* Redis never fails a request and no failure is remembered: a request fails
\* only when it takes part in a call to ClawHub that fails at that moment, and
\* is told of a refusal only when ClawHub refused, never when the client that
\* led the flight has gone.
ErrorHasCause ==
  [][\A c \in Callers : Fails(c) =>
       \E d \in Callers :
         /\ d = c \/ (At(c, "wait") /\ d \in Leaders(call[c].inst, call[c].key))
         /\ call[d].pc \in {"fetch", "reply"}
         /\ call'[c].status = 404 => ~call[d].gone]_call

\* The longest that something replaced at ClawHub is still answered: it may have
\* been under way for the timeout, and lived the longest lifetime from then on.
Stale == Timeout + (IF Delta = 0 THEN BaseTTL ELSE BaseTTL + Delta - 1)

\* What a request reads is at most one lifetime and one timeout old, whatever
\* instance filled the key, and a verdict is never older than its request.
StalenessBounded ==
  [][\A c \in Callers : Len(call'[c].parts) > Len(call[c].parts) =>
       LET part == Last(call'[c].parts) IN
       part.ed < edition =>
         IF part.key.what = "verdict" THEN since[part.ed + 1] >= call[c].began
         ELSE clock - since[part.ed + 1] < Stale]_call

\* The categories that an edition shows, and the rest, that have compatible
\* items, each with their number.
Shown(q, e) == {d.slug : d \in {r \in Range(Raw(First(q.op), e).dict) : ~r.archived}}
Counted(q, e, slug) ==
  LET items == Raw(First(q.op), e).items IN
  Cardinality({n \in DOMAIN items :
    /\ Compatible(q.op.family, items[n].needs, q.op.cc)
    /\ IF slug = Other THEN items[n].category \notin Shown(q, e) \ {Other}
       ELSE items[n].category = slug})
CategoriesOf(q, e) ==
  {r \in {[id |-> slug, count |-> Counted(q, e, slug)] : slug \in Shown(q, e) \cup {Other}} :
     r.count > 0}

\* Was nothing published shortly before and during the request q?
Settled(q) == \A e \in 2..edition : since[e] + Stale <= q.began

\* When the catalogue has changed between the pages of a list, or between it and
\* the dictionary, every compatible item that was read is still counted in one
\* category.  Once nothing has been published for a while, what is counted from a
\* cached dictionary and cached pages are the categories of the catalogue.  No
\* category is there twice, and the last of them is the rest.
Mixed(q) == \E n \in DOMAIN q.parts : q.parts[n].ed # q.parts[1].ed
CategoriesAnswered(c) == Succeeds(c) /\ call[c].op.verb = "categories"
Adds(answer, q) ==
  LET total[n \in 0..Len(answer)] == IF n = 0 THEN 0 ELSE total[n - 1] + answer[n].count IN
  total[Len(answer)] = Cardinality(ItemsRead(q))
CountsAddUp ==
  [][\A c \in Callers : CategoriesAnswered(c) =>
       \A answer \in {buildCategoriesResponse(call'[c])} :
         /\ IsInjective([n \in DOMAIN answer |-> answer[n].id])
         /\ \A n \in DOMAIN answer : answer[n].id = Other => n = Len(answer)
         /\ Settled(call[c]) =>
              {r \in Range(answer) : r.count > 0} = CategoriesOf(call[c], edition)
         /\ Mixed(call'[c]) => Adds(answer, call'[c])]_call

\* All requests and rounds of the warmers end, also those that wait for the
\* flight of another client: again and again nobody is left being served.
EveryCallEnds == []<>(Serving = {})
=============================================================================
