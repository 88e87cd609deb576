-------------------------- MODULE LlmProxyProperties --------------------------
(* What the LLM proxy promises the client and the books.                   *)
EXTENDS LlmProxy

\* Reference: what a stream q reports, however it was cut.  A line counts once
\* a blank line has followed it (a line feed ends the line itself).
Complete(q, i) == \E j \in (i + 1)..(Len(q) - 1) : q[j] = "n" /\ q[j + 1] = "n"
Reported(q) ==
  LET at == {i \in DOMAIN q : q[i] \in Reports /\ Complete(q, i)}
  IN IF at = {} THEN None ELSE q[Max(at)]
Content(q) == Cardinality({i \in DOMAIN q : q[i] = "c" /\ Complete(q, i)})

Streamed == reader.pc # "off"

\* The client gets the answer in order and without gaps, and all of it when the
\* stream came to its end (PumpStream).
ForwardedInOrder ==
  /\ IsPrefix(sent, up.all)
  /\ call.outcome = "eof" => sent = up.all

\* A chat that was accepted is billed when its handler returns, also when the client
\* has gone or a timeout cut the answer, and nothing else ever is.  The bill of a
\* stream says what the events sent to the client say, wherever chunks were cut and
\* however it was broken off; an estimate stands in only if litellm was asked for a
\* report (SSESniffer, recordUsage, InjectIncludeUsage).
BilledAsSent ==
  /\ At("done") => ((bill # None) <=> (call.op = "chat" /\ call.status = "ok"))
  /\ (bill # None /\ Streamed) =>
       /\ bill = [by |-> Reported(sent), chars |-> IF Reported(sent) = None THEN Content(sent) ELSE 0]
       /\ bill.by = None => call.usage

\* No body is left open when the handler returns, nor two open at once: not the
\* one refused before the retry either (forwardChat).
BodiesClosed == open <= 1 /\ (At("done") => open = 0)

\* Every call ends, also when litellm falls silent, and the goroutine of its stream
\* with it, whatever chunk that still holds (PumpStream).
CallEnds == <>(At("done") /\ reader.pc \in {"off", "end"})

=============================================================================
