------------------------------- MODULE LlmProxy -------------------------------
(***************************************************************************)
(* One call of a desktop client through the LLM proxy: the gates, the      *)
(* forwarding with its one retry, and what is done with the answer.  A     *)
(* streamed answer is read by a goroutine that hands chunks to the pump    *)
(* over a channel of capacity 1; the pump writes them to the client        *)
(* through the sniffer that looks for the usage report.                    *)
(*                                                                         *)
(* An answer is a sequence of atoms: the lines "c" (a piece of content),   *)
(* "u" and "v" (usage reports) and "d" ([DONE]), the line feed "n" and the *)
(* carriage return "r"; no two blank lines follow each other.  A chunk may *)
(* be cut between any two of them; a cut inside a line changes nothing     *)
(* that a cut before it does not.                                          *)
(*                                                                         *)
(* The virtual key, its healing and the windows are modules of their own   *)
(* (VirtualKey, UsageMetering): here they succeed or fail.  Headers are    *)
(* left out.                                                               *)
(***************************************************************************)
EXTENDS Naturals, SequencesExt

CONSTANTS
  Ops,       \* operations explored, a subset of AllOps
  Streams,   \* event streams litellm answers with
  Answers,   \* JSON answers: content, possibly usage
  None

AllOps   == {"models", "chat", "images", "qianwen"}
Statuses == {"ok", "refused", "error"}
Reports  == {"u", "v"}
Atoms    == {"c", "d", "n", "r"} \cup Reports
Ends     == {"eof", "reset", "hang"}
Bills    == [by : Reports \cup {None}, chars : Nat]

ASSUME LlmProxyAssumption ==
  /\ Ops \subseteq AllOps
  /\ Streams \subseteq Seq(Atoms)
  /\ \A s \in Streams : \A i \in DOMAIN s : i > 2 => {s[i - 2], s[i - 1], s[i]} # {"n"}
  /\ Answers \subseteq Seq(Atoms) \ {<<>>}
  /\ None \notin Statuses \cup Atoms \cup Ends \cup Bills

VARIABLES
  call,     \* the handler: operation, program counter, Go locals
  up,       \* the answer of litellm: all of it, what is not read yet, its end
  open,     \* bodies of chat answers that are not closed
  reader,   \* the goroutine of PumpStream and the chunk it is handing over
  ch,       \* its channel
  fired,    \* whether the idle timer has fired since it was last reset
  context,  \* of the request: live or done
  gone,     \* whether the client has gone
  sniff,    \* SSESniffer
  sent,     \* what the client got
  bill      \* what recordUsage debited

upstream == <<up, open>>
pumping  == <<reader, ch, fired, sniff>>
client   == <<context, gone, sent, bill>>
vars     == <<call, upstream, pumping, client>>

Goto(there)  == call' = [call EXCEPT !.pc = there]
At(here)     == call.pc = here
Closed       == call.pc \in {"cancel", "done"}
Cancelled    == context = "done"

Init ==
  /\ call \in [op : Ops, pc : {"new"}, stream : BOOLEAN, usage : BOOLEAN, status : {None},
               retried : {FALSE}, chunk : {<<>>}, outcome : {None}, reply : {None}]
  /\ call.op # "chat" => ~call.stream /\ ~call.usage
  /\ up = [all |-> <<>>, left |-> <<>>, end |-> "eof"]
  /\ open = 0
  /\ reader = [pc |-> "off", data |-> <<>>, err |-> None]
  /\ ch = <<>>
  /\ fired = FALSE
  /\ context = "live" /\ gone = FALSE
  /\ sniff = [pending |-> <<>>, usage |-> None, chars |-> 0]
  /\ sent = <<>>
  /\ bill = None

-----------------------------------------------------------------------------
\* Gates and forwarding.

Refuse(reply) == call' = [call EXCEPT !.pc = "done", !.reply = reply]

\* The list of models has no gate and no second try.
ListModels ==
  /\ At("new") /\ call.op = "models"
  /\ \/ Refuse("unavailable")
     \/ \E status \in Statuses : call' = [call EXCEPT !.status = status, !.pc = "answer"]
  /\ UNCHANGED <<upstream, pumping, client>>

\* For all else three gates, each of which answers the call itself or lets it pass.
CheckSubscription ==
  /\ At("new") /\ call.op # "models"
  /\ Goto("body") \/ Refuse("no subscription") \/ Refuse("unavailable")
  /\ UNCHANGED <<upstream, pumping, client>>

ReadBody ==
  /\ At("body")
  /\ Goto("precheck") \/ Refuse("too large") \/ Refuse("unreadable")
  /\ UNCHANGED <<upstream, pumping, client>>

\* Also lets the call pass when Redis fails.
Precheck ==
  /\ At("precheck")
  /\ Goto("forward") \/ Refuse("window exceeded")
  /\ UNCHANGED <<upstream, pumping, client>>

InjectIncludeUsage_KeepsOptions(c) == c.usage

\* A streamed answer has to end in a usage report, whatever the client asked for.
InjectIncludeUsage(c) == c.usage \/ c.stream

\* litellm answers, or the call fails, in time and also without a key.  A refusal
\* is worth one healing.
Answered(status) ==
  [call EXCEPT !.status = status,
     !.pc = IF status = "refused" /\ ~call.retried THEN "heal" ELSE "answer"]

\* Chat hands its body on unread.
Forward ==
  /\ At("forward") /\ call.op = "chat"
  /\ \/ Refuse("unavailable") /\ UNCHANGED upstream
     \/ \E status \in Statuses :
          /\ call' = [Answered(status) EXCEPT !.usage = InjectIncludeUsage(call)]
          /\ open' = open + 1
          /\ IF status = "ok"
             THEN \E all \in IF call.stream THEN Streams ELSE Answers :
                    \E end \in Ends :
                      up' = [all |-> all, left |-> all, end |-> end]
             ELSE UNCHANGED up
  /\ UNCHANGED <<pumping, client>>

\* The others have read and closed theirs; half a body is an error.
ForwardBuffered ==
  /\ At("forward")
  /\ Refuse("unavailable") \/ \E status \in Statuses : call' = Answered(status)
  /\ UNCHANGED <<upstream, pumping, client>>
ForwardImages  == call.op = "images" /\ ForwardBuffered
ForwardQianwen == call.op = "qianwen" /\ ForwardBuffered

Heal_KeepsBody ==
  /\ At("heal")
  /\ \/ call' = [call EXCEPT !.retried = TRUE, !.pc = "forward"]
     \/ Goto("answer")
  /\ UNCHANGED <<upstream, pumping, client>>

\* A key that was replaced is worth one more try; the refusal is dropped for it.
Heal ==
  /\ At("heal")
  /\ \/ /\ call' = [call EXCEPT !.retried = TRUE, !.pc = "forward"]
        /\ open' = 0
     \/ Goto("answer") /\ UNCHANGED open
  /\ UNCHANGED <<up, pumping, client>>

\* What is buffered is passed on without a bill.
PassOn ==
  /\ At("answer") /\ call.op # "chat"
  /\ Goto("close")
  /\ UNCHANGED <<upstream, pumping, client>>

\* So is a chat that litellm did not accept.
Answer ==
  /\ At("answer") /\ call.op = "chat"
  /\ IF call.status = "ok"
     THEN IF call.stream
          THEN Goto("pump") /\ reader' = [reader EXCEPT !.pc = "read"]
          ELSE Goto("json") /\ UNCHANGED reader
     ELSE Goto("close") /\ UNCHANGED reader
  /\ UNCHANGED <<upstream, ch, fired, sniff, client>>

ReadJSON_Blind ==
  /\ At("json") /\ up.end # "hang"
  /\ sent' = up.all
  /\ Goto("record")
  /\ UNCHANGED <<upstream, pumping, context, gone, bill>>

\* What an answer says of its usage, and the content in it.
UsageFromJSON(b) ==
  [usage |-> IF Last(b) \in Reports THEN Last(b) ELSE None,
   chars |-> Cardinality({i \in DOMAIN b : b[i] = "c"})]

\* ReadAll ends with the body, or with an error of litellm's or the context's, which
\* is not looked at: half an answer goes out as an answer, and UsageFromJSON finds
\* nothing in it.
ReadJSON ==
  /\ At("json")
  /\ \E n \in 0..Len(up.all) :
       LET b == SubSeq(up.all, 1, n) IN
       /\ \/ b = up.all /\ up.end = "eof"
          \/ up.end = "reset" \/ Cancelled
       /\ sent' = b
       /\ IF b = up.all
          THEN sniff' = [sniff EXCEPT !.usage = UsageFromJSON(b).usage,
                                      !.chars = UsageFromJSON(b).chars]
          ELSE UNCHANGED sniff
  /\ Goto("record")
  /\ UNCHANGED <<upstream, reader, ch, fired, context, gone, bill>>

-----------------------------------------------------------------------------
\* The sniffer.

\* An event is complete at its blank line.
Blank(text) == {j \in DOMAIN text : j > 1 /\ text[j - 1] = "n" /\ text[j] = "n"}
CutAt(text, j) == Max({0} \cup {i \in Blank(text) : i < j})

\* The data lines of the event that ends at j.
ParseEvent(text, j) == {i \in (CutAt(text, j) + 1)..j : text[i] \notin {"n", "r"}}

\* The lines that mean something: two in an event are no JSON.  What is complete in
\* text is parsed, the last report counts, the rest waits.
Parse(s, text) ==
  LET parsed  == {i \in DOMAIN text : \E j \in Blank(text) : ParseEvent(text, j) = {i}}
      reports == {i \in parsed : text[i] \in Reports}
  IN [pending |-> SubSeq(text, CutAt(text, Len(text) + 1) + 1, Len(text)),
      usage   |-> IF reports = {} THEN s.usage ELSE text[Max(reports)],
      chars   |-> s.chars + Cardinality({i \in parsed : text[i] = "c"})]

Consume_PerChunk(s, p) == Parse(s, p)

Consume(s, p) == Parse(s, s.pending \o p)

-----------------------------------------------------------------------------
\* PumpStream: the goroutine.

Read_Shared(n) ==
  LET data == SubSeq(up.left, 1, n)
      over(old) == [i \in DOMAIN old |-> IF i <= n THEN data[i] ELSE old[i]]
  IN /\ reader.pc = "read" /\ n <= Len(up.left) /\ n > 0
     /\ reader' = [reader EXCEPT !.pc = "send", !.data = data]
     /\ ch' = [i \in DOMAIN ch |-> [ch[i] EXCEPT !.data = over(@)]]
     /\ up' = [up EXCEPT !.left = SubSeq(@, n + 1, Len(@))]
     /\ UNCHANGED <<call, open, fired, sniff, client>>

\* Read returns n atoms, the last ones possibly with the end of the stream, or
\* only that; a closed body and a done context end it too.
Read(n) ==
  /\ reader.pc = "read" /\ n <= Len(up.left)
  /\ \E err \in {None, "eof", "reset"} :
       /\ \/ err = None /\ n > 0
          \/ err = up.end /\ n = Len(up.left)
          \/ err = "reset" /\ n = 0 /\ (Closed \/ Cancelled)
       /\ reader' = [pc |-> IF n > 0 THEN "send" ELSE "fail",
                     data |-> SubSeq(up.left, 1, n), err |-> err]
  /\ up' = [up EXCEPT !.left = SubSeq(@, n + 1, Len(@))]
  /\ UNCHANGED <<call, open, ch, fired, sniff, client>>

HandOver_Blocking ==
  /\ reader.pc \in {"send", "fail"} /\ ch = <<>>
  /\ ch' = IF reader.pc = "send" THEN <<[data |-> reader.data, err |-> None]>>
                                 ELSE <<[data |-> <<>>, err |-> reader.err]>>
  /\ reader' = [reader EXCEPT !.data = <<>>,
                  !.pc = CASE @ = "fail" -> "end"
                           [] reader.err = None -> "read"
                           [] OTHER -> "fail"]
  /\ UNCHANGED <<call, upstream, fired, sniff, client>>

\* Into the channel; or, once the context is done, away: nobody may be left to
\* take the chunk.
HandOver ==
  /\ reader.pc \in {"send", "fail"}
  /\ \/ /\ ch = <<>>
        /\ ch' = IF reader.pc = "send" THEN <<[data |-> reader.data, err |-> None]>>
                                       ELSE <<[data |-> <<>>, err |-> reader.err]>>
        /\ reader' = [reader EXCEPT !.data = <<>>,
                        !.pc = CASE @ = "fail" -> "end"
                                 [] reader.err = None -> "read"
                                 [] OTHER -> "fail"]
     \/ /\ Cancelled
        /\ reader' = [pc |-> "end", data |-> <<>>, err |-> None]
        /\ UNCHANGED ch
  /\ UNCHANGED <<call, upstream, fired, sniff, client>>

ReaderStep == HandOver \/ \E n \in 0..Len(up.left) : Read(n)

-----------------------------------------------------------------------------
\* PumpStream: the select loop.  Of several cases that are ready any is taken.

EndPump(outcome) == call' = [call EXCEPT !.pc = "record", !.outcome = outcome]

TakeChunk ==
  /\ At("pump") /\ ch # <<>>
  /\ ch' = <<>>
  /\ IF ch[1].err = None
     THEN call' = [call EXCEPT !.pc = "write", !.chunk = ch[1].data]
     ELSE EndPump(ch[1].err)
  /\ UNCHANGED <<upstream, reader, fired, sniff, client>>

\* The sniffer sees what the client accepted.  The timer runs during the write
\* and is set back after it.
Write ==
  /\ At("write")
  /\ \E n \in 0..Len(call.chunk) :
       LET part == SubSeq(call.chunk, 1, n) IN
       /\ sent' = sent \o part
       /\ sniff' = Consume(sniff, part)
       /\ \/ /\ part = call.chunk
             /\ call' = [call EXCEPT !.pc = "pump", !.chunk = <<>>]
             /\ fired' = FALSE
          \/ /\ gone
             /\ call' = [call EXCEPT !.pc = "record", !.outcome = "client", !.chunk = <<>>]
             /\ UNCHANGED fired
  /\ UNCHANGED <<upstream, reader, ch, context, gone, bill>>

TimeOut ==
  /\ At("pump")
  /\ \/ fired /\ EndPump("idle")
     \/ Cancelled /\ EndPump("context")
  /\ UNCHANGED <<upstream, pumping, client>>

\* Time and the client.
IdleFires ==
  /\ At("pump") \/ At("write")
  /\ fired' = TRUE
  /\ UNCHANGED <<call, upstream, reader, ch, sniff, client>>

Deadline ==
  /\ call.op = "chat" /\ call.pc \notin {"new", "body", "precheck", "done"}
  /\ context' = "done"
  /\ UNCHANGED <<call, upstream, pumping, gone, sent, bill>>

ClientGoes ==
  /\ ~gone /\ ~At("done")
  /\ gone' = TRUE /\ context' = "done"
  /\ UNCHANGED <<call, upstream, pumping, sent, bill>>

-----------------------------------------------------------------------------
\* The end of the handler.

Record_WithRequest ==
  /\ At("record")
  /\ bill' = IF Cancelled THEN None ELSE [by |-> sniff.usage, chars |-> sniff.chars]
  /\ Goto("close")
  /\ UNCHANGED <<upstream, pumping, context, gone, sent>>

\* In a context of its own, so that it happens after the client has gone; without
\* a report the prompt and the content seen are counted.  The debit itself is
\* Record of UsageMetering and may fail there.
Record ==
  /\ At("record")
  /\ bill' = [by |-> sniff.usage, chars |-> IF sniff.usage = None THEN sniff.chars ELSE 0]
  /\ Goto("close")
  /\ UNCHANGED <<upstream, pumping, context, gone, sent>>

CloseBody == At("close") /\ Goto("cancel") /\ open' = 0 /\ UNCHANGED <<up, pumping, client>>

\* The deferred cancel runs last.
Cancel ==
  /\ At("cancel")
  /\ Goto("done")
  /\ context' = "done"
  /\ UNCHANGED <<upstream, pumping, gone, sent, bill>>

HandlerStep ==
  \/ ListModels \/ CheckSubscription \/ ReadBody \/ Precheck
  \/ Forward \/ ForwardImages \/ ForwardQianwen \/ Heal
  \/ PassOn \/ Answer \/ ReadJSON
  \/ TakeChunk \/ Write \/ TimeOut
  \/ Record \/ CloseBody \/ Cancel

Over == At("done") /\ reader.pc \in {"off", "end"} /\ UNCHANGED vars

Next == HandlerStep \/ ReaderStep \/ IdleFires \/ Deadline \/ ClientGoes \/ Over

\* Goroutines run, a read ends when there is something to return, and timers fire.
Spec ==
  /\ Init /\ [][Next]_vars
  /\ WF_vars(HandlerStep) /\ WF_vars(ReaderStep)
  /\ WF_vars(IdleFires) /\ WF_vars(Deadline)

=============================================================================
