----------------------------- MODULE RagGateway -----------------------------
(***************************************************************************)
(* POST /v1/responses: the API gateway, its RAGPipelineOrchestrator and    *)
(* the generation provider under it, for requests answered in one piece    *)
(* and for streamed ones, while an administrator changes the settings.     *)
(*                                                                         *)
(* Where a step runs decides what it can interleave with.  The handler is  *)
(* a coroutine that never awaits once the body is read, so a run that is   *)
(* not streamed keeps the event loop from its first step to its last.  A   *)
(* streamed run is a generator whose next() is called in a worker thread;  *)
(* only handing a frame to the client needs the event loop.  The admin     *)
(* handlers are coroutines too: in the process of "--service all" they     *)
(* share that loop, under Compose they run in another process.             *)
(*                                                                         *)
(* Text is abstracted to a number of deltas, a setting to the number of    *)
(* the write that gave it its value.                                       *)
(***************************************************************************)
EXTENDS Naturals, Sequences

CONSTANTS
  Requests,       \* requests to the gateway
  SameProcess,    \* the Admin API shares the gateway's event loop
  MaxWrites,      \* bound on the admin's writes
  MaxDeltas,      \* bound on the length of an answer
  MaxAttempts,    \* MAX_ATTEMPTS of execute_with_retry
  MayFail,        \* whether stages and the model service may fail
  AuditMayFail,   \* whether the audit log may fail
  MayDisconnect   \* whether clients may leave a stream

ASSUME BoundAssumption ==
  /\ MaxWrites \in Nat
  /\ MaxDeltas \in Nat
  /\ MaxAttempts \in Nat \ {0}
ASSUME SwitchAssumption ==
  {SameProcess, MayFail, AuditMayFail, MayDisconnect} \subseteq BOOLEAN

VARIABLES
  run,      \* the state of each request, see Run
  trail,    \* audit log: the records of each request, in order
  loop,     \* the requests (at most one) that hold the event loop
  writes,   \* how many times the admin has written a setting
  config,   \* the value of each setting
  history   \* every configuration that has been in force

settings == <<writes, config, history>>
vars == <<run, trail, loop, settings>>

Settings == {"collection", "template", "generation"}
Config == [Settings -> 0..MaxWrites]
Unread == [s \in Settings |-> {}]

\* The phases between admission and the last step, in the code's order.
Preparing == {"retrieve", "template", "generation"}
Working == Preparing \cup {"open", "read", "yield", "success", "failure", "complete"}
Ended == {"answered", "errored", "refused", "abandoned"}

Run == [
  pc:       {"new"} \cup Working \cup Ended,
  stream:   BOOLEAN,                          \* "stream" in the body
  seen:     [Settings -> SUBSET (0..MaxWrites)],  \* read while preparing
  mixed:    BOOLEAN,                          \* never all in force at once
  calls:    0..MaxAttempts,                   \* requests sent to the model
  generated: 0..MaxAttempts,                  \* answers it made of them
  answer:   {"none", "transient", "failed", "whole"},  \* its last answer
  chunks:   BOOLEAN,                          \* accumulated is not empty
  text:     0..MaxDeltas,                     \* deltas in it
  received: 0..MaxDeltas,                     \* deltas the client got
  gone:     BOOLEAN,                          \* the client left
  raised:   BOOLEAN ]                         \* the audit log raised

Record == [status: {"SUCCESS", "PARTIAL", "FAILED"}, text: 0..MaxDeltas]

NewRun == [pc |-> "new", stream |-> FALSE, seen |-> Unread,
           mixed |-> FALSE, calls |-> 0, generated |-> 0, answer |-> "none",
           chunks |-> FALSE, text |-> 0, received |-> 0, gone |-> FALSE, raised |-> FALSE]

Init ==
  /\ run = [r \in Requests |-> NewRun]
  /\ trail = [r \in Requests |-> <<>>]
  /\ loop = {}
  /\ writes = 0
  /\ config = [s \in Settings |-> 0]
  /\ history = {config}

-----------------------------------------------------------------------------
(* Who may move.                                                           *)

\* The code of r runs: a blocking run holds the loop, a stream its thread.
At(r, phase) ==
  /\ run[r].pc = phase
  /\ ~run[r].stream => r \in loop

\* A step of r that touches nothing but its own state.
Becomes(r, next) == run' = [run EXCEPT ![r] = next]
Private(r, next) ==
  /\ Becomes(r, next)
  /\ UNCHANGED <<trail, loop, settings>>

\* The run of r is over, and with it its hold on the loop.
Finish(r, next) ==
  /\ Becomes(r, next)
  /\ loop' = loop \ {r}
  /\ UNCHANGED <<trail, settings>>

-----------------------------------------------------------------------------
(* The administrator.                                                      *)

\* set_... of the ConfigProvider: one section replaced, atomically.
SetConfig(s) ==
  /\ writes < MaxWrites
  /\ writes' = writes + 1
  /\ config' = [config EXCEPT ![s] = writes']
  /\ history' = history \cup {config'}
  /\ UNCHANGED <<run, trail, loop>>

\* Mutation: handlers declared with def, which FastAPI runs in a thread.
AdminWriteInThread(s) == SetConfig(s)

\* PUT /v1/config/...: one section is replaced; in the gateway's process the
\* handler waits for its loop.  The admin event it then records is left out:
\* no query reads it.
AdminWrite(s) ==
  /\ SameProcess => loop = {}
  /\ SetConfig(s)

-----------------------------------------------------------------------------
(* Admission.                                                              *)

\* 401 for a bad key, 400 for a body the parser rejects.
Refuse(r) ==
  /\ run[r].pc = "new"
  /\ loop = {}
  /\ Private(r, [run[r] EXCEPT !.pc = "refused"])

\* A stream gets its 200 and leaves the loop; any other run keeps the loop.
Accept(r) ==
  /\ run[r].pc = "new"
  /\ loop = {}
  /\ \E stream \in BOOLEAN :
       /\ Becomes(r, [run[r] EXCEPT !.pc = "retrieve", !.stream = stream])
       /\ loop' = IF stream THEN {} ELSE {r}
  /\ UNCHANGED <<trail, settings>>

-----------------------------------------------------------------------------
(* _prepare: outside the orchestrator's try.                               *)

\* Everything in seen was in force at one moment.
OneConfig(seen) ==
  \E c \in history : \A s \in Settings : seen[s] \subseteq {c[s]}

\* What r has read once it reads s as well.
SeenWith(r, s) == [run[r].seen EXCEPT ![s] = {config[s]}]

\* The default collection, read unless the request names one; then embed,
\* query_similar and rerank.
Retrieve(r) ==
  /\ At(r, "retrieve")
  /\ \E seen \in {Unread, SeenWith(r, "collection")} :
       Private(r, [run[r] EXCEPT !.pc = "template", !.seen = seen])

ReadTemplate(r) ==
  /\ At(r, "template")
  /\ Private(r, [run[r] EXCEPT !.pc = "generation", !.seen = SeenWith(r, "template")])

\* The last setting: the verdict on all of them replaces them.
ReadGeneration(r) ==
  /\ At(r, "generation")
  /\ Private(r, [run[r] EXCEPT !.pc = "open", !.seen = Unread,
                               !.mixed = ~OneConfig(SeenWith(r, "generation"))])

\* No user message, an embedding server or a store that fails, a template
\* with an unknown placeholder, a parameter that is not a number.
FailPreparing(r) ==
  /\ MayFail
  /\ \E phase \in Preparing : At(r, phase)
  /\ Finish(r, [run[r] EXCEPT !.pc = "errored"])

-----------------------------------------------------------------------------
(* generate: one answer in one piece, with retries.                        *)

\* Mutation: <= for <, one attempt too many.
AttemptOnceMore(r) ==
  /\ At(r, "open")
  /\ ~run[r].stream
  /\ LET called == [run[r] EXCEPT !.calls = @ + 1]
     IN \/ \E n \in 0..MaxDeltas :
             Private(r, [called EXCEPT !.pc = "success", !.answer = "whole", !.text = n])
        \/ /\ MayFail
           /\ called.calls <= MaxAttempts
           /\ Private(r, [called EXCEPT !.answer = "transient"])
        \/ /\ MayFail
           /\ Private(r, [called EXCEPT !.pc = "failure", !.answer = "failed"])

\* Mutation: the attempts are counted afresh after the last one, so a service
\* that stays down is asked for ever.
AttemptForEver(r) ==
  /\ At(r, "open")
  /\ ~run[r].stream
  /\ LET called == [run[r] EXCEPT !.calls = IF @ < MaxAttempts THEN @ + 1 ELSE 1]
     IN \/ Private(r, [called EXCEPT !.pc = "success", !.answer = "whole"])
        \/ MayFail /\ Private(r, [called EXCEPT !.answer = "transient"])

\* The request was sent once more; it may or may not have had an answer made.
Called(r, answered) ==
  [run[r] EXCEPT !.calls = @ + 1, !.generated = IF answered THEN @ + 1 ELSE @]

\* One pass of the loop in execute_with_retry, and what generate makes of
\* its last response.  An answer that was made may get lost: a read that timed
\* out or broke off is retried like a connection that was refused, and a body
\* that is not what was expected fails the run.
Attempt(r) ==
  /\ At(r, "open")
  /\ ~run[r].stream
  /\ \/ \E n \in 0..MaxDeltas :
          Private(r, [Called(r, TRUE) EXCEPT !.pc = "success", !.answer = "whole", !.text = n])
     \/ /\ MayFail
        /\ \E answered \in BOOLEAN :
             LET called == Called(r, answered)
             IN \/ /\ called.calls < MaxAttempts
                   /\ Private(r, [called EXCEPT !.answer = "transient"])
                \/ /\ called.calls = MaxAttempts
                   /\ Private(r, [called EXCEPT !.pc = "failure", !.answer = "transient"])
                \/ Private(r, [called EXCEPT !.pc = "failure", !.answer = "failed"])

-----------------------------------------------------------------------------
(* generate_stream under run_stream under sse_stream.                      *)

OpenStream(r) ==
  /\ At(r, "open")
  /\ run[r].stream
  /\ \/ Private(r, [Called(r, TRUE) EXCEPT !.pc = "read"])
     \/ /\ MayFail
        /\ \E answered \in BOOLEAN :
             Private(r, [Called(r, answered) EXCEPT !.pc = "failure", !.answer = "failed"])

\* A delta is accumulated and yielded through to the client.
ReadDelta(r) ==
  /\ At(r, "read")
  /\ run[r].text < MaxDeltas
  /\ Private(r, [run[r] EXCEPT !.pc = "yield", !.chunks = TRUE, !.text = @ + 1])

\* A chunk that carries only usage is accumulated; sse_stream makes no frame
\* of it and asks for the next chunk.
ReadUsage(r) ==
  /\ At(r, "read")
  /\ Private(r, [run[r] EXCEPT !.chunks = TRUE])

\* "[DONE]", message_stop, or an upstream that just stops sending.
ReadEnd(r) ==
  /\ At(r, "read")
  /\ Private(r, [run[r] EXCEPT !.pc = "success", !.answer = "whole"])

\* Mutation: the broken stream is opened again, as unary calls are.
ReadErrorReopens(r) ==
  /\ At(r, "read")
  /\ MayFail
  /\ IF run[r].calls < MaxAttempts
       THEN Private(r, [run[r] EXCEPT !.pc = "open", !.answer = "transient"])
       ELSE Private(r, [run[r] EXCEPT !.pc = "failure", !.answer = "failed"])

\* The connection breaks, times out, or a line is not JSON.
ReadError(r) ==
  /\ At(r, "read")
  /\ MayFail
  /\ Private(r, [run[r] EXCEPT !.pc = "failure", !.answer = "failed"])

\* The event loop sends the frame; next() goes back to the worker thread.
Deliver(r) ==
  /\ run[r].pc = "yield"
  /\ loop = {}
  /\ Private(r, [run[r] EXCEPT !.pc = "read",
                               !.received = IF run[r].gone THEN @ ELSE @ + 1])

\* The client closes the connection.
Disconnect(r) ==
  /\ MayDisconnect
  /\ run[r].stream
  /\ run[r].pc \in Working
  /\ ~run[r].gone
  /\ Private(r, [run[r] EXCEPT !.gone = TRUE])

\* Starlette notices between two next() and drops the generator: it is closed
\* at its yield, where GeneratorExit passes by "except Exception", or before
\* it ran at all.
Abandon(r) ==
  /\ run[r].gone
  /\ run[r].pc \in {"retrieve", "yield"}
  /\ loop = {}
  /\ Private(r, [run[r] EXCEPT !.pc = "abandoned"])

-----------------------------------------------------------------------------
(* The audit record, and the end.                                          *)

\* log_query: recorded, or it raises with or without the record written.
Log(r, status, recorded, raised) ==
  LET entry == [status |-> status, text |-> run[r].text]
  IN /\ AuditMayFail \/ ~raised
     /\ recorded \/ raised
     /\ trail' = IF recorded THEN [trail EXCEPT ![r] = Append(@, entry)] ELSE trail
     /\ UNCHANGED settings

\* Mutation: the success record moved inside the try.
LogSuccessInTry(r) ==
  /\ At(r, "success")
  /\ \E recorded, raised \in BOOLEAN :
       /\ Log(r, "SUCCESS", recorded, raised)
       /\ Becomes(r, [run[r] EXCEPT !.pc = IF raised THEN "failure" ELSE "complete",
                                    !.raised = raised])
       /\ loop' = loop

\* Outside the try: an audit log that raises turns an answer into an error.
LogSuccess(r) ==
  /\ At(r, "success")
  /\ \E recorded, raised \in BOOLEAN :
       /\ Log(r, "SUCCESS", recorded, raised)
       /\ Becomes(r, [run[r] EXCEPT !.pc = IF raised THEN "errored" ELSE "complete",
                                    !.raised = raised])
       /\ loop' = IF raised THEN loop \ {r} ELSE loop

\* Mutation: accumulated is looked at the wrong way round.
FailureStatusInverted(r) == IF run[r].chunks THEN "FAILED" ELSE "PARTIAL"

\* PARTIAL if accumulated else FAILED; a run that is not streamed has
\* accumulated nothing.
FailureStatus(r) == IF run[r].chunks THEN "PARTIAL" ELSE "FAILED"

LogFailure(r) ==
  /\ At(r, "failure")
  /\ \E recorded, raised \in BOOLEAN :
       /\ Log(r, FailureStatus(r), recorded, raised)
       /\ Becomes(r, [run[r] EXCEPT !.pc = "errored", !.raised = raised])
       /\ loop' = loop \ {r}

\* The JSON body, or the response.completed frame after the last delta.
Complete(r) ==
  /\ At(r, "complete")
  /\ run[r].stream => loop = {}
  /\ Finish(r, [run[r] EXCEPT !.pc = "answered",
                              !.received = IF run[r].stream THEN @ ELSE run[r].text])

-----------------------------------------------------------------------------
Step(r) ==
  \/ Retrieve(r) \/ ReadTemplate(r) \/ ReadGeneration(r)
  \/ FailPreparing(r)
  \/ Attempt(r)
  \/ OpenStream(r) \/ ReadDelta(r) \/ ReadEnd(r) \/ ReadError(r)
  \/ Deliver(r) \/ Abandon(r)
  \/ LogSuccess(r) \/ LogFailure(r) \/ Complete(r)

Next ==
  \/ \E s \in Settings : AdminWrite(s)
  \/ \E r \in Requests :
       \/ Refuse(r) \/ Accept(r)
       \/ Step(r)
       \/ ReadUsage(r)
       \/ Disconnect(r)

Spec == Init /\ [][Next]_vars

\* A run that can go on does: its thread is scheduled, the loop serves its
\* ready callbacks in order, and a read from the model service returns, if only
\* by its timeout.  A client takes the frames it is sent or leaves, and then the
\* server notices; nothing makes clients, the admin or usage frames come.
FairSpec == Spec /\ \A r \in Requests : WF_vars(Step(r))

-----------------------------------------------------------------------------
(* Properties.                                                             *)

\* The variables have their types; the model service is called no more than
\* MaxAttempts times for a request.
TypeOK ==
  /\ run \in [Requests -> Run]
  /\ trail \in [Requests -> Seq(Record)]
  /\ loop \in SUBSET Requests
  /\ writes \in 0..MaxWrites
  /\ config \in Config
  /\ history \subseteq Config

\* A run leaves one audit record at most, also when the audit log fails after
\* writing it, and one exactly if it reached the model, the client stayed and
\* the audit log did not raise (run and run_stream log success after their
\* try, failure inside its except).
RecordedOnce ==
  \A r \in Requests :
    /\ Len(trail[r]) <= 1
    /\ run[r].pc \in Ended /\ run[r].calls > 0 /\ run[r].pc # "abandoned" /\ ~run[r].raised
         => Len(trail[r]) = 1

\* The record says what happened to the client: an answer it got whole is
\* recorded as SUCCESS with the text it received; a PARTIAL one lost nothing it
\* was sent; FAILED means it was sent no text (run_stream, lines 108-134).
RecordIsTrue ==
  \A r \in Requests :
    /\ run[r].pc = "answered" =>
         \E i \in 1..Len(trail[r]) :
           /\ trail[r][i].status = "SUCCESS"
           /\ run[r].gone \/ trail[r][i].text = run[r].received
    /\ \A i \in 1..Len(trail[r]) :
         /\ trail[r][i].status = "SUCCESS" => run[r].answer = "whole"
         /\ trail[r][i].status # "SUCCESS" =>
              /\ run[r].answer # "whole"
              /\ run[r].gone \/ trail[r][i].text = run[r].received
         /\ trail[r][i].status = "FAILED" => run[r].received = 0

\* In a process shared with the Admin API, a run that is not streamed never
\* mixes two configurations: it keeps the loop the admin's handler needs.
BlockingRunsSeeOneConfig ==
  SameProcess => \A r \in Requests : ~run[r].stream => ~run[r].mixed

\* "Configuration changes take effect on the next pipeline run, not
\* mid-execution" (docs/contracts.md): for every run, in every deployment.
EveryRunSeesOneConfig == \A r \in Requests : ~run[r].mixed

\* log_query "records a full RAG query cycle, including failed or partial
\* attempts" (docs/contracts.md): every run that was started and is over.
EveryRunIsAudited ==
  \A r \in Requests :
    run[r].pc \in {"answered", "errored", "abandoned"} => Len(trail[r]) > 0

\* A stream is asked for once, so no more than one answer is made for it, and
\* none is spliced together.  A run that is not streamed asks again only after
\* a transient failure and with nothing of an answer received.  It may then be
\* the second answer the model service makes and charges for, but only if the
\* first was lost on its way (_retry.py, the comment in generate_stream).
NoReplay ==
  [][\A r \in Requests :
       LET asksAgain == run'[r].calls > run[r].calls /\ run[r].calls > 0
           madeAgain == run'[r].generated > run[r].generated /\ run[r].generated > 0
       IN asksAgain \/ madeAgain
            => /\ ~run[r].stream
               /\ run[r].answer = "transient"
               /\ run[r].text = 0 /\ run[r].received = 0]_vars

\* Every run that was admitted comes to an end, whatever fails, and lets go of
\* the event loop.
EveryRunEnds ==
  \A r \in Requests :
    run[r].pc \in Working ~> run[r].pc \in Ended /\ r \notin loop
=============================================================================
