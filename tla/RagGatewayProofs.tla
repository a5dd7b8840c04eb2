-------------------------- MODULE RagGatewayProofs --------------------------
(***************************************************************************)
(* Theorems about RagGateway, for every value of its constants.            *)
(*                                                                         *)
(* GatewayInv says, phase by phase, what is known of a request: what the   *)
(* model was asked and answered, what was accumulated, what the client got *)
(* and what the audit trail holds.  From it follow the types, the two      *)
(* properties of the audit trail and NoReplay.  LoopInv is about the       *)
(* configuration a run that holds the event loop reads.                    *)
(***************************************************************************)
EXTENDS RagGateway, TLAPS

-----------------------------------------------------------------------------
(* The inductive invariant: a request in state q with audit records t.     *)

\* Nothing was asked, received or recorded yet.
Untouched(q, t) ==
  /\ q.calls = 0 /\ q.generated = 0 /\ q.answer = "none"
  /\ ~q.chunks /\ q.text = 0 /\ q.received = 0
  /\ t = <<>> /\ ~q.raised

\* Nothing of an answer has come; there is an attempt left.
Asking(q, t) ==
  /\ q.calls < MaxAttempts /\ q.generated <= q.calls
  /\ q.stream => q.calls = 0
  /\ q.calls > 0 => q.answer = "transient"
  /\ q.answer # "whole"
  /\ ~q.chunks /\ q.text = 0 /\ q.received = 0
  /\ t = <<>> /\ ~q.raised

\* The model was asked; the client is ahead of the record in nothing, and
\* behind it by no more than the given number of deltas if it is still there.
Asked(q, behind) ==
  /\ q.calls > 0
  /\ q.received + behind <= q.text
  /\ q.gone \/ q.text = q.received + behind
  /\ ~q.chunks => q.text = 0

\* The answer is on its way, and nothing is recorded of it.
Streaming(q, t) ==
  q.stream /\ t = <<>> /\ ~q.raised /\ q.answer # "whole"

\* An answer that came whole; if it is not streamed, it is still to be sent.
Whole(q) ==
  /\ q.calls > 0 /\ q.answer = "whole"
  /\ q.stream => q.received <= q.text /\ (q.gone \/ q.text = q.received)

\* Exactly one record, of success, with the whole text.
Recorded(q, t) ==
  /\ Len(t) = 1
  /\ t[1].status = "SUCCESS" /\ t[1].text = q.text

\* What a record says is what happened.
Truthful(q, entry) ==
  /\ entry.status = "SUCCESS" => q.answer = "whole"
  /\ entry.status # "SUCCESS" =>
       q.answer # "whole" /\ (q.gone \/ entry.text = q.received)
  /\ entry.status = "FAILED" => q.received = 0

Honest(q, t) ==
  /\ q.pc \in {"new", "refused"} \cup Preparing => Untouched(q, t)
  /\ q.pc = "open" => Asking(q, t)
  /\ q.pc = "read" => Streaming(q, t) /\ Asked(q, 0)
  /\ q.pc = "yield" => Streaming(q, t) /\ Asked(q, 1)
  /\ q.pc = "success" => Whole(q) /\ t = <<>> /\ ~q.raised
  /\ q.pc = "failure" => Asked(q, 0) /\ q.answer # "whole" /\ t = <<>> /\ ~q.raised
  /\ q.pc = "complete" => Whole(q) /\ Recorded(q, t)
  /\ q.pc = "abandoned" => t = <<>>
  /\ q.pc = "answered" =>
       /\ Recorded(q, t) /\ q.answer = "whole"
       /\ q.gone \/ t[1].text = q.received
  /\ q.pc = "errored" =>
       /\ Len(t) <= 1
       /\ q.calls > 0 /\ ~q.raised => Len(t) = 1
       /\ Len(t) = 1 => Truthful(q, t[1])

GatewayInv ==
  /\ TypeOK
  /\ \A r \in Requests : Honest(run[r], trail[r])

-----------------------------------------------------------------------------
(* How a step moves one request.                                           *)

\* A step that changes the state and the records of one request keeps the
\* invariant if the request's new state and records satisfy their part of it.
LEMMA Moves ==
  ASSUME GatewayInv, NEW r \in Requests, NEW next \in Run, NEW t \in Seq(Record),
         Honest(next, t), Becomes(r, next),
         trail' = [trail EXCEPT ![r] = t],
         loop' \in SUBSET Requests,
         UNCHANGED settings
  PROVE  GatewayInv'
<1>1. TypeOK'
  BY DEF GatewayInv, TypeOK, Becomes, settings
<1>2. ASSUME NEW o \in Requests PROVE Honest(run[o], trail[o])'
  <2>1. CASE o = r
    BY <2>1 DEF GatewayInv, TypeOK, Becomes
  <2>2. CASE o # r
    <3>1. run'[o] = run[o] /\ trail'[o] = trail[o]
      BY <2>2 DEF GatewayInv, TypeOK, Becomes
    <3> QED
      BY <3>1 DEF GatewayInv
  <2> QED
    BY <2>1, <2>2
<1> QED
  BY <1>1, <1>2 DEF GatewayInv

LEMMA PrivateMoves ==
  ASSUME GatewayInv, NEW r \in Requests, NEW next \in Run,
         Honest(next, trail[r]), Private(r, next)
  PROVE  GatewayInv'
<1>1. trail[r] \in Seq(Record) /\ trail' = [trail EXCEPT ![r] = trail[r]]
  BY DEF GatewayInv, TypeOK, Private
<1> QED
  BY <1>1, Moves DEF Private, GatewayInv, TypeOK

LEMMA FinishMoves ==
  ASSUME GatewayInv, NEW r \in Requests, NEW next \in Run,
         Honest(next, trail[r]), Finish(r, next)
  PROVE  GatewayInv'
<1>1. trail[r] \in Seq(Record) /\ trail' = [trail EXCEPT ![r] = trail[r]]
  BY DEF GatewayInv, TypeOK, Finish
<1> QED
  BY <1>1, Moves DEF Finish, GatewayInv, TypeOK

\* What a request reads of the configuration has the type of what was read.
LEMMA SeenType ==
  ASSUME TypeOK, NEW r \in Requests, NEW s \in Settings
  PROVE  /\ SeenWith(r, s) \in [Settings -> SUBSET (0..MaxWrites)]
         /\ Unread \in [Settings -> SUBSET (0..MaxWrites)]
<1>1. {config[s]} \in SUBSET (0..MaxWrites)
  BY DEF TypeOK, Config
<1>2. run[r].seen \in [Settings -> SUBSET (0..MaxWrites)]
  BY DEF TypeOK, Run
<1> QED
  BY <1>1, <1>2 DEF SeenWith, Unread

-----------------------------------------------------------------------------
(* Admission and preparation: nothing is touched.                          *)

LEMMA Prepared ==
  ASSUME NEW q \in Run, NEW t, Untouched(q, t),
         NEW phase \in {"refused", "errored", "template", "generation"},
         NEW seen \in [Settings -> SUBSET (0..MaxWrites)]
  PROVE  /\ [q EXCEPT !.pc = phase] \in Run
         /\ Honest([q EXCEPT !.pc = phase], t)
         /\ [q EXCEPT !.pc = phase, !.seen = seen] \in Run
         /\ Honest([q EXCEPT !.pc = phase, !.seen = seen], t)
<1>1. /\ [q EXCEPT !.pc = phase] \in Run
      /\ [q EXCEPT !.pc = phase, !.seen = seen] \in Run
  BY DEF Run, Working, Preparing, Ended
<1> DEFINE n == [q EXCEPT !.pc = phase]
           m == [q EXCEPT !.pc = phase, !.seen = seen]
<1>2. n.pc = phase /\ Untouched(n, t) /\ m.pc = phase /\ Untouched(m, t)
  BY DEF Untouched, Run
<1>3. ASSUME NEW o, o.pc = phase, Untouched(o, t) PROVE Honest(o, t)
  <2> USE DEF Honest, Preparing
  <2>1. CASE phase \in {"refused", "template", "generation"}
    BY <1>3, <2>1
  <2>2. CASE phase = "errored"
    BY <1>3, <2>2 DEF Untouched
  <2> QED
    BY <2>1, <2>2
<1> QED
  BY <1>1, <1>2, <1>3

LEMMA KeptByRefuse ==
  ASSUME GatewayInv, NEW r \in Requests, Refuse(r)
  PROVE  GatewayInv'
<1>1. run[r] \in Run /\ Untouched(run[r], trail[r])
  BY DEF GatewayInv, TypeOK, Refuse, Honest
<1>2. run[r].seen \in [Settings -> SUBSET (0..MaxWrites)]
  BY <1>1 DEF Run
<1> QED
  BY <1>1, <1>2, Prepared, PrivateMoves DEF Refuse

LEMMA KeptByAccept ==
  ASSUME GatewayInv, NEW r \in Requests, Accept(r)
  PROVE  GatewayInv'
<1> PICK stream \in BOOLEAN :
      /\ Becomes(r, [run[r] EXCEPT !.pc = "retrieve", !.stream = stream])
      /\ loop' = IF stream THEN {} ELSE {r}
  BY DEF Accept
<1> DEFINE n == [run[r] EXCEPT !.pc = "retrieve", !.stream = stream]
<1>1. run[r] \in Run /\ Untouched(run[r], trail[r])
  BY DEF GatewayInv, TypeOK, Accept, Honest
<1>2. n \in Run
  BY <1>1 DEF Run, Working, Preparing
<1>3. n.pc = "retrieve" /\ Untouched(n, trail[r])
  BY <1>1 DEF Untouched, Run
<1>4. Honest(n, trail[r])
  BY <1>3 DEF Honest, Preparing
<1>5. trail[r] \in Seq(Record) /\ trail' = [trail EXCEPT ![r] = trail[r]]
  BY DEF GatewayInv, TypeOK, Accept
<1> HIDE DEF n
<1> QED
  BY <1>2, <1>4, <1>5, Moves DEF Accept, n

LEMMA KeptByRetrieve ==
  ASSUME GatewayInv, NEW r \in Requests, Retrieve(r)
  PROVE  GatewayInv'
<1> PICK seen \in {Unread, SeenWith(r, "collection")} :
      Private(r, [run[r] EXCEPT !.pc = "template", !.seen = seen])
  BY DEF Retrieve
<1>1. run[r] \in Run /\ Untouched(run[r], trail[r])
  BY DEF GatewayInv, TypeOK, Retrieve, At, Honest, Preparing
<1>2. seen \in [Settings -> SUBSET (0..MaxWrites)]
  BY SeenType DEF GatewayInv, Settings
<1> QED
  BY <1>1, <1>2, Prepared, PrivateMoves

LEMMA KeptByReadTemplate ==
  ASSUME GatewayInv, NEW r \in Requests, ReadTemplate(r)
  PROVE  GatewayInv'
<1>1. run[r] \in Run /\ Untouched(run[r], trail[r])
  BY DEF GatewayInv, TypeOK, ReadTemplate, At, Honest, Preparing
<1>2. SeenWith(r, "template") \in [Settings -> SUBSET (0..MaxWrites)]
  BY SeenType DEF GatewayInv, Settings
<1> QED
  BY <1>1, <1>2, Prepared, PrivateMoves DEF ReadTemplate

LEMMA KeptByFailPreparing ==
  ASSUME GatewayInv, NEW r \in Requests, FailPreparing(r)
  PROVE  GatewayInv'
<1>1. run[r] \in Run /\ Untouched(run[r], trail[r])
  BY DEF GatewayInv, TypeOK, FailPreparing, At, Honest
<1>2. run[r].seen \in [Settings -> SUBSET (0..MaxWrites)]
  BY <1>1 DEF Run
<1> QED
  BY <1>1, <1>2, Prepared, FinishMoves DEF FailPreparing

LEMMA KeptByReadGeneration ==
  ASSUME GatewayInv, NEW r \in Requests, ReadGeneration(r)
  PROVE  GatewayInv'
<1> DEFINE verdict == ~OneConfig(SeenWith(r, "generation"))
           n == [run[r] EXCEPT !.pc = "open", !.seen = Unread, !.mixed = verdict]
<1>1. run[r] \in Run /\ Untouched(run[r], trail[r])
  BY DEF GatewayInv, TypeOK, ReadGeneration, At, Honest, Preparing
<1>2. verdict \in BOOLEAN
  BY DEF OneConfig
<1>3. Unread \in [Settings -> SUBSET (0..MaxWrites)]
  BY DEF Unread
<1>4. ASSUME NEW b \in BOOLEAN
      PROVE  LET m == [run[r] EXCEPT !.pc = "open", !.seen = Unread, !.mixed = b]
             IN m \in Run /\ m.pc = "open" /\ Untouched(m, trail[r])
  BY <1>1, <1>3 DEF Run, Working, Untouched
<1>5. n \in Run /\ n.pc = "open" /\ Untouched(n, trail[r])
  BY <1>2, <1>4
<1> HIDE DEF n
<1>6. Honest(n, trail[r])
  BY <1>5, BoundAssumption DEF Honest, Preparing, Untouched, Asking
<1> QED
  BY <1>5, <1>6, PrivateMoves DEF ReadGeneration, n

-----------------------------------------------------------------------------
(* The model is asked.                                                     *)

\* What a request is once it has asked: by an answer, a failure to retry, a
\* failure to report, or a stream.
LEMMA CalledAgain ==
  ASSUME GatewayInv, NEW r \in Requests, run[r].pc = "open", NEW b \in BOOLEAN
  PROVE  LET called == Called(r, b)
         IN /\ called \in Run /\ called.pc = "open" /\ called.stream = run[r].stream
            /\ called.mixed = run[r].mixed
            /\ called.calls > 0 /\ called.generated <= called.calls
            /\ called.answer # "whole"
            /\ ~called.chunks /\ called.text = 0 /\ called.received = 0
            /\ trail[r] = <<>> /\ ~called.raised
<1>1. run[r] \in Run /\ Asking(run[r], trail[r])
  BY DEF GatewayInv, TypeOK, Honest
<1>3. /\ run[r].calls \in 0..MaxAttempts /\ run[r].generated \in 0..MaxAttempts
      /\ run[r].calls < MaxAttempts /\ run[r].generated <= run[r].calls
  BY <1>1 DEF Run, Asking
<1> DEFINE n == run[r].calls + 1
           g == IF b THEN run[r].generated + 1 ELSE run[r].generated
<1>4. n \in 0..MaxAttempts /\ g \in 0..MaxAttempts /\ n > 0 /\ g <= n
  BY <1>3, BoundAssumption
<1>5. Called(r, b) = [run[r] EXCEPT !.calls = n, !.generated = g]
  BY DEF Called
<1> HIDE DEF n, g
<1> DEFINE called == Called(r, b)
<1>6. /\ called \in Run /\ called.pc = "open" /\ called.stream = run[r].stream
      /\ called.mixed = run[r].mixed
      /\ called.calls = n /\ called.generated = g /\ called.answer # "whole"
      /\ ~called.chunks /\ called.text = 0 /\ called.received = 0 /\ ~called.raised
  <2> HIDE DEF called
  <2>1. called = [run[r] EXCEPT !.calls = n, !.generated = g]
    BY <1>5 DEF called
  <2> QED
    BY <1>1, <1>4, <2>1 DEF Run, Asking
<1>7. trail[r] = <<>>
  BY <1>1 DEF Asking
<1> HIDE DEF called
<1> QED
  BY <1>4, <1>6, <1>7 DEF called

LEMMA KeptByAttempt ==
  ASSUME GatewayInv, NEW r \in Requests, Attempt(r)
  PROVE  GatewayInv'
<1> DEFINE whole(n) == [Called(r, TRUE) EXCEPT !.pc = "success", !.answer = "whole", !.text = n]
           again(b) == [Called(r, b) EXCEPT !.answer = "transient"]
           failed(b, a) == [Called(r, b) EXCEPT !.pc = "failure", !.answer = a]
<1>1. run[r].pc = "open" /\ ~run[r].stream
  BY DEF Attempt, At
<1>2. ASSUME NEW b \in BOOLEAN
      PROVE  /\ Called(r, b) \in Run /\ Called(r, b).pc = "open" /\ ~Called(r, b).stream
             /\ Called(r, b).calls > 0 /\ Called(r, b).generated <= Called(r, b).calls
             /\ ~Called(r, b).chunks /\ Called(r, b).text = 0 /\ Called(r, b).received = 0
             /\ trail[r] = <<>> /\ ~Called(r, b).raised
  BY <1>1, CalledAgain
<1>3. ASSUME NEW n \in 0..MaxDeltas, Private(r, whole(n)) PROVE GatewayInv'
  <2>1. whole(n) \in Run
    BY <1>2 DEF Run, Working
  <2>2. Honest(whole(n), trail[r])
    BY <1>2 DEF Honest, Preparing, Whole, Run
  <2> HIDE DEF whole
  <2> QED
    BY <1>3, <2>1, <2>2, PrivateMoves
<1>4. ASSUME NEW b \in BOOLEAN, Called(r, b).calls < MaxAttempts, Private(r, again(b))
      PROVE  GatewayInv'
  <2>1. again(b) \in Run
    BY <1>2 DEF Run
  <2>2. Honest(again(b), trail[r])
    BY <1>2, <1>4 DEF Honest, Preparing, Asking, Run
  <2> HIDE DEF again
  <2> QED
    BY <1>4, <2>1, <2>2, PrivateMoves
<1>5. ASSUME NEW b \in BOOLEAN, NEW a \in {"transient", "failed"}, Private(r, failed(b, a))
      PROVE  GatewayInv'
  <2>1. failed(b, a) \in Run
    BY <1>2 DEF Run, Working
  <2>2. Honest(failed(b, a), trail[r])
    BY <1>2 DEF Honest, Preparing, Asked, Streaming, Run
  <2> HIDE DEF failed
  <2> QED
    BY <1>5, <2>1, <2>2, PrivateMoves
<1>6. \/ \E n \in 0..MaxDeltas : Private(r, whole(n))
      \/ \E b \in BOOLEAN : Called(r, b).calls < MaxAttempts /\ Private(r, again(b))
      \/ \E b \in BOOLEAN : Private(r, failed(b, "transient"))
      \/ \E b \in BOOLEAN : Private(r, failed(b, "failed"))
  BY DEF Attempt
<1> HIDE DEF whole, again, failed
<1> QED
  BY <1>3, <1>4, <1>5, <1>6

\* What a stream becomes that was asked for.
LEMMA StreamOpened ==
  ASSUME NEW q \in Run, q.stream, q.calls > 0, q.answer # "whole", ~q.raised,
         ~q.chunks, q.text = 0, q.received = 0, NEW t, t = <<>>
  PROVE  LET opened == [q EXCEPT !.pc = "read"]
             failed == [q EXCEPT !.pc = "failure", !.answer = "failed"]
         IN /\ opened \in Run /\ Honest(opened, t)
            /\ failed \in Run /\ Honest(failed, t)
<1> DEFINE opened == [q EXCEPT !.pc = "read"]
           failed == [q EXCEPT !.pc = "failure", !.answer = "failed"]
<1>1. /\ opened \in Run /\ opened.pc = "read" /\ opened.stream
      /\ opened.answer # "whole" /\ ~opened.raised /\ Asked(opened, 0)
  BY DEF Run, Working, Asked
<1>2. failed \in Run /\ failed.pc = "failure"
  BY DEF Run, Working
<1>3. failed.answer # "whole" /\ ~failed.raised /\ Asked(failed, 0)
  BY DEF Run, Asked
<1> HIDE DEF opened, failed
<1>4. Honest(opened, t)
  BY <1>1 DEF Honest, Preparing, Streaming
<1>5. Honest(failed, t)
  BY <1>2, <1>3 DEF Honest, Preparing
<1> QED
  BY <1>1, <1>2, <1>4, <1>5 DEF opened, failed

LEMMA KeptByOpenStream ==
  ASSUME GatewayInv, NEW r \in Requests, OpenStream(r)
  PROVE  GatewayInv'
<1> DEFINE opened == [Called(r, TRUE) EXCEPT !.pc = "read"]
           failed(b) == [Called(r, b) EXCEPT !.pc = "failure", !.answer = "failed"]
<1>1. run[r].pc = "open" /\ run[r].stream
  BY DEF OpenStream, At
<1>2. ASSUME NEW b \in BOOLEAN
      PROVE  /\ Called(r, b) \in Run /\ Called(r, b).stream /\ Called(r, b).calls > 0
             /\ Called(r, b).answer # "whole" /\ ~Called(r, b).raised
             /\ ~Called(r, b).chunks /\ Called(r, b).text = 0 /\ Called(r, b).received = 0
             /\ trail[r] = <<>>
  BY <1>1, CalledAgain
<1>3. opened \in Run /\ Honest(opened, trail[r])
  BY <1>2, StreamOpened
<1>4. ASSUME NEW b \in BOOLEAN PROVE failed(b) \in Run /\ Honest(failed(b), trail[r])
  BY <1>2, StreamOpened
<1>5. Private(r, opened) \/ \E b \in BOOLEAN : Private(r, failed(b))
  BY DEF OpenStream
<1> HIDE DEF opened, failed
<1> QED
  BY <1>3, <1>4, <1>5, PrivateMoves

-----------------------------------------------------------------------------
(* The stream.                                                             *)

LEMMA KeptByReadDelta ==
  ASSUME GatewayInv, NEW r \in Requests, ReadDelta(r)
  PROVE  GatewayInv'
<1> DEFINE n == [run[r] EXCEPT !.pc = "yield", !.chunks = TRUE, !.text = @ + 1]
<1>1. /\ run[r] \in Run /\ run[r].pc = "read" /\ Honest(run[r], trail[r])
      /\ run[r].text < MaxDeltas
  BY DEF GatewayInv, TypeOK, ReadDelta, At
<1>2. Streaming(run[r], trail[r]) /\ Asked(run[r], 0)
  BY <1>1 DEF Honest
<1>3. n \in Run /\ n.pc = "yield"
  <2>1. run[r].text + 1 \in 0..MaxDeltas
    BY <1>1, BoundAssumption DEF Run
  <2>2. ASSUME NEW d \in 0..MaxDeltas
        PROVE  LET m == [run[r] EXCEPT !.pc = "yield", !.chunks = TRUE, !.text = d]
               IN m \in Run /\ m.pc = "yield"
    BY <1>1 DEF Run, Working
  <2> QED
    BY <2>1, <2>2
<1>4. Streaming(n, trail[r]) /\ Asked(n, 1)
  BY <1>1, <1>2 DEF Streaming, Asked, Run
<1> HIDE DEF n
<1>5. Honest(n, trail[r])
  BY <1>3, <1>4 DEF Honest, Preparing
<1> QED
  BY <1>3, <1>5, PrivateMoves DEF ReadDelta, n

LEMMA KeptByReadUsage ==
  ASSUME GatewayInv, NEW r \in Requests, ReadUsage(r)
  PROVE  GatewayInv'
<1> DEFINE n == [run[r] EXCEPT !.chunks = TRUE]
<1>1. run[r] \in Run /\ run[r].pc = "read" /\ Honest(run[r], trail[r])
  BY DEF GatewayInv, TypeOK, ReadUsage, At
<1>2. /\ n \in Run /\ n.pc = "read" /\ n.stream
      /\ n.answer # "whole" /\ ~n.raised /\ trail[r] = <<>>
  BY <1>1 DEF Run, Honest, Streaming
<1>3. Asked(n, 0)
  BY <1>1 DEF Honest, Asked, Run
<1> HIDE DEF n
<1>4. Honest(n, trail[r])
  BY <1>2, <1>3 DEF Honest, Preparing, Streaming
<1> QED
  BY <1>2, <1>4, PrivateMoves DEF ReadUsage, n

LEMMA KeptByReadEnd ==
  ASSUME GatewayInv, NEW r \in Requests, ReadEnd(r)
  PROVE  GatewayInv'
<1> DEFINE n == [run[r] EXCEPT !.pc = "success", !.answer = "whole"]
<1>1. run[r] \in Run /\ run[r].pc = "read" /\ Honest(run[r], trail[r])
  BY DEF GatewayInv, TypeOK, ReadEnd, At
<1>2. Streaming(run[r], trail[r]) /\ Asked(run[r], 0)
  BY <1>1 DEF Honest
<1>3. n \in Run /\ n.pc = "success"
  BY <1>1 DEF Run, Working
<1>4. Whole(n) /\ trail[r] = <<>> /\ ~n.raised
  BY <1>1, <1>2 DEF Streaming, Asked, Whole, Run
<1> HIDE DEF n
<1>5. Honest(n, trail[r])
  BY <1>3, <1>4 DEF Honest, Preparing
<1> QED
  BY <1>3, <1>5, PrivateMoves DEF ReadEnd, n

LEMMA KeptByReadError ==
  ASSUME GatewayInv, NEW r \in Requests, ReadError(r)
  PROVE  GatewayInv'
<1> DEFINE n == [run[r] EXCEPT !.pc = "failure", !.answer = "failed"]
<1>1. run[r] \in Run /\ run[r].pc = "read" /\ Honest(run[r], trail[r])
  BY DEF GatewayInv, TypeOK, ReadError, At
<1>2. n \in Run /\ Honest(n, trail[r])
  BY <1>1 DEF Honest, Preparing, Asked, Streaming, Run, Working
<1> HIDE DEF n
<1> QED
  BY <1>2, PrivateMoves DEF ReadError, n

LEMMA KeptByDeliver ==
  ASSUME GatewayInv, NEW r \in Requests, Deliver(r)
  PROVE  GatewayInv'
<1> DEFINE n == [run[r] EXCEPT !.pc = "read",
                               !.received = IF run[r].gone THEN @ ELSE @ + 1]
<1>1. run[r] \in Run /\ run[r].pc = "yield" /\ Honest(run[r], trail[r])
  BY DEF GatewayInv, TypeOK, Deliver
<1>2. Asked(run[r], 1)
  BY <1>1 DEF Honest
<1>3. ASSUME NEW d \in 0..MaxDeltas, d <= run[r].text, run[r].gone \/ run[r].text = d
      PROVE  LET m == [run[r] EXCEPT !.pc = "read", !.received = d]
             IN m \in Run /\ Honest(m, trail[r])
  <2> DEFINE m == [run[r] EXCEPT !.pc = "read", !.received = d]
  <2>1. /\ m \in Run /\ m.pc = "read" /\ m.stream
        /\ m.answer # "whole" /\ ~m.raised /\ trail[r] = <<>>
    BY <1>1 DEF Run, Working, Honest, Streaming
  <2>2. Asked(m, 0)
    BY <1>1, <1>2, <1>3 DEF Asked, Run
  <2> HIDE DEF m
  <2>3. Honest(m, trail[r])
    BY <2>1, <2>2 DEF Honest, Preparing, Streaming
  <2> QED
    BY <2>1, <2>3 DEF m
<1>4. LET d == IF run[r].gone THEN run[r].received ELSE run[r].received + 1
      IN d \in 0..MaxDeltas /\ d <= run[r].text /\ (run[r].gone \/ run[r].text = d)
  BY <1>1, <1>2, BoundAssumption DEF Asked, Run
<1>5. n \in Run /\ Honest(n, trail[r])
  BY <1>3, <1>4
<1> HIDE DEF n
<1> QED
  BY <1>5, PrivateMoves DEF Deliver, n

LEMMA KeptByDisconnect ==
  ASSUME GatewayInv, NEW r \in Requests, Disconnect(r)
  PROVE  GatewayInv'
<1> DEFINE n == [run[r] EXCEPT !.gone = TRUE]
<1>1. run[r] \in Run /\ Honest(run[r], trail[r])
  BY DEF GatewayInv, TypeOK
<1>2. n \in Run
  BY <1>1 DEF Run
<1>3. Honest(n, trail[r])
  BY <1>1 DEF Honest, Preparing, Untouched, Asking, Asked, Streaming, Whole, Recorded, Truthful, Run
<1> HIDE DEF n
<1> QED
  BY <1>2, <1>3, PrivateMoves DEF Disconnect, n

LEMMA KeptByAbandon ==
  ASSUME GatewayInv, NEW r \in Requests, Abandon(r)
  PROVE  GatewayInv'
<1> DEFINE n == [run[r] EXCEPT !.pc = "abandoned"]
<1>1. run[r] \in Run /\ trail[r] = <<>>
  BY DEF GatewayInv, TypeOK, Abandon, Honest, Preparing, Untouched, Streaming
<1>2. n \in Run /\ Honest(n, trail[r])
  BY <1>1 DEF Honest, Preparing, Run, Ended
<1> HIDE DEF n
<1> QED
  BY <1>2, PrivateMoves DEF Abandon, n

-----------------------------------------------------------------------------
(* The record, and the end.                                                *)

LEMMA KeptByLogSuccess ==
  ASSUME GatewayInv, NEW r \in Requests, LogSuccess(r)
  PROVE  GatewayInv'
<1> DEFINE entry == [status |-> "SUCCESS", text |-> run[r].text]
           n(p, b) == [run[r] EXCEPT !.pc = p, !.raised = b]
<1> PICK recorded \in BOOLEAN, raised \in BOOLEAN :
      /\ Log(r, "SUCCESS", recorded, raised)
      /\ Becomes(r, n(IF raised THEN "errored" ELSE "complete", raised))
      /\ loop' = IF raised THEN loop \ {r} ELSE loop
  BY DEF LogSuccess
<1>1. /\ run[r] \in Run /\ run[r].pc = "success" /\ Whole(run[r])
      /\ trail \in [Requests -> Seq(Record)] /\ trail[r] = <<>>
  BY DEF GatewayInv, TypeOK, LogSuccess, At, Honest
<1>2. entry \in Record
  BY <1>1 DEF Run, Record
<1>3. loop' \in SUBSET Requests /\ UNCHANGED settings
  BY DEF Log, GatewayInv, TypeOK
<1>4. <<entry>> \in Seq(Record) /\ Append(trail[r], entry) = <<entry>>
  BY <1>1, <1>2
<1>5. \/ recorded /\ trail' = [trail EXCEPT ![r] = <<entry>>]
      \/ ~recorded /\ raised /\ trail' = [trail EXCEPT ![r] = <<>>]
  BY <1>1, <1>4 DEF Log
<1>6. CASE raised
  <2> DEFINE m == n("errored", TRUE)
  <2>1. m \in Run /\ Becomes(r, m)
    BY <1>1, <1>6 DEF Run, Ended
  <2>2. Honest(m, <<entry>>) /\ Honest(m, <<>>)
    BY <1>1 DEF Honest, Preparing, Truthful, Whole, Run
  <2>3. <<>> \in Seq(Record)
    OBVIOUS
  <2> HIDE DEF m, n, entry
  <2> QED
    BY <1>3, <1>4, <1>5, <2>1, <2>2, <2>3, Moves
<1>7. CASE ~raised
  <2> DEFINE m == n("complete", FALSE)
  <2>1. m \in Run /\ Becomes(r, m)
    BY <1>1, <1>7 DEF Run, Working
  <2>2. Honest(m, <<entry>>)
    BY <1>1 DEF Honest, Preparing, Recorded, Whole, Run
  <2> HIDE DEF m, n, entry
  <2> QED
    BY <1>3, <1>4, <1>5, <1>7, <2>1, <2>2, Moves
<1> QED
  BY <1>6, <1>7

LEMMA KeptByLogFailure ==
  ASSUME GatewayInv, NEW r \in Requests, LogFailure(r)
  PROVE  GatewayInv'
<1> DEFINE entry == [status |-> FailureStatus(r), text |-> run[r].text]
           n(b) == [run[r] EXCEPT !.pc = "errored", !.raised = b]
<1> PICK recorded \in BOOLEAN, raised \in BOOLEAN :
      /\ Log(r, FailureStatus(r), recorded, raised)
      /\ Becomes(r, n(raised))
      /\ loop' = loop \ {r}
  BY DEF LogFailure
<1>1. /\ run[r] \in Run /\ Asked(run[r], 0) /\ run[r].answer # "whole"
      /\ trail \in [Requests -> Seq(Record)] /\ trail[r] = <<>>
  BY DEF GatewayInv, TypeOK, LogFailure, At, Honest
<1>2. /\ FailureStatus(r) \in {"PARTIAL", "FAILED"}
      /\ FailureStatus(r) = "FAILED" => run[r].text = 0
  BY <1>1 DEF FailureStatus, Asked
<1>3. entry \in Record
  BY <1>1, <1>2 DEF Run, Record
<1>4. loop' \in SUBSET Requests /\ UNCHANGED settings
  BY DEF Log, GatewayInv, TypeOK
<1>5. /\ <<entry>> \in Seq(Record) /\ <<>> \in Seq(Record)
      /\ Append(trail[r], entry) = <<entry>>
  BY <1>1, <1>3
<1>6. \/ recorded /\ trail' = [trail EXCEPT ![r] = <<entry>>]
      \/ ~recorded /\ raised /\ trail' = [trail EXCEPT ![r] = <<>>]
  BY <1>1, <1>5 DEF Log
<1>7. n(raised) \in Run /\ n(raised).pc = "errored" /\ n(raised).raised = raised
  BY <1>1 DEF Run, Ended
<1>8. Truthful(n(raised), entry)
  BY <1>1, <1>2 DEF Truthful, Asked, Run
<1>9. Honest(n(raised), <<entry>>)
  BY <1>7, <1>8 DEF Honest, Preparing
<1>10. raised => Honest(n(raised), <<>>)
  BY <1>7 DEF Honest, Preparing
<1> HIDE DEF n, entry
<1> QED
  BY <1>4, <1>5, <1>6, <1>7, <1>9, <1>10, Moves

LEMMA KeptByComplete ==
  ASSUME GatewayInv, NEW r \in Requests, Complete(r)
  PROVE  GatewayInv'
<1> DEFINE n == [run[r] EXCEPT !.pc = "answered",
                               !.received = IF run[r].stream THEN @ ELSE run[r].text]
<1>1. /\ run[r] \in Run /\ run[r].pc = "complete"
      /\ Whole(run[r]) /\ Recorded(run[r], trail[r])
  BY DEF GatewayInv, TypeOK, Complete, At, Honest
<1>2. ASSUME NEW d \in 0..MaxDeltas, run[r].gone \/ run[r].text = d
      PROVE  LET m == [run[r] EXCEPT !.pc = "answered", !.received = d]
             IN m \in Run /\ Honest(m, trail[r])
  BY <1>1, <1>2 DEF Run, Ended, Honest, Preparing, Whole, Recorded
<1>3. LET d == IF run[r].stream THEN run[r].received ELSE run[r].text
      IN d \in 0..MaxDeltas /\ (run[r].gone \/ run[r].text = d)
  BY <1>1 DEF Whole, Run
<1>4. n \in Run /\ Honest(n, trail[r])
  BY <1>2, <1>3
<1> HIDE DEF n
<1> QED
  BY <1>4, FinishMoves DEF Complete, n

-----------------------------------------------------------------------------
(* The theorems.                                                           *)

LEMMA KeptByAdminWrite ==
  ASSUME GatewayInv, NEW s \in Settings, AdminWrite(s)
  PROVE  GatewayInv'
<1>1. writes' \in 0..MaxWrites
  BY BoundAssumption DEF AdminWrite, SetConfig, GatewayInv, TypeOK
<1>2. config' \in Config
  BY <1>1 DEF AdminWrite, SetConfig, GatewayInv, TypeOK, Config
<1>3. TypeOK'
  BY <1>1, <1>2 DEF AdminWrite, SetConfig, GatewayInv, TypeOK
<1> QED
  BY <1>3 DEF AdminWrite, SetConfig, GatewayInv

\* The invariant of the gateway, for any number of requests, attempts, deltas
\* and admin writes, whatever fails.
THEOREM GatewayInvariant == Spec => []GatewayInv
<1>1. Init => GatewayInv
  <2> SUFFICES ASSUME Init PROVE GatewayInv
    OBVIOUS
  <2>1. NewRun \in Run
    BY BoundAssumption DEF NewRun, Run, Unread, Settings
  <2>2. TypeOK
    BY <2>1, BoundAssumption DEF Init, TypeOK, Config
  <2>3. Honest(NewRun, <<>>)
    BY DEF NewRun, Honest, Preparing, Untouched
  <2> QED
    BY <2>2, <2>3 DEF Init, GatewayInv
<1>2. GatewayInv /\ [Next]_vars => GatewayInv'
  <2> SUFFICES ASSUME GatewayInv, [Next]_vars PROVE GatewayInv'
    OBVIOUS
  <2>1. CASE UNCHANGED vars
    BY <2>1 DEF vars, settings, GatewayInv, TypeOK
  <2>2. CASE \E s \in Settings : AdminWrite(s)
    BY <2>2, KeptByAdminWrite
  <2>3. ASSUME NEW r \in Requests, Step(r) PROVE GatewayInv'
    BY <2>3, KeptByRetrieve, KeptByReadTemplate, KeptByReadGeneration,
       KeptByFailPreparing, KeptByAttempt, KeptByOpenStream, KeptByReadDelta,
       KeptByReadEnd, KeptByReadError, KeptByDeliver, KeptByAbandon,
       KeptByLogSuccess, KeptByLogFailure, KeptByComplete
       DEF Step
  <2> QED
    BY <2>1, <2>2, <2>3, KeptByRefuse, KeptByAccept, KeptByReadUsage,
       KeptByDisconnect
       DEF Next
<1> QED
  BY <1>1, <1>2, PTL DEF Spec

\* Every variable keeps its type; in particular no request asks the model
\* service more than MaxAttempts times, whatever it answers.
THEOREM GatewayTypeCorrect == Spec => []TypeOK
<1>1. GatewayInv => TypeOK
  BY DEF GatewayInv
<1> QED
  BY <1>1, GatewayInvariant, PTL

\* A run leaves one audit record at most, and one exactly if it reached the
\* model, the client stayed and the audit log did not raise.
THEOREM RunsAreRecordedOnce == Spec => []RecordedOnce
<1>1. GatewayInv => RecordedOnce
  <2> SUFFICES ASSUME GatewayInv, NEW r \in Requests
               PROVE  /\ Len(trail[r]) <= 1
                      /\ (/\ run[r].pc \in Ended /\ run[r].calls > 0
                          /\ run[r].pc # "abandoned" /\ ~run[r].raised)
                           => Len(trail[r]) = 1
    BY DEF RecordedOnce
  <2>1. run[r] \in Run /\ Honest(run[r], trail[r])
    BY DEF GatewayInv, TypeOK
  <2>2. run[r].pc \in {"new"} \cup Working \cup Ended
    BY <2>1 DEF Run
  <2> DEFINE n == Len(trail[r])
  <2>3. n \in Nat /\ (trail[r] = <<>> => n = 0)
    BY DEF GatewayInv, TypeOK
  <2>4. run[r].pc \in {"complete", "answered"} => n = 1
    BY <2>1 DEF Honest, Recorded
  <2>5. run[r].pc = "errored" =>
          n <= 1 /\ (run[r].calls > 0 /\ ~run[r].raised => n = 1)
    BY <2>1 DEF Honest
  <2>6. run[r].pc = "refused" => ~(run[r].calls > 0)
    BY <2>1 DEF Honest, Untouched
  <2>7. run[r].pc \notin {"errored", "complete", "answered"} => n = 0
    <3>1. run[r].pc \notin {"errored", "complete", "answered"} => trail[r] = <<>>
      BY <2>1, <2>2
         DEF Working, Preparing, Ended, Honest, Untouched, Asking, Streaming
    <3> QED
      BY <2>3, <3>1
  <2> HIDE DEF n
  <2>8. /\ n <= 1
        /\ (/\ run[r].pc \in Ended /\ run[r].calls > 0
            /\ run[r].pc # "abandoned" /\ ~run[r].raised)
             => n = 1
    BY <2>3, <2>4, <2>5, <2>6, <2>7 DEF Ended
  <2> QED
    BY <2>8 DEF n
<1> QED
  BY <1>1, GatewayInvariant, PTL

\* What the records say is what happened: SUCCESS only for an answer that came
\* whole, with the text the client got; anything else only for one that did
\* not, again with the text the client got, and FAILED if that is none.
THEOREM RecordsAreTrue == Spec => []RecordIsTrue
<1>1. GatewayInv => RecordIsTrue
  <2> SUFFICES ASSUME GatewayInv, NEW r \in Requests
               PROVE  /\ run[r].pc = "answered" =>
                           \E i \in 1..Len(trail[r]) :
                             /\ trail[r][i].status = "SUCCESS"
                             /\ run[r].gone \/ trail[r][i].text = run[r].received
                      /\ \A i \in 1..Len(trail[r]) : Truthful(run[r], trail[r][i])
    BY DEF RecordIsTrue, Truthful
  <2>1. run[r] \in Run /\ Honest(run[r], trail[r])
    BY DEF GatewayInv, TypeOK
  <2>2. run[r].pc \in {"new"} \cup Working \cup Ended
    BY <2>1 DEF Run
  <2>3. trail[r] \in Seq(Record) /\ (trail[r] = <<>> => Len(trail[r]) = 0)
    BY DEF GatewayInv, TypeOK
  <2>4. CASE run[r].pc = "answered"
    BY <2>1, <2>4 DEF Honest, Recorded, Truthful
  <2>5. CASE run[r].pc = "complete"
    BY <2>1, <2>5 DEF Honest, Recorded, Whole, Truthful
  <2>6. CASE run[r].pc = "errored"
    <3>1. trail[r] \in Seq(Record) /\ Len(trail[r]) <= 1
      BY <2>1, <2>3, <2>6 DEF Honest
    <3>2. Len(trail[r]) = 1 => Truthful(run[r], trail[r][1])
      BY <2>1, <2>6 DEF Honest
    <3>3. ASSUME NEW i \in 1..Len(trail[r]) PROVE i = 1 /\ Len(trail[r]) = 1
      <4> DEFINE n == Len(trail[r])
      <4>1. n \in Nat /\ n <= 1 /\ i \in 1..n
        BY <3>1
      <4> HIDE DEF n
      <4>2. i = 1 /\ n = 1
        BY <4>1
      <4> QED
        BY <4>2 DEF n
    <3> QED
      BY <2>6, <3>2, <3>3
  <2>7. CASE trail[r] = <<>> /\ run[r].pc # "answered"
    BY <2>3, <2>7
  <2> QED
    BY <2>1, <2>2, <2>4, <2>5, <2>6, <2>7
       DEF Working, Preparing, Ended, Honest, Untouched, Asking, Streaming
<1> QED
  BY <1>1, GatewayInvariant, PTL

\* The model is asked again, and makes another answer, only for a run that is
\* not streamed, after a transient failure, with nothing of an answer received.
THEOREM NothingIsReplayed == Spec => NoReplay
<1>1. GatewayInv /\ [Next]_vars =>
        [\A r \in Requests :
           LET asksAgain == run'[r].calls > run[r].calls /\ run[r].calls > 0
               madeAgain == run'[r].generated > run[r].generated /\ run[r].generated > 0
           IN asksAgain \/ madeAgain
                => /\ ~run[r].stream
                   /\ run[r].answer = "transient"
                   /\ run[r].text = 0 /\ run[r].received = 0]_vars
  <2> SUFFICES ASSUME GatewayInv, [Next]_vars, NEW r \in Requests,
                      \/ run'[r].calls > run[r].calls /\ run[r].calls > 0
                      \/ run'[r].generated > run[r].generated /\ run[r].generated > 0
               PROVE  /\ ~run[r].stream
                      /\ run[r].answer = "transient"
                      /\ run[r].text = 0 /\ run[r].received = 0
    OBVIOUS
  <2>1. run[r] \in Run /\ Honest(run[r], trail[r])
    BY DEF GatewayInv, TypeOK
  <2>2. ASSUME run'[r].calls = run[r].calls, run'[r].generated = run[r].generated
        PROVE  FALSE
    <3>1. run[r].calls \in Nat /\ run[r].generated \in Nat
      BY <2>1, BoundAssumption DEF Run
    <3> QED
      BY <2>2, <3>1
  <2>3. ASSUME NEW o \in Requests, NEW next, Becomes(o, next),
               next.calls = run[o].calls, next.generated = run[o].generated
        PROVE  FALSE
    BY <2>2, <2>3 DEF Becomes, GatewayInv, TypeOK
  <2>4. PICK o \in Requests :
          Refuse(o) \/ Accept(o) \/ Step(o) \/ ReadUsage(o) \/ Disconnect(o)
    BY <2>2 DEF Next, AdminWrite, SetConfig, vars
  <2>5. run[o] \in Run
    BY DEF GatewayInv, TypeOK
  <2>6. ~(Refuse(o) \/ Accept(o))
    BY <2>3, <2>5 DEF Refuse, Accept, Private, Run
  <2>7. ~(Retrieve(o) \/ ReadTemplate(o) \/ ReadGeneration(o) \/ FailPreparing(o))
    BY <2>3, <2>5 DEF Retrieve, ReadTemplate, ReadGeneration, FailPreparing,
                      Private, Finish, Run
  <2>8. ~(ReadDelta(o) \/ ReadUsage(o) \/ ReadEnd(o) \/ ReadError(o))
    BY <2>3, <2>5 DEF ReadDelta, ReadUsage, ReadEnd, ReadError, Private, Run
  <2>9. ~(Deliver(o) \/ Disconnect(o) \/ Abandon(o))
    BY <2>3, <2>5 DEF Deliver, Disconnect, Abandon, Private, Run
  <2>10. ~(LogSuccess(o) \/ LogFailure(o) \/ Complete(o))
    BY <2>3, <2>5 DEF LogSuccess, LogFailure, Complete, Finish, Run
  <2>11. run[r].pc = "open"
    <3>1. Attempt(o) \/ OpenStream(o)
      BY <2>4, <2>6, <2>7, <2>8, <2>9, <2>10 DEF Step
    <3>2. run[o].pc = "open"
      BY <3>1 DEF Attempt, OpenStream, At
    <3>3. o # r => run'[r] = run[r]
      BY <3>1 DEF Attempt, OpenStream, Private, Becomes, GatewayInv, TypeOK
    <3> QED
      BY <2>2, <3>2, <3>3
  <2>12. Asking(run[r], trail[r]) /\ run[r].calls > 0
    <3>1. Asking(run[r], trail[r])
      BY <2>1, <2>11 DEF Honest
    <3>2. run[r].calls \in Nat /\ run[r].generated \in Nat /\ run[r].generated <= run[r].calls
      BY <2>1, <3>1, BoundAssumption DEF Run, Asking
    <3> QED
      BY <3>1, <3>2
  <2> QED
    BY <2>12 DEF Asking
<1> QED
  BY <1>1, GatewayInvariant, PTL DEF Spec, NoReplay

-----------------------------------------------------------------------------
(* The event loop and the configuration.                                   *)

\* In a process shared with the Admin API, a run that is not streamed holds the
\* loop while it reads the settings, and what it has read is still in force.
Current(r) ==
  /\ run[r].pc = "new" => ~run[r].mixed /\ run[r].seen = Unread
  /\ SameProcess /\ ~run[r].stream =>
       /\ ~run[r].mixed
       /\ run[r].pc \in Preparing =>
            r \in loop /\ \A s \in Settings : run[r].seen[s] \subseteq {config[s]}

LoopInv ==
  /\ TypeOK
  /\ config \in history
  /\ \A r \in Requests : Current(r)

\* A step of one request leaves the others as they were if it changes no
\* setting and takes the loop from none of them.
LEMMA LoopMoves ==
  ASSUME LoopInv, TypeOK', NEW r \in Requests, NEW next, Becomes(r, next),
         UNCHANGED settings, loop \subseteq loop' \cup {r}, Current(r)'
  PROVE  LoopInv'
<1>1. ASSUME NEW o \in Requests, o # r PROVE Current(o)'
  <2>1. run'[o] = run[o] /\ config' = config /\ (o \in loop => o \in loop')
    BY <1>1 DEF LoopInv, TypeOK, Becomes, settings
  <2> QED
    BY <2>1 DEF LoopInv, Current
<1> QED
  BY <1>1 DEF LoopInv, settings

\* Once prepared, a request reads no setting any more.
LEMMA LoopPastPreparing ==
  ASSUME LoopInv, TypeOK', NEW r \in Requests, NEW next, Becomes(r, next),
         UNCHANGED settings, loop \subseteq loop' \cup {r},
         next.stream = run[r].stream, next.mixed = run[r].mixed,
         next.pc \notin {"new"} \cup Preparing
  PROVE  LoopInv'
<1>1. run'[r] = next
  BY DEF LoopInv, TypeOK, Becomes
<1>2. Current(r)'
  BY <1>1 DEF LoopInv, Current
<1> QED
  BY <1>2, LoopMoves

\* The admin's handler waits for the loop that the reading run holds.
LEMMA LoopAdminWrite ==
  ASSUME LoopInv, TypeOK', NEW s \in Settings, AdminWrite(s)
  PROVE  LoopInv'
<1>1. UNCHANGED <<run, loop>> /\ config' \in history'
  BY DEF AdminWrite, SetConfig
<1>2. SameProcess => loop = {}
  BY DEF AdminWrite
<1>3. ASSUME NEW r \in Requests PROVE Current(r)'
  BY <1>1, <1>2 DEF LoopInv, Current
<1> QED
  BY <1>1, <1>3 DEF LoopInv

LEMMA LoopAccept ==
  ASSUME LoopInv, TypeOK', NEW r \in Requests, Accept(r)
  PROVE  LoopInv'
<1> PICK stream \in BOOLEAN :
      /\ Becomes(r, [run[r] EXCEPT !.pc = "retrieve", !.stream = stream])
      /\ loop' = IF stream THEN {} ELSE {r}
  BY DEF Accept
<1> DEFINE n == [run[r] EXCEPT !.pc = "retrieve", !.stream = stream]
<1>1. run[r] \in Run /\ run[r].pc = "new" /\ Current(r)
  BY DEF LoopInv, TypeOK, Accept
<1>2. /\ n.pc = "retrieve" /\ n.stream = stream
      /\ n.mixed = run[r].mixed /\ n.seen = run[r].seen
  BY <1>1 DEF Run
<1>3. ~run[r].mixed /\ run[r].seen = Unread
  BY <1>1 DEF Current
<1> HIDE DEF n
<1>4. run'[r] = n
  BY DEF LoopInv, TypeOK, Becomes, n
<1>5. Current(r)'
  <2>1. \A s \in Settings : run'[r].seen[s] = {}
    BY <1>2, <1>3, <1>4 DEF Unread
  <2>2. ~stream => r \in loop'
    OBVIOUS
  <2> QED
    BY <1>2, <1>3, <1>4, <2>1, <2>2 DEF Current
<1>6. loop = {} /\ UNCHANGED settings
  BY DEF Accept
<1> QED
  BY <1>5, <1>6, LoopMoves DEF n

\* Reading one more setting while the loop is held: all that was read is in
\* force at this moment.
LEMMA LoopReads ==
  ASSUME LoopInv, NEW r \in Requests, run[r].pc \in Preparing,
         SameProcess, ~run[r].stream, NEW s \in Settings
  PROVE  \A p \in Settings : SeenWith(r, s)[p] \subseteq {config[p]}
<1>1. \A p \in Settings : run[r].seen[p] \subseteq {config[p]}
  BY DEF LoopInv, Current
<1>2. run[r].seen \in [Settings -> SUBSET (0..MaxWrites)]
  BY DEF LoopInv, TypeOK, Run
<1> QED
  BY <1>1, <1>2 DEF SeenWith

LEMMA LoopRetrieve ==
  ASSUME LoopInv, TypeOK', NEW r \in Requests, Retrieve(r)
  PROVE  LoopInv'
<1> PICK seen \in {Unread, SeenWith(r, "collection")} :
      Private(r, [run[r] EXCEPT !.pc = "template", !.seen = seen])
  BY DEF Retrieve
<1> DEFINE n == [run[r] EXCEPT !.pc = "template", !.seen = seen]
<1>1. /\ run[r] \in Run /\ run[r].pc = "retrieve" /\ Current(r)
      /\ UNCHANGED <<loop, settings>> /\ Becomes(r, n)
  BY DEF LoopInv, TypeOK, Retrieve, At, Private
<1>2. /\ n.pc = "template" /\ n.stream = run[r].stream
      /\ n.mixed = run[r].mixed /\ n.seen = seen
  BY <1>1 DEF Run
<1>3. SameProcess /\ ~run[r].stream => \A p \in Settings : seen[p] \subseteq {config[p]}
  <2>1. SameProcess /\ ~run[r].stream =>
          \A p \in Settings : SeenWith(r, "collection")[p] \subseteq {config[p]}
    BY <1>1, LoopReads DEF Preparing, Settings
  <2>2. \A p \in Settings : Unread[p] \subseteq {config[p]}
    BY DEF Unread
  <2> QED
    BY <2>1, <2>2
<1> HIDE DEF n
<1>4. run'[r] = n
  BY <1>1 DEF LoopInv, TypeOK, Becomes
<1>5. Current(r)'
  BY <1>1, <1>2, <1>3, <1>4 DEF Current, Preparing, settings
<1> QED
  BY <1>1, <1>5, LoopMoves

LEMMA LoopReadTemplate ==
  ASSUME LoopInv, TypeOK', NEW r \in Requests, ReadTemplate(r)
  PROVE  LoopInv'
<1> DEFINE n == [run[r] EXCEPT !.pc = "generation", !.seen = SeenWith(r, "template")]
<1>1. /\ run[r] \in Run /\ run[r].pc = "template" /\ Current(r)
      /\ UNCHANGED <<loop, settings>> /\ Becomes(r, n)
  BY DEF LoopInv, TypeOK, ReadTemplate, At, Private
<1>2. /\ n.pc = "generation" /\ n.stream = run[r].stream
      /\ n.mixed = run[r].mixed /\ n.seen = SeenWith(r, "template")
  BY <1>1 DEF Run
<1>3. SameProcess /\ ~run[r].stream =>
        \A p \in Settings : SeenWith(r, "template")[p] \subseteq {config[p]}
  BY <1>1, LoopReads DEF Preparing, Settings
<1> HIDE DEF n
<1>4. run'[r] = n
  BY <1>1 DEF LoopInv, TypeOK, Becomes
<1>5. Current(r)'
  BY <1>1, <1>2, <1>3, <1>4 DEF Current, Preparing, settings
<1> QED
  BY <1>1, <1>5, LoopMoves

LEMMA LoopReadGeneration ==
  ASSUME LoopInv, TypeOK', NEW r \in Requests, ReadGeneration(r)
  PROVE  LoopInv'
<1> DEFINE verdict == ~OneConfig(SeenWith(r, "generation"))
           n == [run[r] EXCEPT !.pc = "open", !.seen = Unread, !.mixed = verdict]
<1>1. /\ run[r] \in Run /\ run[r].pc = "generation" /\ Current(r)
      /\ UNCHANGED <<loop, settings>> /\ Becomes(r, n)
  BY DEF LoopInv, TypeOK, ReadGeneration, At, Private
<1>2. SameProcess /\ ~run[r].stream => ~verdict
  <2>1. SameProcess /\ ~run[r].stream =>
          \A p \in Settings : SeenWith(r, "generation")[p] \subseteq {config[p]}
    BY <1>1, LoopReads DEF Preparing, Settings
  <2> QED
    BY <2>1 DEF OneConfig, LoopInv
<1> HIDE DEF verdict
<1>3. n.pc = "open" /\ n.stream = run[r].stream /\ n.mixed = verdict
  BY <1>1 DEF Run
<1> HIDE DEF n
<1>4. run'[r] = n
  BY <1>1 DEF LoopInv, TypeOK, Becomes
<1>5. Current(r)'
  BY <1>2, <1>3, <1>4 DEF Current, Preparing
<1> QED
  BY <1>1, <1>5, LoopMoves
\* The steps after preparation keep stream and mixed, and the loop or give it
\* back.
LEMMA LoopOtherSteps ==
  ASSUME LoopInv, TypeOK', NEW r \in Requests,
         \/ Refuse(r) \/ FailPreparing(r) \/ Attempt(r) \/ OpenStream(r)
         \/ ReadDelta(r) \/ ReadUsage(r) \/ ReadEnd(r) \/ ReadError(r)
         \/ Deliver(r) \/ Abandon(r)
         \/ LogSuccess(r) \/ LogFailure(r) \/ Complete(r)
  PROVE  LoopInv'
<1> DEFINE Quiet(next) ==
      /\ next.stream = run[r].stream /\ next.mixed = run[r].mixed
      /\ next.pc \notin {"new"} \cup Preparing
<1>1. run[r] \in Run
  BY DEF LoopInv, TypeOK
<1>2. ASSUME NEW next, Private(r, next), Quiet(next) PROVE LoopInv'
  BY <1>2, LoopPastPreparing DEF Private
<1>3. ASSUME NEW next, Finish(r, next), Quiet(next) PROVE LoopInv'
  BY <1>3, LoopPastPreparing DEF Finish
<1>4. CASE Refuse(r)
  BY <1>1, <1>2, <1>4 DEF Refuse, Run, Preparing
<1>5. CASE FailPreparing(r)
  BY <1>1, <1>3, <1>5 DEF FailPreparing, Run, Preparing
<1> DEFINE failed(b, a) == [Called(r, b) EXCEPT !.pc = "failure", !.answer = a]
<1>6. CASE Attempt(r)
  <2> DEFINE whole(n) ==
               [Called(r, TRUE) EXCEPT !.pc = "success", !.answer = "whole", !.text = n]
             again(b) == [Called(r, b) EXCEPT !.answer = "transient"]
  <2>1. \A n : Quiet(whole(n))
    BY <1>1 DEF Called, Run, Preparing
  <2>2. \A b \in BOOLEAN : Quiet(again(b))
    BY <1>1, <1>6 DEF Attempt, At, Called, Run, Preparing
  <2>3. \A b \in BOOLEAN : \A a : Quiet(failed(b, a))
    BY <1>1 DEF Called, Run, Preparing
  <2>4. \/ \E n \in 0..MaxDeltas : Private(r, whole(n))
        \/ \E b \in BOOLEAN : Private(r, again(b))
        \/ \E b \in BOOLEAN : Private(r, failed(b, "transient"))
        \/ \E b \in BOOLEAN : Private(r, failed(b, "failed"))
    BY <1>6 DEF Attempt
  <2> HIDE DEF whole, again, failed, Quiet
  <2> QED
    BY <1>2, <2>1, <2>2, <2>3, <2>4
<1>7. CASE OpenStream(r)
  <2> DEFINE opened == [Called(r, TRUE) EXCEPT !.pc = "read"]
  <2>1. Quiet(opened) /\ \A b \in BOOLEAN : \A a : Quiet(failed(b, a))
    BY <1>1 DEF Called, Run, Preparing
  <2>2. Private(r, opened) \/ \E b \in BOOLEAN : Private(r, failed(b, "failed"))
    BY <1>7 DEF OpenStream
  <2> HIDE DEF opened, failed, Quiet
  <2> QED
    BY <1>2, <2>1, <2>2
<1>8. CASE ReadDelta(r) \/ ReadUsage(r) \/ ReadEnd(r) \/ ReadError(r)
  BY <1>1, <1>2, <1>8 DEF ReadDelta, ReadUsage, ReadEnd, ReadError, At, Run, Preparing
<1>9. CASE Deliver(r) \/ Abandon(r)
  BY <1>1, <1>2, <1>9 DEF Deliver, Abandon, Run, Preparing
<1>10. CASE LogSuccess(r) \/ LogFailure(r)
  <2> DEFINE logged(p, b) == [run[r] EXCEPT !.pc = p, !.raised = b]
  <2>1. \A p, b : p \in {"complete", "errored"} => Quiet(logged(p, b))
    BY <1>1 DEF Run, Preparing
  <2>2. PICK p \in {"complete", "errored"}, b \in BOOLEAN : Becomes(r, logged(p, b))
    BY <1>10 DEF LogSuccess, LogFailure
  <2>3. UNCHANGED settings /\ loop \subseteq loop' \cup {r}
    BY <1>10 DEF LogSuccess, LogFailure, Log
  <2>4. Quiet(logged(p, b))
    BY <2>1
  <2> HIDE DEF logged
  <2> QED
    BY <2>2, <2>3, <2>4, LoopPastPreparing
<1>11. CASE Complete(r)
  BY <1>1, <1>3, <1>11 DEF Complete, Run, Preparing
<1> QED
  BY <1>4, <1>5, <1>6, <1>7, <1>8, <1>9, <1>10, <1>11
\* Only a stream can lose its client.
LEMMA LoopDisconnect ==
  ASSUME LoopInv, TypeOK', NEW r \in Requests, Disconnect(r)
  PROVE  LoopInv'
<1> DEFINE n == [run[r] EXCEPT !.gone = TRUE]
<1>1. run[r] \in Run /\ run[r].stream /\ run[r].pc \in Working
  BY DEF LoopInv, TypeOK, Disconnect
<1>2. n.stream /\ n.pc # "new"
  BY <1>1 DEF Run, Working, Preparing
<1>3. run'[r] = n /\ UNCHANGED <<loop, settings>> /\ Becomes(r, n)
  BY DEF LoopInv, TypeOK, Disconnect, Private, Becomes
<1> HIDE DEF n
<1>4. Current(r)'
  BY <1>2, <1>3 DEF Current
<1> QED
  BY <1>3, <1>4, LoopMoves

\* For any number of requests and admin writes: in a process shared with the
\* Admin API, a run that is not streamed reads one configuration.
THEOREM BlockingRunsAreUnmixed == Spec => []BlockingRunsSeeOneConfig
<1>1. Init /\ TypeOK => LoopInv
  BY DEF Init, LoopInv, Current, NewRun, Preparing
<1>2. LoopInv /\ TypeOK' /\ [Next]_vars => LoopInv'
  <2> SUFFICES ASSUME LoopInv, TypeOK', [Next]_vars PROVE LoopInv'
    OBVIOUS
  <2>1. CASE UNCHANGED vars
    BY <2>1 DEF vars, settings, LoopInv, Current
  <2>2. CASE \E s \in Settings : AdminWrite(s)
    BY <2>2, LoopAdminWrite
  <2>3. ASSUME NEW r \in Requests, Step(r) PROVE LoopInv'
    BY <2>3, LoopRetrieve, LoopReadTemplate, LoopReadGeneration, LoopOtherSteps
       DEF Step
  <2> QED
    BY <2>1, <2>2, <2>3, LoopAccept, LoopDisconnect, LoopOtherSteps DEF Next
<1>3. LoopInv => BlockingRunsSeeOneConfig
  BY DEF LoopInv, Current, BlockingRunsSeeOneConfig
<1> QED
  BY <1>1, <1>2, <1>3, GatewayTypeCorrect, PTL DEF Spec
=============================================================================
