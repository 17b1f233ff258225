---------------------------- MODULE LiveTransport ----------------------------
(***************************************************************************)
(* The Python client of the live environment (class LiveV2) together with  *)
(* the native process of LiveBridge.  A call numbers its request, logs it, *)
(* writes one frame and reads one frame: first its size, then its body;    *)
(* then it logs the answer.  Either line of the log may fail, the write    *)
(* waits for as long as the request pipe is full, and each read may run    *)
(* out of time while the native process is still at work; the caller is    *)
(* then free to call again on the same pipes.                              *)
(*                                                                         *)
(* Not modelled: a frame cut short by a full pipe (the reader sees it as a *)
(* frame that is late, or as a closed pipe), and a line of the log cut     *)
(* short by a failed write, to which the next one is joined.               *)
(***************************************************************************)
EXTENDS LiveBridge

CONSTANTS RequestFrames,  \* bound: request frames the pipe holds unread
          Calls           \* bound: what callers ask for, besides CLOSE

ASSUME TransportAssumption ==
  /\ RequestFrames \in Nat \ {0}
  /\ Calls \subseteq {"OBSERVE", "TENSORS", "ACT", "STEP", "CHECKPOINT"}

VARIABLES
  request_id,  \* LiveV2.request_id
  stage,       \* idle, writing, header, body, exiting (CLOSE answered), gone
  call,        \* the request of the call in progress, or of the last one
  skew,        \* a size was read and its body was not
  heard,       \* history: the <<request, answer>> pairs returned to the caller
  events,      \* the lines handed to the file of requests.jsonl
  flushed,     \* how many of them are on disk
  unsent,      \* history: identities counted for a call whose frame was not written
  closing      \* what LiveV2.close told its caller: none, ok, error

native == <<mode, expected, decisions, pending, terminal, action, standing, world, trace,
            tensors, saves, result, commands, outbox>>
pipes == <<requests, responses, open, issued>>
transport == <<request_id, stage, call, skew, heard, events, flushed, unsent, closing>>
log == <<events, flushed>>
session == <<native, pipes, transport>>

Event(kind, r) == [kind |-> kind, id |-> r.id]

Running == mode \in {"serving", "leaving"}

SessionInit ==
  /\ Init
  /\ request_id = 0 /\ stage = "idle" /\ call = <<>> /\ skew = FALSE
  /\ heard = <<>> /\ events = <<>> /\ flushed = 0 /\ unsent = {} /\ closing = "none"

-----------------------------------------------------------------------------
(* The log: a line is handed to the file object, which is then flushed.    *)

Logged(lines) == events' = lines /\ flushed' = Len(lines)

\* The line is lost, or left in the buffer; or the exception comes after it got out.
LogFails(lines) ==
  /\ events' \in {events, lines}
  /\ flushed' \in flushed .. Len(events')

\* What is still in the buffer is written when the file is closed, if it can be.
LogCloses == LogFails(events)

-----------------------------------------------------------------------------
(* Leaving a call.                                                         *)

\* abort: the process is terminated if it still runs, and the pipes are closed.
Abort ==
  /\ stage' = "gone"
  /\ mode' = IF Running THEN "killed" ELSE mode
  /\ open' = FALSE
  /\ UNCHANGED <<expected, decisions, pending, terminal, action, standing, world, trace,
                 tensors, saves, result, commands, outbox, requests, issued>>

\* An exception leaves request; close catches none of them, its finally aborts.
Raise(r) ==
  IF r.op = "CLOSE"
  THEN Abort /\ closing' = "error"
  ELSE stage' = "idle" /\ closing' = closing /\ UNCHANGED <<native, requests, open, issued>>

\* It has nothing to do with the log, which is closed with the rest.
Drop(r) == Raise(r) /\ IF r.op = "CLOSE" THEN LogCloses ELSE UNCHANGED log

-----------------------------------------------------------------------------
(* LiveV2.request                                                          *)

\* Mutation: a call is counted once its frame is written.
CountedWhenSent == issued + 1
NextIdentity == request_id + 1

\* Mutation: a request is logged together with its answer.
LogNothing(r) == events
LogRequest(r) == Append(events, Event("request", r))

Ask(op, c, token, candidate) ==
  /\ stage = "idle" /\ request_id < MaxRequests
  /\ request_id' = NextIdentity
  /\ call' = RequestOf(op, NextIdentity, c, token, candidate)
  /\ \/ /\ Logged(LogRequest(call')) /\ stage' = "writing"
        /\ UNCHANGED <<native, requests, open, issued, unsent, closing>>
     \/ /\ LogFails(LogRequest(call')) /\ Raise(call')
        /\ unsent' = unsent \cup {call'.id}
  /\ UNCHANGED <<responses, skew, heard>>

\* What callers ask for; CLOSE is only sent by close, for company 0.
AnyCall ==
  \/ \E op \in Calls \ {"ACT"}, c \in CompanyIds : Ask(op, c, NoToken, "none")
  \/ \E c \in CompanyIds, w \in 0 .. world : "ACT" \in Calls /\ Ask("ACT", c, <<c, w>>, "exposed")
  \/ Ask("CLOSE", 0, NoToken, "none")

\* The write has no deadline: it returns when the pipe has room for the frame.
Write ==
  /\ stage = "writing" /\ Running /\ Len(requests) < RequestFrames
  /\ requests' = Append(requests, call) /\ issued' = issued + 1 /\ stage' = "header"
  /\ UNCHANGED <<native, responses, open, request_id, call, skew, heard, log, unsent, closing>>

\* The process has ended, so the write breaks the pipe.
WriteFails ==
  /\ stage = "writing" /\ ~Running
  /\ Drop(call) /\ unsent' = unsent \cup {call.id}
  /\ UNCHANGED <<responses, request_id, call, skew, heard>>

\* The size of the frame arrives.  After a skew what is read is text, too large a size.
ReadSize ==
  /\ stage = "header" /\ responses # <<>> /\ ~skew
  /\ stage' = "body" /\ skew' = TRUE
  /\ UNCHANGED <<native, pipes, request_id, call, heard, log, unsent, closing>>

ReadText ==
  /\ stage = "header" /\ responses # <<>> /\ skew
  /\ Drop(call)
  /\ UNCHANGED <<responses, request_id, call, skew, heard, unsent>>

\* Mutation: any answer with the right schema is taken.
SchemaOnly(a) == TRUE
SameIdentity(a) == a.id = request_id

LogResponse(r) == Append(events, Event("response", r))

\* The answer is checked and logged before it is returned.
ReadBody ==
  /\ stage = "body" /\ responses # <<>>
  /\ responses' = Tail(responses) /\ skew' = FALSE
  /\ \/ ~SameIdentity(Head(responses)) /\ Drop(call) /\ UNCHANGED heard
     \/ /\ SameIdentity(Head(responses))
        /\ LogFails(LogResponse(call)) /\ Raise(call) /\ UNCHANGED heard
     \/ /\ SameIdentity(Head(responses))
        /\ Logged(LogResponse(call))
        /\ heard' = Append(heard, <<call, Head(responses)>>)
        /\ stage' = IF call.op = "CLOSE" THEN "exiting" ELSE "idle"
        /\ UNCHANGED <<native, requests, open, issued, closing>>
  /\ UNCHANGED <<request_id, call, unsent>>

\* Mutation: the clock is only looked at before the size is read.
TimeoutBetweenFrames ==
  /\ stage = "header" /\ Drop(call)
  /\ UNCHANGED <<responses, request_id, call, skew, heard, unsent>>

\* Sixty seconds since the request was written.
ReadTimeout ==
  /\ stage \in {"header", "body"}
  /\ Drop(call)
  /\ UNCHANGED <<responses, request_id, call, skew, heard, unsent>>

\* The process has ended and everything it wrote has been read.
PipeClosed ==
  /\ stage \in {"header", "body"} /\ ~Running /\ responses = <<>>
  /\ Drop(call)
  /\ UNCHANGED <<responses, request_id, call, skew, heard, unsent>>

-----------------------------------------------------------------------------
(* LiveV2.close after its request, abort by the caller, and its death.     *)

\* Mutation: the exit status of the process is not looked at.
AnyExit == ~Running
ExitedCleanly == mode = "closed"

\* The process is given ten seconds to exit; whatever happens, it is aborted.
Exit ==
  /\ stage = "exiting"
  /\ closing' = IF ExitedCleanly THEN "ok" ELSE "error"
  /\ Abort
  /\ UNCHANGED <<responses, request_id, call, skew, heard, log, unsent>>

CallerAborts ==
  /\ stage = "idle" /\ Abort /\ LogCloses
  /\ UNCHANGED <<responses, request_id, call, skew, heard, unsent, closing>>

\* The Python process is killed: the kernel closes its ends of the pipes, and what
\* was left in the buffer of the log is lost.
ClientKilled ==
  /\ stage # "gone" /\ stage' = "gone" /\ open' = FALSE
  /\ unsent' = IF stage = "writing" THEN unsent \cup {request_id} ELSE unsent
  /\ UNCHANGED <<native, requests, responses, issued, request_id, call, skew, heard, log, closing>>

Client ==
  \/ AnyCall \/ Write \/ WriteFails \/ ReadSize \/ ReadText \/ ReadBody \/ ReadTimeout
  \/ PipeClosed \/ Exit \/ CallerAborts \/ ClientKilled

\* Nothing can be written to a pipe that nobody can read.
Process ==
  /\ Native \/ Trouble \/ IdleTimeout \/ EndOfInput
  /\ stage = "gone" => responses' = responses
  /\ UNCHANGED transport

SessionNext == Client \/ Process

SessionSpec == SessionInit /\ [][SessionNext]_session

\* A call writes as soon as there is room, looks at its clock for as long as it
\* reads, and close at its own.
SessionFairness ==
  WF_session(Write \/ WriteFails) /\ WF_session(ReadTimeout) /\ WF_session(Exit)
FairSession == SessionSpec /\ SessionFairness
-----------------------------------------------------------------------------
(* Properties.                                                             *)

\* A caller is never given the answer of another call: not the late answer of
\* one that timed out (after which the frames stay one behind), and not one read
\* from the middle of a frame.
AnswersMatchCalls ==
  \A i \in 1 .. Len(heard) :
    LET asked == heard[i][1] answer == heard[i][2]
    IN  answer.op = asked.op /\ answer.company = asked.company /\ answer.id = asked.id

Waiting == IF stage = "writing" THEN {request_id} ELSE {}

\* An identity stands for one call.  The number of a call that failed before its
\* frame was written is never used for another one, so the process does not get
\* past it; every other number reaches the process, once and in order.
IdentitiesInOrder ==
  /\ \A n \in unsent : expected <= n
  /\ mode = "serving" =>
       /\ {requests[i].id : i \in 1 .. Len(requests)} = (expected .. request_id) \ (unsent \cup Waiting)
       /\ \A i, j \in 1 .. Len(requests) : i < j => requests[i].id < requests[j].id

\* What the process may have acted on is on disk in requests.jsonl, also when
\* the client died with lines in its buffer, and the answers logged there are
\* those of distinct, earlier requests.
EventsAccountForEffects ==
  /\ \A n \in 1 .. expected - 1 : \E i \in 1 .. flushed : events[i] = [kind |-> "request", id |-> n]
  /\ \A i \in 1 .. Len(events) : events[i].kind = "response" =>
       \E j \in 1 .. i - 1 : events[j] = [kind |-> "request", id |-> events[i].id]
  /\ \A i, j \in 1 .. Len(events) : events[i] = events[j] => i = j

\* close returns normally only if every call of the session was served, the
\* process wrote its final result and it left no command half done unless that
\* result says so.
CleanCloseMeansResult ==
  closing = "ok" =>
    /\ unsent = {} /\ expected = request_id + 1
    /\ result.status \in {"COMPLETE", "CLOSED"}
    /\ result.decisions = Len(trace) /\ result.pending = (Len(commands) > Len(trace))

\* The write of a request waits for room that only the process can make.
Blocked == stage = "writing" /\ Running /\ Len(requests) = RequestFrames

\* The process runs its loop, and its own write has a deadline.
ProcessRuns ==
  /\ WF_session(Native /\ UNCHANGED transport)
  /\ WF_session(WriteTimeout /\ UNCHANGED transport)

\* Every call comes back to its caller, with an answer or an exception, unless its
\* write waits for ever: that one has no deadline.  And no write does so while the
\* process runs, not even when both pipes are full of what timed out, so that each
\* side waits for the other to read.
EveryCallReturns ==
  /\ []<>(stage \in {"idle", "gone"}) \/ <>[]Blocked
  /\ ProcessRuns => []<>~Blocked
=============================================================================
