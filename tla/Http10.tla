------------------------------- MODULE Http10 -------------------------------
(***************************************************************************)
(* createHttp10Get and createHttp10Fetch (src/src/core/http10.ts): one      *)
(* request over one connection.  get collects the whole response; fetch     *)
(* resolves at the headers and streams the body to its reader, pausing the  *)
(* socket while a chunk is queued.  Both are abortable to the end and never *)
(* hand a truncated body over as a success.                                 *)
(*                                                                         *)
(* Bytes are counted in units.  What Business Central sends is a number of  *)
(* interim heads, a head and a body; the socket delivers it in segments of  *)
(* any size, and may close or break between any two.                        *)
(***************************************************************************)
EXTENDS Integers, Sequences, Functions

CONSTANTS
  Responses, \* what Business Central may send
  MaxBytes,  \* get's maxBytes
  MaxBody,   \* fetch's maxBodyBytes
  MaxHeader  \* fetch's maxHeaderBytes

Kinds == {"plain", "bodyless", "switch", "malformed", "chunked"} \* bodyless: 204, 205, 304, or HEAD

NoLength == -1  \* no Content-Length
BadLength == -2 \* one that is no number

Response ==
  [kind : Kinds, interims : Nat, head : Nat \ {0}, declared : {NoLength, BadLength} \cup Nat, body : Nat]

\* A 1xx answers an "Expect", which get never sends.
Answerable(client, r) == client = "get" => r.interims = 0

ASSUME Http10Assumption ==
  /\ Responses \subseteq Response /\ Responses # {}
  /\ {MaxBytes, MaxBody, MaxHeader} \subseteq Nat \ {0}

Terminator == 2 \* \r\n\r\n, which a segment may split
HighWater == 1  \* chunks: the default of a ReadableStream

VARIABLE http \* the locals of the one request, its socket and its stream

Http ==
  [client : {"get", "fetch"},
   outcome : {"none", "pending", "ok", "aborted", "invalid", "protocol", "network"}, \* of the promise
   response : Responses,
   socket : {"none", "connecting", "connected", "destroyed"},
   paused : BOOLEAN,
   received : Nat,                              \* units the data handler was given
   ended : BOOLEAN,                             \* the end handler ran
   listening : BOOLEAN,                         \* signal.addEventListener("abort", onAbort)
   aborted : BOOLEAN,                           \* signal.aborted
   stream : {"none", "open", "closed", "errored", "cancelled"},
   queue : Seq(Nat \ {0}),                      \* sizes of the chunks enqueued and not read
   reading : BOOLEAN,                           \* a read() waits for a chunk
   taken : Nat]                                 \* body units the caller has

\* The client and the response are chosen when the request starts.
HttpInit ==
  http = [client |-> "get", outcome |-> "none", response |-> CHOOSE r \in Responses : TRUE,
          socket |-> "none", paused |-> FALSE, received |-> 0, ended |-> FALSE, listening |-> FALSE,
          aborted |-> FALSE, stream |-> "none", queue |-> <<>>, reading |-> FALSE, taken |-> 0]

----------------------------------------------------------------------------
(* The response, as far as it has been received *)

InterimSize == 1 + Terminator

\* Where the head of the response proper ends, and with its terminator the header block.
HeadEnd(s) == s.response.interims * InterimSize + s.response.head
BodyStart(s) == HeadEnd(s) + Terminator

HeadersComplete(s) == s.received >= BodyStart(s)

BodyReceived(s) == s.received - BodyStart(s)

Queued(s) == FoldFunction(+, 0, s.queue)

\* fetch's bodyBytes and remaining
BodyBytes(s) == s.taken + Queued(s)
Remaining(s) == s.response.declared - BodyBytes(s)
HasLength(s) == s.response.declared >= 0

----------------------------------------------------------------------------
(* The closures both clients end by *)

GiveBack(s) == [s EXCEPT !.socket = "destroyed", !.listening = FALSE]

\* get: finish
Finish(s, outcome) == [GiveBack(s) EXCEPT !.outcome = outcome]

\* Parsed gone wrong: nobody compares Content-Length with what arrived
ParsedUnchecked(s) == HeadersComplete(s) /\ s.response.kind \notin {"malformed", "chunked"}

\* get: parseResponse, and finish with what it returns or throws
Parsed(s) ==
  /\ HeadersComplete(s) /\ s.response.kind \notin {"malformed", "chunked"}
  /\ s.response.declared # NoLength => s.response.declared = BodyReceived(s)

FinishParsed(s) ==
  IF Parsed(s) THEN [Finish(s, "ok") EXCEPT !.taken = BodyReceived(s)] ELSE Finish(s, "protocol")

\* fetch: fail rejects before the headers are resolved and errors the stream after; an error drops the queue
Fail(s, outcome) ==
  IF s.outcome = "pending" THEN Finish(s, outcome)
  ELSE [GiveBack(s) EXCEPT !.stream = "errored", !.queue = <<>>, !.reading = FALSE]

\* fetch: finishBody
FinishBody(s) == [GiveBack(s) EXCEPT !.stream = "closed", !.reading = FALSE]

----------------------------------------------------------------------------
(* The data and end handlers *)

\* controller.enqueue: a waiting read() gets the chunk, otherwise it is queued, and the socket paused once
\* the queue is full.
Enqueue(s, units) ==
  IF s.reading THEN [s EXCEPT !.taken = @ + units, !.reading = FALSE]
  ELSE [s EXCEPT !.queue = Append(@, units), !.paused = Len(s.queue) + 1 >= HighWater]

PushBody(s, units) ==
  LET take == IF HasLength(s) /\ units > Remaining(s) THEN Remaining(s) ELSE units
      pushed == Enqueue(s, take) IN
  IF units = 0 THEN s
  ELSE IF BodyBytes(s) + take > MaxBody THEN Fail(s, "protocol")
  ELSE IF HasLength(s) /\ Remaining(s) = take THEN FinishBody(pushed)
  ELSE pushed

\* Interim heads are skipped and count; the head is judged as soon as it is complete, and the body begins
\* with what the segment holds beyond it.
OnHeaders(s) ==
  LET opened == [s EXCEPT !.outcome = "ok", !.stream = "open"] IN
  IF ~HeadersComplete(s) /\ s.received <= MaxHeader THEN s
  ELSE IF \/ (IF HeadersComplete(s) THEN HeadEnd(s) ELSE s.received) > MaxHeader
          \/ s.response.kind \in {"malformed", "switch", "chunked"}
          \/ s.response.declared = BadLength
       THEN Fail(s, "protocol")
  ELSE IF s.response.kind = "bodyless" THEN Finish(s, "ok")
  ELSE IF s.response.declared = 0 THEN FinishBody(opened)
  ELSE PushBody(opened, BodyReceived(s))

FetchData(s, units) == IF s.outcome = "pending" THEN OnHeaders(s) ELSE PushBody(s, units)

FetchEnd(s) ==
  IF s.outcome = "pending" \/ (HasLength(s) /\ Remaining(s) > 0) THEN Fail(s, "protocol") ELSE FinishBody(s)

\* get does not wait for the end once the declared length is there.
GetData(s) ==
  IF s.received > MaxBytes THEN Finish(s, "protocol")
  ELSE IF HeadersComplete(s) /\ HasLength(s) /\ BodyReceived(s) >= s.response.declared THEN FinishParsed(s)
  ELSE s

----------------------------------------------------------------------------
(* The call *)

Open(s) == s.socket \in {"connecting", "connected"}

\* An aborted signal, a header with a line break, a scheme other than http and https: no connection.
Refused ==
  /\ http.outcome = "none"
  /\ \E o \in {"aborted", "invalid", "protocol"} :
       /\ o = "aborted" <=> http.aborted
       /\ http' = [http EXCEPT !.outcome = o]

\* fetch looks at the signal once more after it has read the request's body.
HttpStarts ==
  /\ http.outcome = "none" /\ ~http.aborted
  /\ \E client \in {"get", "fetch"}, r \in Responses :
       /\ Answerable(client, r)
       /\ http' = [http EXCEPT !.client = client, !.response = r, !.outcome = "pending",
                               !.socket = "connecting", !.listening = TRUE]

Connects ==
  /\ http.socket = "connecting"
  /\ http' = [http EXCEPT !.socket = "connected"]

\* socket.on("data"); a paused socket emits nothing.
DataArrives ==
  /\ http.socket = "connected" /\ ~http.paused
  /\ \E units \in 1..(BodyStart(http) + http.response.body - http.received) :
       LET s == [http EXCEPT !.received = @ + units] IN
       http' = IF s.client = "get" THEN GetData(s) ELSE FetchData(s, units)

\* socket.on("end"): Business Central closed, with the response complete or not.
EndArrives ==
  /\ http.socket = "connected" /\ ~http.paused
  /\ LET s == [http EXCEPT !.ended = TRUE] IN
     http' = IF s.client = "get" THEN FinishParsed(s) ELSE FetchEnd(s)

\* socket.on("error")
ConnectionBreaks ==
  /\ Open(http)
  /\ http' = IF http.client = "get" THEN Finish(http, "network") ELSE Fail(http, "network")

\* The caller's signal; it reaches the request as long as onAbort listens.
SignalAborts ==
  /\ ~http.aborted
  /\ LET s == [http EXCEPT !.aborted = TRUE] IN
     http' = IF ~s.listening THEN s
             ELSE IF s.client = "get" THEN Finish(s, "aborted") ELSE Fail(s, "aborted")

----------------------------------------------------------------------------
(* The reader of fetch's body *)

\* pull: the queue has room again
Pull(s) == IF Len(s.queue) < HighWater THEN [s EXCEPT !.paused = FALSE] ELSE s

ReadsChunk ==
  /\ http.stream \in {"open", "closed"} /\ http.queue # <<>>
  /\ http' = Pull([http EXCEPT !.taken = @ + Head(http.queue), !.queue = Tail(@)])

AwaitsChunk ==
  /\ http.stream = "open" /\ http.queue = <<>> /\ ~http.reading
  /\ http' = Pull([http EXCEPT !.reading = TRUE])

Cancels ==
  /\ http.stream = "open" \/ http.queue # <<>>
  /\ http' = [GiveBack(http) EXCEPT !.stream = "cancelled", !.queue = <<>>, !.reading = FALSE]

HttpNext ==
  \/ Refused \/ HttpStarts \/ Connects
  \/ DataArrives \/ EndArrives \/ ConnectionBreaks \/ SignalAborts
  \/ ReadsChunk \/ AwaitsChunk \/ Cancels

\* Every caller hands in a signal with a deadline of its own; Business Central owes nothing.
HttpSpec == HttpInit /\ [][HttpNext]_http /\ WF_http(SignalAborts)

----------------------------------------------------------------------------
(* Properties *)

HttpTypeOK == http \in Http

\* "Never returns a truncated body as success": what get resolves with, and what a reader of fetch's body
\* has when it ends, is all that was declared, or all that came before Business Central closed; on the
\* way no unit of it is lost or repeated, however the segments fall.
NeverTruncated ==
  LET due == IF HasLength(http) /\ http.response.declared < BodyReceived(http)
             THEN http.response.declared ELSE BodyReceived(http)
      whole(units) == IF HasLength(http) THEN units = http.response.declared ELSE http.ended
  IN
  /\ http.outcome = "ok" => http.response.kind \notin {"malformed", "chunked"}
  /\ http.outcome = "ok" /\ http.client = "get" => whole(http.taken)
  /\ http.stream \in {"open", "closed"} => BodyBytes(http) = due /\ due <= MaxBody
  /\ http.stream = "closed" => whole(BodyBytes(http))

\* A connection is held exactly as long as the caller's signal can end it, and never by a request that
\* is over.
ConnectionAbortable ==
  /\ Open(http) <=> http.listening
  /\ Open(http) => ~http.aborted /\ (http.outcome = "pending" \/ http.stream = "open")

\* Backpressure neither stalls the reader nor lets the queue grow: the socket is paused exactly while
\* there is a chunk to be read, and nobody waits for one then.
ReaderFlows ==
  /\ Open(http) => (http.paused <=> Len(http.queue) >= HighWater)
  /\ Len(http.queue) <= HighWater
  /\ http.reading => http.queue = <<>> /\ Open(http)

\* Whatever arrives in whatever segments, and whenever the connection ends, breaks or is given up.
HttpHonest == HttpTypeOK /\ NeverTruncated /\ ConnectionAbortable /\ ReaderFlows
=============================================================================
