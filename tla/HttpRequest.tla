----------------------------- MODULE HttpRequest -----------------------------
(***************************************************************************)
(* One request of CanonicalFSHTTPClient (packages/ts/src/canonicalfs,      *)
(* http.ts) over pinnedFetch (tls.ts): the timer races a task that waits   *)
(* for the response, reads its body under a byte limit and parses it,      *)
(* while the daemon answers, stalls or breaks the connection at any time.  *)
(*                                                                         *)
(* A step is one macrotask of the event loop with the microtasks it leads  *)
(* to.  What the loop delivers later (the effect of an abort signal on the *)
(* socket, the close event of a decoder) is a step of its own.             *)
(***************************************************************************)
EXTENDS Integers

CONSTANTS MaxResponseBytes,   \* maxResponseBytes
          MaxSent             \* most bytes of body the daemon sends (a bound)

HttpAssumption == MaxResponseBytes \in Nat /\ MaxSent \in Nat
ASSUME HttpAssumption

VARIABLES task,      \* what the raced task waits for
          timeout,   \* the timer of setTimeout
          signal,    \* controller.signal
          socket,    \* the connection and its IncomingMessage
          decoder,   \* the decompressor between it and the body
          body,      \* the web stream of the body
          declared,  \* content-length, 0 when there is none to see
          sent,      \* bytes of (decoded) body the daemon has sent
          sender,    \* is the daemon still sending the body
          size,      \* bytes read
          result     \* what the promise of the request was settled with
requestVars == <<task, timeout, signal, socket, decoder, body, declared, sent, sender, size, result>>

\* What a whole body may say (a result, or the daemon's own error), and the
\* errors the client makes up.
Answers == {"value", "refusal"}
Errors == {"ERR_DAEMON", "ERR_RESPONSE_TOO_LARGE", "timed out"}

RequestTypeOK ==
    /\ task \in {"fetch", "read", "ended"}
    /\ timeout \in {"armed", "fired", "cleared"}
    /\ signal \in {"clear", "aborted"} /\ sender \in {"sending", "ended"}
    /\ socket \in {"open", "closed"}
    /\ decoder \in {"none", "open", "closing", "closed"}
    /\ body \in {"none", "readable", "closed"}
    /\ declared \in Nat /\ sent \in Nat /\ size \in Nat
    /\ result \in {"pending"} \cup Answers \cup Errors

RequestInit ==
    /\ task = "fetch" /\ timeout = "armed" /\ signal = "clear"
    /\ socket = "open" /\ decoder = "none" /\ body = "none"
    /\ declared = 0 /\ sent = 0 /\ sender = "sending" /\ size = 0
    /\ result = "pending"

(***************************************************************************)
(* What the steps are made of                                              *)
(***************************************************************************)
\* Wrong: the timer of a settled request stays armed.
FinishKeepsTimer(outcome) ==
    /\ task' = "ended"
    /\ result' = IF result = "pending" THEN outcome ELSE result
    /\ timeout' = timeout

\* The task ends with this outcome: it settles the race if the timer has not,
\* and settling the race clears the timer (finally).
Finish(outcome) ==
    /\ task' = "ended"
    /\ result' = IF result = "pending" THEN outcome ELSE result
    /\ timeout' = IF timeout = "armed" THEN "cleared" ELSE timeout

\* The body is cancelled or breaks: the node stream under it is destroyed,
\* which is the decoder when there is one and the response when there is not.
DestroyBody ==
    /\ body' = IF body = "none" THEN "none" ELSE "closed"
    /\ decoder' = IF decoder = "open" THEN "closing" ELSE decoder
    /\ socket' = IF decoder = "open" THEN socket ELSE "closed"

(***************************************************************************)
(* pinnedFetch                                                             *)
(***************************************************************************)
\* No connection, no verified certificate, or a broken exchange of headers.
FetchFails ==
    /\ task = "fetch" /\ socket = "open"
    /\ socket' = "closed"
    /\ Finish("ERR_DAEMON")
    /\ UNCHANGED <<signal, decoder, body, declared, sent, sender, size>>

\* A status outside 200 to 599, or a redirect.
StatusRefused ==
    /\ task = "fetch" /\ socket = "open"
    /\ socket' = "closed"
    /\ Finish("ERR_DAEMON")
    /\ UNCHANGED <<signal, decoder, body, declared, sent, sender, size>>

\* Status 204 or 205: no body, no decoder, and nothing that parses as JSON.
NoBody ==
    /\ task = "fetch" /\ socket = "open"
    /\ socket' = "closed"
    /\ Finish(IF signal = "aborted" THEN "timed out" ELSE "ERR_DAEMON")
    /\ UNCHANGED <<signal, decoder, body, declared, sent, sender, size>>

\* The decoders hide the length the daemon declared.
Seen(encoded, length) == IF encoded THEN 0 ELSE length

\* Headers arrive after the abort: the body is cancelled unread.
LateResponse(encoded, length) ==
    /\ task = "fetch" /\ socket = "open" /\ signal = "aborted"
    /\ body' = "closed"
    /\ decoder' = IF encoded THEN "closing" ELSE "none"
    /\ socket' = IF encoded THEN socket ELSE "closed"
    /\ declared' = Seen(encoded, length)
    /\ Finish("timed out")
    /\ UNCHANGED <<signal, sent, sender, size>>

\* The declared length is over the limit: cancelled and aborted unread.
DeclaredTooLarge(length) ==
    /\ task = "fetch" /\ socket = "open" /\ signal = "clear"
    /\ length > MaxResponseBytes
    /\ body' = "closed" /\ socket' = "closed" /\ signal' = "aborted"
    /\ declared' = length
    /\ Finish("ERR_RESPONSE_TOO_LARGE")
    /\ UNCHANGED <<decoder, sent, sender, size>>

ResponseArrives(encoded, length) ==
    /\ task = "fetch" /\ socket = "open" /\ signal = "clear"
    /\ Seen(encoded, length) <= MaxResponseBytes
    /\ task' = "read" /\ body' = "readable"
    /\ decoder' = IF encoded THEN "open" ELSE "none"
    /\ declared' = Seen(encoded, length)
    /\ UNCHANGED <<timeout, signal, socket, sent, sender, size, result>>

(***************************************************************************)
(* The daemon's side of the body                                           *)
(***************************************************************************)
Sends(n) ==
    /\ body = "readable" /\ socket = "open" /\ sender = "sending"
    /\ sent + n <= MaxSent
    /\ declared > 0 => sent + n <= declared
    /\ sent' = sent + n
    /\ UNCHANGED <<task, timeout, signal, socket, decoder, body, declared, sender, size, result>>

Completes ==
    /\ body = "readable" /\ socket = "open" /\ sender = "sending"
    /\ declared > 0 => sent = declared
    /\ sender' = "ended"
    /\ UNCHANGED <<task, timeout, signal, socket, decoder, body, declared, sent, size, result>>

(***************************************************************************)
(* The task                                                                *)
(***************************************************************************)
Fits(n) == size + n <= MaxResponseBytes

ReadChunk(n) ==
    /\ task = "read" /\ body = "readable" /\ signal = "clear"
    /\ n \in 1..(sent - size) /\ Fits(n)
    /\ size' = size + n
    /\ UNCHANGED <<task, timeout, signal, socket, decoder, body, declared, sent, sender, result>>

\* One chunk too many: the reader is cancelled and the request aborted.
ReadTooMuch(n) ==
    /\ task = "read" /\ body = "readable" /\ signal = "clear"
    /\ n \in 1..(sent - size) /\ ~Fits(n)
    /\ size' = size + n
    /\ DestroyBody
    /\ signal' = "aborted"
    /\ Finish("ERR_RESPONSE_TOO_LARGE")
    /\ UNCHANGED <<declared, sent, sender>>

\* The body is at its end: it parses as an envelope, with an error in it
\* or without one, or it does not.
ReadEnds(outcome) ==
    /\ task = "read" /\ body = "readable" /\ signal = "clear"
    /\ sender = "ended" /\ size = sent
    /\ body' = "closed" /\ socket' = "closed"
    /\ decoder' = IF decoder = "open" THEN "closed" ELSE decoder
    /\ Finish(outcome)
    /\ UNCHANGED <<signal, declared, sent, sender, size>>

\* The connection breaks under the body: an error of the response destroys the
\* decoder (response.on "error"), and read throws.
ConnectionBreaks ==
    /\ task = "read" /\ body = "readable" /\ socket = "open"
    /\ socket' = "closed" /\ body' = "closed"
    /\ decoder' = IF decoder = "open" THEN "closed" ELSE decoder
    /\ Finish("ERR_DAEMON")
    /\ UNCHANGED <<signal, declared, sent, sender, size>>

\* What arrives cannot be decompressed: the decoder is destroyed, read throws.
DecodingFails ==
    /\ task = "read" /\ body = "readable" /\ decoder = "open"
    /\ DestroyBody
    /\ Finish("ERR_DAEMON")
    /\ UNCHANGED <<signal, declared, sent, sender, size>>

\* Wrong: the response is left alone when its decoder is gone.
DecoderClosesAlone ==
    /\ decoder = "closing"
    /\ decoder' = "closed"
    /\ UNCHANGED <<task, timeout, signal, socket, body, declared, sent, sender, size, result>>

\* decoder.on "close": the response under it is destroyed.
DecoderCloses ==
    /\ decoder = "closing"
    /\ decoder' = "closed" /\ socket' = "closed"
    /\ UNCHANGED <<task, timeout, signal, body, declared, sent, sender, size, result>>

(***************************************************************************)
(* The timer                                                               *)
(***************************************************************************)
\* Abort, cancel the reader if there is one, reject.  A read that waits then
\* returns done, the task sees the signal before it looks at that, and throws.
TimeoutFires ==
    /\ timeout = "armed"
    /\ timeout' = "fired" /\ signal' = "aborted"
    /\ result' = "timed out"
    /\ IF task = "read" THEN task' = "ended" /\ DestroyBody
                        ELSE UNCHANGED <<task, body, decoder, socket>>
    /\ UNCHANGED <<declared, sent, sender, size>>

\* The abort signal reaches the socket, and fetch rejects if it still waits.
AbortReachesSocket ==
    /\ signal = "aborted" /\ socket = "open"
    /\ socket' = "closed"
    /\ IF task = "fetch" THEN Finish("ERR_DAEMON") ELSE UNCHANGED <<task, timeout, result>>
    /\ UNCHANGED <<signal, decoder, body, declared, sent, sender, size>>

Lengths == 0..(MaxResponseBytes + 1)

DaemonStep ==
    \/ FetchFails \/ StatusRefused \/ NoBody
    \/ \E encoded \in BOOLEAN, length \in Lengths :
         LateResponse(encoded, length) \/ ResponseArrives(encoded, length)
    \/ \E length \in Lengths : DeclaredTooLarge(length)
    \/ \E n \in 1..MaxSent : Sends(n)
    \/ Completes \/ ConnectionBreaks \/ DecodingFails

ReadStep ==
    \/ \E n \in 1..MaxSent : ReadChunk(n) \/ ReadTooMuch(n)
    \/ \E outcome \in Answers \cup {"ERR_DAEMON"} : ReadEnds(outcome)

RequestNext == DaemonStep \/ ReadStep \/ DecoderCloses \/ TimeoutFires \/ AbortReachesSocket

\* The event loop delivers what is due: timers, reads of bytes that are there,
\* close events and abort signals.  The daemon owes nothing.
RequestFairness ==
    /\ WF_requestVars(TimeoutFires) /\ WF_requestVars(ReadStep)
    /\ WF_requestVars(DecoderCloses) /\ WF_requestVars(AbortReachesSocket)

RequestSpec == RequestInit /\ [][RequestNext]_requestVars /\ RequestFairness

(***************************************************************************)
(* Properties                                                              *)
(***************************************************************************)
\* A caller gets the daemon's answer only from a body that came to its end, was
\* read to its last byte and fits the limit, before any timeout; it is told that a
\* response is too large only when the daemon declared or sent more than the
\* limit; and a settled request has no timer left that could abort anything.
AnswerHonest ==
    /\ result \in Answers =>
         sender = "ended" /\ size = sent /\ size <= MaxResponseBytes /\ timeout = "cleared"
    /\ result = "ERR_RESPONSE_TOO_LARGE" =>
         declared > MaxResponseBytes \/ size > MaxResponseBytes
    /\ result # "pending" => timeout # "armed"

\* A request settles and lets go of its connection, whatever the daemon does
\* or fails to do: late headers, a stalled or broken body, a body that cannot
\* be decompressed.
SettlesAndReleases == <>[](result # "pending" /\ task = "ended" /\ socket = "closed")
=============================================================================
