------------------------------- MODULE Client -------------------------------
(***************************************************************************)
(* The receive side of feedbus.client.Client (src/python3/src/feedbus/    *)
(* client.py) running on an asyncio event loop.                            *)
(*                                                                         *)
(* The event loop is modelled as its FIFO ready queue of callbacks: a     *)
(* task step ("step") or the _on_completion callback that asyncio.wait    *)
(* adds to each awaited task ("oncomp").  Every coroutine runs atomically *)
(* from one await that really suspends to the next one.  The tasks are:   *)
(*   Main    the start() coroutine (the receive loop);                    *)
(*   Tok     token_wait_task, awaiting self._token.wait();                *)
(*   1..     the successive read_message_task's;                          *)
(*   App     an application task calling client.read() in a loop.        *)
(* The server sends NFrames frames.  Frame f travels as two segments,    *)
(* 2f-1 (its type tag and first fields) and 2f (the rest), so a frame can *)
(* be partly received.  "arrived" segments were fed to the StreamReader,  *)
(* "taken" were consumed by readexactly.                                  *)
(***************************************************************************)
EXTENDS Naturals, Sequences, FiniteSets, SequencesExt

CONSTANTS
  NFrames,  \* number of frames the server sends
  Main, Tok, App,  \* the start() task, token_wait_task, the application task
  Kinds     \* kinds a frame may have: "data" (MulticastData/UnicastData
            \* with a payload the serializer accepts), "junk" (a data frame
            \* whose payload the serializer rejects), "ctrl" (any other
            \* known type tag), "bad" (a type tag outside 0..5)

ASSUME NFrames \in Nat \ {0}
ASSUME Kinds \subseteq {"data", "ctrl", "junk", "bad"}

Frames   == 1..NFrames
Readers  == 1..(NFrames + 1)   \* one read task per processed frame, plus one
MaxWaits == NFrames + 1        \* asyncio.wait calls: one, plus one per frame
Tasks    == {Main, Tok, App} \cup Readers
None     == 0

VARIABLES
  kind,      \* kind[f]: the frame the server sends as frame f
  arrived,   \* segments fed to the StreamReader (feed_data)
  taken,     \* segments consumed from the StreamReader buffer
  eof,       \* the server closed the connection (feed_eof)
  rexc,      \* the StreamReader holds the connection's exception
  rwaiter,   \* the task awaiting StreamReader._waiter, or None
  ready,     \* the event loop's ready queue of callbacks
  mainPc,    \* where start() is
  rd,        \* start()'s read_message_task
  waitOn,    \* tasks carrying asyncio.wait's _on_completion callback
  waitGen,   \* number of asyncio.wait calls made by start()
  waiterSet, \* the waiter future of the current asyncio.wait is done
  rpc,       \* rpc[r]: where read task r is
  rfr,       \* rfr[r]: the frame read task r reads
  tokPc,     \* where token_wait_task is
  token,     \* self._token is set
  queue,     \* self._queue: frames enqueued and not yet read
  consumed,  \* frames the application got from client.read(), in order
  getter,    \* the application task waits in Queue.get()
  fullAtStop,  \* frames fully received, not yet queued, when stop() ran
  flightAtStop \* frames partly received when stop() ran

vars == <<kind, arrived, taken, eof, rexc, rwaiter, ready, mainPc, rd, waitOn,
          waitGen, waiterSet, rpc, rfr, tokPc, token, queue, consumed,
          getter, fullAtStop, flightAtStop>>

Step(t)      == [cb |-> "step", task |-> t, gen |-> 0]
OnComp(t, g) == [cb |-> "oncomp", task |-> t, gen |-> g]
Callbacks    == {Step(t) : t \in Tasks} \cup
                {OnComp(t, g) : t \in {Tok} \cup Readers, g \in 1..MaxWaits}

Running  == {"new", "waitHead", "waitBody"}
Finished(t) ==
  IF t = Tok THEN tokPc = "done" ELSE rpc[t] \in {"ok", "err"}

FrameOf(s)       == (s + 1) \div 2        \* the frame segment s belongs to
FullyArrived(f)  == 2 * f <= arrived
Enqueued         == consumed \o queue      \* everything put on self._queue

TypeOK ==
  /\ kind \in [Frames -> Kinds]
  /\ arrived \in 0..(2 * NFrames) /\ taken \in 0..arrived
  /\ eof \in BOOLEAN /\ rexc \in BOOLEAN
  /\ rwaiter \in Readers \cup {None}
  /\ ready \in Seq(Callbacks)
  /\ mainPc \in {"start", "waiting", "done", "failed"}
  /\ rd \in Readers \cup {None}
  /\ waitOn \subseteq {Tok} \cup Readers
  /\ waitGen \in 0..MaxWaits /\ waiterSet \in BOOLEAN
  /\ rpc \in [Readers -> {"idle", "ok", "err"} \cup Running]
  /\ rfr \in [Readers -> Frames \cup {None}]
  /\ tokPc \in {"idle", "new", "waiting", "done"}
  /\ token \in BOOLEAN
  /\ queue \in Seq(Frames) /\ consumed \in Seq(Frames)
  /\ getter \in BOOLEAN
  /\ fullAtStop \subseteq Frames /\ flightAtStop \subseteq Frames

-----------------------------------------------------------------------------
(* Shared helpers: Future.add_done_callback / set_result of the callbacks *)
(* that asyncio.wait registered.                                           *)

\* Callbacks scheduled when task t finishes: asyncio.wait's _on_completion.
DoneCallbacks(t) == IF t \in waitOn THEN <<OnComp(t, waitGen)>> ELSE <<>>

\* asyncio.wait(S, FIRST_COMPLETED): add _on_completion to every task of S;
\* on a task already done, add_done_callback schedules it at once.
WaitFor(S) ==
  /\ waitOn' = S
  /\ waitGen' = waitGen + 1
  /\ waiterSet' = FALSE
  /\ mainPc' = "waiting"

\* Callbacks the wait on S schedules at once: one per task already done.
WaitCallbacks(S) ==
  SetToSeq({OnComp(t, waitGen + 1) : t \in {x \in S : Finished(x)}})

Pop == Tail(ready)

-----------------------------------------------------------------------------
(* start(): create token_wait_task and read_message_task, then enter the *)
(* loop (client.py 45-56).                                                  *)
Start ==
  /\ ready # <<>> /\ Head(ready) = Step(Main)
  /\ mainPc = "start"
  /\ tokPc' = "new"
  /\ rpc' = [rpc EXCEPT ![1] = "new"]
  /\ rd' = 1
  /\ IF token
       THEN /\ mainPc' = "done"
            /\ ready' = Pop \o <<Step(Tok), Step(1)>>
            /\ UNCHANGED <<waitOn, waitGen, waiterSet>>
       ELSE /\ WaitFor({Tok, 1})
            /\ ready' = Pop \o <<Step(Tok), Step(1)>>
  /\ UNCHANGED <<kind, arrived, taken, eof, rexc, rwaiter, rfr, token, queue,
                 consumed, getter, fullAtStop, flightAtStop>>

(* asyncio.wait returned in start() (client.py 53-66): the loop handles  *)
(* the done tasks, then tests the token (client.py 50) and either leaves  *)
(* or waits again on token_wait_task and read_message_task.               *)
Resumed == ready # <<>> /\ Head(ready) = Step(Main) /\ mainPc = "waiting"

ReadDone == rd \in waitOn /\ Finished(rd)

\* The while test, then asyncio.wait([token_wait_task, task]); extra holds
\* the callbacks the loop body scheduled before it.
LoopTest(task, extra) ==
  IF token
    THEN /\ mainPc' = "done"
         /\ waitOn' = {}
         /\ ready' = Pop \o extra
         /\ UNCHANGED <<waitGen, waiterSet>>
    ELSE /\ WaitFor({Tok, task})
         /\ ready' = Pop \o extra \o WaitCallbacks({Tok, task})

\* read_message_task.result() re-raises the read error: start() ends.
ReadRaised ==
  /\ Resumed /\ ReadDone /\ rpc[rd] = "err"
  /\ mainPc' = "failed"
  /\ waitOn' = {}
  /\ ready' = Pop
  /\ UNCHANGED <<kind, arrived, taken, eof, rexc, rwaiter, rd, waitGen, waiterSet,
                 rpc, rfr, tokPc, token, queue, consumed, getter, fullAtStop,
                 flightAtStop>>

\* A new read task is created (client.py 61), then the serializer rejects
\* the payload (client.py 63): start() ends, the new task runs on.
DeserializeRaised ==
  /\ Resumed /\ ReadDone /\ rpc[rd] = "ok" /\ kind[rfr[rd]] = "junk"
  /\ rd' = rd + 1
  /\ rpc' = [rpc EXCEPT ![rd + 1] = "new"]
  /\ mainPc' = "failed"
  /\ waitOn' = {}
  /\ ready' = Pop \o <<Step(rd + 1)>>
  /\ UNCHANGED <<kind, arrived, taken, eof, rexc, rwaiter, waitGen, waiterSet, rfr,
                 tokPc, token, queue, consumed, getter, fullAtStop,
                 flightAtStop>>

\* Mutant: read_message_task is not replaced, so the done task stays awaited.
FrameQueuedStaleTask ==
  /\ Resumed /\ ReadDone /\ rpc[rd] = "ok" /\ kind[rfr[rd]] # "junk"
  /\ queue' = Append(queue, rfr[rd])
  /\ getter' = FALSE
  /\ LoopTest(rd, IF getter THEN <<Step(App)>> ELSE <<>>)
  /\ UNCHANGED <<kind, arrived, taken, eof, rexc, rwaiter, rd, rpc, rfr, tokPc,
                 token, consumed, fullAtStop, flightAtStop>>

\* Mutant: a payload the serializer rejects is queued as it is, as if the
\* error of client.py 63 were caught and the raw message kept.
FrameQueuedSwallowsError ==
  /\ Resumed /\ ReadDone /\ rpc[rd] = "ok"
  /\ rd' = rd + 1
  /\ rpc' = [rpc EXCEPT ![rd + 1] = "new"]
  /\ queue' = Append(queue, rfr[rd])
  /\ getter' = FALSE
  /\ LoopTest(rd + 1, <<Step(rd + 1)>> \o IF getter THEN <<Step(App)>> ELSE <<>>)
  /\ UNCHANGED <<kind, arrived, taken, eof, rexc, rwaiter, rfr, tokPc, token,
                 consumed, fullAtStop, flightAtStop>>

\* Mutant: the frame is stored without waking a reader parked in get().
FrameQueuedNoWake ==
  /\ Resumed /\ ReadDone /\ rpc[rd] = "ok" /\ kind[rfr[rd]] # "junk"
  /\ rd' = rd + 1
  /\ rpc' = [rpc EXCEPT ![rd + 1] = "new"]
  /\ queue' = Append(queue, rfr[rd])
  /\ LoopTest(rd + 1, <<Step(rd + 1)>>)
  /\ UNCHANGED <<kind, arrived, taken, eof, rexc, rwaiter, rfr, tokPc, token,
                 consumed, getter, fullAtStop, flightAtStop>>

\* A frame was read: a new read task is created, the frame is put on the
\* queue, which wakes a reader parked in Queue.get (client.py 59-64).
FrameQueued ==
  /\ Resumed /\ ReadDone /\ rpc[rd] = "ok" /\ kind[rfr[rd]] # "junk"
  /\ rd' = rd + 1
  /\ rpc' = [rpc EXCEPT ![rd + 1] = "new"]
  /\ queue' = Append(queue, rfr[rd])
  /\ getter' = FALSE
  /\ LoopTest(rd + 1, <<Step(rd + 1)>> \o IF getter THEN <<Step(App)>> ELSE <<>>)
  /\ UNCHANGED <<kind, arrived, taken, eof, rexc, rwaiter, rfr, tokPc, token,
                 consumed, fullAtStop, flightAtStop>>

\* Only token_wait_task is done (client.py 65-66): the token is set.
StopObserved ==
  /\ Resumed /\ ~ReadDone
  /\ LoopTest(rd, <<>>)
  /\ UNCHANGED <<kind, arrived, taken, eof, rexc, rwaiter, rd, rpc, rfr, tokPc,
                 token, queue, consumed, getter, fullAtStop, flightAtStop>>

(* token_wait_task: Event.wait() returns at once when the flag is set,    *)
(* otherwise it parks a future on the event until Event.set().            *)
TokenWait ==
  /\ ready # <<>> /\ Head(ready) = Step(Tok)
  /\ tokPc \in {"new", "waiting"}
  /\ IF tokPc = "new" /\ ~token
       THEN /\ tokPc' = "waiting"
            /\ ready' = Pop
       ELSE /\ tokPc' = "done"
            /\ ready' = Pop \o DoneCallbacks(Tok)
  /\ UNCHANGED <<kind, arrived, taken, eof, rexc, rwaiter, mainPc, rd, waitOn,
                 waitGen, waiterSet, rpc, rfr, token, queue, consumed,
                 getter, fullAtStop, flightAtStop>>

(* _on_completion of asyncio.wait: the first one for the current wait    *)
(* completes its waiter, which schedules start() to resume.               *)
OnCompletion ==
  /\ ready # <<>> /\ Head(ready).cb = "oncomp"
  /\ IF Head(ready).gen = waitGen /\ ~waiterSet
       THEN /\ waiterSet' = TRUE
            /\ ready' = Pop \o <<Step(Main)>>
       ELSE /\ ready' = Pop
            /\ UNCHANGED waiterSet
  /\ UNCHANGED <<kind, arrived, taken, eof, rexc, rwaiter, mainPc, rd, waitOn,
                 waitGen, rpc, rfr, tokPc, token, queue, consumed, getter,
                 fullAtStop, flightAtStop>>

\* Mutant: a read returns whatever is buffered instead of waiting for the
\* whole frame (a short read taken for a complete one).
ReadMessageShortRead(r) ==
  /\ ready # <<>> /\ Head(ready) = Step(r)
  /\ rpc[r] \in Running
  /\ LET body == rpc[r] = "waitBody"
         f    == IF body THEN rfr[r] ELSE FrameOf(taken + 1)
         need == IF body THEN 1 ELSE 2
     IN /\ rpc' = [rpc EXCEPT ![r] = "ok"]
        /\ taken' = taken + need
        /\ rfr' = [rfr EXCEPT ![r] = f]
        /\ ready' = Pop \o DoneCallbacks(r)
  /\ UNCHANGED <<kind, arrived, eof, rexc, rwaiter, mainPc, rd, waitOn, waitGen,
                 waiterSet, tokPc, token, queue, consumed, getter, fullAtStop,
                 flightAtStop>>

\* Mutant: readexactly serves buffered bytes and waits for more without
\* looking at the exception the reader holds.
ReadMessageIgnoresExc(r) ==
  /\ ready # <<>> /\ Head(ready) = Step(r)
  /\ rpc[r] \in Running
  /\ LET body  == rpc[r] = "waitBody"
         f     == IF body THEN rfr[r] ELSE FrameOf(taken + 1)
         avail == arrived - taken
         need  == IF body THEN 1 ELSE 2
         bad   == ~body /\ avail >= 1 /\ kind[f] = "bad"
         got   == IF bad THEN 1 ELSE Min({need, avail})
         pc    == CASE bad         -> "err"
                    [] got = need  -> "ok"
                    [] eof         -> "err"
                    [] body \/ got = 1 -> "waitBody"
                    [] OTHER       -> "waitHead"
     IN /\ rpc' = [rpc EXCEPT ![r] = pc]
        /\ taken' = taken + got
        /\ rfr' = IF got > 0 THEN [rfr EXCEPT ![r] = f] ELSE rfr
        /\ IF pc \in {"ok", "err"}
             THEN /\ ready' = Pop \o DoneCallbacks(r)
                  /\ UNCHANGED rwaiter
             ELSE /\ ready' = Pop
                  /\ rwaiter' = r
  /\ UNCHANGED <<kind, arrived, eof, rexc, mainPc, rd, waitOn, waitGen, waiterSet,
                 tokPc, token, queue, consumed, getter, fullAtStop, flightAtStop>>

(* read_message(): read the type tag and the fields of one frame through *)
(* readexactly (messages.py 71-109, io.py 11-70).  readexactly returns    *)
(* without suspending when the bytes are buffered, parks on the reader's *)
(* _waiter when they are not, and raises IncompleteReadError at EOF.  A  *)
(* tag outside 0..5 makes MessageType() raise after one byte.  Once the *)
(* reader holds the connection's exception every readexactly raises it  *)
(* before looking at the buffer, and a parked waiter is woken with it.  *)
ReadMessage(r) ==
  /\ ready # <<>> /\ Head(ready) = Step(r)
  /\ rpc[r] \in Running
  /\ LET body  == rpc[r] = "waitBody"
         f     == IF body THEN rfr[r] ELSE FrameOf(taken + 1)
         avail == arrived - taken
         need  == IF body THEN 1 ELSE 2
         bad   == ~body /\ avail >= 1 /\ kind[f] = "bad"
         got   == CASE rexc -> 0 [] bad -> 1 [] OTHER -> Min({need, avail})
         pc    == CASE rexc        -> "err"
                    [] bad         -> "err"
                    [] got = need  -> "ok"
                    [] eof         -> "err"
                    [] body \/ got = 1 -> "waitBody"
                    [] OTHER       -> "waitHead"
     IN /\ rpc' = [rpc EXCEPT ![r] = pc]
        /\ taken' = taken + got
        /\ rfr' = IF got > 0 THEN [rfr EXCEPT ![r] = f] ELSE rfr
        /\ IF pc \in {"ok", "err"}
             THEN /\ ready' = Pop \o DoneCallbacks(r)
                  /\ UNCHANGED rwaiter
             ELSE /\ ready' = Pop
                  /\ rwaiter' = r
  /\ UNCHANGED <<kind, arrived, eof, rexc, mainPc, rd, waitOn, waitGen, waiterSet,
                 tokPc, token, queue, consumed, getter, fullAtStop, flightAtStop>>

(* The application task: "msg = await client.read()" in a loop           *)
(* (client.py 75-77).  Queue.get returns without suspending while the    *)
(* queue holds items, and parks a getter future once it is empty.        *)
Read ==
  /\ ready # <<>> /\ Head(ready) = Step(App)
  /\ consumed' = consumed \o queue
  /\ queue' = <<>>
  /\ getter' = TRUE
  /\ ready' = Pop
  /\ UNCHANGED <<kind, arrived, taken, eof, rexc, rwaiter, mainPc, rd, waitOn,
                 waitGen, waiterSet, rpc, rfr, tokPc, token, fullAtStop, flightAtStop>>

\* Mutant: stop() sets a plain flag that only the loop test reads.
StopFlagOnly ==
  /\ ~token
  /\ token' = TRUE
  /\ fullAtStop' = IF mainPc = "waiting"
                     THEN {f \in Frames : FullyArrived(f)} \ ToSet(Enqueued)
                     ELSE {}
  /\ flightAtStop' = IF mainPc = "waiting"
                       THEN {f \in Frames : 2 * f - 1 = arrived} \cup
                            {rfr[r] : r \in {x \in Readers : rpc[x] = "waitBody"}}
                       ELSE {}
  /\ UNCHANGED <<kind, arrived, taken, eof, rexc, rwaiter, ready, mainPc, rd, waitOn,
                 waitGen, waiterSet, rpc, rfr, tokPc, queue, consumed, getter>>

(* stop(): self._token.set() (client.py 71-72); Event.set wakes the      *)
(* future token_wait_task parks on.  Called by the application between  *)
(* any two callbacks; a second call changes nothing.                     *)
Stop ==
  /\ ~token
  /\ token' = TRUE
  /\ ready' = IF tokPc = "waiting" THEN Append(ready, Step(Tok)) ELSE ready
  /\ fullAtStop' = IF mainPc = "waiting"
                     THEN {f \in Frames : FullyArrived(f)} \ ToSet(Enqueued)
                     ELSE {}
  /\ flightAtStop' = IF mainPc = "waiting"
                       THEN {f \in Frames : 2 * f - 1 = arrived} \cup
                            {rfr[r] : r \in {x \in Readers : rpc[x] = "waitBody"}}
                       ELSE {}
  /\ UNCHANGED <<kind, arrived, taken, eof, rexc, rwaiter, mainPc, rd, waitOn,
                 waitGen, waiterSet, rpc, rfr, tokPc, queue, consumed, getter>>

\* StreamReader._wakeup_waiter: the parked reader is scheduled.
WakeupWaiter ==
  IF rwaiter # None
    THEN /\ ready' = Append(ready, Step(rwaiter))
         /\ rwaiter' = None
    ELSE UNCHANGED <<ready, rwaiter>>

(* The transport delivers the next segment of the server's byte stream   *)
(* (StreamReader.feed_data).                                              *)
FeedData ==
  /\ ~eof /\ ~rexc /\ arrived < 2 * NFrames
  /\ arrived' = arrived + 1
  /\ WakeupWaiter
  /\ UNCHANGED <<kind, taken, eof, rexc, mainPc, rd, waitOn, waitGen, waiterSet,
                 rpc, rfr, tokPc, token, queue, consumed, getter, fullAtStop, flightAtStop>>

(* The server closes the connection, possibly mid-frame (feed_eof).      *)
FeedEof ==
  /\ ~eof /\ ~rexc
  /\ eof' = TRUE
  /\ WakeupWaiter
  /\ UNCHANGED <<kind, arrived, taken, rexc, mainPc, rd, waitOn, waitGen,
                 waiterSet, rpc, rfr, tokPc, token, queue, consumed, getter,
                 fullAtStop, flightAtStop>>

(* The socket fails (reset by the peer, or a read or write error):      *)
(* _force_close stops reading, and connection_lost(exc) makes the       *)
(* StreamReader store the exception and wake its waiter (set_exception). *)
(* It may follow an EOF: the transport stays open for writing after one. *)
ConnectionLost ==
  /\ ~rexc
  /\ rexc' = TRUE
  /\ WakeupWaiter
  /\ UNCHANGED <<kind, arrived, taken, eof, mainPc, rd, waitOn, waitGen,
                 waiterSet, rpc, rfr, tokPc, token, queue, consumed, getter,
                 fullAtStop, flightAtStop>>

-----------------------------------------------------------------------------
(* The demo programs create the start() task and then the reader task.  *)
Init ==
  /\ kind \in [Frames -> Kinds]
  /\ arrived = 0 /\ taken = 0 /\ eof = FALSE /\ rexc = FALSE /\ rwaiter = None
  /\ ready = <<Step(Main), Step(App)>>
  /\ mainPc = "start" /\ rd = None
  /\ waitOn = {} /\ waitGen = 0 /\ waiterSet = FALSE
  /\ rpc = [r \in Readers |-> "idle"] /\ rfr = [r \in Readers |-> None]
  /\ tokPc = "idle" /\ token = FALSE
  /\ queue = <<>> /\ consumed = <<>> /\ getter = FALSE
  /\ fullAtStop = {} /\ flightAtStop = {}

\* One callback of the ready queue runs.
Dispatch ==
  \/ Start \/ ReadRaised \/ DeserializeRaised \/ FrameQueued \/ StopObserved
  \/ TokenWait \/ OnCompletion \/ Read
  \/ \E r \in Readers : ReadMessage(r)

Next == Dispatch \/ Stop \/ FeedData \/ FeedEof \/ ConnectionLost

(* asyncio runs every callback of its ready queue; nothing obliges the  *)
(* server to send or close, the connection to fail, or the application  *)
(* to call stop().                                                       *)
Spec == Init /\ [][Next]_vars /\ WF_vars(Dispatch)

-----------------------------------------------------------------------------
(* Properties.                                                             *)

(* The frames the receive loop puts on self._queue, and so the frames the *)
(* application gets from read(), are the server's frames in arrival      *)
(* order, each once and none skipped (spec 8 "Queue FIFO").  It rests on  *)
(* start() replacing read_message_task after each frame (client.py 61)   *)
(* and on a single read task reading the stream at a time.              *)
Delivery == Enqueued = [i \in 1..Len(Enqueued) |-> i]

(* stop() ends the receive loop even when no further frame ever arrives: *)
(* start() waits on token_wait_task together with the read task          *)
(* (client.py 47-56), so the loop never stays blocked in a read.         *)
StopEndsLoop == token ~> (mainPc \in {"done", "failed"})

(* Every frame that has fully arrived reaches the application through   *)
(* read(), unless stop() was called or the loop died of an error: the   *)
(* read task's completion wakes start(), and Queue.put wakes the reader *)
(* parked in Queue.get (client.py 58-64, 75-77).                        *)
ArrivedFrameRead ==
  \A f \in Frames :
    FullyArrived(f) ~> (f \in ToSet(consumed) \/ token \/ mainPc = "failed")

(* Spec 8: a frame already fully received by the transport when stop()  *)
(* is called on the running loop still reaches the receive queue before *)
(* the loop exits.                                                       *)
StopKeepsReceived ==
  mainPc = "done" =>
    \A f \in fullAtStop : kind[f] \in {"data", "ctrl"} => f \in ToSet(Enqueued)

(* Spec 5: when stop() is called on the running loop, the loop exits    *)
(* only after finishing the frame then in flight (partly received): that *)
(* frame reaches the receive queue.                                      *)
InFlightFinished ==
  mainPc = "done" => flightAtStop \subseteq ToSet(Enqueued)


-----------------------------------------------------------------------------
(* Refinement: Client implements ReceiveChannel.  start() before its loop *)
(* ends is the abstract loop "running"; the abstract queue is everything  *)
(* start() put on self._queue, delivered is what read() returned.        *)
LoopState == IF mainPc \in {"start", "waiting"} THEN "running" ELSE mainPc

Channel == INSTANCE ReceiveChannel
             WITH reset <- rexc, stopped <- token, loop <- LoopState,
                  queued <- Enqueued, delivered <- consumed

(* The receive loop, stop() and read() together behave as the abstract   *)
(* channel: only whole decodable frames are queued, in stream order; the *)
(* loop ends only on stop(), a bad tag, a rejected payload, the end of   *)
(* the stream or a failed connection, and after stop() it queues at most *)
(* the frame it holds;                                                    *)
(* and every step the abstract channel must take is eventually taken.   *)
ChannelSpec == Channel!Spec

=============================================================================
