----------------------------- MODULE Subscriber -----------------------------
(***************************************************************************)
(* The subscriber demo programs (src/python3/demos/subscriber.py and       *)
(* subscriber2.py) on top of the client's receive side.  main_async       *)
(* creates start_task (client.start()) and read_task (client.read()),     *)
(* and subscriber2 also console_task (aioconsole.ainput); it then loops   *)
(* on asyncio.wait(FIRST_COMPLETED) over them, prints each message and   *)
(* creates the next read_task.                                            *)
(*                                                                         *)
(* The client is its abstract specification ReceiveChannel, which Client  *)
(* is checked to implement (run client_refines_channel); its Deliver step *)
(* is replaced by the demo's read_task taking one message at a time.     *)
(* Neither demo calls stop().  The main task runs atomically from one    *)
(* await that suspends to the next: asyncio.wait, and in subscriber2 the *)
(* add_/remove_subscription awaited inside the for loop.  Printing is    *)
(* abstracted to the messages printed.                                    *)
(***************************************************************************)
EXTENDS Naturals, Sequences, SequencesExt

CONSTANTS
  NFrames, Kinds,  \* the server's frames, as in ReceiveChannel
  Programs,        \* which demos: FALSE is subscriber.py, TRUE is
                   \* subscriber2.py with its console task
  Lines,           \* what ainput may return: "" (empty line), "invalid"
                   \* (not three words), "request" (+/- feed topic), or
                   \* "eof" (stdin closed: EOFError)
  MaxLines         \* lines the user types

ASSUME Programs \subseteq BOOLEAN /\ Lines \subseteq {"", "invalid", "request", "eof"}

VARIABLES
  console,  \* the program is subscriber2.py
  kind, arrived, eof, reset, stopped, loop, queued, delivered,  \* the client
  rtask,    \* read_task: "get" (in Queue.get) or "done"
  rmsg,     \* the message a done read_task returned
  ctask,    \* console_task: "input", "done" or "none" (subscriber.py)
  cline,    \* the line a done console_task returned
  lines,    \* lines read so far
  dpc,      \* main_async: "wait" (in asyncio.wait), "call" (awaiting a
            \* subscription request in the for loop) or "crashed"
  later,    \* read_task is in the done set and not handled yet
  printed   \* messages printed, in order

chanVars == <<kind, arrived, eof, reset, stopped, loop, queued, delivered>>
vars == <<chanVars, console, rtask, rmsg, ctask, cline, lines, dpc, later, printed>>

Ch == INSTANCE ReceiveChannel

None == 0

\* Main task, after connect (and subscriber.py's add_subscription).
Init ==
  /\ console \in Programs
  /\ Ch!Init
  /\ rtask = "get" /\ rmsg = None
  /\ ctask = (IF console THEN "input" ELSE "none") /\ cline = "" /\ lines = 0
  /\ dpc = "wait" /\ later = FALSE /\ printed = <<>>

-----------------------------------------------------------------------------
(* The client and the server.                                              *)

\* start_task: the receive loop queues a frame or ends with an error.
ClientLoop ==
  /\ dpc # "crashed"
  /\ Ch!Receive \/ Ch!Fail
  /\ UNCHANGED <<console, rtask, rmsg, ctask, cline, lines, dpc, later, printed>>

\* The server sends, closes, or the connection fails.
Server ==
  /\ dpc # "crashed"
  /\ Ch!Arrive \/ Ch!Close \/ Ch!Reset
  /\ UNCHANGED <<console, rtask, rmsg, ctask, cline, lines, dpc, later, printed>>

(* read_task: client.read() awaits self._queue.get(), which returns the  *)
(* oldest queued message once there is one (client.py 75-77).            *)
ReadGet ==
  /\ dpc # "crashed" /\ rtask = "get" /\ Len(delivered) < Len(queued)
  /\ rmsg' = queued[Len(delivered) + 1]
  /\ delivered' = Append(delivered, rmsg')
  /\ rtask' = "done"
  /\ UNCHANGED <<console, kind, arrived, eof, reset, stopped, loop, queued, ctask,
                 cline, lines, dpc, later, printed>>

\* console_task: ainput returns the user's line, or raises at EOF.
ConsoleInput ==
  /\ dpc # "crashed" /\ ctask = "input" /\ lines < MaxLines
  /\ ctask' = "done" /\ lines' = lines + 1
  /\ cline' \in Lines
  /\ UNCHANGED <<chanVars, console, rtask, rmsg, dpc, later, printed>>

-----------------------------------------------------------------------------
(* main_async's loop.                                                      *)

\* The tasks asyncio.wait is given.
Awaited == {"start", "read"} \cup (IF console THEN {"console"} ELSE {})

\* The done set asyncio.wait returns: the awaited tasks done when it resumes.
DoneTasks ==
  {t \in Awaited : CASE t = "start" -> loop # "running"
                     [] t = "read"  -> rtask = "done"
                     [] OTHER       -> ctask = "done"}

(* subscriber2's console branch: result() re-raises EOFError out of      *)
(* main_async; an empty line does nothing and one that is not three      *)
(* words is reported by the bare except, both without awaiting; a       *)
(* request awaits add_ or remove_subscription.  The next console_task   *)
(* is created once the branch is over.                                  *)
HandleConsole(con) ==
  CASE ~con              -> UNCHANGED <<ctask, dpc>>
    [] cline = "eof"     -> dpc' = "crashed" /\ UNCHANGED ctask
    [] cline = "request" -> dpc' = "call" /\ UNCHANGED ctask
    [] OTHER             -> ctask' = "input" /\ UNCHANGED dpc

\* Console lines handled without an await.
Quiet == {"", "invalid"}

\* Mutant: the loop stops serving read_task once start_task is done, as
\* if the start_task branch came first and ended the iteration.
WakeStartFirst ==
  /\ dpc = "wait" /\ DoneTasks # {}
  /\ \E readFirst \in BOOLEAN :
       LET con     == "console" \in DoneTasks
           rd      == "read" \in DoneTasks
           readNow == rd /\ "start" \notin DoneTasks /\ (readFirst \/ ~con \/ cline \in Quiet)
       IN /\ printed' = IF readNow THEN Append(printed, rmsg) ELSE printed
          /\ rtask' = IF readNow THEN "get" ELSE rtask
          /\ later' = (rd /\ ~readNow)
          /\ HandleConsole(con)
  /\ UNCHANGED <<chanVars, console, rmsg, cline, lines>>

\* Mutant: the message is printed but read_task is not replaced.
WakeStaleTask ==
  /\ dpc = "wait" /\ DoneTasks # {}
  /\ \E readFirst \in BOOLEAN :
       LET con     == "console" \in DoneTasks
           rd      == "read" \in DoneTasks
           readNow == rd /\ (readFirst \/ ~con \/ cline \in Quiet)
       IN /\ printed' = IF readNow THEN Append(printed, rmsg) ELSE printed
          /\ UNCHANGED rtask
          /\ later' = (rd /\ ~readNow)
          /\ HandleConsole(con)
  /\ UNCHANGED <<chanVars, console, rmsg, cline, lines>>

(* asyncio.wait returns and the for loop handles its done set, in set    *)
(* order (readFirst).  A done read_task is printed and replaced (lines   *)
(* 21-24 of subscriber.py, 34-37 of subscriber2.py); subscriber.py only *)
(* prints 'Oh no' for a done start_task, and subscriber2 has no branch   *)
(* for it, so once start() has ended every wait returns at once.  When   *)
(* the console branch awaits or raises first, the read_task is left to   *)
(* after the call, or never handled.                                     *)
Wake ==
  /\ dpc = "wait" /\ DoneTasks # {}
  /\ \E readFirst \in BOOLEAN :
       LET con     == "console" \in DoneTasks
           rd      == "read" \in DoneTasks
           readNow == rd /\ (readFirst \/ ~con \/ cline \in Quiet)
       IN /\ printed' = IF readNow THEN Append(printed, rmsg) ELSE printed
          /\ rtask' = IF readNow THEN "get" ELSE rtask
          /\ later' = (rd /\ ~readNow)
          /\ HandleConsole(con)
  /\ UNCHANGED <<chanVars, console, rmsg, cline, lines>>

(* The subscription request returns, or raises and the bare except      *)
(* prints "Invalid line"; the next console_task is created and the for  *)
(* loop goes on to a read_task in the same done set.                    *)
CallDone ==
  /\ dpc = "call"
  /\ ctask' = "input" /\ dpc' = "wait"
  /\ printed' = IF later THEN Append(printed, rmsg) ELSE printed
  /\ rtask' = IF later THEN "get" ELSE rtask
  /\ later' = FALSE
  /\ UNCHANGED <<chanVars, console, rmsg, cline, lines>>

Next ==
  \/ ClientLoop \/ Server \/ ReadGet \/ ConsoleInput \/ Wake \/ CallDone

(* The event loop runs every ready task: the receive loop, read_task and *)
(* main_async; a subscription request completes (Outbound's             *)
(* CallsComplete).  The server, the network and the user owe nothing.   *)
Spec ==
  /\ Init /\ [][Next]_vars
  /\ WF_vars(ClientLoop) /\ WF_vars(ReadGet) /\ WF_vars(Wake) /\ WF_vars(CallDone)

-----------------------------------------------------------------------------
(* Properties.                                                             *)

\* The message a done read_task holds.
Held == IF rtask = "done" THEN <<rmsg>> ELSE <<>>

(* Every message client.read() returned is printed once, in queue order, *)
(* or is still held by the done read_task: the demo replaces read_task   *)
(* after taking its result, so asyncio.wait never hands back a task      *)
(* whose message was printed, even across the awaited subscription call. *)
MessagesAccounted == printed \o Held = delivered

(* Every message the receive loop queues is eventually printed, even     *)
(* after start() has ended and asyncio.wait returns its done task on     *)
(* every iteration; only subscriber2 dying on stdin EOF stops it.       *)
EveryMessagePrinted ==
  \A i \in 1..NFrames :
    Len(queued) >= i ~> (Len(printed) >= i \/ dpc = "crashed")

=============================================================================
