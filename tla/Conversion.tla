----------------------------- MODULE Conversion -----------------------------
(***************************************************************************)
(* The conversion thread (services/conversion/client.ts, worker.ts): files *)
(* are converted, and specifications expanded and read one document at a   *)
(* time, on a thread that may die, stop answering, be let go when idle, or *)
(* be dropped at shutdown.                                                 *)
(*                                                                         *)
(* One caller, the indexer, has one file at a time; only a watchdog's      *)
(* close goes on beside it.  What an await continues with runs before the  *)
(* next event, so settling a request and what its caller does then are one *)
(* action.  A thread that was terminated still runs, and reports, until it *)
(* has gone.  A request is known by its kind and file: the code's id, of   *)
(* which a second is taken only when the first was settled.                *)
(***************************************************************************)
EXTENDS Naturals

CONSTANTS Inputs, MaxThreads

ASSUME ThreadsAssumption == MaxThreads \in Nat

VARIABLES
  thread,    \* #worker: its number, or 0
  running,   \* the threads that have not gone
  open,      \* worker.ts, sessions: the expansions each thread holds
  wire,      \* the requests on the way to the thread and the replies from it
  requests,  \* #pending, of <<kind, file>>
  sessions,  \* #sessions
  unread,    \* #unread: the watchdogs
  released,  \* the handles whose releasedUnread is set
  idle,      \* #idleTimer: the thread it was armed for, or 0
  stopped,   \* #stopped
  caller     \* what the indexer waits for, and what became of its last file

conversionVars == <<thread, running, open, wire, requests, sessions, unread, released, idle, stopped, caller>>

Threads == 1..MaxThreads
NotCalling(result) == [at |-> "idle", file |-> "none", result |-> result]
Waits(kind, f) == [at |-> kind, file |-> f, result |-> "none"]

ConversionInit ==
  /\ thread = 0 /\ running = {} /\ open = [t \in Threads |-> {}]
  /\ wire = {} /\ requests = {}
  /\ sessions = {} /\ unread = {} /\ released = {}
  /\ idle = 0 /\ stopped = FALSE
  /\ caller = NotCalling("none")

-----------------------------------------------------------------------------
(* The client's own moves.                                                 *)

\* Mutant: the timer is set from #settle alone, while the expansion is still registered.
ArmedBeforeRelease(t, p, s) == IF p = {} /\ sessions = {} THEN t ELSE 0

\* #armIdle: the timer is cleared, and set again when there is nothing to do.
Armed(t, p, s) == IF p = {} /\ s = {} THEN t ELSE 0

\* #ensureWorker and postMessage.
Send(kind, f) ==
  /\ \E t \in Threads :
       /\ IF thread # 0 THEN t = thread ELSE t \notin running \cup {idle}
       /\ thread' = t /\ running' = running \cup {t}
       /\ open' = IF thread = 0 THEN [open EXCEPT ![t] = {}] ELSE open
       /\ wire' = wire \cup {[kind |-> kind, file |-> f, thread |-> t, reply |-> "none"]}
  /\ requests' = requests \cup {<<kind, f>>}
  /\ idle' = 0

\* Mutant: what was abandoned is forgotten here and kept there.
ForgottenOnly(f, result) ==
  /\ sessions' = sessions \ {f}
  /\ idle' = Armed(thread, requests, sessions') /\ caller' = NotCalling(result)
  /\ UNCHANGED <<thread, running, open, wire, requests>>

\* The finally of a reader: what was not read to its end is closed, and whatever else,
\* the thread is looked at again.
Close(f, result) ==
  /\ sessions' = sessions \ {f}
  /\ IF f \in sessions /\ thread # 0 /\ ~stopped
       THEN Send("close", f) /\ caller' = [Waits("close", f) EXCEPT !.result = result]
       ELSE /\ idle' = Armed(thread, requests, sessions')
            /\ caller' = NotCalling(result)
            /\ UNCHANGED <<thread, running, open, wire, requests>>

\* Mutants: its sessions are kept; its requests are kept; they are dropped and nobody is told.
SessionsKept ==
  /\ thread' = 0 /\ unread' = {} /\ requests' = {} /\ wire' = {}
  /\ caller' = IF <<caller.at, caller.file>> \in requests THEN NotCalling("refused") ELSE caller
  /\ UNCHANGED <<idle, sessions>>
RequestsKept ==
  thread' = 0 /\ sessions' = {} /\ unread' = {} /\ UNCHANGED <<idle, requests, wire, caller>>
RequestsDropped ==
  /\ thread' = 0 /\ sessions' = {} /\ unread' = {} /\ requests' = {} /\ wire' = {}
  /\ UNCHANGED <<idle, caller>>

\* #replaceWorker: everything in flight is refused, by name, and what waits for it goes on.
\* The reader's finally finds no session to close, and no timer: there was something in flight.
ReplaceWorker ==
  /\ thread' = 0 /\ sessions' = {} /\ unread' = {} /\ requests' = {} /\ wire' = {}
  /\ caller' = IF <<caller.at, caller.file>> \in requests
               THEN NotCalling(IF caller.at = "close" THEN caller.result ELSE "refused")
               ELSE caller
  /\ UNCHANGED idle

-----------------------------------------------------------------------------
(* The indexer.                                                            *)

\* A file none of whose former life is left.
New(f) ==
  /\ f \notin sessions \cup unread
  /\ \A r \in wire : r.file # f
  /\ \A t \in running : f \notin open[t]

\* convert, and expand to the moment it waits.
Begin(kind, f) ==
  /\ caller.at = "idle" /\ New(f)
  /\ released' = released \ {f}
  /\ IF stopped
       THEN /\ caller' = NotCalling("refused")
            /\ UNCHANGED <<thread, running, open, wire, requests, idle>>
       ELSE Send(kind, f) /\ caller' = Waits(kind, f)
  /\ UNCHANGED <<sessions, unread, stopped>>

\* Mutant: the reader who comes too late is not told.
StepAnyway ==
  /\ caller.at \in {"handle", "reading"} /\ unread' = unread \ {caller.file}
  /\ Send("next", caller.file) /\ caller' = Waits("next", caller.file)
  /\ UNCHANGED <<sessions, released, stopped>>

\* The first next() of documents(), or a later one: the reader asks for a document.
Step ==
  LET f == caller.file
  IN /\ caller.at \in {"handle", "reading"}
     /\ unread' = unread \ {f}
     /\ IF caller.at = "handle" /\ f \in released
          THEN /\ caller' = NotCalling("refused")
               /\ UNCHANGED <<thread, running, open, wire, requests, sessions, idle>>
        ELSE IF stopped
          THEN /\ caller' = NotCalling("refused") /\ sessions' = sessions \ {f}
               /\ UNCHANGED <<thread, running, open, wire, requests, idle>>
        ELSE Send("next", f) /\ caller' = Waits("next", f) /\ UNCHANGED sessions
     /\ UNCHANGED <<released, stopped>>

\* Embedding or writing a document fails: the reader returns.
GiveUp ==
  /\ caller.at = "reading"
  /\ Close(caller.file, "failedElsewhere")
  /\ UNCHANGED <<unread, released, stopped>>

\* A handle nobody steps: expand and documents() claim nothing, and no finally will come.
Drop ==
  /\ caller.at = "handle"
  /\ caller' = NotCalling("none")
  /\ UNCHANGED <<thread, running, open, wire, requests, sessions, unread, released, idle, stopped>>

-----------------------------------------------------------------------------
(* The events the client hears.                                            *)

\* What came of the reply r for the one who asked: a refusal refuses the file, any other failure
\* ends the run, "broken" for what a converter threw and "failed" for a session that is not open.
Result(r) ==
  IF r \in {"refused", "broken"} THEN r ELSE IF r = "notOpen" THEN "failed" ELSE "done"

\* #settle, and what the await goes on with.
SettleRequest(r) ==
  /\ r \in wire /\ r.reply # "none"
  /\ \/ /\ r.kind = "convert"
        /\ wire' = wire \ {r} /\ requests' = requests \ {<<r.kind, r.file>>}
        /\ idle' = Armed(thread, requests', sessions)
        /\ caller' = NotCalling(Result(r.reply))
        /\ UNCHANGED <<thread, running, open, sessions, unread>>
     \/ /\ r.kind = "expand"
        /\ wire' = wire \ {r} /\ requests' = requests \ {<<r.kind, r.file>>}
        /\ idle' = Armed(thread, requests', sessions)
        /\ IF r.reply = "opened"
             THEN /\ sessions' = sessions \cup {r.file} /\ unread' = unread \cup {r.file}
                  /\ caller' = Waits("handle", r.file)
             ELSE caller' = NotCalling(Result(r.reply)) /\ UNCHANGED <<sessions, unread>>
        /\ UNCHANGED <<thread, running, open>>
     \/ /\ r.kind = "next" /\ r.reply = "document"
        /\ wire' = wire \ {r} /\ requests' = requests \ {<<r.kind, r.file>>}
        /\ idle' = Armed(thread, requests', sessions)
        /\ caller' = Waits("reading", r.file)
        /\ UNCHANGED <<thread, running, open, sessions, unread>>
     \/ /\ r.kind = "next" /\ r.reply = "end"
        /\ wire' = wire \ {r} /\ requests' = requests \ {<<r.kind, r.file>>}
        /\ sessions' = sessions \ {r.file}
        /\ idle' = Armed(thread, requests', sessions')
        /\ caller' = NotCalling("done")
        /\ UNCHANGED <<thread, running, open, unread>>
     \/ /\ r.kind = "next" /\ r.reply \in {"refused", "broken", "notOpen"}
        /\ requests' = (requests \ {<<r.kind, r.file>>})
                      \cup (IF r.file \in sessions THEN {<<"close", r.file>>} ELSE {})
        /\ wire' = (wire \ {r})
                   \cup (IF r.file \in sessions
                         THEN {[kind |-> "close", file |-> r.file, thread |-> thread, reply |-> "none"]}
                         ELSE {})
        /\ sessions' = sessions \ {r.file}
        /\ idle' = Armed(thread, requests', sessions')
        /\ caller' = IF r.file \in sessions
                     THEN [Waits("close", r.file) EXCEPT !.result = Result(r.reply)]
                     ELSE NotCalling(Result(r.reply))
        /\ UNCHANGED <<thread, running, open, unread>>
     \/ /\ r.kind = "close"
        /\ wire' = wire \ {r} /\ requests' = requests \ {<<r.kind, r.file>>}
        /\ idle' = Armed(thread, requests', sessions)
        /\ caller' = IF caller.at = "close" /\ caller.file = r.file THEN NotCalling(caller.result) ELSE caller
        /\ UNCHANGED <<thread, running, open, sessions, unread>>
  /\ UNCHANGED <<released, stopped>>

\* CONVERSION_TIMEOUT_MS
Timeout(kind, f) ==
  /\ <<kind, f>> \in requests
  /\ ReplaceWorker
  /\ UNCHANGED <<running, open, released, stopped>>

\* 'error' and 'messageerror': of whatever thread.
Error(t) ==
  /\ t \in running /\ running' = running \ {t}
  /\ ReplaceWorker
  /\ UNCHANGED <<open, released, stopped>>

\* 'exit': process.exit from inside a parser, or the end of a terminated thread.
Exit(t) ==
  /\ t \in running /\ running' = running \ {t}
  /\ IF t = thread THEN ReplaceWorker
                   ELSE UNCHANGED <<thread, wire, requests, sessions, unread, idle, caller>>
  /\ UNCHANGED <<open, released, stopped>>

\* CONVERSION_IDLE_MS
IdleFires ==
  /\ idle # 0 /\ idle' = 0
  /\ thread' = IF requests = {} /\ sessions = {} /\ thread = idle THEN 0 ELSE thread
  /\ UNCHANGED <<running, open, wire, requests, sessions, unread, released, stopped, caller>>

\* The watchdog of an expansion nobody has begun to read: #release, in the background.
UnreadFires(f) ==
  /\ f \in unread /\ unread' = unread \ {f}
  /\ released' = released \cup {f}
  /\ sessions' = sessions \ {f}
  /\ Send("close", f)
  /\ UNCHANGED <<stopped, caller>>

\* stop(): shutdown.
Stop ==
  /\ ~stopped /\ stopped' = TRUE
  /\ thread' = 0 /\ idle' = 0 /\ sessions' = {} /\ unread' = {} /\ requests' = {} /\ wire' = {}
  /\ caller' = IF <<caller.at, caller.file>> \in requests
               THEN NotCalling(IF caller.at = "close" THEN caller.result ELSE "refused")
               ELSE caller
  /\ UNCHANGED <<running, open, released>>

-----------------------------------------------------------------------------
(* The thread.                                                             *)

\* A DocumentExtractionError is a refusal, whatever else was thrown is not.
Replies(r) ==
  CASE r.kind = "convert" -> {"converted", "refused", "broken"}
    [] r.kind = "expand"  -> {"opened", "refused", "broken"}
    [] r.kind = "next"    -> IF r.file \in open[r.thread] THEN {"document", "end", "refused", "broken"} ELSE {"notOpen"}
    [] OTHER              -> {"closed"}

\* worker.ts, handle: every request it gets to is answered; what ended, or threw, is forgotten.
Answer(r) ==
  /\ r \in wire /\ r.reply = "none" /\ r.thread \in running
  /\ \E a \in Replies(r) :
       /\ wire' = (wire \ {r}) \cup {[r EXCEPT !.reply = a]}
       /\ open' = [open EXCEPT ![r.thread] = IF a = "opened" THEN @ \cup {r.file}
                                             ELSE IF a = "document" THEN @ ELSE @ \ {r.file}]
  /\ UNCHANGED <<thread, running, requests, sessions, unread, released, idle, stopped, caller>>

-----------------------------------------------------------------------------
Settles == \E r \in wire : SettleRequest(r)
TimesOut == \E r \in requests : Timeout(r[1], r[2])
Watchdog == \E f \in Inputs : UnreadFires(f)

ConversionNext ==
  \/ \E f \in Inputs : Begin("convert", f) \/ Begin("expand", f)
  \/ Step \/ GiveUp \/ Drop
  \/ Settles \/ TimesOut \/ IdleFires \/ Watchdog \/ Stop
  \/ \E t \in Threads : Error(t) \/ Exit(t)
  \/ \E r \in wire : Answer(r)

ConversionSpec == ConversionInit /\ [][ConversionNext]_conversionVars

-----------------------------------------------------------------------------
(* Properties.                                                             *)

RequestKinds == {"convert", "expand", "next", "close"}

\* Types; what is pending is on the wire of the thread there is.
ConversionTypeOK ==
  /\ thread \in {0} \cup running /\ running \subseteq Threads /\ idle \in {0} \cup Threads
  /\ open \in [Threads -> SUBSET Inputs] /\ sessions \subseteq Inputs /\ unread \subseteq sessions
  /\ released \subseteq Inputs /\ stopped \in BOOLEAN
  /\ caller.at \in RequestKinds \cup {"idle", "handle", "reading"}
  /\ requests = {<<r.kind, r.file>> : r \in wire}
  /\ \A r, q \in wire : r # q => <<r.kind, r.file>> # <<q.kind, q.file>>
  /\ \A r \in wire : r.thread = thread
  /\ caller.at \in RequestKinds => <<caller.at, caller.file>> \in requests

\* A thread with nothing to do is one the idle timer was set for: an expansion read to its
\* end, given up or never read lets go of it like a converted file (client.ts, #release).
IdleThreadIsTimed == thread # 0 /\ requests = {} /\ sessions = {} => idle = thread

\* What the client takes to be open is open: neither timer takes an expansion from the reader
\* that is busy with a document, and none outlives its thread (client.ts, #armIdle,
\* #watchUnread, #replaceWorker).
SessionIsOpen ==
  \A f \in sessions :
    /\ thread # 0
    /\ \/ f \in open[thread]
       \/ \E r \in wire : r.kind = "next" /\ r.file = f /\ r.reply \in {"end", "refused", "broken"}

\* No parsed specification is kept that nobody will read or close (client.ts, #release).
NoGraphIsLeft ==
  \A f \in Inputs : thread # 0 /\ f \in open[thread] =>
    f \in sessions \/ <<"expand", f>> \in requests \/ <<"close", f>> \in requests

\* Whoever comes back to an expansion that was let go for want of a reader is refused the file,
\* and the run goes on: the thread is asked for a session it does not have, which fails the run,
\* only if the one that had it was lost between two documents.
OnlyALostSessionFails ==
  \A r \in wire : r.reply = "notOpen" => r.file \notin sessions \cup released

\* Once the caller asks for nothing more, the thread goes.
IdleThreadGoes == caller.at = "idle" ~> thread = 0 \/ caller.at # "idle"

\* Whoever waits for the thread is answered, whatever the thread does.
EveryRequestSettles == caller.at \in RequestKinds ~> caller.at \notin RequestKinds

\* What client.ts says: "everything in flight is refused by name, and the next request spawns
\* a new thread. The run finishes".
ThreadDeathIsARefusal == caller.result # "failed"

ConversionFair ==
  WF_conversionVars(TimesOut) /\ WF_conversionVars(IdleFires) /\ WF_conversionVars(Watchdog)
  /\ WF_conversionVars(\E t \in Threads : t # thread /\ Exit(t))

\* The client's books agree with the thread it speaks to (client.ts), however calls, timers and
\* the thread's death interleave: an idle thread has its timer, an expansion being read is open
\* in the thread that lives, nothing else is, and a step fails for a lost expansion only.
ThreadIsInStep == IdleThreadIsTimed /\ SessionIsOpen /\ NoGraphIsLeft /\ OnlyALostSessionFails
=============================================================================
