----------------------------- MODULE AwtSession -----------------------------
(***************************************************************************)
(* The entry points awt_exec and awt_close of src/src/awt.c, called by     *)
(* several threads on one handle.  awt_open has returned before the        *)
(* threads start, and nobody opens the handle again, as in src/src/main.c. *)
(*                                                                         *)
(* The lock lives inside the context it protects, and awt_close frees the  *)
(* context after it has released the lock.  Each access to the handle, the *)
(* lock and the context is a step of its own here; what a run does to the  *)
(* context is module AwtRun.  An access to a freed context or through a    *)
(* null pointer is undefined: the model stops there with "crashed".        *)
(***************************************************************************)
EXTENDS AwtRun

CONSTANTS
    Threads,        \* the client's threads
    NoThread,       \* no owner of awt->lock
    CallbackCalls   \* what the callback calls on its own handle

ASSUME SessionConstants ==
    /\ NoThread \notin Threads
    /\ CallbackCalls \subseteq {"awt_exec", "awt_close"}

VARIABLES
    handle,     \* *awt_ptr # NULL
    mem,        \* the context: "live" or "freed"
    holder,     \* owner of awt->lock
    pc,         \* where each thread is in awt_exec or awt_close
    result,     \* what the last call of each thread returned
    crashed,    \* a thread has used memory it must not use
    overlapped  \* history: a call met a close past the point of safety

sessionVars == <<handle, mem, holder, pc, result, crashed, overlapped>>
vars        == <<runVars, sessionVars>>

ExecPCs    == {"exec_lock", "exec_load", "run", "stuck"}
ClosePCs   == {"close_flag", "close_lock", "teardown", "unlock", "free", "null"}
SessionPCs == {"idle"} \cup ExecPCs \cup ClosePCs

\* Positions at which a thread owns the lock.
Owning == {"exec_load", "run", "stuck", "teardown", "unlock"}

\* A run in progress, its thread perhaps waiting for the lock it holds itself.
Running == {"run", "stuck"}

\* A closer that has been granted the lock and has not cleared the handle yet.
\* From here on no other call may be waiting, nor may a new one begin.
Closing == {"teardown", "unlock", "free", "null"}

ClosingBy(t) == pc[t] \in Closing
Waiting(t)   == pc[t] \in {"exec_lock", "close_flag", "close_lock"}

\* No statement can be executed any more.
Stopped == crashed \/ rpc = "fault"

-----------------------------------------------------------------------------
SessionInit ==
    /\ RunInit
    /\ handle = TRUE /\ mem = "live"
    /\ holder = NoThread
    /\ pc = [t \in Threads |-> "idle"]
    /\ result = [t \in Threads |-> AWT_CODE_SUCCESS]
    /\ crashed = FALSE /\ overlapped = FALSE

Goto(t, label) == pc' = [pc EXCEPT ![t] = label]

Returns(t, code) ==
    /\ Goto(t, "idle")
    /\ result' = [result EXCEPT ![t] = code]

\* Statement of thread t that reads or writes *awt: with the memory gone the
\* program's behaviour is undefined.
Touches(t) == ~Stopped /\ mem = "live"
UseAfterFree(t) ==
    /\ ~Stopped
    /\ mem = "freed"
    /\ pc[t] \notin {"idle", "null"}
    /\ crashed' = TRUE
    /\ UNCHANGED <<runVars, handle, mem, holder, pc, result, overlapped>>

\* A call loads the handle; it overlaps if somebody is about to clear it.
LoadHandle == overlapped' = (overlapped \/ \E u \in Threads : ClosingBy(u))

\* awt_exec: AWTContext *awt = *awt_ptr, and -1 for a closed handle.
ExecCall(t) ==
    /\ ~Stopped
    /\ pc[t] = "idle"
    /\ \/ /\ handle
          /\ runs + Cardinality({u \in Threads : pc[u] \in {"exec_lock", "exec_load"}})
                < MaxRuns
          /\ Goto(t, "exec_lock")
          /\ LoadHandle
          /\ UNCHANGED result
       \/ /\ ~handle
          /\ Returns(t, -1)
          /\ UNCHANGED overlapped
    /\ UNCHANGED <<runVars, handle, mem, holder, crashed>>

\* pthread_mutex_lock: waits for the owner, this thread included.
LockNotBlocked == TRUE
LockFree       == holder = NoThread

ExecLock(t) ==
    /\ Touches(t)
    /\ pc[t] = "exec_lock"
    /\ LockFree
    /\ holder' = t
    /\ Goto(t, "exec_load")
    /\ UNCHANGED <<runVars, handle, mem, result, crashed, overlapped>>

\* awt_run loads *awt_ptr again: the handle may have been cleared since.
RunLoad(t) ==
    /\ Touches(t)
    /\ pc[t] = "exec_load"
    /\ IF handle
       THEN RunStart /\ Goto(t, "run") /\ UNCHANGED crashed
       ELSE crashed' = TRUE /\ UNCHANGED <<runVars, pc>>
    /\ UNCHANGED <<handle, mem, holder, result, overlapped>>

\* The statements of awt_run.
ExecRun(t) ==
    /\ Touches(t)
    /\ pc[t] = "run"
    /\ RunStep
    /\ UNCHANGED sessionVars

\* The callback calls awt_exec or awt_close: pthread_mutex_lock waits for the
\* thread's own run to end.
Callback(t) ==
    /\ Touches(t)
    /\ pc[t] = "run"
    /\ rpc = "feed" /\ file = fg /\ FrameReady /\ awt_size # 0 /\ nb_decoder # 0
    /\ handle
    /\ \E call \in CallbackCalls : running' = (running /\ call # "awt_close")
    /\ Report
    /\ Goto(t, "stuck")
    /\ UNCHANGED <<fg, sample_rate, nb_decoder, decoder, buffer, awt_size, license,
                   current_duration, pre_duration, locals, runs, played, granted,
                   rejected, lost, initFailed, setupFailed, handle, mem, holder, result,
                   crashed, overlapped>>

ExecUnlock(t) ==
    /\ Touches(t)
    /\ pc[t] = "run"
    /\ rpc = "idle"
    /\ holder' = NoThread
    /\ Returns(t, ret)
    /\ UNCHANGED <<runVars, handle, mem, crashed, overlapped>>

-----------------------------------------------------------------------------
\* awt_close: AWTContext *awt = *awt_ptr, and nothing to do for NULL.
CloseCall(t) ==
    /\ ~Stopped
    /\ pc[t] = "idle"
    /\ handle
    /\ Goto(t, "close_flag")
    /\ LoadHandle
    /\ UNCHANGED <<runVars, handle, mem, holder, result, crashed>>

\* awt->running = 0, without the lock.
CloseFlag(t) ==
    /\ Touches(t)
    /\ pc[t] = "close_flag"
    /\ RequestStop
    /\ Goto(t, "close_lock")
    /\ UNCHANGED <<handle, mem, holder, result, crashed, overlapped>>

CloseLock(t) ==
    /\ Touches(t)
    /\ pc[t] = "close_lock"
    /\ LockFree
    /\ holder' = t
    /\ Goto(t, "teardown")
    /\ overlapped' = (overlapped \/ \E u \in Threads \ {t} :
                                        Waiting(u) \/ ClosingBy(u))
    /\ UNCHANGED <<runVars, handle, mem, result, crashed>>

CloseTeardown(t) ==
    /\ Touches(t)
    /\ pc[t] = "teardown"
    /\ Teardown
    /\ Goto(t, "unlock")
    /\ UNCHANGED <<handle, mem, holder, result, crashed, overlapped>>

CloseUnlock(t) ==
    /\ Touches(t)
    /\ pc[t] = "unlock"
    /\ holder' = NoThread
    /\ Goto(t, "free")
    /\ UNCHANGED <<runVars, handle, mem, result, crashed, overlapped>>

\* free(awt); a second free of the same context is UseAfterFree.
CloseFree(t) ==
    /\ Touches(t)
    /\ pc[t] = "free"
    /\ mem' = "freed"
    /\ Goto(t, "null")
    /\ UNCHANGED <<runVars, handle, holder, result, crashed, overlapped>>

\* *awt_ptr = NULL; return 0
KeepHandle  == handle' = handle
ClearHandle == handle' = FALSE

CloseNull(t) ==
    /\ ~Stopped
    /\ pc[t] = "null"
    /\ ClearHandle
    /\ Returns(t, 0)
    /\ UNCHANGED <<runVars, mem, holder, crashed, overlapped>>

-----------------------------------------------------------------------------
\* The steps of awt_exec and of awt_close after their entry.
ExecStep(t) ==
    \/ ExecLock(t) \/ RunLoad(t) \/ ExecRun(t) \/ Callback(t)
    \/ ExecUnlock(t)

CloseStep(t) ==
    \/ CloseFlag(t) \/ CloseLock(t) \/ CloseTeardown(t) \/ CloseUnlock(t)
    \/ CloseFree(t) \/ CloseNull(t)

CallStep(t) == ExecStep(t) \/ CloseStep(t) \/ UseAfterFree(t)

\* The lock is never released again: its owner spins, waits for the licence
\* server or waits for itself.
Held == rpc \in {"wait", "spin"} \/ \E t \in Threads : pc[t] = "stuck"

\* The program has stopped, or the threads may all be waiting for a lock that is
\* held for ever.  Everywhere else some call can be made or go on.
SessionDone ==
    /\ Stopped \/ Held
    /\ UNCHANGED vars

SessionNext ==
    \/ \E t \in Threads : ExecCall(t) \/ CloseCall(t) \/ CallStep(t)
    \/ SessionDone

SessionSpec == SessionInit /\ [][SessionNext]_vars

\* A thread inside the library goes on, and gets a lock that stays free: the
\* client makes finitely many calls.
FairSessionSpec == SessionSpec /\ \A t \in Threads : WF_vars(CallStep(t))

-----------------------------------------------------------------------------
\* The session's state stays in its types, and every call that has returned gave
\* its thread one of the codes of awt.h.
SessionTypeOK ==
    /\ handle \in BOOLEAN
    /\ mem \in {"live", "freed"}
    /\ holder \in Threads \cup {NoThread}
    /\ pc \in [Threads -> SessionPCs]
    /\ result \in [Threads -> ResultCodes]
    /\ crashed \in BOOLEAN /\ overlapped \in BOOLEAN

\* awt->lock does its work: between the lock and the unlock of awt_exec and of
\* awt_close there is never more than one thread, whatever the threads call, and
\* a run is in progress only inside the awt_exec of one of them.
LockProtects ==
    /\ \A t, u \in Threads : pc[t] \in Owning /\ pc[u] \in Owning => t = u
    /\ rpc # "idle" => \E t \in Threads : pc[t] \in Running

\* No object a run uses goes away under it: while awt_run is in progress no
\* awt_close of another thread kills a decoder or frees a buffer, the licence
\* or the filter graph.
NothingFreedUnderRun ==
    [][rpc # "idle" => /\ decoder \subseteq decoder'
                       /\ buffer \subseteq buffer'
                       /\ license => license'
                       /\ fg # NoFormat => fg' = fg]_vars

\* The undefined behaviours of the lock inside the context all have one cause: a
\* call was waiting in awt_exec or awt_close when another awt_close was granted
\* the lock, or it loaded the handle before that awt_close cleared it.  A call
\* that holds the lock already is safe: awt_close waits for it.
CrashNeedsOverlap == crashed => overlapped

\* A close that met no other call leaves nothing behind in the context it frees.
FreedMeansReleased ==
    mem = "freed" /\ ~overlapped =>
        fg = NoFormat /\ ~license /\ decoder = {} /\ buffer = {}

\* Once an awt_close that met no other call has returned, nobody is inside
\* awt_exec or awt_close any more and none gets in again: awt_exec answers -1.
ClosedIsQuiet ==
    ~handle /\ ~overlapped => \A t \in Threads : pc[t] = "idle"

\* awt_close returns, whichever statement the other threads are at, unless the
\* lock is held for ever for one of three reasons or the program has stopped.
CloseReturns ==
    \A t \in Threads :
        pc[t] \in ClosePCs ~> pc[t] = "idle" \/ Stopped \/ Held

\* awt5_decode_stream_kill and free are given what awt_setup made, and given it
\* once, however many awt_close calls get to that point and however set-ups failed
\* and were retried before.  Only an awt5_decode_stream_init that failed leaves
\* nb_decoder beyond the decoders there are, which then are those in front of the
\* one that failed, each with its buffer (awt.c:524).
KillsOnlyLive ==
    \A t \in Threads : pc[t] = "teardown" /\ mem = "live" =>
        \E made \in 0 .. nb_decoder :
           /\ decoder = 0 .. made - 1 /\ buffer = 0 .. made - 1
           /\ made < nb_decoder => initFailed

\* A closer that waits for the lock waits for a bounded number of statements of
\* each run before it: running stays 0, and a run in progress only moves towards
\* its end, or holds the lock for ever.
CloseStopsRuns ==
    [][(\E t \in Threads : pc[t] = "close_lock") =>
          /\ ~running'
          /\ rpc # "idle" => \/ UNCHANGED runVars
                             \/ Held'
                             \/ StatementsLeft' \in 0 .. StatementsLeft - 1]_vars

\* The abstract state: the run in progress, and whether the handle still counts
\* as open.  The close takes effect with the teardown.
userBar == IF ~overlapped /\ holder \in Threads /\ pc[holder] \in Running
           THEN holder ELSE NoThread
stateBar == IF overlapped THEN "misused"
            ELSE IF handle /\ \A t \in Threads : pc[t] \notin {"unlock", "free", "null"}
                 THEN "open" ELSE "closed"

Handle == INSTANCE AwtHandle WITH user <- userBar, state <- stateBar

\* awt_exec and awt_close keep the promise of AwtHandle: serialised runs, a close
\* between runs, none afterwards, unless the client overlaps a call with a close.
ImplementsHandle == Handle!Spec
=============================================================================
