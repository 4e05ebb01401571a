------------------------------ MODULE AwtMain -------------------------------
(***************************************************************************)
(* The two-thread client src/src/main.c: the main thread hands one file    *)
(* after another to awt_exec until one call fails, while test_thread polls *)
(* the number of watermarks the callback has counted and closes the handle *)
(* when there are two.  main then joins the thread and closes the handle   *)
(* itself.  The callback's counter is "reports", capped at MaxReports.     *)
(***************************************************************************)
EXTENDS AwtSession

CONSTANTS
    Main, Tester,   \* the two threads
    Files,          \* number of files main goes through (main.c: 42)
    Wanted          \* watermarks after which test_thread closes (main.c: 2)

ASSUME MainConstants ==
    /\ Main # Tester /\ Threads = {Main, Tester}
    /\ CallbackCalls = {}
    /\ Files \in Nat /\ MaxRuns >= Files
    /\ Wanted \in Nat /\ MaxReports >= Wanted

VARIABLES
    mainAt,     \* main: "files", "exec", "join", "final", "closing", "done"
    testerAt,   \* test_thread: "poll", "closing", "gone"
    filesDone   \* main.c's i, counted from its first value

clientVars == <<mainAt, testerAt, filesDone>>
mainVars   == <<vars, clientVars>>

MainInit ==
    /\ SessionInit
    /\ mainAt = "files" /\ testerAt = "poll" /\ filesDone = 0

\* while(i++ < run) ret = awt_exec(&awt, path)
OneFileTooMany == filesDone <= Files
MoreFiles      == filesDone < Files

MainExec ==
    /\ mainAt = "files"
    /\ MoreFiles
    /\ ExecCall(Main)
    /\ mainAt' = "exec"
    /\ filesDone' = filesDone + 1
    /\ UNCHANGED testerAt

\* if(ret) break
MainReturned ==
    /\ ~Stopped
    /\ mainAt = "exec" /\ pc[Main] = "idle"
    /\ mainAt' = IF result[Main] # AWT_CODE_SUCCESS THEN "join" ELSE "files"
    /\ UNCHANGED <<vars, testerAt, filesDone>>

MainFilesDone ==
    /\ ~Stopped
    /\ mainAt = "files" /\ ~MoreFiles
    /\ mainAt' = "join"
    /\ UNCHANGED <<vars, testerAt, filesDone>>

\* pthread_join
JoinNotAwaited == TRUE
TesterGone     == testerAt = "gone"

MainJoin ==
    /\ ~Stopped
    /\ mainAt = "join"
    /\ TesterGone
    /\ mainAt' = "final"
    /\ UNCHANGED <<vars, testerAt, filesDone>>

\* awt_close(&awt), a load and a return when the handle is already NULL.
Close(t) ==
    \/ CloseCall(t)
    \/ ~Stopped /\ ~handle /\ UNCHANGED vars

MainClose ==
    /\ mainAt = "final"
    /\ Close(Main)
    /\ mainAt' = "closing"
    /\ UNCHANGED <<testerAt, filesDone>>

MainExit ==
    /\ ~Stopped
    /\ mainAt = "closing" /\ pc[Main] = "idle"
    /\ mainAt' = "done"
    /\ UNCHANGED <<vars, testerAt, filesDone>>

\* while(1){ usleep; if(counter >= 2) ... }
TesterPoll ==
    /\ ~Stopped
    /\ testerAt = "poll" /\ reports < Wanted
    /\ UNCHANGED mainVars

TesterClose ==
    /\ testerAt = "poll" /\ reports >= Wanted
    /\ Close(Tester)
    /\ testerAt' = "closing"
    /\ UNCHANGED <<mainAt, filesDone>>

TesterExit ==
    /\ ~Stopped
    /\ testerAt = "closing" /\ pc[Tester] = "idle"
    /\ testerAt' = "gone"
    /\ UNCHANGED <<vars, mainAt, filesDone>>

MainThread ==
    \/ MainExec \/ MainReturned \/ MainFilesDone
    \/ MainJoin \/ MainClose \/ MainExit
    \/ CallStep(Main) /\ UNCHANGED clientVars

TesterThread ==
    \/ TesterPoll \/ TesterClose \/ TesterExit
    \/ CallStep(Tester) /\ UNCHANGED clientVars

\* main has returned, or a fault or an endless loop ends the story.
MainDone ==
    /\ Stopped \/ rpc = "spin" \/ mainAt = "done"
    /\ UNCHANGED mainVars

MainNext == MainThread \/ TesterThread \/ MainDone

MainSpec == MainInit /\ [][MainNext]_mainVars

\* Both threads are scheduled; the lock is granted to a waiter if it stays free.
FairMainSpec ==
    MainSpec /\ WF_mainVars(MainThread) /\ WF_mainVars(TesterThread)

-----------------------------------------------------------------------------
MainTypeOK ==
    /\ mainAt \in {"files", "exec", "join", "final", "closing", "done"}
    /\ testerAt \in {"poll", "closing", "gone"}
    /\ filesDone \in 0 .. Files

\* The join orders the two closes: when main reaches its own awt_close the one of
\* test_thread has finished and cleared the handle, so the context is not freed
\* twice; main's call only finds NULL.
FinalCloseFindsNull == mainAt \in {"final", "closing"} => ~handle /\ mem = "freed"

\* test_thread's awt_close never breaks the call that found the watermarks: what
\* breaks is a further awt_exec, which main starts for the next file although the
\* handle is being closed (main.c:48).
CrashNeedsNextFile ==
    crashed => /\ mainAt = "exec" /\ testerAt # "poll"
               /\ Wanted > 0 => filesDone >= 2

\* Two watermarks found, the program ends, unless the frame loop spins on an
\* unlicensed context or an undefined behaviour has stopped it.
FoundEnds == reports >= Wanted ~> mainAt = "done" \/ Stopped \/ rpc = "spin"

\* main.c:26 "stop when found 2 watermark": closing from test_thread stops the
\* program, it does not break it.
StopIsSafe == ~crashed
=============================================================================
