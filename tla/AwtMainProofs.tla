--------------------------- MODULE AwtMainProofs ----------------------------
(***************************************************************************)
(* Proofs about the client main.c, for any number of files and of          *)
(* watermarks wanted: the second close of the handle comes after the first *)
(* one has ended, and finds nothing to do.                                 *)
(***************************************************************************)
EXTENDS AwtMain, AwtSessionProofs

\* What the main thread is doing in the library.
MainCalls ==
    /\ mainAt \in {"files", "join", "final", "closing", "done"} => pc[Main] = "idle"
    /\ mainAt = "exec" => pc[Main] \in {"idle"} \cup ExecPCs

\* What test_thread has done to the handle: it is the only one that closes it.
TesterCloses ==
    /\ testerAt = "poll" => pc[Tester] = "idle" /\ handle
    /\ testerAt = "closing" => \/ pc[Tester] \in ClosePCs
                               \/ pc[Tester] = "idle" /\ ~handle /\ mem = "freed"
    /\ testerAt = "gone" => pc[Tester] = "idle" /\ ~handle /\ mem = "freed"
    /\ pc[Tester] = "null" => mem = "freed"

\* main goes on to its own close only when test_thread is gone.
Joined == mainAt \in {"final", "closing", "done"} => testerAt = "gone"

MainInv ==
    /\ MainTypeOK /\ pc \in [Threads -> SessionPCs]
    /\ MainCalls /\ TesterCloses /\ Joined

USE MainConstants DEF MainConstants

\* Before its first call the client is outside the library and the handle open.
LEMMA MainInitInv == MainInit => MainInv
  BY DEF MainInit, SessionInit, MainInv, MainTypeOK, SessionPCs, MainCalls,
     TesterCloses, Joined

-----------------------------------------------------------------------------
\* A statement of awt_exec, or an access to freed memory, leaves handle and memory
\* alone and keeps its thread inside the call or ends it.
LEMMA ExecPart ==
  ASSUME NEW t \in Threads, pc \in [Threads -> SessionPCs],
         pc[t] \in ExecPCs, CallStep(t)
  PROVE  /\ UNCHANGED <<handle, mem>>
         /\ \E label \in {"idle"} \cup ExecPCs : pc' = [pc EXCEPT ![t] = label]
<1> USE DEF ExecPCs
<1>1. ~(CloseFlag(t) \/ CloseLock(t) \/ CloseTeardown(t) \/ CloseUnlock(t)
         \/ CloseFree(t) \/ CloseNull(t))
  BY DEF CloseFlag, CloseLock, CloseTeardown, CloseUnlock, CloseFree, CloseNull
<1>2. CASE ExecLock(t)
  BY <1>2 DEF ExecLock, Goto
<1>3. CASE RunLoad(t)
  <2>1. pc' = [pc EXCEPT ![t] = "run"] \/ pc' = pc
    BY <1>3 DEF RunLoad, Goto
  <2>2. pc = [pc EXCEPT ![t] = "exec_load"]
    BY <1>3 DEF RunLoad
  <2> QED
    BY <1>3, <2>1, <2>2 DEF RunLoad
<1>4. CASE ExecRun(t)
  <2>1. pc = [pc EXCEPT ![t] = "run"]
    BY <1>4 DEF ExecRun
  <2> QED
    BY <1>4, <2>1 DEF ExecRun, sessionVars
<1>5. CASE ExecUnlock(t) \/ Callback(t)
  BY <1>5 DEF ExecUnlock, Callback, Returns, Goto
<1>6. CASE UseAfterFree(t)
  <2>1. pc = [pc EXCEPT ![t] = pc[t]]
    OBVIOUS
  <2> QED
    BY <1>6, <2>1 DEF UseAfterFree
<1> QED
  BY <1>1, <1>2, <1>3, <1>4, <1>5, <1>6 DEF CallStep, ExecStep, CloseStep

\* A statement of awt_close moves towards the return, before which the context is
\* freed and the handle cleared.
LEMMA ClosePart ==
  ASSUME NEW t \in Threads, pc \in [Threads -> SessionPCs],
         pc[t] \in ClosePCs, pc[t] = "null" => mem = "freed", CallStep(t)
  PROVE  \/ /\ \E label \in ClosePCs \ {"null"} : pc' = [pc EXCEPT ![t] = label]
            /\ UNCHANGED <<handle, mem>>
         \/ pc' = [pc EXCEPT ![t] = "null"] /\ mem' = "freed"
         \/ pc' = [pc EXCEPT ![t] = "idle"] /\ ~handle' /\ mem' = "freed"
         \/ UNCHANGED <<pc, handle, mem>>
<1> USE DEF ClosePCs
<1>1. ~(ExecLock(t) \/ RunLoad(t) \/ ExecRun(t) \/ Callback(t) \/ ExecUnlock(t))
  BY DEF ExecLock, RunLoad, ExecRun, Callback, ExecUnlock
<1>2. CASE CloseFlag(t) \/ CloseLock(t)
  BY <1>2 DEF CloseFlag, CloseLock, Goto
<1>3. CASE CloseTeardown(t) \/ CloseUnlock(t)
  BY <1>3 DEF CloseTeardown, CloseUnlock, Goto
<1>4. CASE CloseFree(t)
  BY <1>4 DEF CloseFree, Goto
<1>5. CASE CloseNull(t)
  BY <1>5 DEF CloseNull, ClearHandle, Returns, Goto
<1>6. CASE UseAfterFree(t)
  BY <1>6 DEF UseAfterFree
<1> QED
  BY <1>1, <1>2, <1>3, <1>4, <1>5, <1>6 DEF CallStep, ExecStep, CloseStep

\* The main thread's statements.
LEMMA MainThreadInv ==
  ASSUME MainInv, MainThread
  PROVE  MainInv'
<1> USE DEF MainInv, MainTypeOK, MainCalls, TesterCloses, Joined
<1>1. CASE MainExec
  BY <1>1 DEF MainExec, MoreFiles, ExecCall, Goto, Returns, SessionPCs, ExecPCs
<1>2. CASE MainReturned \/ MainFilesDone \/ MainJoin \/ MainExit
  BY <1>2 DEF MainReturned, MainFilesDone, MainJoin, TesterGone, MainExit, vars,
     sessionVars
<1>3. CASE MainClose
  BY <1>3 DEF MainClose, Close, CloseCall, vars, sessionVars
<1>4. CASE CallStep(Main) /\ UNCHANGED clientVars
  <2>1. pc[Main] # "idle"
    BY <1>4 DEF CallStep, ExecStep, CloseStep, ExecLock, RunLoad, ExecRun, Callback, ExecUnlock,
       CloseFlag, CloseLock, CloseTeardown, CloseUnlock, CloseFree, CloseNull, UseAfterFree
  <2>2. mainAt = "exec" /\ pc[Main] \in ExecPCs
    BY <2>1
  <2>3. /\ UNCHANGED <<handle, mem>>
        /\ \E label \in {"idle"} \cup ExecPCs : pc' = [pc EXCEPT ![Main] = label]
    BY <1>4, <2>2, ExecPart
  <2> QED
    BY <1>4, <2>2, <2>3 DEF clientVars, SessionPCs
<1> QED
  BY <1>1, <1>2, <1>3, <1>4 DEF MainThread

\* The statements of test_thread.
LEMMA TesterThreadInv ==
  ASSUME MainInv, TesterThread
  PROVE  MainInv'
<1> USE DEF MainInv, MainTypeOK, MainCalls, TesterCloses, Joined
<1>1. CASE TesterPoll
  BY <1>1 DEF TesterPoll, mainVars, clientVars, vars, sessionVars
<1>2. CASE TesterClose
  BY <1>2 DEF TesterClose, Close, CloseCall, Goto, SessionPCs, ClosePCs, vars,
     sessionVars
<1>3. CASE TesterExit
  BY <1>3 DEF TesterExit, ClosePCs, vars, sessionVars
<1>4. CASE CallStep(Tester) /\ UNCHANGED clientVars
  <2>1. pc[Tester] # "idle"
    BY <1>4 DEF CallStep, ExecStep, CloseStep, ExecLock, RunLoad, ExecRun, Callback, ExecUnlock,
       CloseFlag, CloseLock, CloseTeardown, CloseUnlock, CloseFree, CloseNull, UseAfterFree
  <2>2. testerAt = "closing" /\ pc[Tester] \in ClosePCs
    BY <2>1
  <2>3. \/ /\ \E label \in ClosePCs \ {"null"} : pc' = [pc EXCEPT ![Tester] = label]
           /\ UNCHANGED <<handle, mem>>
        \/ pc' = [pc EXCEPT ![Tester] = "null"] /\ mem' = "freed"
        \/ pc' = [pc EXCEPT ![Tester] = "idle"] /\ ~handle' /\ mem' = "freed"
        \/ UNCHANGED <<pc, handle, mem>>
    BY <1>4, <2>2, ClosePart
  <2> QED
    BY <1>4, <2>2, <2>3 DEF clientVars, SessionPCs, ClosePCs
<1> QED
  BY <1>1, <1>2, <1>3, <1>4 DEF TesterThread

\* Which positions the two threads can hold together, and what the session is in then.
THEOREM MainInvariant == MainSpec => []MainInv
<1>1. MainInv /\ [MainNext]_mainVars => MainInv'
  <2>1. ASSUME MainInv, UNCHANGED mainVars PROVE MainInv'
    BY <2>1 DEF mainVars, clientVars, vars, sessionVars, MainInv, MainTypeOK,
       MainCalls, TesterCloses, Joined
  <2> QED
    BY <2>1, MainThreadInv, TesterThreadInv DEF MainNext, MainDone
<1> QED
  BY <1>1, MainInitInv, PTL DEF MainSpec

\* main's i and the two threads' places stay in their ranges.
THEOREM MainTypesHold == MainSpec => []MainTypeOK
<1>1. MainInv => MainTypeOK
  BY DEF MainInv
<1> QED
  BY <1>1, MainInvariant, PTL

\* Whatever the files and the number of watermarks wanted, the handle is closed
\* once: main's awt_close comes after the end of test_thread's and finds NULL.
THEOREM ClosedOnce == MainSpec => []FinalCloseFindsNull
<1>1. MainInv => FinalCloseFindsNull
  BY DEF MainInv, TesterCloses, Joined, FinalCloseFindsNull
<1> QED
  BY <1>1, MainInvariant, PTL

-----------------------------------------------------------------------------
\* main.c uses the library as AwtSession says clients may: every step of it is one of
\* awt_exec or awt_close, or does not touch the library.
LEMMA MainStepsRefine ==
  ASSUME [MainNext]_mainVars
  PROVE  [SessionNext]_vars
<1> USE DEF vars, SessionNext
<1>1. CASE MainExec
  BY <1>1 DEF MainExec
<1>2. CASE MainReturned \/ MainFilesDone \/ MainJoin \/ MainExit \/ TesterExit
  BY <1>2 DEF MainReturned, MainFilesDone, MainJoin, MainExit, TesterExit
<1>3. CASE MainClose \/ TesterClose
  BY <1>3 DEF MainClose, TesterClose, Close
<1>4. CASE TesterPoll \/ MainDone \/ UNCHANGED mainVars
  BY <1>4 DEF TesterPoll, MainDone, mainVars
<1>5. CASE CallStep(Main) \/ CallStep(Tester)
  BY <1>5
<1> QED
  BY <1>1, <1>2, <1>3, <1>4, <1>5 DEF MainNext, MainThread, TesterThread

THEOREM MainImplementsSession == MainSpec => SessionSpec
<1>1. MainInit => SessionInit
  BY DEF MainInit
<1> QED
  BY <1>1, MainStepsRefine, PTL DEF MainSpec, SessionSpec

\* So what is proved of any client holds of main.c: the lock serialises its two
\* threads, a run keeps its objects, a waiting close is not held up for ever by one
\* that goes on, and no decoder is killed twice.
THEOREM MainIsServed ==
    MainSpec => []LockProtects /\ []KillsOnlyLive /\ NothingFreedUnderRun /\ CloseStopsRuns
  BY MainImplementsSession, LockProtectsHolds, NoDecoderKilledTwice, RunKeepsItsObjects,
     CloseWaitsBounded, PTL

-----------------------------------------------------------------------------
\* Only test_thread frees the context.
FreedByTester ==
    mem = "freed" \/ ~handle => mem = "freed" /\ testerAt # "poll" /\ pc[Tester] \in {"idle", "null"}

\* During main's first call of awt_exec: watermarks are found only inside the run, which
\* has the lock by then, so that test_thread's close waits for it.
InFirstCall ==
    Wanted > 0 /\ filesDone <= 1 =>
      /\ filesDone = 0 => mainAt # "exec"
      /\ filesDone = 0 \/ pc[Main] \in {"exec_lock", "exec_load"} => reports = 0
      /\ testerAt # "poll" => reports > 0
      /\ pc[Main] \in Running => mem = "live" /\ pc[Tester] \notin Closing

NextFileInv == FreedByTester /\ InFirstCall /\ CrashNeedsNextFile

\* Only a run reports, and what has been reported stays so.
LEMMA ReportsGrow ==
  ASSUME SessionInv, NEW t \in Threads, CallStep(t)
  PROVE  /\ reports \in Nat /\ reports' \in Nat /\ reports' >= reports
         /\ reports' # reports => pc[t] = "run"
<1>1. reports \in Nat
  BY RunConstants DEF RunConstants, SessionInv, RunInv, RunTypeOK, TypeOfCounters
<1>2. CASE UNCHANGED reports
  BY <1>1, <1>2
<1>3. CASE Report /\ pc[t] = "run"
  BY <1>1, <1>3 DEF Report
<1>4. CASE ExecRun(t)
  <2> USE DEF history
  <2>1. CASE FilterFrame
    BY <1>2, <1>3, <1>4, <2>1 DEF ExecRun, FilterFrame
  <2>2. CASE OpenInput \/ InitFilters \/ InitDecoder \/ RunEnd
    BY <1>2, <2>2 DEF OpenInput, InitFilters, InitDecoder, RunEnd
  <2>3. CASE \/ SetupSkipped \/ LicenseUnreachable \/ LicenseSilent
             \/ \E reply \in LicenseReplies : LicenseReply(reply)
    BY <1>2, <2>3 DEF SetupSkipped, LicenseUnreachable, LicenseSilent, LicenseReply
  <2>4. CASE \/ LoopHead \/ ReadFails \/ ReadOther \/ ReadUntimed \/ Decode
             \/ FeedRejected \/ FeedNoOutput
             \/ \E position \in Positions : ReadTimed(position)
    BY <1>2, <2>4 DEF LoopHead, ReadFails, ReadOther, ReadUntimed, Decode, FeedRejected,
       FeedNoOutput, ReadTimed
  <2> QED
    BY <1>4, <2>1, <2>2, <2>3, <2>4 DEF ExecRun, RunStep
<1>5. CASE Callback(t)
  BY <1>3, <1>5 DEF Callback
<1>6. CASE RunStart \/ RequestStop \/ UNCHANGED runVars
  BY <1>2, <1>6 DEF RunStart, RequestStop, runVars, history
<1>7. CASE CloseTeardown(t)
  BY <1>2, <1>7 DEF CloseTeardown, Teardown, history
<1> QED
  BY <1>4, <1>5, <1>6, <1>7, StepsByContext

\* The steps outside the library.
LEMMA OutsideNextFile ==
  ASSUME MainInv, NextFileInv,
         \/ MainReturned \/ MainFilesDone \/ MainJoin \/ MainClose \/ MainExit
         \/ TesterPoll \/ TesterExit \/ UNCHANGED mainVars
  PROVE  NextFileInv'
<1> USE DEF NextFileInv, vars, sessionVars, runVars, history
<1>1. CASE MainReturned \/ MainFilesDone
  BY <1>1 DEF MainReturned, MainFilesDone, FreedByTester, InFirstCall,
     CrashNeedsNextFile, Stopped
<1>2. CASE MainJoin \/ MainExit \/ TesterExit
  BY <1>2 DEF MainJoin, MainExit, TesterExit, FreedByTester, InFirstCall,
     CrashNeedsNextFile, Stopped
<1>3. CASE MainClose
  <2>1. ~handle
    BY <1>3 DEF MainClose, MainInv, TesterCloses, Joined
  <2> QED
    BY <1>3, <2>1 DEF MainClose, Close, CloseCall, FreedByTester, InFirstCall,
       CrashNeedsNextFile, Stopped
<1>4. CASE TesterPoll \/ UNCHANGED mainVars
  BY <1>4 DEF TesterPoll, mainVars, clientVars, FreedByTester, InFirstCall,
     CrashNeedsNextFile
<1> QED
  BY <1>1, <1>2, <1>3, <1>4

\* main starts a call, test_thread begins to close.
LEMMA CallsNextFile ==
  ASSUME MainInv, NextFileInv, SessionInv, MainExec \/ TesterClose
  PROVE  NextFileInv'
<1> USE DEF NextFileInv
<1>0. /\ filesDone \in Nat
      /\ pc \in [Threads -> SessionPCs]
  BY DEF MainInv, MainTypeOK
<1>1. CASE MainExec
  <2>1. /\ filesDone' = filesDone + 1 /\ ~crashed /\ UNCHANGED <<testerAt, reports, mem, handle, crashed>>
        /\ mainAt' = "exec" /\ mainAt = "files"
        /\ pc' = [pc EXCEPT ![Main] = "exec_lock"] \/ pc' = [pc EXCEPT ![Main] = "idle"]
    BY <1>1 DEF MainExec, ExecCall, Stopped, Goto, Returns, runVars, history
  <2>2. pc'[Tester] = pc[Tester]
    BY <1>0, <2>1
  <2>3. FreedByTester'
    BY <2>1, <2>2 DEF FreedByTester
  <2>4. InFirstCall'
    BY <1>0, <2>1 DEF InFirstCall, Running
  <2> QED
    BY <2>1, <2>3, <2>4 DEF CrashNeedsNextFile
<1>2. CASE TesterClose
  <2>1. /\ ~crashed /\ UNCHANGED <<mainAt, filesDone, reports, mem, handle, crashed>>
        /\ testerAt = "poll" /\ testerAt' = "closing" /\ reports >= Wanted
        /\ pc' = [pc EXCEPT ![Tester] = "close_flag"] \/ pc' = pc
    BY <1>2 DEF TesterClose, Close, CloseCall, Stopped, Goto, runVars, history, vars,
       sessionVars
  <2>2. handle /\ mem # "freed"
    BY <2>1 DEF FreedByTester
  <2>3. FreedByTester'
    BY <2>1, <2>2 DEF FreedByTester
  <2>4. reports \in Nat /\ mem = "live"
    BY <2>2, RunConstants DEF RunConstants, SessionInv, RunInv, RunTypeOK, TypeOfCounters,
       SessionTypeOK
  <2>5. InFirstCall'
    BY <1>0, <2>1, <2>4 DEF InFirstCall, Closing
  <2> QED
    BY <2>1, <2>3, <2>5 DEF CrashNeedsNextFile
<1> QED
  BY <1>1, <1>2

\* main inside awt_exec.
LEMMA ExecNextFile ==
  ASSUME MainInv, NextFileInv, SessionInv, CallStep(Main), UNCHANGED clientVars
  PROVE  NextFileInv'
<1> USE DEF NextFileInv, clientVars
<1>0. /\ filesDone \in Nat
      /\ pc \in [Threads -> SessionPCs]
      /\ mainAt = "exec" /\ pc[Main] \in ExecPCs
  <2>1. pc[Main] # "idle"
    BY DEF CallStep, ExecStep, CloseStep, ExecLock, RunLoad, ExecRun, Callback, ExecUnlock,
       CloseFlag, CloseLock, CloseTeardown, CloseUnlock, CloseFree, CloseNull, UseAfterFree
  <2> QED
    BY <2>1 DEF MainInv, MainTypeOK, MainCalls
<1>1. /\ UNCHANGED <<handle, mem>>
      /\ pc'[Tester] = pc[Tester]
  BY <1>0, ExecPart
<1>2. /\ reports \in Nat /\ reports' \in Nat /\ reports' >= reports
      /\ reports' # reports => pc[Main] = "run"
  BY ReportsGrow
<1>3. FreedByTester'
  BY <1>1 DEF FreedByTester
<1>4. pc[Main] \in Running => pc'[Main] \in Running \cup {"idle"}
  BY <1>0 DEF CallStep, ExecStep, CloseStep, ExecLock, RunLoad, ExecRun, Callback, ExecUnlock, CloseFlag,
     CloseLock, CloseTeardown, CloseUnlock, CloseFree, CloseNull, UseAfterFree, Goto,
     Returns, sessionVars, Running
<1>5. pc'[Main] \in Running => pc[Main] \in Running \cup {"exec_load"}
  BY <1>0 DEF CallStep, ExecStep, CloseStep, ExecLock, RunLoad, ExecRun, Callback, ExecUnlock, CloseFlag,
     CloseLock, CloseTeardown, CloseUnlock, CloseFree, CloseNull, UseAfterFree, Goto,
     Returns, sessionVars, ExecPCs, Running
<1>6. pc'[Main] \in {"exec_lock", "exec_load"} => pc[Main] \in {"exec_lock", "exec_load"}
  BY <1>0 DEF CallStep, ExecStep, CloseStep, ExecLock, RunLoad, ExecRun, Callback, ExecUnlock, CloseFlag,
     CloseLock, CloseTeardown, CloseUnlock, CloseFree, CloseNull, UseAfterFree, Goto,
     Returns, sessionVars, ExecPCs, Running
<1>7. testerAt = "poll" => pc[Tester] = "idle" /\ mem = "live"
  BY DEF MainInv, TesterCloses, FreedByTester, SessionInv, SessionTypeOK
<1>8. InFirstCall'
  BY <1>0, <1>1, <1>2, <1>4, <1>5, <1>6, <1>7 DEF InFirstCall, Closing, Running
<1>9. CrashNeedsNextFile'
  <2>1. CASE crashed' = crashed
    BY <2>1 DEF CrashNeedsNextFile
  <2>2. CASE crashed' # crashed
    <3>1. mem = "freed" \/ ~handle
      BY <2>2 DEF CallStep, ExecStep, CloseStep, ExecLock, RunLoad, ExecRun, Callback, ExecUnlock, CloseFlag,
         CloseLock, CloseTeardown, CloseUnlock, CloseFree, CloseNull, UseAfterFree, sessionVars
    <3>2. mem = "freed" /\ testerAt # "poll"
      BY <3>1 DEF FreedByTester
    <3>3. Wanted > 0 => filesDone >= 2
      BY <1>0, <1>2, <3>2 DEF InFirstCall, ExecPCs, Running
    <3> QED
      BY <1>0, <3>2, <3>3 DEF CrashNeedsNextFile
  <2> QED
    BY <2>1, <2>2
<1> QED
  BY <1>3, <1>8, <1>9

\* test_thread inside awt_close: it gets the lock only when main's first run, if that is
\* the one in progress, has given it back.
LEMMA CloseNextFile ==
  ASSUME MainInv, NextFileInv, SessionInv, CallStep(Tester), UNCHANGED clientVars
  PROVE  NextFileInv'
<1> USE DEF NextFileInv, clientVars
<1>0. /\ filesDone \in Nat
      /\ pc \in [Threads -> SessionPCs]
      /\ testerAt = "closing" /\ pc[Tester] \in ClosePCs
  <2>1. pc[Tester] # "idle"
    BY DEF CallStep, ExecStep, CloseStep, ExecLock, RunLoad, ExecRun, Callback, ExecUnlock,
       CloseFlag, CloseLock, CloseTeardown, CloseUnlock, CloseFree, CloseNull, UseAfterFree
  <2> QED
    BY <2>1 DEF MainInv, MainTypeOK, TesterCloses
<1>1. \/ /\ \E label \in ClosePCs \ {"null"} : pc' = [pc EXCEPT ![Tester] = label]
         /\ UNCHANGED <<handle, mem>>
      \/ pc' = [pc EXCEPT ![Tester] = "null"] /\ mem' = "freed"
      \/ pc' = [pc EXCEPT ![Tester] = "idle"] /\ ~handle' /\ mem' = "freed"
      \/ UNCHANGED <<pc, handle, mem>>
  BY <1>0, ClosePart DEF MainInv, TesterCloses
<1>2. pc'[Main] = pc[Main]
  BY <1>0, <1>1
<1>3. reports' = reports /\ reports \in Nat
  BY <1>0, ReportsGrow DEF ClosePCs
<1>4. FreedByTester'
  <2>1. pc[Tester] = "null" => pc'[Tester] = "idle"
    BY <1>0 DEF CallStep, ExecStep, CloseStep, ExecLock, RunLoad, ExecRun, Callback, ExecUnlock, CloseFlag,
       CloseLock, CloseTeardown, CloseUnlock, CloseFree, CloseNull, UseAfterFree, Returns, Goto
  <2> QED
    BY <1>0, <1>1, <2>1 DEF FreedByTester, ClosePCs
<1>5. pc[Main] \in Running /\ pc[Tester] \notin Closing
        => UNCHANGED mem /\ pc'[Tester] \notin Closing
  <2>1. SUFFICES ASSUME pc[Main] \in Running, pc[Tester] \notin Closing
                 PROVE  UNCHANGED mem /\ pc'[Tester] \notin Closing
    OBVIOUS
  <2>2. ~LockFree
    BY <2>1, SessionConstants DEF SessionConstants, SessionInv, OwnerKnown, Owning, Running,
       LockFree
  <2>3. CloseFlag(Tester) \/ UseAfterFree(Tester)
    BY <1>0, <2>1, <2>2 DEF CallStep, ExecStep, CloseStep, ExecLock, RunLoad, ExecRun, Callback, ExecUnlock,
       CloseLock, CloseTeardown, CloseUnlock, CloseFree, CloseNull, ClosePCs, Closing
  <2> QED
    BY <1>0, <2>1, <2>3 DEF CloseFlag, UseAfterFree, Goto, Closing
<1>6. InFirstCall'
  BY <1>0, <1>2, <1>3, <1>5 DEF InFirstCall
<1>7. UNCHANGED crashed
  <2>1. mem = "freed" => pc[Tester] = "null"
    BY <1>0 DEF FreedByTester, ClosePCs
  <2> QED
    BY <1>0, <2>1 DEF CallStep, ExecStep, CloseStep, ExecLock, RunLoad, ExecRun, Callback, ExecUnlock,
       CloseFlag, CloseLock, CloseTeardown, CloseUnlock, CloseFree, CloseNull, UseAfterFree, ClosePCs
<1>8. CrashNeedsNextFile'
  BY <1>7 DEF CrashNeedsNextFile
<1> QED
  BY <1>4, <1>6, <1>8

\* The call that finds the watermarks is never broken by the close it brings about:
\* for any number of files, a crash needs a call that main starts afterwards.
THEOREM OnlyNextFileCrashes == MainSpec => []CrashNeedsNextFile
<1>1. MainInit => NextFileInv
  BY DEF MainInit, SessionInit, RunInit, NextFileInv, FreedByTester, InFirstCall,
     CrashNeedsNextFile, Running
<1>2. MainInv /\ SessionInv /\ NextFileInv /\ [MainNext]_mainVars => NextFileInv'
  BY OutsideNextFile, CallsNextFile, ExecNextFile, CloseNextFile
     DEF MainNext, MainThread, TesterThread, MainDone
<1>3. NextFileInv => CrashNeedsNextFile
  BY DEF NextFileInv
<1> QED
  BY <1>1, <1>2, <1>3, MainInvariant, MainImplementsSession, SessionInvariant, PTL DEF MainSpec
=============================================================================
