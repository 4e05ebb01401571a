-------------------------- MODULE AwtSessionProofs --------------------------
(***************************************************************************)
(* Proofs about AwtSession for any number of threads, calls and files: the *)
(* lock of the context serialises what it is meant to serialise, and the   *)
(* undefined behaviours of awt_close have a single cause.                  *)
(*                                                                         *)
(* The inductive invariant SessionInv adds to RunInv who owns the lock,    *)
(* and, as long as no call has overlapped with the end of a close, that    *)
(* the closing thread is alone and what it has released so far.            *)
(***************************************************************************)
EXTENDS AwtSession, AwtRunProofs

\* The owner recorded in the lock is the thread between lock and unlock.
OwnerKnown == \A t \in Threads : pc[t] \in Owning <=> holder = t

\* Only the owner's run is in progress.
RunOwned == rpc # "idle" => \E t \in Threads : pc[t] \in Running

\* A closer past its lock is alone.
CloserAlone ==
    ~overlapped => \A t, u \in Threads : ClosingBy(t) /\ u # t => pc[u] = "idle"

\* The context is freed by a closer that is about to clear the handle, or has.
FreedIsClosed ==
    /\ \A t \in Threads : pc[t] = "null" => mem = "freed"
    /\ ~overlapped /\ mem = "freed" =>
         /\ \A t \in Threads : pc[t] \in {"idle", "null"}
         /\ handle => \E t \in Threads : pc[t] = "null"
    /\ ~overlapped /\ ~handle => mem = "freed" /\ \A t \in Threads : pc[t] = "idle"

\* A closer past its teardown leaves nothing behind.
ClosedIsReleased ==
    ~overlapped /\ (mem = "freed" \/ \E t \in Threads : pc[t] \in {"unlock", "free", "null"})
      => fg = NoFormat /\ ~license /\ decoder = {} /\ buffer = {}

SessionInv ==
    /\ RunInv /\ SessionTypeOK
    /\ OwnerKnown /\ RunOwned /\ CloserAlone /\ FreedIsClosed
    /\ ClosedIsReleased /\ CrashNeedsOverlap

\* RunInv and the release of the context depend on the run's variables alone.
LEMMA RunInvFrame ==
  ASSUME RunInv, UNCHANGED runVars
  PROVE  RunInv'
BY RunNextInv

-----------------------------------------------------------------------------
\* A handle fresh from awt_open, with every thread outside the library,
\* satisfies the invariant.
LEMMA SessionInitInv == SessionInit => SessionInv
<1> SUFFICES ASSUME SessionInit PROVE SessionInv
  OBVIOUS
<1> USE SessionConstants DEF SessionConstants, SessionInit
<1>1. RunInv
  BY RunInitInv
<1>2. SessionTypeOK
  BY DEF SessionTypeOK, SessionPCs, ResultCodes
<1>3. OwnerKnown /\ CloserAlone /\ FreedIsClosed
  BY DEF OwnerKnown, CloserAlone, FreedIsClosed, Owning, Closing, ClosingBy
<1>4. RunOwned /\ ClosedIsReleased /\ CrashNeedsOverlap
  BY DEF RunOwned, ClosedIsReleased, CrashNeedsOverlap, RunInit
<1> QED
  BY <1>1, <1>2, <1>3, <1>4 DEF SessionInv


-----------------------------------------------------------------------------
\* What each step of a thread does to the invariant.

\* A call of awt_exec loads the handle, or is told that it is closed.
LEMMA ExecCallInv ==
  ASSUME SessionInv, NEW t \in Threads, ExecCall(t)
  PROVE  SessionInv'
<1> USE SessionConstants DEF SessionConstants, SessionInv, ExecCall, Goto,
     Returns, Stopped, LoadHandle
<1>1. RunInv'
  BY RunInvFrame
<1>2. SessionTypeOK'
  BY DEF SessionTypeOK, SessionPCs, ExecPCs, ResultCodes, AWT_CODE_OPEN_ERROR,
     AWT_CODE_SUCCESS
<1>3. OwnerKnown'
  BY DEF OwnerKnown, Owning, SessionTypeOK
<1>4. RunOwned'
  BY DEF RunOwned, Running, SessionTypeOK, runVars, locals
<1>5. CloserAlone'
  BY DEF CloserAlone, Closing, ClosingBy, SessionTypeOK
<1>6. FreedIsClosed'
  BY DEF FreedIsClosed, SessionTypeOK, CloserAlone, Closing, ClosingBy
<1>7. ClosedIsReleased'
  BY DEF ClosedIsReleased, SessionTypeOK, runVars, context
<1>8. CrashNeedsOverlap'
  BY DEF CrashNeedsOverlap, SessionTypeOK
<1> QED
  BY <1>1, <1>2, <1>3, <1>4, <1>5, <1>6, <1>7, <1>8

\* awt_exec is granted the lock.
LEMMA ExecLockInv ==
  ASSUME SessionInv, NEW t \in Threads, ExecLock(t)
  PROVE  SessionInv'
<1> USE SessionConstants DEF SessionConstants, SessionInv, ExecLock, Goto,
     Touches, LockFree, Stopped
<1>1. RunInv'
  BY RunInvFrame
<1>2. SessionTypeOK'
  BY DEF SessionTypeOK, SessionPCs, ExecPCs
<1>3. OwnerKnown'
  BY DEF OwnerKnown, Owning, SessionTypeOK
<1>4. RunOwned'
  BY DEF RunOwned, Running, SessionTypeOK, runVars, locals
<1>5. CloserAlone'
  BY DEF CloserAlone, Closing, ClosingBy, SessionTypeOK
<1>6. FreedIsClosed'
  BY DEF FreedIsClosed, SessionTypeOK
<1>7. ClosedIsReleased'
  BY DEF ClosedIsReleased, SessionTypeOK, runVars, context, CloserAlone,
     Closing, ClosingBy, FreedIsClosed
<1>8. CrashNeedsOverlap'
  BY DEF CrashNeedsOverlap, SessionTypeOK
<1> QED
  BY <1>1, <1>2, <1>3, <1>4, <1>5, <1>6, <1>7, <1>8

\* awt_run loads the handle again and begins.
LEMMA RunLoadInv ==
  ASSUME SessionInv, NEW t \in Threads, RunLoad(t)
  PROVE  SessionInv'
<1> USE SessionConstants DEF SessionConstants, SessionInv, RunLoad, Goto,
     Touches, Stopped
<1>1. RunInv'
  BY RunStartInv, RunInvFrame
<1>2. SessionTypeOK'
  BY DEF SessionTypeOK, SessionPCs, ExecPCs
<1>3. OwnerKnown'
  BY DEF OwnerKnown, Owning, SessionTypeOK
<1>4. RunOwned'
  BY DEF RunOwned, Running, SessionTypeOK, runVars, locals
<1>5. CloserAlone'
  BY DEF CloserAlone, Closing, ClosingBy, SessionTypeOK
<1>6. FreedIsClosed'
  BY DEF FreedIsClosed, SessionTypeOK
<1>7. ClosedIsReleased'
  BY DEF ClosedIsReleased, SessionTypeOK, runVars, context, CloserAlone,
     Closing, ClosingBy, FreedIsClosed, RunStart
<1>8. CrashNeedsOverlap'
  BY DEF CrashNeedsOverlap, SessionTypeOK, FreedIsClosed
<1> QED
  BY <1>1, <1>2, <1>3, <1>4, <1>5, <1>6, <1>7, <1>8

\* A statement of awt_run.
LEMMA ExecRunInv ==
  ASSUME SessionInv, NEW t \in Threads, ExecRun(t)
  PROVE  SessionInv'
<1> USE SessionConstants DEF SessionConstants, SessionInv, ExecRun, Touches,
     Stopped
<1>1. RunInv'
  BY RunStepInv
<1>2. SessionTypeOK'
  BY DEF SessionTypeOK, SessionPCs, sessionVars
<1>3. OwnerKnown'
  BY DEF OwnerKnown, Owning, SessionTypeOK, sessionVars
<1>4. RunOwned'
  BY DEF RunOwned, Running, sessionVars
<1>5. CloserAlone'
  BY DEF CloserAlone, Closing, ClosingBy, SessionTypeOK, sessionVars
<1>6. FreedIsClosed'
  BY DEF FreedIsClosed, SessionTypeOK, sessionVars
<1>7. ClosedIsReleased'
  BY DEF ClosedIsReleased, SessionTypeOK, runVars, context, sessionVars,
     CloserAlone, Closing, ClosingBy, FreedIsClosed
<1>8. CrashNeedsOverlap'
  BY DEF CrashNeedsOverlap, SessionTypeOK, sessionVars
<1> QED
  BY <1>1, <1>2, <1>3, <1>4, <1>5, <1>6, <1>7, <1>8

\* The callback calls the handle it was called for, and never returns.
LEMMA CallbackInv ==
  ASSUME SessionInv, NEW t \in Threads, Callback(t)
  PROVE  SessionInv'
<1> USE SessionConstants DEF SessionConstants, SessionInv, Callback, Goto,
     Touches, Stopped
<1>1. RunInv'
  BY CallbackRunInv DEF RunInv, RunTypeOK, TypeOfFlags
<1>2. SessionTypeOK'
  BY DEF SessionTypeOK, SessionPCs, ExecPCs
<1>3. OwnerKnown'
  BY DEF OwnerKnown, Owning, SessionTypeOK
<1>4. RunOwned'
  BY DEF RunOwned, Running, SessionTypeOK, locals
<1>5. CloserAlone'
  BY DEF CloserAlone, Closing, ClosingBy, SessionTypeOK
<1>6. FreedIsClosed'
  BY DEF FreedIsClosed, SessionTypeOK
<1>7. ClosedIsReleased'
  BY DEF ClosedIsReleased, SessionTypeOK, CloserAlone, Closing, ClosingBy,
     FreedIsClosed
<1>8. CrashNeedsOverlap'
  BY DEF CrashNeedsOverlap, SessionTypeOK
<1> QED
  BY <1>1, <1>2, <1>3, <1>4, <1>5, <1>6, <1>7, <1>8

\* awt_exec gives the lock back.
LEMMA ExecUnlockInv ==
  ASSUME SessionInv, NEW t \in Threads, ExecUnlock(t)
  PROVE  SessionInv'
<1> USE SessionConstants DEF SessionConstants, SessionInv, ExecUnlock,
     Returns, Touches, Goto, Stopped
<1>1. RunInv'
  BY RunInvFrame
<1>2. SessionTypeOK'
  BY DEF SessionTypeOK, SessionPCs, RunInv, RunTypeOK, TypeOfResult
<1>3. OwnerKnown'
  BY DEF OwnerKnown, Owning, SessionTypeOK
<1>4. RunOwned'
  BY DEF RunOwned, Running, SessionTypeOK, runVars, locals
<1>5. CloserAlone'
  BY DEF CloserAlone, Closing, ClosingBy, SessionTypeOK
<1>6. FreedIsClosed'
  BY DEF FreedIsClosed, SessionTypeOK
<1>7. ClosedIsReleased'
  BY DEF ClosedIsReleased, SessionTypeOK, runVars, context, CloserAlone,
     Closing, ClosingBy, FreedIsClosed
<1>8. CrashNeedsOverlap'
  BY DEF CrashNeedsOverlap, SessionTypeOK
<1> QED
  BY <1>1, <1>2, <1>3, <1>4, <1>5, <1>6, <1>7, <1>8

\* A call of awt_close loads the handle.
LEMMA CloseCallInv ==
  ASSUME SessionInv, NEW t \in Threads, CloseCall(t)
  PROVE  SessionInv'
<1> USE SessionConstants DEF SessionConstants, SessionInv, CloseCall, Goto,
     Stopped, LoadHandle
<1>1. RunInv'
  BY RunInvFrame
<1>2. SessionTypeOK'
  BY DEF SessionTypeOK, SessionPCs, ClosePCs
<1>3. OwnerKnown'
  BY DEF OwnerKnown, Owning, SessionTypeOK
<1>4. RunOwned'
  BY DEF RunOwned, Running, SessionTypeOK, runVars, locals
<1>5. CloserAlone'
  BY DEF CloserAlone, Closing, ClosingBy, SessionTypeOK
<1>6. FreedIsClosed'
  BY DEF FreedIsClosed, SessionTypeOK, CloserAlone, Closing, ClosingBy
<1>7. ClosedIsReleased'
  BY DEF ClosedIsReleased, SessionTypeOK, runVars, context
<1>8. CrashNeedsOverlap'
  BY DEF CrashNeedsOverlap, SessionTypeOK
<1> QED
  BY <1>1, <1>2, <1>3, <1>4, <1>5, <1>6, <1>7, <1>8

\* awt_close clears running.
LEMMA CloseFlagInv ==
  ASSUME SessionInv, NEW t \in Threads, CloseFlag(t)
  PROVE  SessionInv'
<1> USE SessionConstants DEF SessionConstants, SessionInv, CloseFlag, Goto,
     Touches, Stopped
<1>1. RunInv'
  BY RequestStopInv
<1>2. SessionTypeOK'
  BY DEF SessionTypeOK, SessionPCs, ClosePCs
<1>3. OwnerKnown'
  BY DEF OwnerKnown, Owning, SessionTypeOK
<1>4. RunOwned'
  BY DEF RunOwned, Running, SessionTypeOK, RequestStop, locals
<1>5. CloserAlone'
  BY DEF CloserAlone, Closing, ClosingBy, SessionTypeOK
<1>6. FreedIsClosed'
  BY DEF FreedIsClosed, SessionTypeOK
<1>7. ClosedIsReleased'
  BY DEF ClosedIsReleased, SessionTypeOK, RequestStop
<1>8. CrashNeedsOverlap'
  BY DEF CrashNeedsOverlap, SessionTypeOK
<1> QED
  BY <1>1, <1>2, <1>3, <1>4, <1>5, <1>6, <1>7, <1>8

\* awt_close is granted the lock: no run is in progress.
LEMMA CloseLockInv ==
  ASSUME SessionInv, NEW t \in Threads, CloseLock(t)
  PROVE  SessionInv'
<1> USE SessionConstants DEF SessionConstants, SessionInv, CloseLock, Goto,
     Touches, LockFree, Stopped
<1>1. RunInv'
  BY RunInvFrame
<1>2. SessionTypeOK'
  BY DEF SessionTypeOK, SessionPCs, ClosePCs
<1>3. OwnerKnown'
  BY DEF OwnerKnown, Owning, SessionTypeOK
<1>4. RunOwned'
  BY DEF RunOwned, Running, SessionTypeOK, runVars, locals
<1>5. CloserAlone'
  BY DEF CloserAlone, Closing, ClosingBy, SessionTypeOK, Waiting, OwnerKnown,
     Owning, SessionPCs, ExecPCs, ClosePCs
<1>6. FreedIsClosed'
  BY DEF FreedIsClosed, SessionTypeOK, CloserAlone, Closing, ClosingBy
<1>7. ClosedIsReleased'
  BY DEF ClosedIsReleased, SessionTypeOK, runVars, context, FreedIsClosed
<1>8. CrashNeedsOverlap'
  BY DEF CrashNeedsOverlap, SessionTypeOK
<1> QED
  BY <1>1, <1>2, <1>3, <1>4, <1>5, <1>6, <1>7, <1>8

\* awt_close empties the context.
LEMMA CloseTeardownInv ==
  ASSUME SessionInv, NEW t \in Threads, CloseTeardown(t)
  PROVE  SessionInv'
<1> USE SessionConstants DEF SessionConstants, SessionInv, CloseTeardown,
     Goto, Touches, Stopped
<1>0. rpc = "idle"
  BY DEF RunOwned, Running, OwnerKnown, Owning
<1>1. RunInv'
  BY <1>0, TeardownInv
<1>2. SessionTypeOK'
  BY DEF SessionTypeOK, SessionPCs, ClosePCs
<1>3. OwnerKnown'
  BY DEF OwnerKnown, Owning, SessionTypeOK
<1>4. RunOwned'
  BY <1>0 DEF RunOwned, Running, SessionTypeOK, Teardown, locals
<1>5. CloserAlone'
  BY DEF CloserAlone, Closing, ClosingBy, SessionTypeOK
<1>6. FreedIsClosed'
  BY DEF FreedIsClosed, SessionTypeOK, CloserAlone, Closing, ClosingBy
<1>7. ClosedIsReleased'
  <2>1. decoder \ (0 .. nb_decoder - 1) = {} /\ buffer \ (0 .. nb_decoder - 1) = {}
    BY DEF RunInv, RunTypeOK, TypeOfDecoders, AWT_MAX_DECODER, DecodersInOrder
  <2> QED
    BY <2>1 DEF ClosedIsReleased, Teardown, FreeGraph
<1>8. CrashNeedsOverlap'
  BY DEF CrashNeedsOverlap, SessionTypeOK
<1> QED
  BY <1>1, <1>2, <1>3, <1>4, <1>5, <1>6, <1>7, <1>8

\* awt_close gives the lock back.
LEMMA CloseUnlockInv ==
  ASSUME SessionInv, NEW t \in Threads, CloseUnlock(t)
  PROVE  SessionInv'
<1> USE SessionConstants DEF SessionConstants, SessionInv, CloseUnlock, Goto,
     Touches, Stopped
<1>1. RunInv'
  BY RunInvFrame
<1>2. SessionTypeOK'
  BY DEF SessionTypeOK, SessionPCs, ClosePCs
<1>3. OwnerKnown'
  BY DEF OwnerKnown, Owning, SessionTypeOK
<1>4. RunOwned'
  BY DEF RunOwned, Running, SessionTypeOK, runVars, locals
<1>5. CloserAlone'
  BY DEF CloserAlone, Closing, ClosingBy, SessionTypeOK
<1>6. FreedIsClosed'
  BY DEF FreedIsClosed, SessionTypeOK, CloserAlone, Closing, ClosingBy
<1>7. ClosedIsReleased'
  BY DEF ClosedIsReleased, SessionTypeOK, runVars, context
<1>8. CrashNeedsOverlap'
  BY DEF CrashNeedsOverlap, SessionTypeOK
<1> QED
  BY <1>1, <1>2, <1>3, <1>4, <1>5, <1>6, <1>7, <1>8

\* awt_close frees the context.
LEMMA CloseFreeInv ==
  ASSUME SessionInv, NEW t \in Threads, CloseFree(t)
  PROVE  SessionInv'
<1> USE SessionConstants DEF SessionConstants, SessionInv, CloseFree, Goto,
     Touches, Stopped
<1>1. RunInv'
  BY RunInvFrame
<1>2. SessionTypeOK'
  BY DEF SessionTypeOK, SessionPCs, ClosePCs
<1>3. OwnerKnown'
  BY DEF OwnerKnown, Owning, SessionTypeOK
<1>4. RunOwned'
  BY DEF RunOwned, Running, SessionTypeOK, runVars, locals
<1>5. CloserAlone'
  BY DEF CloserAlone, Closing, ClosingBy, SessionTypeOK
<1>6. FreedIsClosed'
  BY DEF FreedIsClosed, SessionTypeOK, CloserAlone, Closing, ClosingBy
<1>7. ClosedIsReleased'
  BY DEF ClosedIsReleased, SessionTypeOK, runVars, context
<1>8. CrashNeedsOverlap'
  BY DEF CrashNeedsOverlap, SessionTypeOK
<1> QED
  BY <1>1, <1>2, <1>3, <1>4, <1>5, <1>6, <1>7, <1>8

\* awt_close clears the handle.
LEMMA CloseNullInv ==
  ASSUME SessionInv, NEW t \in Threads, CloseNull(t)
  PROVE  SessionInv'
<1> USE SessionConstants DEF SessionConstants, SessionInv, CloseNull, Returns,
     Stopped, ClearHandle, Goto
<1>1. RunInv'
  BY RunInvFrame
<1>2. SessionTypeOK'
  BY DEF SessionTypeOK, SessionPCs, ClosePCs, ResultCodes,
     AWT_CODE_OPEN_ERROR, AWT_CODE_SUCCESS
<1>3. OwnerKnown'
  BY DEF OwnerKnown, Owning, SessionTypeOK
<1>4. RunOwned'
  BY DEF RunOwned, Running, SessionTypeOK, runVars, locals
<1>5. CloserAlone'
  BY DEF CloserAlone, Closing, ClosingBy, SessionTypeOK
<1>6. FreedIsClosed'
  BY DEF FreedIsClosed, SessionTypeOK, CloserAlone, Closing, ClosingBy
<1>7. ClosedIsReleased'
  BY DEF ClosedIsReleased, SessionTypeOK, runVars, context
<1>8. CrashNeedsOverlap'
  BY DEF CrashNeedsOverlap, SessionTypeOK
<1> QED
  BY <1>1, <1>2, <1>3, <1>4, <1>5, <1>6, <1>7, <1>8

\* A thread touches the freed context: by FreedIsClosed only after an overlap.
LEMMA UseAfterFreeInv ==
  ASSUME SessionInv, NEW t \in Threads, UseAfterFree(t)
  PROVE  SessionInv'
<1> USE SessionConstants DEF SessionConstants, SessionInv, UseAfterFree,
     Stopped
<1>1. RunInv'
  BY RunInvFrame
<1>2. SessionTypeOK'
  BY DEF SessionTypeOK, SessionPCs, ExecPCs
<1>3. OwnerKnown'
  BY DEF OwnerKnown, Owning, SessionTypeOK
<1>4. RunOwned'
  BY DEF RunOwned, Running, SessionTypeOK, runVars, locals
<1>5. CloserAlone'
  BY DEF CloserAlone, Closing, ClosingBy, SessionTypeOK
<1>6. FreedIsClosed'
  BY DEF FreedIsClosed, SessionTypeOK
<1>7. ClosedIsReleased'
  BY DEF ClosedIsReleased, SessionTypeOK, runVars, context
<1>8. CrashNeedsOverlap'
  BY DEF CrashNeedsOverlap, SessionTypeOK, FreedIsClosed
<1> QED
  BY <1>1, <1>2, <1>3, <1>4, <1>5, <1>6, <1>7, <1>8

-----------------------------------------------------------------------------
\* Every step of every thread in awt_exec and awt_close preserves the invariant.
LEMMA SessionNextInv == SessionInv /\ [SessionNext]_vars => SessionInv'
<1> SUFFICES ASSUME SessionInv, [SessionNext]_vars PROVE SessionInv'
  OBVIOUS
<1>1. ASSUME NEW t \in Threads, ExecCall(t) \/ CloseCall(t) \/ CallStep(t)
      PROVE  SessionInv'
  BY <1>1, ExecCallInv, ExecLockInv, RunLoadInv, ExecRunInv, CallbackInv,
     ExecUnlockInv,
     CloseCallInv, CloseFlagInv, CloseLockInv, CloseTeardownInv, CloseUnlockInv,
     CloseFreeInv, CloseNullInv, UseAfterFreeInv
     DEF CallStep, ExecStep, CloseStep
<1>2. CASE UNCHANGED vars
  <2>1. RunInv'
    BY <1>2, RunInvFrame DEF SessionInv, vars
  <2>2. (OwnerKnown /\ RunOwned /\ CloserAlone)'
    BY <1>2 DEF SessionInv, vars, runVars, locals, sessionVars, OwnerKnown,
       RunOwned, CloserAlone, ClosingBy
  <2>3. (FreedIsClosed /\ ClosedIsReleased)'
    BY <1>2 DEF SessionInv, vars, runVars, context, sessionVars, FreedIsClosed,
       ClosedIsReleased
  <2>4. (SessionTypeOK /\ CrashNeedsOverlap)'
    BY <1>2 DEF SessionInv, vars, sessionVars, SessionTypeOK, CrashNeedsOverlap
  <2> QED
    BY <2>1, <2>2, <2>3, <2>4 DEF SessionInv
<1> QED
  BY <1>1, <1>2 DEF SessionNext, SessionDone

\* SessionInv holds in every state, for any threads and any calls.
THEOREM SessionInvariant == SessionSpec => []SessionInv
<1> QED
  BY SessionInitInv, SessionNextInv, PTL DEF SessionSpec

\* Types and return codes of the entry points.
THEOREM SessionTypesHold == SessionSpec => []SessionTypeOK
<1>1. SessionInv => SessionTypeOK
  BY DEF SessionInv
<1> QED
  BY <1>1, SessionInvariant, PTL

\* Mutual exclusion: awt->lock admits one thread to the context at a time.
THEOREM LockProtectsHolds == SessionSpec => []LockProtects
<1>1. SessionInv => LockProtects
  BY DEF SessionInv, OwnerKnown, RunOwned, Owning, Running, LockProtects
<1> QED
  BY <1>1, SessionInvariant, PTL

\* Use after free, double free and a null handle inside awt_run all need a call
\* that overlaps with the end of an awt_close.
THEOREM CrashHasOneCause == SessionSpec => []CrashNeedsOverlap
<1>1. SessionInv => CrashNeedsOverlap
  BY DEF SessionInv
<1> QED
  BY <1>1, SessionInvariant, PTL

\* A close that met no other call has released all the context held.
THEOREM CloseReleases == SessionSpec => []FreedMeansReleased
<1>1. SessionInv => FreedMeansReleased
  BY DEF SessionInv, ClosedIsReleased, FreedMeansReleased
<1> QED
  BY <1>1, SessionInvariant, PTL

\* After such a close nobody is inside the library.
THEOREM CloseQuiets == SessionSpec => []ClosedIsQuiet
<1>1. SessionInv => ClosedIsQuiet
  BY DEF SessionInv, FreedIsClosed, ClosedIsQuiet
<1> QED
  BY <1>1, SessionInvariant, PTL

-----------------------------------------------------------------------------
\* A statement of awt_run only adds to what the context holds.
LEMMA RunStepKeepsObjects ==
  ASSUME RunStep
  PROVE  /\ decoder \subseteq decoder' /\ buffer \subseteq buffer'
         /\ license => license'
         /\ fg # NoFormat => fg' = fg
<1> USE DEF context
<1>1. CASE OpenInput \/ RunEnd
  BY <1>1 DEF OpenInput, RunEnd
<1>2. CASE InitFilters \/ SetupSkipped
  BY <1>2 DEF InitFilters, GraphFor, SetupSkipped
<1>3. CASE \/ LicenseUnreachable \/ LicenseSilent
           \/ \E reply \in LicenseReplies : LicenseReply(reply)
  BY <1>3 DEF LicenseUnreachable, LicenseSilent, LicenseReply
<1>4. CASE InitDecoder
  BY <1>4 DEF InitDecoder, DecoderReady
<1>5. CASE \/ LoopHead \/ ReadFails \/ ReadOther \/ ReadUntimed \/ Decode
           \/ \E position \in Positions : ReadTimed(position)
  BY <1>5 DEF LoopHead, ReadFails, ReadOther, ReadUntimed, Decode, ReadTimed
<1>6. CASE FeedRejected \/ FeedNoOutput \/ FilterFrame
  BY <1>6 DEF FeedRejected, FeedNoOutput, FilterFrame
<1> QED
  BY <1>1, <1>2, <1>3, <1>4, <1>5, <1>6 DEF RunStep

\* No awt_close takes an object away from a run in progress.
THEOREM RunKeepsItsObjects == SessionSpec => NothingFreedUnderRun
<1> DEFINE Kept == /\ decoder \subseteq decoder' /\ buffer \subseteq buffer'
                   /\ license => license'
                   /\ fg # NoFormat => fg' = fg
<1>1. ASSUME SessionInv, [SessionNext]_vars, rpc # "idle"
      PROVE  Kept
  <2> USE <1>1
  <2>1. ASSUME NEW t \in Threads, CloseTeardown(t)
        PROVE  FALSE
    BY <2>1 DEF SessionInv, RunOwned, Running, OwnerKnown, Owning, CloseTeardown
  <2>2. ASSUME NEW t \in Threads, ExecRun(t)
        PROVE  Kept
    BY <2>2, RunStepKeepsObjects DEF ExecRun
  <2>3. ASSUME NEW t \in Threads, RunLoad(t) \/ CloseFlag(t) \/ Callback(t)
        PROVE  Kept
    BY <2>3 DEF Callback, RunLoad, RunStart, CloseFlag, RequestStop, runVars, context
  <2>4. ASSUME NEW t \in Threads,
               \/ ExecCall(t) \/ ExecLock(t) \/ ExecUnlock(t) \/ UseAfterFree(t)
               \/ CloseCall(t) \/ CloseLock(t) \/ CloseUnlock(t) \/ CloseFree(t)
               \/ CloseNull(t)
        PROVE  Kept
    <3>1. UNCHANGED runVars
      BY <2>4 DEF ExecCall, ExecLock, ExecUnlock, UseAfterFree, CloseCall,
         CloseLock, CloseUnlock, CloseFree, CloseNull
    <3> QED
      BY <3>1 DEF runVars, context
  <2>5. CASE UNCHANGED vars
    BY <2>5 DEF vars, runVars, context
  <2> QED
    BY <2>1, <2>2, <2>3, <2>4, <2>5 DEF SessionNext, CallStep, ExecStep, CloseStep, SessionDone
<1>2. SessionInv /\ [SessionNext]_vars => [rpc # "idle" => Kept]_vars
  BY <1>1
<1> QED
  BY <1>2, SessionInvariant, PTL DEF SessionSpec, NothingFreedUnderRun

-----------------------------------------------------------------------------
\* AwtSession implements AwtHandle: RunLoad begins a run, ExecUnlock ends it,
\* CloseTeardown closes, an overlap is the client's misuse, and every other step
\* stutters.
THEOREM Refinement == SessionSpec => ImplementsHandle
<1>1. SessionInit => Handle!Init
  BY SessionConstants DEF SessionConstants, SessionInit, Handle!Init, stateBar, userBar
<1>2. ASSUME SessionInv, SessionInv', [SessionNext]_vars
      PROVE  [Handle!Next]_<<stateBar, userBar>>
  <2> USE <1>2, SessionConstants DEF SessionConstants, SessionInv, SessionTypeOK
  <2>1. CASE overlapped' /\ ~overlapped
    BY <2>1 DEF stateBar, userBar, Running, Handle!Next, Handle!Misuse
  <2>2. CASE overlapped' /\ overlapped
    BY <2>2 DEF stateBar, userBar
  <2>3. ASSUME ~overlapped', NEW t \in Threads, RunLoad(t)
        PROVE  Handle!Begin(t) \/ UNCHANGED <<stateBar, userBar>>
    BY <2>3 DEF RunLoad, Goto, OwnerKnown, Owning, CloserAlone, ClosingBy, Closing,
       stateBar, userBar, Running, Handle!Begin
  <2>4. ASSUME ~overlapped', NEW t \in Threads, ExecUnlock(t)
        PROVE  Handle!End(t)
    BY <2>4 DEF ExecUnlock, Returns, Goto, OwnerKnown, Owning, stateBar, userBar, Running,
       Handle!End
  <2>5. ASSUME ~overlapped', NEW t \in Threads, CloseTeardown(t)
        PROVE  Handle!Close
    BY <2>5 DEF CloseTeardown, Goto, OwnerKnown, Owning, CloserAlone, ClosingBy,
       Closing, FreedIsClosed, stateBar, userBar, Running, Handle!Close
  <2>6. ASSUME ~overlapped', NEW t \in Threads,
               \/ ExecCall(t) \/ ExecLock(t) \/ ExecRun(t) \/ Callback(t)
               \/ UseAfterFree(t)
        PROVE  UNCHANGED <<stateBar, userBar>>
    BY <2>6 DEF ExecCall, ExecLock, ExecRun, Callback, Running, UseAfterFree, LoadHandle, LockFree,
       Goto, Returns, OwnerKnown, Owning, stateBar, userBar, sessionVars
  <2>7. ASSUME ~overlapped', NEW t \in Threads,
               CloseCall(t) \/ CloseFlag(t) \/ CloseLock(t)
        PROVE  UNCHANGED <<stateBar, userBar>>
    BY <2>7 DEF CloseCall, CloseFlag, CloseLock, LoadHandle, LockFree, Goto,
       OwnerKnown, Owning, stateBar, userBar, Running
  <2>8. ASSUME ~overlapped', NEW t \in Threads,
               CloseUnlock(t) \/ CloseFree(t) \/ CloseNull(t)
        PROVE  UNCHANGED <<stateBar, userBar>>
    BY <2>8 DEF CloseUnlock, CloseFree, CloseNull, ClearHandle, Goto, Returns,
       OwnerKnown, Owning, stateBar, userBar, Running
  <2>9. CASE UNCHANGED vars
    BY <2>9 DEF vars, sessionVars, stateBar, userBar
  <2> QED
    BY <2>1, <2>2, <2>3, <2>4, <2>5, <2>6, <2>7, <2>8, <2>9
       DEF SessionNext, CallStep, ExecStep, CloseStep, SessionDone, Handle!Next
<1> QED
  BY <1>1, <1>2, SessionInvariant, PTL DEF SessionSpec, ImplementsHandle, Handle!Spec

-----------------------------------------------------------------------------
\* A closer has the lock only while no run is in progress, so that the decoders are
\* all there, but for those that an awt5_decode_stream_init which failed was to make:
\* each is killed, and killed once.
THEOREM NoDecoderKilledTwice == SessionSpec => []KillsOnlyLive
<1>1. SessionInv => KillsOnlyLive
  <2> SUFFICES ASSUME SessionInv, NEW t \in Threads, pc[t] = "teardown"
               PROVE  \E made \in 0 .. nb_decoder :
                         /\ decoder = 0 .. made - 1 /\ buffer = 0 .. made - 1
                         /\ made < nb_decoder => initFailed
    BY DEF KillsOnlyLive
  <2>1. rpc = "idle"
    BY DEF SessionInv, RunOwned, Running, OwnerKnown, Owning
  <2> QED
    BY <2>1 DEF SessionInv, RunInv, DecodersInOrder
<1> QED
  BY <1>1, SessionInvariant, PTL

-----------------------------------------------------------------------------
\* A closer has cleared running by the time it waits for the lock.
FlagCleared == \A t \in Threads : pc[t] \in ClosePCs \ {"close_flag"} => ~running

\* The steps of a thread, by what they do to the run's variables.
LEMMA StepsByContext ==
  ASSUME NEW t \in Threads, ExecCall(t) \/ CloseCall(t) \/ CallStep(t)
  PROVE  \/ ExecRun(t) \/ Callback(t) \/ CloseTeardown(t)
         \/ CloseFlag(t) /\ RequestStop
         \/ RunLoad(t) /\ RunStart
         \/ UNCHANGED runVars
<1>1. CASE ExecCall(t) \/ ExecLock(t) \/ ExecUnlock(t) \/ UseAfterFree(t)
  BY <1>1 DEF ExecCall, ExecLock, ExecUnlock, UseAfterFree
<1>2. CASE CloseCall(t) \/ CloseLock(t) \/ CloseUnlock(t) \/ CloseFree(t) \/ CloseNull(t)
  BY <1>2 DEF CloseCall, CloseLock, CloseUnlock, CloseFree, CloseNull
<1>3. CASE RunLoad(t) \/ CloseFlag(t)
  BY <1>3 DEF RunLoad, CloseFlag
<1> QED
  BY <1>1, <1>2, <1>3 DEF CallStep, ExecStep, CloseStep

\* No thread sets running again.
LEMMA ClosedStaysClosed ==
  ASSUME ~running, [SessionNext]_vars
  PROVE  ~running'
<1>1. ASSUME NEW t \in Threads, ExecRun(t)
      PROVE  ~running'
  BY <1>1, StopSticks DEF ExecRun
<1>2. ASSUME NEW t \in Threads, Callback(t) \/ CloseTeardown(t)
      PROVE  ~running'
  BY <1>2 DEF Callback, CloseTeardown, Teardown
<1>3. CASE RequestStop \/ RunStart
  BY <1>3, StopSticks
<1>4. CASE UNCHANGED runVars
  BY <1>4 DEF runVars, context
<1>5. CASE UNCHANGED vars
  BY <1>4, <1>5 DEF vars
<1> QED
  BY <1>1, <1>2, <1>3, <1>4, <1>5, StepsByContext DEF SessionNext, SessionDone

\* Only the statement that clears running leads to the wait for the lock.
LEMMA FlagClearedInv ==
  ASSUME SessionInv, FlagCleared, [SessionNext]_vars
  PROVE  FlagCleared'
<1> USE DEF FlagCleared, ClosePCs, SessionInv, SessionTypeOK
<1>1. ASSUME NEW t \in Threads, CloseFlag(t)
      PROVE  FlagCleared'
  BY <1>1 DEF CloseFlag, RequestStop
<1>2. ASSUME NEW t \in Threads, NEW u \in Threads,
             \/ ExecCall(t) \/ CloseCall(t) \/ (CallStep(t) /\ ~CloseFlag(t)),
             pc'[u] \in ClosePCs \ {"close_flag"}
      PROVE  pc[u] \in ClosePCs \ {"close_flag"}
  <2>1. CASE \/ ExecCall(t) \/ ExecLock(t) \/ RunLoad(t) \/ ExecRun(t) \/ Callback(t)
             \/ ExecUnlock(t)
    BY <1>2, <2>1 DEF ExecCall, ExecLock, RunLoad, ExecRun, Callback, ExecUnlock, Goto,
       Returns, sessionVars
  <2>2. CASE \/ CloseCall(t) \/ CloseLock(t) \/ CloseTeardown(t) \/ CloseUnlock(t)
             \/ CloseFree(t) \/ CloseNull(t) \/ UseAfterFree(t)
    BY <1>2, <2>2 DEF CloseCall, CloseLock, CloseTeardown, CloseUnlock, CloseFree,
       CloseNull, UseAfterFree, Goto, Returns
  <2> QED
    BY <1>2, <2>1, <2>2 DEF CallStep, ExecStep, CloseStep
<1>3. ASSUME NEW t \in Threads,
             \/ ExecCall(t) \/ CloseCall(t) \/ (CallStep(t) /\ ~CloseFlag(t))
      PROVE  FlagCleared'
  BY <1>2, <1>3, ClosedStaysClosed DEF SessionNext
<1>4. CASE UNCHANGED vars
  BY <1>4, ClosedStaysClosed DEF vars, sessionVars
<1> QED
  BY <1>1, <1>3, <1>4 DEF SessionNext, SessionDone, CallStep, ExecStep, CloseStep

\* Whoever waits in awt_close waits for at most six statements of each run before it.
THEOREM CloseWaitsBounded == SessionSpec => CloseStopsRuns
<1> DEFINE Nearer == /\ ~running'
                     /\ rpc # "idle" => \/ UNCHANGED runVars
                                        \/ Held'
                                        \/ StatementsLeft' \in 0 .. StatementsLeft - 1
<1>1. ASSUME SessionInv, SessionInv', FlagCleared, [SessionNext]_vars,
             NEW t \in Threads, pc[t] = "close_lock"
      PROVE  Nearer
  <2>1. running = FALSE
    BY <1>1 DEF FlagCleared, ClosePCs, SessionInv, RunInv, RunTypeOK, TypeOfFlags
  <2>2. ~running'
    BY <1>1, <2>1, ClosedStaysClosed
  <2>3. ASSUME NEW u \in Threads, ExecRun(u)
        PROVE  StatementsLeft' \in 0 .. StatementsLeft - 1
    BY <1>1, <2>1, <2>3, StatementsRunOut DEF ExecRun, SessionInv
  <2>4. ASSUME NEW u \in Threads, Callback(u)
        PROVE  Held'
    BY <1>1, <2>4 DEF Callback, Goto, Held, SessionInv, SessionTypeOK
  <2>5. ASSUME NEW u \in Threads, CloseTeardown(u)
        PROVE  rpc = "idle"
    BY <1>1, <2>5 DEF SessionInv, RunOwned, Running, OwnerKnown, Owning, CloseTeardown
  <2>6. RequestStop => UNCHANGED runVars
    BY <2>1 DEF RequestStop, runVars, context
  <2>7. RunStart => rpc = "idle"
    BY DEF RunStart
  <2>8. CASE UNCHANGED vars
    BY <2>2, <2>8 DEF vars
  <2> QED
    BY <1>1, <2>2, <2>3, <2>4, <2>5, <2>6, <2>7, <2>8, StepsByContext
       DEF SessionNext, SessionDone
<1>2. SessionInv /\ SessionInv' /\ FlagCleared /\ [SessionNext]_vars
        => [(\E t \in Threads : pc[t] = "close_lock") => Nearer]_vars
  BY <1>1
<1>3. SessionInit => FlagCleared
  BY DEF SessionInit, FlagCleared, ClosePCs
<1>4. SessionInv /\ FlagCleared /\ [SessionNext]_vars => FlagCleared'
  BY FlagClearedInv
<1> QED
  BY <1>2, <1>3, <1>4, SessionInvariant, PTL DEF SessionSpec, CloseStopsRuns

-----------------------------------------------------------------------------
\* What AwtRun promises of successive calls holds whichever threads make them: the
\* lock makes the calls of several threads one sequence.
THEOREM CallsOfThreadsInSequence ==
    SessionSpec => []LimitNeverExceeded /\ []FaultNeedsFailedSetup /\ []SpinNeedsRefusedLicense
<1>1. SessionInv => /\ LimitNeverExceeded
                    /\ FaultNeedsFailedSetup /\ SpinNeedsRefusedLicense
  BY RunConstants DEF RunConstants, SessionInv, RunInv, RunTypeOK, TypeOfCounters,
     DurationsBounded, Looping, LimitNeverExceeded
<1> QED
  BY <1>1, SessionInvariant, PTL

\* The rate of a context stays while it has a graph or decoders, across the calls and
\* closes of all threads: a teardown lets it go without leaving either behind.
THEOREM RateFixedForThreads == SessionSpec => RateFixedOnceUsed
<1>1. SessionInit => RatePositive
  BY DEF SessionInit, RunInit, RatePositive
<1>2. ASSUME SessionInv, RatePositive, [SessionNext]_vars
      PROVE  /\ RatePositive'
             /\ fg # NoFormat \/ nb_decoder # 0 => sample_rate' = sample_rate
  <2>1. ASSUME [RunNext]_runVars
        PROVE  /\ RatePositive'
               /\ fg # NoFormat \/ nb_decoder # 0 => sample_rate' = sample_rate
    BY <1>2, <2>1, RatePositiveInv, RateKept DEF SessionInv
  <2>2. ASSUME NEW t \in Threads, Callback(t)
        PROVE  /\ RatePositive' /\ sample_rate' = sample_rate
    <3>1. UNCHANGED <<fg, nb_decoder, sample_rate, rpc>>
      BY <2>2 DEF Callback, context, locals
    <3> QED
      BY <1>2, <3>1 DEF RatePositive
  <2>3. ASSUME NEW t \in Threads, CloseTeardown(t)
        PROVE  /\ RatePositive' /\ sample_rate' = sample_rate
    <3>1. sample_rate' = sample_rate /\ UNCHANGED rpc /\ fg' = NoFormat /\ nb_decoder' = 0
      BY <2>3 DEF CloseTeardown, Teardown, FreeGraph, locals
    <3> QED
      BY <1>2, <3>1 DEF RatePositive
  <2>4. ASSUME NEW t \in Threads, ExecCall(t) \/ CloseCall(t) \/ CallStep(t)
        PROVE  [RunNext]_runVars \/ Callback(t) \/ CloseTeardown(t)
    BY <2>4, StepsByContext DEF RunNext, ExecRun
  <2>5. UNCHANGED vars => UNCHANGED runVars
    BY DEF vars
  <2> QED
    BY <1>2, <2>1, <2>2, <2>3, <2>4, <2>5 DEF SessionNext, SessionDone
<1>3. SessionInv /\ RatePositive /\ [SessionNext]_vars
        => [fg # NoFormat \/ nb_decoder # 0 => sample_rate' = sample_rate]_runVars
  BY <1>2
<1>4. SessionInv /\ RatePositive /\ [SessionNext]_vars => RatePositive'
  BY <1>2
<1> QED
  BY <1>1, <1>3, <1>4, SessionInvariant, PTL DEF SessionSpec, RateFixedOnceUsed
=============================================================================
