------------------------------ MODULE BatchJit ------------------------------
(***************************************************************************)
(* fbc --batch-jit: one process compiles and runs a directory of programs, *)
(* one after the other (zig_compiler/src/main.zig).  A program that fails, *)
(* aborts or takes too long leaves by siglongjmp (basic_runtime.c), and    *)
(* the runtime state it leaves behind, its locks, SAMM with its background *)
(* thread, and its code, must not hurt the next one.                       *)
(*                                                                         *)
(* "main" runs the harness and the programs; "cleaner" is the background   *)
(* thread of SAMM.  The alarm may ring at any step; main takes it.  The    *)
(* programs start no WORKER, and their timers show only as users of        *)
(* g_timer_mutex.                                                          *)
(***************************************************************************)
EXTENDS Integers, FiniteSets

CONSTANTS NumFiles,    \* programs in the directory
          MaxBatches,  \* bound on the queue of batches (SAMM_MAX_QUEUE_DEPTH)
          Habits       \* "printErrors": an item of a PRINT may fail

ASSUME BatchAssumption ==
    NumFiles \in Nat \ {0} /\ MaxBatches \in Nat \ {0} /\ Habits \subseteq {"printErrors"}

Files == 1 .. NumFiles
None  == 0
\* g_print_mutex, the mutex of the string pool, queue_mutex, g_timer_mutex.
Locks == {"print", "pool", "queue", "timer"}

VARIABLES
    pc,       \* where main is
    file,     \* the index of the batch loop
    depth,    \* g_jit_jmp_depth
    alarm,    \* a SIGALRM is pending
    code,     \* g_jit_exit_code, or what main() of the program returned
    qbe,      \* QBE has an open input and pool memory
    mapped,   \* the file whose code is in memory
    holder,   \* of each lock; "gone" when main left it by siglongjmp
    samm,     \* g_samm.initialised (as on), .poisoned, .shutdown_flag, and the file that started it
    queued,   \* batches in the queue of SAMM
    cleaner,  \* what the background thread does
    torn,     \* the slabs of the pools are being freed
    verdict,  \* what the report says of each file
    ended,    \* history: files that reached their END
    broken,   \* history: files that did not compile, failed or aborted
    rang      \* history: files whose alarm rang

vars == <<pc, file, depth, alarm, code, qbe, mapped, holder, samm, queued, cleaner,
          torn, verdict, ended, broken, rang>>
harness == <<file, depth, alarm, qbe, mapped, verdict>>
history == <<ended, broken, rang>>

Between    == {"next", "compile", "qbe", "qbedied", "link", "done"}
Recovering == {"flag", "join", "drain", "draining", "destroy", "abandon", "cleanup",
               "stopping", "return"}
Alive == pc \notin {"done", "dead"}
Held == {l \in Locks : holder[l] = "main"}

\* What siglongjmp leaves of the locks of main: nobody will release them.
Left == [l \in Locks |-> IF holder[l] = "main" THEN "gone" ELSE holder[l]]

SammStates == [on : BOOLEAN, poisoned : BOOLEAN, stop : BOOLEAN, file : 0 .. NumFiles]

TypeOK ==
    /\ pc \in Between \cup Recovering \cup {"start", "run", "report", "dead"}
    /\ file \in 1 .. NumFiles + 1 /\ depth \in 0 .. 1
    /\ alarm \in BOOLEAN /\ qbe \in BOOLEAN /\ torn \in BOOLEAN
    /\ code \in {0, 1, 124, 134} /\ mapped \in 0 .. NumFiles
    /\ holder \in [Locks -> {"nobody", "main", "cleaner", "gone"}]
    /\ samm \in SammStates
    /\ queued \in 0 .. MaxBatches
    /\ cleaner \in {"none", "idle", "busy", "freeing"}
    /\ verdict \in [Files -> {"none", "ok", "failed", "timeout"}]
    /\ ended \subseteq Files /\ broken \subseteq Files /\ rang \subseteq Files

Init ==
    /\ pc = "next" /\ file = 1 /\ depth = 0 /\ code = 0 /\ mapped = None
    /\ alarm = FALSE /\ qbe = FALSE /\ torn = FALSE
    /\ holder = [l \in Locks |-> "nobody"]
    /\ samm = [on |-> FALSE, poisoned |-> FALSE, stop |-> FALSE, file |-> None]
    /\ queued = 0 /\ cleaner = "none"
    /\ verdict = [f \in Files |-> "none"]
    /\ ended = {} /\ broken = {} /\ rang = {}

----------------------------------------------------------------------------
(* The harness.                                                             *)

Runtime == <<holder, samm, queued, cleaner, torn>>

NextFile ==
    /\ pc = "next"
    /\ pc' = IF file <= NumFiles THEN "compile" ELSE "done"
    /\ UNCHANGED <<harness, Runtime, code, history>>

\* The verdict on the file, and on to the next one.
Verdict(v) == verdict' = [verdict EXCEPT ![file] = v] /\ file' = file + 1 /\ pc' = "next"

\* An error in a phase before QBE, or in the linker of the JIT.
CompileFails ==
    /\ pc \in {"compile", "link"}
    /\ Verdict("failed") /\ broken' = broken \cup {file}
    /\ UNCHANGED <<depth, alarm, qbe, mapped, Runtime, code, ended, rang>>

\* basic_jit_call(CompileCtx.run): QBE opens its input and allocates.
CompileCall ==
    /\ pc = "compile"
    /\ pc' = "qbe" /\ depth' = 1 /\ qbe' = TRUE
    /\ UNCHANGED <<file, alarm, mapped, verdict, Runtime, code, history>>

QbeReturns ==
    /\ pc = "qbe"
    /\ pc' = "link" /\ depth' = 0 /\ qbe' = FALSE
    /\ UNCHANGED <<file, alarm, mapped, verdict, Runtime, code, history>>

\* die_(), err() or a failed assert: basic_exit or SIGABRT.
QbeDies ==
    /\ pc = "qbe"
    /\ pc' = "qbedied" /\ code' \in {1, 134} /\ broken' = broken \cup {file}
    /\ UNCHANGED <<harness, Runtime, ended, rang>>

\* The second return of sigsetjmp in basic_jit_call, with qbe_jit_cleanup.
CallRecovers ==
    /\ pc = "qbedied"
    /\ depth' = 0 /\ alarm' = FALSE /\ qbe' = FALSE /\ Verdict("failed")
    /\ UNCHANGED <<mapped, Runtime, code, history>>

\* The code is mapped, then the alarm is set.
Link ==
    /\ pc = "link"
    /\ pc' = "start" /\ mapped' = file /\ alarm' = TRUE
    /\ UNCHANGED <<file, depth, qbe, verdict, Runtime, code, history>>

\* samm_init: nothing once SAMM is poisoned.
SammInit ==
    IF samm.on \/ samm.poisoned THEN UNCHANGED <<samm, queued, cleaner>>
    ELSE /\ samm' = [samm EXCEPT !.on = TRUE, !.stop = FALSE, !.file = file]
         /\ queued' = 0 /\ cleaner' = "idle"

\* basic_jit_exec calls main() of the program, which calls samm_init.
Start ==
    /\ pc = "start"
    /\ pc' = "run" /\ depth' = 1 /\ code' = 0 /\ SammInit
    /\ UNCHANGED <<file, alarm, qbe, mapped, verdict, holder, torn, history>>

\* A faulty variant of Report: the alarm stays set.
ReportWithAlarm ==
    /\ pc = "report"
    /\ mapped' = None
    /\ Verdict(CASE code = 0 -> "ok" [] code = 124 -> "timeout" [] OTHER -> "failed")
    /\ UNCHANGED <<depth, alarm, qbe, Runtime, code, history>>

\* basic_jit_set_timeout(0), the result of the file, and session.deinit.
Report ==
    /\ pc = "report"
    /\ alarm' = FALSE /\ mapped' = None
    /\ Verdict(CASE code = 0 -> "ok" [] code = 124 -> "timeout" [] OTHER -> "failed")
    /\ UNCHANGED <<depth, qbe, Runtime, code, history>>

----------------------------------------------------------------------------
(* The program.                                                             *)

\* A PRINT holds its lock while it evaluates its items, which may use the
\* others; the runtime holds no two of those at once.
Take(l) ==
    /\ pc = "run" /\ holder[l] = "nobody" /\ Held \subseteq {"print"}
    /\ l = "print" => Held = {}
    /\ l = "queue" => samm.on
    /\ holder' = [holder EXCEPT ![l] = "main"]
    /\ pc' = IF l = "pool" /\ torn THEN "dead" ELSE pc
    /\ UNCHANGED <<harness, samm, queued, cleaner, torn, code, history>>

\* The lock of the queue is held to add a batch; a batch that finds it full is
\* cleaned by main.
Give(l) ==
    /\ pc = "run" /\ holder[l] = "main" /\ (l = "print" => Held = {"print"})
    /\ holder' = [holder EXCEPT ![l] = "nobody"]
    /\ queued' = IF l = "queue" /\ queued < MaxBatches THEN queued + 1 ELSE queued
    /\ UNCHANGED <<pc, harness, samm, cleaner, torn, code, history>>

\* A faulty variant: the error leaves SAMM running.
FailsUnswept ==
    /\ pc = "run"
    /\ Held = {} \/ (Held = {"print"} /\ "printErrors" \in Habits)
    /\ code' \in IF samm.on THEN {1, 134} ELSE {1}
    /\ pc' = "cleanup" /\ holder' = Left /\ broken' = broken \cup {file}
    /\ UNCHANGED <<harness, samm, queued, cleaner, torn, ended, rang>>

\* basic_exit on an error, or abort() when scopes are nested too deeply.
Fails ==
    /\ pc = "run"
    /\ Held = {} \/ (Held = {"print"} /\ "printErrors" \in Habits)
    /\ code' \in IF samm.on THEN {1, 134} ELSE {1}
    /\ pc' = "flag" /\ holder' = Left /\ broken' = broken \cup {file}
    /\ UNCHANGED <<harness, samm, queued, cleaner, torn, ended, rang>>

\* END: the exit block calls samm_shutdown and basic_runtime_cleanup.
Ends ==
    /\ pc = "run" /\ Held = {}
    /\ pc' = "flag" /\ ended' = ended \cup {file}
    /\ UNCHANGED <<harness, Runtime, code, broken, rang>>

----------------------------------------------------------------------------
(* samm_shutdown and basic_runtime_cleanup, at the END of a program or when *)
(* basic_jit_exec recovers from an error.                                   *)

Flag ==
    /\ pc = "flag"
    /\ IF samm.on
       THEN holder["queue"] = "nobody" /\ samm' = [samm EXCEPT !.stop = TRUE] /\ pc' = "join"
       ELSE UNCHANGED samm /\ pc' = "cleanup"
    /\ UNCHANGED <<harness, holder, queued, cleaner, torn, code, history>>

Join ==
    /\ pc = "join" /\ cleaner = "none" /\ pc' = "drain"
    /\ UNCHANGED <<harness, Runtime, code, history>>

\* What is left in the queue and in the scopes is returned to the pools.
Drain ==
    /\ pc = "drain" /\ holder["pool"] = "nobody"
    /\ pc' = "draining" /\ holder' = [holder EXCEPT !["pool"] = "main"]
    /\ UNCHANGED <<harness, samm, queued, cleaner, torn, code, history>>

Drained ==
    /\ pc = "draining"
    /\ pc' = "destroy" /\ holder' = [holder EXCEPT !["pool"] = "nobody"]
    /\ queued' = 0 /\ torn' = TRUE
    /\ UNCHANGED <<harness, samm, cleaner, code, history>>

Destroyed ==
    /\ pc = "destroy"
    /\ pc' = "cleanup" /\ torn' = FALSE /\ samm' = [samm EXCEPT !.on = FALSE]
    /\ UNCHANGED <<harness, holder, queued, cleaner, code, history>>

Cleanup ==
    /\ pc = "cleanup" /\ holder["timer"] = "nobody"
    /\ pc' = "stopping" /\ holder' = [holder EXCEPT !["timer"] = "main"]
    /\ UNCHANGED <<harness, samm, queued, cleaner, torn, code, history>>

Stopped ==
    /\ pc = "stopping"
    /\ pc' = "return" /\ holder' = [holder EXCEPT !["timer"] = "nobody"]
    /\ UNCHANGED <<harness, samm, queued, cleaner, torn, code, history>>

Return ==
    /\ pc = "return"
    /\ pc' = "report" /\ depth' = 0
    /\ UNCHANGED <<file, alarm, qbe, mapped, verdict, Runtime, code, history>>

----------------------------------------------------------------------------
(* The alarm.                                                               *)

\* jit_signal_handler: to the jmp_buf that is armed, or the default action.
Ring ==
    /\ Alive /\ alarm /\ alarm' = FALSE /\ rang' = rang \cup {file}
    /\ IF depth = 0 THEN pc' = "dead" /\ UNCHANGED <<code, holder>>
       ELSE /\ code' = 124 /\ holder' = Left
            /\ pc' = IF pc = "qbe" THEN "qbedied" ELSE "abandon"
    /\ UNCHANGED <<file, depth, qbe, mapped, verdict, samm, queued, cleaner, torn, ended, broken>>

\* A faulty variant of Abandon: samm_shutdown also after a timeout.
AbandonShutsDown ==
    /\ pc = "abandon"
    /\ holder' = [holder EXCEPT !["print"] = "nobody"]
    /\ pc' = "flag"
    /\ UNCHANGED <<harness, samm, queued, cleaner, torn, code, history>>

\* A faulty variant of Abandon: the lock of PRINT is not reset.
AbandonLocked ==
    /\ pc = "abandon"
    /\ samm' = IF samm.on THEN [samm EXCEPT !.on = FALSE, !.poisoned = TRUE, !.stop = TRUE]
               ELSE samm
    /\ pc' = "cleanup"
    /\ UNCHANGED <<harness, holder, queued, cleaner, torn, code, history>>

\* basic_print_force_unlock and samm_force_abandon: the background thread is
\* detached, and SAMM is poisoned.
Abandon ==
    /\ pc = "abandon"
    /\ holder' = [holder EXCEPT !["print"] = "nobody"]
    /\ samm' = IF samm.on THEN [samm EXCEPT !.on = FALSE, !.poisoned = TRUE, !.stop = TRUE]
               ELSE samm
    /\ pc' = "cleanup"
    /\ UNCHANGED <<harness, queued, cleaner, torn, code, history>>

----------------------------------------------------------------------------
(* The background thread.                                                   *)

CleanerTakes ==
    /\ cleaner = "idle" /\ queued > 0 /\ holder["queue"] = "nobody"
    /\ cleaner' = "busy" /\ queued' = queued - 1
    /\ UNCHANGED <<pc, harness, holder, samm, torn, code, history>>

\* A batch runs destructors, which are code of the program, and returns the
\* objects to the pools.
CleanerFrees ==
    /\ cleaner = "busy" /\ mapped = samm.file /\ holder["pool"] = "nobody"
    /\ cleaner' = "freeing" /\ holder' = [holder EXCEPT !["pool"] = "cleaner"]
    /\ UNCHANGED <<pc, harness, samm, queued, torn, code, history>>

CleanerFreed ==
    /\ cleaner = "freeing"
    /\ cleaner' = "idle" /\ holder' = [holder EXCEPT !["pool"] = "nobody"]
    /\ UNCHANGED <<pc, harness, samm, queued, torn, code, history>>

\* A detached thread may never see the flag: nobody signals it.
CleanerStops ==
    /\ cleaner = "idle" /\ queued = 0 /\ samm.stop /\ holder["queue"] = "nobody"
    /\ cleaner' = "none"
    /\ UNCHANGED <<pc, harness, holder, samm, queued, torn, code, history>>

\* A destructor whose code is no longer mapped.
CleanerCrashes ==
    /\ cleaner = "busy" /\ mapped # samm.file
    /\ pc' = "dead"
    /\ UNCHANGED <<harness, Runtime, code, history>>

----------------------------------------------------------------------------
Program  == (\E l \in Locks : Take(l) \/ Give(l)) \/ Fails \/ Ends
Shutdown == \/ Flag \/ Join \/ Drain \/ Drained \/ Destroyed
            \/ Cleanup \/ Stopped \/ Return \/ Abandon
Harness  == \/ NextFile \/ CompileFails \/ CompileCall \/ QbeReturns \/ QbeDies
            \/ CallRecovers \/ Link \/ Start \/ Report
Cleaner  == /\ Alive
            /\ CleanerTakes \/ CleanerFrees \/ CleanerFreed \/ CleanerStops \/ CleanerCrashes

Next == Harness \/ Program \/ Shutdown \/ Ring \/ Cleaner

Spec == Init /\ [][Next]_vars

\* The kernel delivers an alarm, and runs every thread; a program may loop for
\* ever, and a detached thread may sleep for ever.
FairSpec ==
    /\ Spec /\ WF_vars(Harness \/ Shutdown) /\ WF_vars(Ring)
    /\ WF_vars(Cleaner /\ ~samm.poisoned)

----------------------------------------------------------------------------
(* Properties.                                                              *)

\* As long as no alarm rings, a file that does not compile, fails or aborts is
\* contained: the process lives, no lock stays taken, and between two files
\* SAMM is off, its thread gone, its queue empty, and nothing is mapped.
ErrorsContained ==
    rang = {} =>
        /\ pc # "dead"
        /\ \A l \in Locks : holder[l] # "gone"
        /\ pc \in Between =>
              /\ ~samm.on /\ cleaner = "none" /\ queued = 0 /\ ~torn /\ mapped = None
              /\ \A l \in Locks : holder[l] = "nobody"

\* Whatever the files before it did, a program starts with QBE clean, with the
\* lock of PRINT in working order, and with a SAMM of its own that is not told to
\* stop, or with none at all once a file timed out.
FreshStart ==
    /\ pc \in {"compile", "start", "run"} => ~qbe
    /\ pc \in {"start", "run"} => holder["print"] # "gone"
    /\ pc = "run" => IF samm.poisoned THEN ~samm.on
                     ELSE samm.on /\ samm.file = file /\ ~samm.stop /\ cleaner # "none"

\* The report tells the truth: a file that is ok reached its END, one that failed
\* did fail, and one that timed out met its own alarm.
VerdictsTrue ==
    \A f \in Files :
        /\ verdict[f] = "ok"      => f \in ended \ (broken \cup rang)
        /\ verdict[f] = "failed"  => f \in broken \ rang
        /\ verdict[f] = "timeout" => f \in rang

\* SAMM never starts a background thread while an earlier one may still run.
NoSecondCleaner == [][~samm.on /\ samm'.on => cleaner = "none"]_vars

\* The batch comes to its end or the process dies, with one exception: an alarm
\* that rang while main held g_timer_mutex leaves basic_runtime_cleanup waiting
\* for it, and no alarm is set any more.
BatchEnds == <>(pc \in {"done", "dead"} \/ (pc = "cleanup" /\ holder["timer"] = "gone"))

\* What basic_runtime.c:271 says of the recovery from an error: "The program was
\* between operations, so mutexes are not held and a regular shutdown is safe".
BetweenOperations ==
    pc = "flag" /\ code \in {1, 134} /\ rang = {} => \A l \in Locks : holder[l] # "gone"
=============================================================================
