--------------------------- MODULE BatchJitProofs ---------------------------
(***************************************************************************)
(* What the batch mode of fbc keeps for any number of files and any limit  *)
(* of the queue, as long as an item of a PRINT does not fail.              *)
(***************************************************************************)
EXTENDS BatchJit, TLAPS

Compiling == {"compile", "qbe", "qbedied", "link"}
Inside    == {"run"} \cup Recovering
Guarded   == Inside \cup {"qbe", "qbedied"}

\* Where the harness is: the jmp_buf is armed inside the protected calls, the
\* alarm is set and the code is mapped from Link to Report.
Phases ==
    /\ pc \in Guarded => depth = 1
    /\ pc \in {"next", "compile", "link", "start", "report", "done"} => depth = 0
    /\ alarm => pc \notin Between
    /\ qbe => pc \in {"qbe", "qbedied", "dead"}
    /\ pc \in Between => mapped = None
    /\ pc \in Compiling => file \in Files
    /\ pc \in Inside \cup {"start", "report"} => file \in Files /\ mapped = file
    /\ pc = "run" => code = 0
    /\ pc = "abandon" => code = 124

\* What has happened to a file is what its verdict will be.
Fates ==
    /\ \A f \in Files : f >= file => verdict[f] = "none"
    /\ \A f \in ended \cup broken \cup rang : f <= file
    /\ pc \in {"next", "compile", "qbe", "link", "start", "run"} =>
          file \notin ended \cup broken \cup rang
    /\ pc = "qbedied" => file \in broken \ rang
    /\ pc \in Recovering \cup {"report"} =>
          /\ code = 0 => file \in ended \ (broken \cup rang)
          /\ code \in {1, 134} => file \in broken \ rang
          /\ code = 124 => file \in rang

\* SAMM belongs to the file that runs, until it is shut down or abandoned.
SammPhases ==
    /\ samm.on => /\ ~samm.poisoned /\ samm.file = file
                  /\ pc \in {"run", "flag", "join", "drain", "draining", "destroy",
                             "abandon", "dead"}
    /\ ~samm.on => samm.poisoned \/ (cleaner = "none" /\ queued = 0)
    /\ pc = "run" /\ ~samm.on => samm.poisoned
    /\ pc \in {"run", "flag"} /\ samm.on => ~samm.stop /\ cleaner # "none"
    /\ pc \in {"join", "drain", "draining", "destroy"} => samm.on
    /\ pc \in {"drain", "draining", "destroy"} => cleaner = "none"
    /\ pc = "destroy" => queued = 0
    /\ samm.poisoned \/ pc \in {"abandon", "dead"} => rang # {} \/ pc = "dead"

\* The locks: main holds one only in the program, in the drain and in the
\* cleanup; what it left stays taken, the lock of PRINT only until Abandon.
LockPhases ==
    /\ \A l \in Locks : holder[l] = "main" =>
          pc \in {"run", "dead"} \/ (l = "pool" /\ pc = "draining")
                                 \/ (l = "timer" /\ pc = "stopping")
    /\ holder["pool"] = "cleaner" => cleaner = "freeing"
    /\ \A l \in Locks \ {"pool"} : holder[l] # "cleaner"
    /\ holder["print"] = "gone" => pc \in {"abandon", "dead"}
    /\ rang = {} => \A l \in Locks : holder[l] # "gone"
    /\ rang = {} /\ torn => pc = "destroy"
    /\ rang = {} => pc # "dead" /\ pc # "abandon"

BInv == TypeOK /\ Phases /\ Fates /\ SammPhases /\ LockPhases

USE DEF Between, Recovering, Compiling, Inside, Guarded, Locks, Files, None,
        harness, history, Runtime, Alive

\* The harness starts in the invariant.
LEMMA BInit == Init => BInv
<1> USE BatchAssumption
<1> SUFFICES ASSUME Init PROVE BInv
  OBVIOUS
<1>1. TypeOK
  <2>1. alarm \in BOOLEAN /\ qbe \in BOOLEAN /\ torn \in BOOLEAN  BY Zenon DEF Init
  <2>2. samm \in SammStates  BY DEF Init, SammStates
  <2> QED BY <2>1, <2>2 DEF Init, TypeOK
<1>2. Phases /\ Fates /\ LockPhases  BY DEF Init, Phases, Fates, LockPhases
<1>3. SammPhases  BY DEF Init, SammPhases
<1> QED BY <1>1, <1>2, <1>3 DEF BInv

\* What becomes of the record of SAMM when it starts, and when it is told to
\* stop, has stopped and is abandoned.
LEMMA SammStarts ==
    ASSUME NEW r \in SammStates, NEW f \in 0 .. NumFiles
    PROVE  LET s == [r EXCEPT !.on = TRUE, !.stop = FALSE, !.file = f]
           IN  s \in SammStates /\ s.on /\ ~s.stop /\ s.file = f /\ s.poisoned = r.poisoned
  BY DEF SammStates

\* The changes the code makes to the state of SAMM keep its type.
LEMMA SammChanges ==
    ASSUME NEW r \in SammStates
    PROVE  /\ [r EXCEPT !.stop = TRUE] \in SammStates
           /\ [r EXCEPT !.on = FALSE] \in SammStates
           /\ [r EXCEPT !.on = FALSE, !.poisoned = TRUE, !.stop = TRUE] \in SammStates
  BY DEF SammStates

\* Every step of the harness, the program, the alarm and the background thread keeps
\* the invariant, for programs whose PRINT items do not fail.
LEMMA BStep == ASSUME BInv, [Next]_vars, "printErrors" \notin Habits PROVE BInv'
<1> USE BatchAssumption DEF BInv
<1>s. samm \in SammStates  BY DEF TypeOK
<1>1. CASE NextFile
  <2>1. TypeOK'
    BY <1>1, SMTT(30) DEF NextFile, TypeOK, Phases, SammPhases
  <2>2. Phases'
    BY <1>1 DEF NextFile, TypeOK, Phases, Fates, SammPhases, LockPhases
  <2>3. Fates'
    BY <1>1 DEF NextFile, TypeOK, Phases, Fates, SammPhases, LockPhases
  <2>4. SammPhases'
    BY <1>1 DEF NextFile, TypeOK, Phases, Fates, SammPhases, LockPhases
  <2>5. LockPhases'
    BY <1>1 DEF NextFile, TypeOK, Phases, Fates, SammPhases, LockPhases
  <2> QED BY <2>1, <2>2, <2>3, <2>4, <2>5
<1>2. CASE CompileFails
  <2>1. TypeOK'
    BY <1>2, SMTT(30) DEF CompileFails, Verdict, TypeOK, Phases, SammPhases
  <2>2. Phases'
    BY <1>2 DEF CompileFails, Verdict, TypeOK, Phases, Fates, SammPhases, LockPhases
  <2>3. Fates'
    BY <1>2 DEF CompileFails, Verdict, TypeOK, Phases, Fates, SammPhases, LockPhases
  <2>4. SammPhases'
    BY <1>2 DEF CompileFails, Verdict, TypeOK, Phases, Fates, SammPhases, LockPhases
  <2>5. LockPhases'
    BY <1>2 DEF CompileFails, Verdict, TypeOK, Phases, Fates, SammPhases, LockPhases
  <2> QED BY <2>1, <2>2, <2>3, <2>4, <2>5
<1>3. CASE CompileCall
  <2>1. TypeOK'
    BY <1>3, SMTT(30) DEF CompileCall, TypeOK, Phases, SammPhases
  <2>2. Phases'
    BY <1>3 DEF CompileCall, TypeOK, Phases, Fates, SammPhases, LockPhases
  <2>3. Fates'
    BY <1>3 DEF CompileCall, TypeOK, Phases, Fates, SammPhases, LockPhases
  <2>4. SammPhases'
    BY <1>3 DEF CompileCall, TypeOK, Phases, Fates, SammPhases, LockPhases
  <2>5. LockPhases'
    BY <1>3 DEF CompileCall, TypeOK, Phases, Fates, SammPhases, LockPhases
  <2> QED BY <2>1, <2>2, <2>3, <2>4, <2>5
<1>4. CASE QbeReturns
  <2>1. TypeOK'
    <3>1. alarm' \in BOOLEAN /\ qbe' \in BOOLEAN /\ torn' \in BOOLEAN
      BY <1>4, Zenon DEF QbeReturns, TypeOK
    <3> QED BY <1>4, <3>1 DEF QbeReturns, TypeOK, Phases
  <2>2. Phases'
    BY <1>4 DEF QbeReturns, TypeOK, Phases, Fates, SammPhases, LockPhases
  <2>3. Fates'
    BY <1>4 DEF QbeReturns, TypeOK, Phases, Fates, SammPhases, LockPhases
  <2>4. SammPhases'
    BY <1>4 DEF QbeReturns, TypeOK, Phases, Fates, SammPhases, LockPhases
  <2>5. LockPhases'
    BY <1>4 DEF QbeReturns, TypeOK, Phases, Fates, SammPhases, LockPhases
  <2> QED BY <2>1, <2>2, <2>3, <2>4, <2>5
<1>5. CASE QbeDies
  <2>1. TypeOK'
    BY <1>5, SMTT(30) DEF QbeDies, TypeOK, Phases, SammPhases
  <2>2. Phases'
    BY <1>5 DEF QbeDies, TypeOK, Phases, Fates, SammPhases, LockPhases
  <2>3. Fates'
    BY <1>5 DEF QbeDies, TypeOK, Phases, Fates, SammPhases, LockPhases
  <2>4. SammPhases'
    BY <1>5 DEF QbeDies, TypeOK, Phases, Fates, SammPhases, LockPhases
  <2>5. LockPhases'
    BY <1>5 DEF QbeDies, TypeOK, Phases, Fates, SammPhases, LockPhases
  <2> QED BY <2>1, <2>2, <2>3, <2>4, <2>5
<1>6. CASE CallRecovers
  <2>1. TypeOK'
    <3>1. alarm' \in BOOLEAN /\ qbe' \in BOOLEAN /\ torn' \in BOOLEAN
      BY <1>6, Zenon DEF CallRecovers, Verdict, TypeOK
    <3> QED BY <1>6, <3>1 DEF CallRecovers, Verdict, TypeOK, Phases
  <2>2. Phases'
    BY <1>6 DEF CallRecovers, Verdict, TypeOK, Phases, Fates, SammPhases, LockPhases
  <2>3. Fates'
    BY <1>6 DEF CallRecovers, Verdict, TypeOK, Phases, Fates, SammPhases, LockPhases
  <2>4. SammPhases'
    BY <1>6 DEF CallRecovers, Verdict, TypeOK, Phases, Fates, SammPhases, LockPhases
  <2>5. LockPhases'
    BY <1>6 DEF CallRecovers, Verdict, TypeOK, Phases, Fates, SammPhases, LockPhases
  <2> QED BY <2>1, <2>2, <2>3, <2>4, <2>5
<1>7. CASE Link
  <2>1. TypeOK'
    BY <1>7, SMTT(30) DEF Link, TypeOK, Phases, SammPhases
  <2>2. Phases'
    BY <1>7 DEF Link, TypeOK, Phases, Fates, SammPhases, LockPhases
  <2>3. Fates'
    BY <1>7 DEF Link, TypeOK, Phases, Fates, SammPhases, LockPhases
  <2>4. SammPhases'
    BY <1>7 DEF Link, TypeOK, Phases, Fates, SammPhases, LockPhases
  <2>5. LockPhases'
    BY <1>7 DEF Link, TypeOK, Phases, Fates, SammPhases, LockPhases
  <2> QED BY <2>1, <2>2, <2>3, <2>4, <2>5
<1>8. CASE Start
  <2>1. TypeOK'
    <3>1. samm' \in SammStates
      <4>1. CASE samm.on \/ samm.poisoned  BY <1>8, <4>1 DEF Start, SammInit, TypeOK
      <4>2. CASE ~(samm.on \/ samm.poisoned)
        <5>1. samm' = [samm EXCEPT !.on = TRUE, !.stop = FALSE, !.file = file]
          BY <1>8, <4>2 DEF Start, SammInit
        <5>2. file \in 0 .. NumFiles  BY <1>8 DEF Start, Phases
        <5> QED BY <5>1, <5>2, <1>s, SammStarts, Zenon
      <4> QED BY <4>1, <4>2
    <3>2. holder' \in [Locks -> {"nobody", "main", "cleaner", "gone"}]
      BY <1>8 DEF Start, SammInit, TypeOK
    <3>3. verdict' \in [Files -> {"none", "ok", "failed", "timeout"}] /\ file' \in 1 .. NumFiles + 1
      BY <1>8 DEF Start, SammInit, TypeOK, Phases
    <3>4. ended' \subseteq Files /\ broken' \subseteq Files /\ rang' \subseteq Files
      BY <1>8 DEF Start, SammInit, TypeOK, Phases
    <3>5. mapped' \in 0 .. NumFiles /\ code' \in {0, 1, 124, 134} /\ depth' \in 0 .. 1
      BY <1>8 DEF Start, SammInit, TypeOK, Phases
    <3>6. alarm' \in BOOLEAN /\ qbe' \in BOOLEAN /\ torn' \in BOOLEAN
      BY <1>8 DEF Start, SammInit, TypeOK
    <3>7. queued' \in 0 .. MaxBatches /\ cleaner' \in {"none", "idle", "busy", "freeing"}
      BY <1>8 DEF Start, SammInit, TypeOK, SammPhases
    <3>8. pc' \in Between \cup Recovering \cup {"start", "run", "report", "dead"}
      BY <1>8 DEF Start, SammInit, TypeOK
    <3> QED BY <3>1, <3>2, <3>3, <3>4, <3>5, <3>6, <3>7, <3>8 DEF TypeOK
  <2>2. Phases'
    BY <1>8 DEF Start, SammInit, TypeOK, Phases, Fates, SammPhases, LockPhases
  <2>3. Fates'
    BY <1>8 DEF Start, SammInit, TypeOK, Phases, Fates, SammPhases, LockPhases
  <2>4. SammPhases'
    <3>1. CASE samm.on \/ samm.poisoned
      BY <1>8, <3>1 DEF Start, SammInit, Phases, SammPhases
    <3>2. CASE ~(samm.on \/ samm.poisoned)
      <4>1. /\ samm' = [samm EXCEPT !.on = TRUE, !.stop = FALSE, !.file = file]
            /\ queued' = 0 /\ cleaner' = "idle" /\ pc = "start" /\ pc' = "run"
            /\ UNCHANGED <<file, rang>>
        BY <1>8, <3>2 DEF Start, SammInit
      <4>0. file \in 0 .. NumFiles  BY <1>8 DEF Start, Phases
      <4>2. /\ samm'.on /\ samm'.file = file' /\ ~samm'.stop
            /\ samm'.poisoned = samm.poisoned
        BY <4>1, <4>0, <1>s, SammStarts, Zenon
      <4> QED BY <3>2, <4>1, <4>2 DEF SammPhases
    <3> QED BY <3>1, <3>2
  <2>5. LockPhases'
    BY <1>8 DEF Start, SammInit, TypeOK, Phases, Fates, SammPhases, LockPhases
  <2> QED BY <2>1, <2>2, <2>3, <2>4, <2>5
<1>9. CASE Report
  <2>1. TypeOK'
    <3>1. alarm' \in BOOLEAN /\ qbe' \in BOOLEAN /\ torn' \in BOOLEAN
      BY <1>9, Zenon DEF Report, Verdict, TypeOK
    <3> QED BY <1>9, <3>1 DEF Report, Verdict, TypeOK, Phases
  <2>2. Phases'
    BY <1>9 DEF Report, Verdict, TypeOK, Phases, Fates, SammPhases, LockPhases
  <2>3. Fates'
    BY <1>9 DEF Report, Verdict, TypeOK, Phases, Fates, SammPhases, LockPhases
  <2>4. SammPhases'
    BY <1>9 DEF Report, Verdict, TypeOK, Phases, Fates, SammPhases, LockPhases
  <2>5. LockPhases'
    BY <1>9 DEF Report, Verdict, TypeOK, Phases, Fates, SammPhases, LockPhases
  <2> QED BY <2>1, <2>2, <2>3, <2>4, <2>5
<1>10. ASSUME NEW l \in Locks, Take(l) PROVE BInv'
  <2>1. TypeOK'
    BY <1>10, SMTT(30) DEF Take, Held, TypeOK, Phases, SammPhases
  <2>2. Phases'
    BY <1>10 DEF Take, Held, TypeOK, Phases, Fates, SammPhases, LockPhases
  <2>3. Fates'
    BY <1>10 DEF Take, Held, TypeOK, Phases, Fates, SammPhases, LockPhases
  <2>4. SammPhases'
    BY <1>10 DEF Take, Held, TypeOK, Phases, Fates, SammPhases, LockPhases
  <2>5. LockPhases'
    BY <1>10 DEF Take, Held, TypeOK, Phases, Fates, SammPhases, LockPhases
  <2> QED BY <2>1, <2>2, <2>3, <2>4, <2>5
<1>11. ASSUME NEW l \in Locks, Give(l) PROVE BInv'
  <2>1. TypeOK'
    BY <1>11, SMTT(30) DEF Give, Held, TypeOK, Phases, SammPhases
  <2>2. Phases'
    BY <1>11 DEF Give, Held, TypeOK, Phases, Fates, SammPhases, LockPhases
  <2>3. Fates'
    BY <1>11 DEF Give, Held, TypeOK, Phases, Fates, SammPhases, LockPhases
  <2>4. SammPhases'
    BY <1>11 DEF Give, Held, TypeOK, Phases, Fates, SammPhases, LockPhases
  <2>5. LockPhases'
    BY <1>11 DEF Give, Held, TypeOK, Phases, Fates, SammPhases, LockPhases
  <2> QED BY <2>1, <2>2, <2>3, <2>4, <2>5
<1>12. CASE Fails
  <2>1. TypeOK'
    BY <1>12, SMTT(30) DEF Fails, Held, Left, TypeOK, Phases, SammPhases
  <2>2. Phases'
    BY <1>12 DEF Fails, Held, Left, TypeOK, Phases, Fates, SammPhases, LockPhases
  <2>3. Fates'
    BY <1>12 DEF Fails, Held, Left, TypeOK, Phases, Fates, SammPhases, LockPhases
  <2>4. SammPhases'
    BY <1>12 DEF Fails, Held, Left, TypeOK, Phases, Fates, SammPhases, LockPhases
  <2>5. LockPhases'
    BY <1>12 DEF Fails, Held, Left, TypeOK, Phases, Fates, SammPhases, LockPhases
  <2> QED BY <2>1, <2>2, <2>3, <2>4, <2>5
<1>13. CASE Ends
  <2>1. TypeOK'
    BY <1>13, SMTT(30) DEF Ends, Held, TypeOK, Phases, SammPhases
  <2>2. Phases'
    BY <1>13 DEF Ends, Held, TypeOK, Phases, Fates, SammPhases, LockPhases
  <2>3. Fates'
    BY <1>13 DEF Ends, Held, TypeOK, Phases, Fates, SammPhases, LockPhases
  <2>4. SammPhases'
    BY <1>13 DEF Ends, Held, TypeOK, Phases, Fates, SammPhases, LockPhases
  <2>5. LockPhases'
    BY <1>13 DEF Ends, Held, TypeOK, Phases, Fates, SammPhases, LockPhases
  <2> QED BY <2>1, <2>2, <2>3, <2>4, <2>5
<1>14. CASE Flag
  <2>1. samm' \in SammStates
    <3>1. CASE samm.on
      <4>1. samm' = [samm EXCEPT !.stop = TRUE]  BY <1>14, <3>1 DEF Flag
      <4> QED BY <4>1, <1>s, SammChanges, Zenon
    <3>2. CASE ~samm.on
      <4>1. samm' = samm  BY <1>14, <3>2 DEF Flag
      <4> QED BY <4>1, <1>s, Zenon
    <3> QED BY <3>1, <3>2
  <2>2. /\ samm'.on = samm.on /\ samm'.poisoned = samm.poisoned /\ samm'.file = samm.file
        /\ pc = "flag" /\ pc' = IF samm.on THEN "join" ELSE "cleanup"
    <3>1. samm' = samm \/ samm' = [samm EXCEPT !.stop = TRUE]  BY <1>14, Zenon DEF Flag
    <3>2. pc = "flag" /\ pc' = IF samm.on THEN "join" ELSE "cleanup"  BY <1>14 DEF Flag
    <3> QED BY <3>1, <3>2, <1>s DEF SammStates
  <2>3. UNCHANGED <<harness, holder, queued, cleaner, torn, code, history>>
    BY <1>14 DEF Flag
  <2> HIDE DEF harness, history
  <2>4. TypeOK'
    BY <2>1, <2>2, <2>3 DEF TypeOK, harness, history
  <2>5. Phases' /\ Fates'
    BY <2>2, <2>3 DEF TypeOK, Phases, Fates, harness, history
  <2>6. SammPhases' /\ LockPhases'
    BY <2>2, <2>3 DEF TypeOK, SammPhases, LockPhases, harness, history
  <2> QED BY <2>4, <2>5, <2>6
<1>15. CASE Join
  <2>1. TypeOK'
    BY <1>15, SMTT(30) DEF Join, TypeOK, Phases, SammPhases
  <2>2. Phases'
    BY <1>15 DEF Join, TypeOK, Phases, Fates, SammPhases, LockPhases
  <2>3. Fates'
    BY <1>15 DEF Join, TypeOK, Phases, Fates, SammPhases, LockPhases
  <2>4. SammPhases'
    BY <1>15 DEF Join, TypeOK, Phases, Fates, SammPhases, LockPhases
  <2>5. LockPhases'
    BY <1>15 DEF Join, TypeOK, Phases, Fates, SammPhases, LockPhases
  <2> QED BY <2>1, <2>2, <2>3, <2>4, <2>5
<1>16. CASE Drain
  <2>1. TypeOK'
    BY <1>16, SMTT(30) DEF Drain, TypeOK, Phases, SammPhases
  <2>2. Phases'
    BY <1>16 DEF Drain, TypeOK, Phases, Fates, SammPhases, LockPhases
  <2>3. Fates'
    BY <1>16 DEF Drain, TypeOK, Phases, Fates, SammPhases, LockPhases
  <2>4. SammPhases'
    BY <1>16 DEF Drain, TypeOK, Phases, Fates, SammPhases, LockPhases
  <2>5. LockPhases'
    BY <1>16 DEF Drain, TypeOK, Phases, Fates, SammPhases, LockPhases
  <2> QED BY <2>1, <2>2, <2>3, <2>4, <2>5
<1>17. CASE Drained
  <2>1. TypeOK'
    BY <1>17, SMTT(30) DEF Drained, TypeOK, Phases, SammPhases
  <2>2. Phases'
    BY <1>17 DEF Drained, TypeOK, Phases, Fates, SammPhases, LockPhases
  <2>3. Fates'
    BY <1>17 DEF Drained, TypeOK, Phases, Fates, SammPhases, LockPhases
  <2>4. SammPhases'
    BY <1>17 DEF Drained, TypeOK, Phases, Fates, SammPhases, LockPhases
  <2>5. LockPhases'
    BY <1>17 DEF Drained, TypeOK, Phases, Fates, SammPhases, LockPhases
  <2> QED BY <2>1, <2>2, <2>3, <2>4, <2>5
<1>18. CASE Destroyed
  <2>1. TypeOK'
    <3>1. alarm' \in BOOLEAN /\ qbe' \in BOOLEAN /\ torn' \in BOOLEAN
      BY <1>18, Zenon DEF Destroyed, TypeOK
    <3>2. samm' \in SammStates  BY <1>18, SammChanges DEF Destroyed, TypeOK
    <3> QED BY <1>18, <3>1, <3>2 DEF Destroyed, TypeOK, Phases
  <2>2. Phases'
    BY <1>18 DEF Destroyed, TypeOK, Phases, Fates, SammPhases, LockPhases
  <2>3. Fates'
    BY <1>18 DEF Destroyed, TypeOK, Phases, Fates, SammPhases, LockPhases
  <2>4. SammPhases'
    BY <1>18 DEF Destroyed, TypeOK, Phases, Fates, SammPhases, LockPhases
  <2>5. LockPhases'
    BY <1>18 DEF Destroyed, TypeOK, Phases, Fates, SammPhases, LockPhases
  <2> QED BY <2>1, <2>2, <2>3, <2>4, <2>5
<1>19. CASE Cleanup
  <2>1. TypeOK'
    BY <1>19, SMTT(30) DEF Cleanup, TypeOK, Phases, SammPhases
  <2>2. Phases'
    BY <1>19 DEF Cleanup, TypeOK, Phases, Fates, SammPhases, LockPhases
  <2>3. Fates'
    BY <1>19 DEF Cleanup, TypeOK, Phases, Fates, SammPhases, LockPhases
  <2>4. SammPhases'
    BY <1>19 DEF Cleanup, TypeOK, Phases, Fates, SammPhases, LockPhases
  <2>5. LockPhases'
    BY <1>19 DEF Cleanup, TypeOK, Phases, Fates, SammPhases, LockPhases
  <2> QED BY <2>1, <2>2, <2>3, <2>4, <2>5
<1>20. CASE Stopped
  <2>1. TypeOK'
    BY <1>20, SMTT(30) DEF Stopped, TypeOK, Phases, SammPhases
  <2>2. Phases'
    BY <1>20 DEF Stopped, TypeOK, Phases, Fates, SammPhases, LockPhases
  <2>3. Fates'
    BY <1>20 DEF Stopped, TypeOK, Phases, Fates, SammPhases, LockPhases
  <2>4. SammPhases'
    BY <1>20 DEF Stopped, TypeOK, Phases, Fates, SammPhases, LockPhases
  <2>5. LockPhases'
    BY <1>20 DEF Stopped, TypeOK, Phases, Fates, SammPhases, LockPhases
  <2> QED BY <2>1, <2>2, <2>3, <2>4, <2>5
<1>21. CASE Return
  <2>1. TypeOK'
    BY <1>21, SMTT(30) DEF Return, TypeOK, Phases, SammPhases
  <2>2. Phases'
    BY <1>21 DEF Return, TypeOK, Phases, Fates, SammPhases, LockPhases
  <2>3. Fates'
    BY <1>21 DEF Return, TypeOK, Phases, Fates, SammPhases, LockPhases
  <2>4. SammPhases'
    BY <1>21 DEF Return, TypeOK, Phases, Fates, SammPhases, LockPhases
  <2>5. LockPhases'
    BY <1>21 DEF Return, TypeOK, Phases, Fates, SammPhases, LockPhases
  <2> QED BY <2>1, <2>2, <2>3, <2>4, <2>5
<1>22. CASE Abandon
  <2>1. TypeOK'
    <3>1. samm' \in SammStates
      <4>1. CASE samm.on
        <5>1. samm' = [samm EXCEPT !.on = FALSE, !.poisoned = TRUE, !.stop = TRUE]
          BY <1>22, <4>1 DEF Abandon
        <5> QED BY <5>1, <1>s, SammChanges, Zenon
      <4>2. CASE ~samm.on
        <5>1. samm' = samm  BY <1>22, <4>2 DEF Abandon
        <5> QED BY <5>1, <1>s, Zenon
      <4> QED BY <4>1, <4>2
    <3> QED BY <1>22, <3>1 DEF Abandon, TypeOK
  <2>2. Phases'
    BY <1>22 DEF Abandon, TypeOK, Phases, Fates, SammPhases, LockPhases
  <2>3. Fates'
    BY <1>22 DEF Abandon, TypeOK, Phases, Fates, SammPhases, LockPhases
  <2>4. SammPhases'
    BY <1>22 DEF Abandon, TypeOK, Phases, Fates, SammPhases, LockPhases
  <2>5. LockPhases'
    BY <1>22 DEF Abandon, TypeOK, Phases, Fates, SammPhases, LockPhases
  <2> QED BY <2>1, <2>2, <2>3, <2>4, <2>5
<1>23. CASE Ring
  <2>1. TypeOK'
    <3>1. alarm' \in BOOLEAN /\ qbe' \in BOOLEAN /\ torn' \in BOOLEAN
      BY <1>23, Zenon DEF Ring, Left, TypeOK
    <3> QED BY <1>23, <3>1 DEF Ring, Left, TypeOK, Phases
  <2>2. Phases'
    BY <1>23 DEF Ring, Left, TypeOK, Phases, Fates, SammPhases, LockPhases
  <2>3. Fates'
    BY <1>23 DEF Ring, Left, TypeOK, Phases, Fates, SammPhases, LockPhases
  <2>4. SammPhases'
    BY <1>23 DEF Ring, Left, TypeOK, Phases, Fates, SammPhases, LockPhases
  <2>5. LockPhases'
    BY <1>23 DEF Ring, Left, TypeOK, Phases, Fates, SammPhases, LockPhases
  <2> QED BY <2>1, <2>2, <2>3, <2>4, <2>5
<1>24. CASE CleanerTakes
  <2>1. TypeOK'
    BY <1>24, SMTT(30) DEF CleanerTakes, TypeOK, Phases, SammPhases
  <2>2. Phases'
    BY <1>24 DEF CleanerTakes, TypeOK, Phases, Fates, SammPhases, LockPhases
  <2>3. Fates'
    BY <1>24 DEF CleanerTakes, TypeOK, Phases, Fates, SammPhases, LockPhases
  <2>4. SammPhases'
    BY <1>24 DEF CleanerTakes, TypeOK, Phases, Fates, SammPhases, LockPhases
  <2>5. LockPhases'
    BY <1>24 DEF CleanerTakes, TypeOK, Phases, Fates, SammPhases, LockPhases
  <2> QED BY <2>1, <2>2, <2>3, <2>4, <2>5
<1>25. CASE CleanerFrees
  <2>1. TypeOK'
    BY <1>25, SMTT(30) DEF CleanerFrees, TypeOK, Phases, SammPhases
  <2>2. Phases'
    BY <1>25 DEF CleanerFrees, TypeOK, Phases, Fates, SammPhases, LockPhases
  <2>3. Fates'
    BY <1>25 DEF CleanerFrees, TypeOK, Phases, Fates, SammPhases, LockPhases
  <2>4. SammPhases'
    BY <1>25 DEF CleanerFrees, TypeOK, Phases, Fates, SammPhases, LockPhases
  <2>5. LockPhases'
    BY <1>25 DEF CleanerFrees, TypeOK, Phases, Fates, SammPhases, LockPhases
  <2> QED BY <2>1, <2>2, <2>3, <2>4, <2>5
<1>26. CASE CleanerFreed
  <2>1. TypeOK'
    BY <1>26, SMTT(30) DEF CleanerFreed, TypeOK, Phases, SammPhases
  <2>2. Phases'
    BY <1>26 DEF CleanerFreed, TypeOK, Phases, Fates, SammPhases, LockPhases
  <2>3. Fates'
    BY <1>26 DEF CleanerFreed, TypeOK, Phases, Fates, SammPhases, LockPhases
  <2>4. SammPhases'
    BY <1>26 DEF CleanerFreed, TypeOK, Phases, Fates, SammPhases, LockPhases
  <2>5. LockPhases'
    BY <1>26 DEF CleanerFreed, TypeOK, Phases, Fates, SammPhases, LockPhases
  <2> QED BY <2>1, <2>2, <2>3, <2>4, <2>5
<1>27. CASE CleanerStops
  <2>1. TypeOK'
    BY <1>27, SMTT(30) DEF CleanerStops, TypeOK, Phases, SammPhases
  <2>2. Phases'
    BY <1>27 DEF CleanerStops, TypeOK, Phases, Fates, SammPhases, LockPhases
  <2>3. Fates'
    BY <1>27 DEF CleanerStops, TypeOK, Phases, Fates, SammPhases, LockPhases
  <2>4. SammPhases'
    BY <1>27 DEF CleanerStops, TypeOK, Phases, Fates, SammPhases, LockPhases
  <2>5. LockPhases'
    BY <1>27 DEF CleanerStops, TypeOK, Phases, Fates, SammPhases, LockPhases
  <2> QED BY <2>1, <2>2, <2>3, <2>4, <2>5
<1>28. CASE CleanerCrashes
  <2>1. TypeOK'
    BY <1>28, SMTT(30) DEF CleanerCrashes, TypeOK, Phases, SammPhases
  <2>2. Phases'
    BY <1>28 DEF CleanerCrashes, TypeOK, Phases, Fates, SammPhases, LockPhases
  <2>3. Fates'
    BY <1>28 DEF CleanerCrashes, TypeOK, Phases, Fates, SammPhases, LockPhases
  <2>4. SammPhases'
    BY <1>28 DEF CleanerCrashes, TypeOK, Phases, Fates, SammPhases, LockPhases
  <2>5. LockPhases'
    BY <1>28 DEF CleanerCrashes, TypeOK, Phases, Fates, SammPhases, LockPhases
  <2> QED BY <2>1, <2>2, <2>3, <2>4, <2>5
<1>29. CASE UNCHANGED vars
  BY <1>29 DEF vars, TypeOK, Phases, Fates, SammPhases, LockPhases
<1> QED
  BY <1>1, <1>2, <1>3, <1>4, <1>5, <1>6, <1>7, <1>8, <1>9, <1>10, <1>11, <1>12, <1>13, <1>14, <1>15, <1>16, <1>17, <1>18, <1>19, <1>20, <1>21, <1>22, <1>23, <1>24, <1>25, <1>26, <1>27, <1>28, <1>29
     DEF Next, Harness, Program, Shutdown, Cleaner

----------------------------------------------------------------------------
\* The invariant that the theorems below rest on holds at every step.
THEOREM BatchInvariant ==
    ASSUME "printErrors" \notin Habits PROVE Spec => []BInv
<1>1. Init => BInv  BY BInit
<1>2. BInv /\ [Next]_vars => BInv'  BY BStep
<1> QED BY <1>1, <1>2, PTL DEF Spec

\* As long as no alarm rings, nothing that a file leaves behind, and no file that
\* fails, reaches the next one or ends the process (basic_jit_exec, basic_jit_call).
THEOREM FailuresContained ==
    ASSUME "printErrors" \notin Habits PROVE Spec => []ErrorsContained
<1>1. BInv => ErrorsContained
  <2> SUFFICES ASSUME BInv, rang = {} PROVE ErrorsContained!2
    BY DEF ErrorsContained
  <2> USE DEF BInv
  <2>1. pc # "dead" /\ (\A l \in Locks : holder[l] # "gone")  BY DEF LockPhases
  <2>2. ASSUME pc \in Between
        PROVE  ~samm.on /\ cleaner = "none" /\ queued = 0 /\ ~torn /\ mapped = None
    BY <2>1, <2>2 DEF SammPhases, LockPhases, Phases
  <2>3. ASSUME pc \in Between, NEW l \in Locks PROVE holder[l] = "nobody"
    BY <2>1, <2>2, <2>3 DEF LockPhases, TypeOK
  <2> QED BY <2>1, <2>2, <2>3
<1> QED BY <1>1, BatchInvariant, PTL

\* A program starts with QBE clean, PRINT unlocked and a SAMM of its own, or with
\* none after a timeout (samm_init, samm_force_abandon, qbe_jit_cleanup).
THEOREM StartsFresh ==
    ASSUME "printErrors" \notin Habits PROVE Spec => []FreshStart
<1>1. BInv => FreshStart
  BY DEF BInv, FreshStart, Phases, SammPhases, LockPhases
<1> QED BY <1>1, BatchInvariant, PTL

\* The report of the batch tells the truth about every file (runSingleBatchFile).
THEOREM ReportTrue ==
    ASSUME "printErrors" \notin Habits PROVE Spec => []VerdictsTrue
<1>1. Init => VerdictsTrue
  BY DEF Init, VerdictsTrue
<1>2. BInv /\ VerdictsTrue /\ [Next]_vars => VerdictsTrue'
  <2> SUFFICES ASSUME BInv, VerdictsTrue, [Next]_vars PROVE VerdictsTrue'
    OBVIOUS
  <2>1. ASSUME NEW v, Verdict(v), file \in Files,
               \A f \in Files \ {file} :
                  (f \in ended' <=> f \in ended) /\ (f \in broken' <=> f \in broken)
                                                /\ (f \in rang' <=> f \in rang),
               v = "ok"      => file \in ended' \ (broken' \cup rang'),
               v = "failed"  => file \in broken' \ rang',
               v = "timeout" => file \in rang'
        PROVE  VerdictsTrue'
    BY <2>1 DEF Verdict, VerdictsTrue, BInv, TypeOK
  <2>2. CASE CompileFails
    <3>1. Verdict("failed") /\ file \in Files /\ file \notin rang
      BY <2>2 DEF CompileFails, BInv, Phases, Fates
    <3>2. broken' = broken \cup {file} /\ UNCHANGED <<ended, rang>>
      BY <2>2 DEF CompileFails
    <3> QED BY <2>1, <3>1, <3>2
  <2>3. CASE CallRecovers
    <3>1. Verdict("failed") /\ file \in Files /\ file \in broken \ rang
      BY <2>3 DEF CallRecovers, BInv, Phases, Fates
    <3>2. UNCHANGED <<ended, broken, rang>>
      BY <2>3 DEF CallRecovers
    <3> QED BY <2>1, <3>1, <3>2
  <2>4. CASE Report
    <3> DEFINE v == CASE code = 0 -> "ok" [] code = 124 -> "timeout" [] OTHER -> "failed"
    <3>1. Verdict(v) /\ file \in Files /\ UNCHANGED <<ended, broken, rang>>
      BY <2>4 DEF Report, BInv, Phases
    <3>2. /\ v = "ok"      => file \in ended \ (broken \cup rang)
          /\ v = "failed"  => file \in broken \ rang
          /\ v = "timeout" => file \in rang
      BY <2>4 DEF Report, BInv, TypeOK, Fates
    <3> HIDE DEF v
    <3> QED BY <2>1, <3>1, <3>2
  <2>5. ASSUME UNCHANGED verdict,
               ended \subseteq ended', ended' \subseteq ended \cup {file},
               broken \subseteq broken', broken' \subseteq broken \cup {file},
               rang \subseteq rang', rang' \subseteq rang \cup {file}
        PROVE  VerdictsTrue'
    <3> SUFFICES ASSUME NEW f \in Files, verdict[f] # "none"
                 PROVE  /\ verdict[f] = "ok"      => f \in ended' \ (broken' \cup rang')
                        /\ verdict[f] = "failed"  => f \in broken' \ rang'
                        /\ verdict[f] = "timeout" => f \in rang'
      BY <2>5 DEF VerdictsTrue
    <3>1. f # file  BY DEF BInv, TypeOK, Fates
    <3> QED BY <2>5, <3>1 DEF VerdictsTrue
  <2>6. CASE \/ NextFile \/ CompileCall \/ QbeReturns \/ QbeDies \/ Link \/ Start
             \/ Program \/ Shutdown
    BY <2>5, <2>6 DEF NextFile, CompileCall, QbeReturns, QbeDies, Link, Start, Program, Take,
       Give, Fails, Ends, Shutdown, Flag, Join, Drain, Drained, Destroyed, Cleanup, Stopped,
       Return, Abandon
  <2>7. CASE Ring \/ Cleaner \/ UNCHANGED vars
    BY <2>5, <2>7 DEF Ring, Cleaner, CleanerTakes, CleanerFrees, CleanerFreed, CleanerStops,
       CleanerCrashes, vars
  <2> QED BY <2>2, <2>3, <2>4, <2>6, <2>7 DEF Next, Harness
<1> QED BY <1>1, <1>2, BatchInvariant, PTL DEF Spec

\* SAMM starts no second background thread (samm_init and its poisoned flag).
THEOREM OneCleaner ==
    ASSUME "printErrors" \notin Habits PROVE Spec => NoSecondCleaner
<1>1. BInv /\ [Next]_vars => [~samm.on /\ samm'.on => cleaner = "none"]_vars
  <2> SUFFICES ASSUME BInv, [Next]_vars, ~samm.on, samm'.on PROVE cleaner = "none"
    OBVIOUS
  <2>1. CASE Start
    BY <2>1 DEF Start, SammInit, BInv, SammPhases
  <2>2. CASE Destroyed \/ Flag \/ Abandon
    BY <2>2 DEF Destroyed, Flag, Abandon, BInv, SammPhases
  <2>3. CASE UNCHANGED samm
    BY <2>3
  <2> QED
    BY <2>1, <2>2, <2>3 DEF Next, Harness, Program, Shutdown, Cleaner, vars, NextFile,
       CompileFails, CompileCall, QbeReturns, QbeDies, CallRecovers, Link, Report, Take, Give,
       Fails, Ends, Join, Drain, Drained, Cleanup, Stopped, Return, Ring, CleanerTakes,
       CleanerFrees, CleanerFreed, CleanerStops, CleanerCrashes
<1> QED BY <1>1, BatchInvariant, PTL DEF Spec, NoSecondCleaner
=============================================================================
